------------------------- MODULE TrackerHttpProofs -------------------------
(***************************************************************************)
(* Accounts, cookies and sessions, for any number of connections, browsers *)
(* and users, of requests and of restarts: AccountsSound,                  *)
(* OnlyLoginsMoveCookies and SessionsHold of TrackerHttp.                  *)
(***************************************************************************)
EXTENDS TrackerHttp, FiniteSetTheorems, TLAPS

StageNames == {"closed", "idle", "in", "cookie", "select", "insert", "update", "out", "sending"}

(* The requests that may still log somebody in, of which each draws one    *)
(* value at most.                                                          *)
MayLog == {"in", "cookie", "select", "insert"}
Pending == {c \in Conns : stage[c] \in MayLog}

(* Types, connection by connection; a connection that is open has somebody *)
(* at its other end.                                                       *)
Functions ==
  /\ stage = [c \in Conns |-> stage[c]] /\ from = [c \in Conns |-> from[c]]
  /\ request = [c \in Conns |-> request[c]] /\ cookies = [c \in Conns |-> cookies[c]]
  /\ got = [c \in Conns |-> got[c]] /\ msg = [c \in Conns |-> msg[c]]
  /\ resp = [c \in Conns |-> resp[c]] /\ expects = [c \in Conns |-> expects[c]]

Typed(c) ==
  /\ stage[c] \in StageNames /\ got[c] \in 0..Pieces(c)
  /\ from[c] \in Browsers \cup {"nobody"} /\ (stage[c] # "closed" => from[c] \in Browsers)
  /\ request[c] \in Gets \cup Forms \cup {NoRequest} /\ cookies[c] \subseteq Users \X Values
  /\ msg[c] \in Messages /\ resp[c] \in Messages
  /\ expects[c] \in Users \cup {"unknown", "out"}

Tables ==
  /\ password \in [Users -> Passwords \cup {""}] /\ cookie \in [Users -> Values]
  /\ jar \in [Browsers -> [Users -> Values]]
  /\ session \in [Browsers -> Users \cup {"unknown", "out"}]
  /\ apart \in BOOLEAN /\ restarts \in Nat

(* A value is drawn for a request that was sent.                           *)
DrawnForRequests ==
  /\ sent \in 0..MaxRequests /\ drawn \in Nat
  /\ IsFiniteSet(Pending) /\ drawn + Cardinality(Pending) <= sent

(* How far a request can be at each stage.                                 *)
StageRight(c) ==
  /\ stage[c] \in {"closed", "idle"} =>
       request[c] = NoRequest /\ cookies[c] = {} /\ got[c] = 0 /\ msg[c] = Fresh
  /\ stage[c] = "in" => got[c] < Pieces(c)
  /\ stage[c] = "cookie" => got[c] >= 1
  /\ stage[c] \in {"select", "insert", "update"} => request[c] \in Forms
  /\ stage[c] = "insert" => request[c].Path = "register"
  /\ stage[c] = "update" => msg[c].PassWord # 0
  /\ resp[c] = IF stage[c] = "sending" THEN Page(msg[c]) ELSE NoResp
  /\ \A p \in cookies[c] : p[2] # 0

(* Who a connection is taken for: nobody, who its cookie says, or who has  *)
(* just logged in with its form.                                           *)
Anonymous(c) == msg[c].UserName = "" /\ msg[c].PassWord = 0 /\ ~msg[c].isSetCookie

Verified(c) ==
  /\ msg[c].UserName \in Users /\ msg[c].PassWord # 0 /\ msg[c].isSetCookie
  /\ cookies[c] = {<<msg[c].UserName, msg[c].PassWord>>}

Welcomed(c) ==
  /\ msg[c].UserName = request[c].name /\ msg[c].PassWord # 0 /\ msg[c].isSetCookie
  /\ request[c] \in Forms /\ stage[c] \in {"update", "out", "sending"}

TakenRight(c) ==
  IF msg[c].Path = "welcome" THEN Welcomed(c) ELSE Anonymous(c) \/ Verified(c)

(* Requests that have not overlapped are about different users, and come   *)
(* from different browsers.                                                *)
KeptApart ==
  apart => \A c, d \in Conns : c # d /\ InFlight(c) /\ InFlight(d)
                               => from[c] # from[d] /\ About(c) \cap About(d) = {}

(* The cookie a request came with is current as long as it is in flight,   *)
(* and what a form found in the table is still there.                      *)
Current(c) ==
  apart => /\ msg[c].Path # "welcome" /\ Verified(c) => cookie[msg[c].UserName] = msg[c].PassWord
           /\ stage[c] = "insert" => password[request[c].name] = ""

(* Who is welcomed gave the password in the table.                         *)
Given(c) ==
  msg[c].Path = "welcome" /\ (apart \/ request[c].Path = "login")
  => password[request[c].name] = request[c].password

Right(c) == Typed(c) /\ StageRight(c) /\ TakenRight(c) /\ Current(c) /\ Given(c)

IInv ==
  /\ Functions /\ Tables /\ DrawnForRequests /\ KeptApart
  /\ \A c \in Conns : Right(c)

-----------------------------------------------------------------------------
(* Requests and messages.                                                  *)

(* The values of cookies are numbers.                                      *)
LEMMA ValuesFacts == Values \subseteq Nat /\ 0 \in Values
<1>1. MaxRequests \in Nat
  BY HttpAssumption
<1>. QED
  BY <1>1 DEF Values

(* A form is about a user and has a password.                              *)
LEMMA FormFacts ==
  ASSUME NEW r \in Forms
  PROVE  /\ r.name \in Users /\ r.name # "" /\ r.password \in Passwords /\ r.password # ""
         /\ r.Path \in {"login", "register"} /\ IsPost(r)
BY HttpAssumption DEF IsPost

(* What is asked for by GET is no form.                                    *)
LEMMA GetFacts ==
  ASSUME NEW r \in Gets \cup {NoRequest}
  PROVE  r.Path \in {"index", "private", "logout"} /\ r.name = "" /\ ~IsPost(r)
<1>1. r.Path \in {"index", "private", "logout"} /\ r.name = ""
  <2>1. CASE r \in Gets
    BY <2>1, HttpAssumption DEF Gets
  <2>2. CASE r = NoRequest
    BY <2>2 DEF NoRequest
  <2>. QED
    BY <2>1, <2>2
<1>2. r \notin Forms
  BY <1>1, FormFacts
<1>. QED
  BY <1>1, <1>2 DEF IsPost

(* A request has one piece or two.                                         *)
LEMMA PiecesFacts ==
  ASSUME NEW c
  PROVE  Pieces(c) \in Nat /\ Pieces(c) \in {1, 2} /\ (Pieces(c) = 2 <=> IsPost(request[c]))
BY DEF Pieces

(* Messages at the start and answers.                                      *)
LEMMA MessageFacts ==
  /\ Fresh \in Messages /\ NoResp \in Messages
  /\ Fresh.Path = "other" /\ NoResp.Path = "other"
  /\ Fresh.UserName = "" /\ Fresh.PassWord = 0 /\ ~Fresh.isSetCookie
<1>1. 0 \in Values
  BY ValuesFacts
<1>2. Fresh \in Messages
  BY <1>1 DEF Fresh, Messages
<1>3. NoResp \in Messages
  BY <1>1 DEF NoResp, Messages
<1>. QED
  BY <1>2, <1>3 DEF Fresh, NoResp

LEMMA PageFacts ==
  ASSUME NEW m \in Messages
  PROVE  /\ Page(m) \in Messages
         /\ Page(m).UserName = m.UserName /\ Page(m).PassWord = m.PassWord
         /\ Page(m).isSetCookie = m.isSetCookie
         /\ Page(m).Path = m.Path \/ (Page(m).Path = "login" /\ m.Path = "private")
<1>1. CASE m.UserName = "" /\ m.Path = "private"
  BY <1>1 DEF Page, Messages
<1>2. CASE ~(m.UserName = "" /\ m.Path = "private")
  BY <1>2 DEF Page
<1>. QED
  BY <1>1, <1>2

(* The number of pending requests, as one connection moves on.             *)
LEMMA PendingMoves ==
  ASSUME IsFiniteSet(Pending), NEW c \in Conns, NEW s \in StageNames,
         stage \in [Conns -> StageNames], stage' = [stage EXCEPT ![c] = s]
  PROVE  /\ IsFiniteSet(Pending') /\ Cardinality(Pending) \in Nat /\ Cardinality(Pending') \in Nat
         /\ s \in MayLog => Cardinality(Pending') <= Cardinality(Pending) + 1
         /\ s \in MayLog /\ stage[c] \in MayLog => Cardinality(Pending') = Cardinality(Pending)
         /\ s \notin MayLog => Cardinality(Pending') <= Cardinality(Pending)
         /\ s \notin MayLog /\ stage[c] \in MayLog
              => Cardinality(Pending') = Cardinality(Pending) - 1
<1>1. stage'[c] = s /\ \A d \in Conns \ {c} : stage'[d] = stage[d]
  OBVIOUS
<1>2. Cardinality(Pending) \in Nat
  BY FS_CardinalityType
<1>3. CASE s \in MayLog
  <2>1. Pending' = Pending \cup {c} /\ (c \in Pending <=> stage[c] \in MayLog)
    BY <1>1, <1>3 DEF Pending
  <2>2. /\ IsFiniteSet(Pending')
        /\ Cardinality(Pending') = IF c \in Pending THEN Cardinality(Pending) ELSE Cardinality(Pending) + 1
    BY <2>1, FS_AddElement
  <2>. QED
    BY <1>2, <1>3, <2>1, <2>2
<1>4. CASE s \notin MayLog
  <2>1. Pending' = Pending \ {c} /\ (c \in Pending <=> stage[c] \in MayLog)
    BY <1>1, <1>4 DEF Pending
  <2>2. /\ IsFiniteSet(Pending')
        /\ Cardinality(Pending') = IF c \in Pending THEN Cardinality(Pending) - 1 ELSE Cardinality(Pending)
    BY <2>1, FS_RemoveElement
  <2>3. Cardinality(Pending') \in Nat
    BY <2>2, FS_CardinalityType
  <2>. QED
    BY <1>2, <1>4, <2>1, <2>2, <2>3
<1>. QED
  BY <1>3, <1>4

(* A message with its parts.                                               *)
LEMMA MessageMade ==
  ASSUME NEW u \in Users, NEW v \in Values, NEW path,
         path \in {"other", "index", "private", "logout", "login", "register", "welcome",
                   "pwderr", "namerr"}
  PROVE  LET m == [UserName |-> u, PassWord |-> v, isSetCookie |-> TRUE, Path |-> path]
         IN  /\ m \in Messages /\ m.UserName = u /\ m.PassWord = v /\ m.Path = path
             /\ m.isSetCookie
BY DEF Messages

LEMMA MessageSet ==
  ASSUME Functions, NEW c \in Conns, NEW m, msg' = [msg EXCEPT ![c] = m]
  PROVE  msg'[c] = m /\ msg' = [msg EXCEPT ![c] = msg'[c]]
BY DEF Functions

(* A request with a cookie that is taken for a user is about this user.    *)
LEMMA VerifiedAbout ==
  ASSUME NEW c, Verified(c)
  PROVE  msg[c].UserName \in Users /\ msg[c].UserName \in About(c) /\ cookies[c] # {}
<1>. DEFINE p == <<msg[c].UserName, msg[c].PassWord>>
<1>1. msg[c].UserName \in Users /\ p \in cookies[c] /\ p[1] = msg[c].UserName
  BY DEF Verified
<1>2. p[1] \in {q[1] : q \in cookies[c]}
  BY <1>1
<1>. QED
  BY <1>1, <1>2 DEF About

(* The header a browser sends: the cookies it has.                         *)
LEMMA HeaderFacts ==
  ASSUME Tables, NEW b \in Browsers
  PROVE  /\ Header(b) \subseteq Users \X Values /\ \A p \in Header(b) : p[2] # 0
         /\ \A u, v : <<u, v>> \in Header(b) <=> u \in Users /\ v = jar[b][u] /\ v # 0
<1>1. \A u \in Users : jar[b][u] \in Values
  BY DEF Tables
<1>2. ASSUME NEW p \in Header(b)
      PROVE  p \in Users \X Values /\ p[2] # 0
  <2>1. PICK u \in Users : jar[b][u] # 0 /\ p = <<u, jar[b][u]>>
    BY DEF Header
  <2>. QED
    BY <1>1, <2>1
<1>3. ASSUME NEW u, NEW v
      PROVE  <<u, v>> \in Header(b) <=> u \in Users /\ v = jar[b][u] /\ v # 0
  BY DEF Header
<1>. QED
  BY <1>2, <1>3

-----------------------------------------------------------------------------
(* A step of one connection.                                               *)

Same(d) ==
  /\ stage'[d] = stage[d] /\ from'[d] = from[d] /\ request'[d] = request[d]
  /\ cookies'[d] = cookies[d] /\ got'[d] = got[d] /\ msg'[d] = msg[d]
  /\ resp'[d] = resp[d] /\ expects'[d] = expects[d]

Moves(c) == Functions' /\ \A d \in Conns \ {c} : Same(d)

(* Connections a step does not touch stay right, unless the tables change. *)
LEMMA Untouched ==
  ASSUME NEW d \in Conns, Right(d), Same(d)
  PROVE  /\ Typed(d)' /\ StageRight(d)' /\ TakenRight(d)'
         /\ UNCHANGED <<password, cookie>> /\ (apart' => apart) => Right(d)'
<1>1. Typed(d)'
  BY DEF Right, Typed, Same, Pieces, IsPost
<1>2. StageRight(d)'
  BY DEF Right, StageRight, Same, Pieces, IsPost
<1>3. TakenRight(d)'
  BY DEF Right, TakenRight, Same, Welcomed, Anonymous, Verified
<1>4. ASSUME UNCHANGED <<password, cookie>>, apart' => apart
      PROVE  Current(d)' /\ Given(d)'
  <2>1. Current(d)'
    BY <1>4 DEF Right, Current, Same, Verified
  <2>2. Given(d)'
    BY <1>4 DEF Right, Given, Same
  <2>. QED
    BY <2>1, <2>2
<1>. QED
  BY <1>1, <1>2, <1>3, <1>4 DEF Right

(* So a step has to be right about its own connection.                     *)
LEMMA OneMoves ==
  ASSUME IInv, NEW c \in Conns, Moves(c), UNCHANGED <<password, cookie>>, apart' => apart,
         Tables', DrawnForRequests', KeptApart', Right(c)'
  PROVE  IInv'
<1>1. \A d \in Conns \ {c} : Right(d)'
  BY Untouched DEF IInv, Moves
<1>. QED
  BY <1>1 DEF IInv, Moves

(* Requests stay apart when the one that moves is none that was not there. *)
LEMMA StaysApart ==
  ASSUME IInv, NEW c \in Conns, Moves(c), apart' => apart,
         InFlight(c)' => InFlight(c) /\ from'[c] = from[c] /\ About(c)' = About(c)
  PROVE  KeptApart'
<1>1. \A d \in Conns : InFlight(d)' => InFlight(d) /\ from'[d] = from[d] /\ About(d)' = About(d)
  BY DEF Moves, Same, InFlight, About
<1>. QED
  BY <1>1 DEF IInv, KeptApart

(* At most one value is drawn for a request, and then no more.             *)
LEMMA DrawsRight ==
  ASSUME IInv, NEW c \in Conns, NEW s \in StageNames, stage' = [stage EXCEPT ![c] = s], sent' = sent,
         \/ drawn' = drawn /\ (s \in MayLog => stage[c] \in MayLog)
         \/ drawn' = drawn + 1 /\ s \notin MayLog /\ stage[c] \in MayLog
  PROVE  DrawnForRequests'
<1>1. stage \in [Conns -> StageNames] /\ IsFiniteSet(Pending)
  BY DEF IInv, Functions, Right, Typed, DrawnForRequests
<1>2. drawn \in Nat /\ sent \in Nat /\ drawn + Cardinality(Pending) <= sent /\ sent \in 0..MaxRequests
  BY DEF IInv, DrawnForRequests
<1>3. /\ IsFiniteSet(Pending') /\ Cardinality(Pending) \in Nat /\ Cardinality(Pending') \in Nat
      /\ s \in MayLog /\ stage[c] \in MayLog => Cardinality(Pending') = Cardinality(Pending)
      /\ s \notin MayLog => Cardinality(Pending') <= Cardinality(Pending)
      /\ s \notin MayLog /\ stage[c] \in MayLog
           => Cardinality(Pending') = Cardinality(Pending) - 1
  BY <1>1, PendingMoves
<1>4. CASE drawn' = drawn /\ (s \in MayLog => stage[c] \in MayLog)
  BY <1>2, <1>3, <1>4 DEF DrawnForRequests
<1>5. CASE drawn' = drawn + 1 /\ s \notin MayLog /\ stage[c] \in MayLog
  BY <1>2, <1>3, <1>5 DEF DrawnForRequests
<1>. QED
  BY <1>4, <1>5

-----------------------------------------------------------------------------
(* Every action preserves the invariant.                                   *)

(* No connection is open.                                                  *)
LEMMA InitIInv == Init => IInv
<1>. SUFFICES ASSUME Init PROVE IInv
  OBVIOUS
<1>1. MaxRequests \in Nat
  BY HttpAssumption
<1>2. Functions /\ Tables
  <2>1. Registered \in [Users -> Passwords \cup {""}]
    BY HttpAssumption
  <2>. QED
    BY <2>1, ValuesFacts DEF Init, Functions, Tables
<1>3. DrawnForRequests
  <2>1. Pending = {}
    BY DEF Init, Pending, MayLog
  <2>2. IsFiniteSet(Pending) /\ Cardinality(Pending) = 0
    BY <2>1, FS_EmptySet
  <2>3. sent = 0 /\ drawn = 0
    BY DEF Init
  <2>. QED
    BY <1>1, <2>2, <2>3 DEF DrawnForRequests
<1>4. KeptApart
  BY DEF Init, KeptApart, InFlight
<1>5. ASSUME NEW c \in Conns PROVE Right(c)
  <2>1. /\ stage[c] = "closed" /\ from[c] = "nobody" /\ request[c] = NoRequest /\ cookies[c] = {}
        /\ got[c] = 0 /\ msg[c] = Fresh /\ resp[c] = NoResp /\ expects[c] = "unknown"
    BY DEF Init
  <2>2. Typed(c)
    <3>1. 0 \in 0..Pieces(c)
      BY PiecesFacts
    <3>. QED
      BY <2>1, <3>1, MessageFacts DEF Typed, StageNames
  <2>3. StageRight(c)
    BY <2>1 DEF StageRight
  <2>4. TakenRight(c) /\ Current(c) /\ Given(c)
    BY <2>1, MessageFacts DEF TakenRight, Anonymous, Current, Verified, Given
  <2>. QED
    BY <2>2, <2>3, <2>4 DEF Right
<1>. QED
  BY <1>2, <1>3, <1>4, <1>5 DEF IInv

(* A browser connects.                                                     *)
LEMMA ConnectIInv ==
  ASSUME IInv, NEW c \in Conns, Connect(c)
  PROVE  IInv'
<1>1. PICK b \in Browsers : from' = [from EXCEPT ![c] = b]
  BY DEF Connect
<1>2. /\ stage[c] = "closed" /\ stage' = [stage EXCEPT ![c] = "idle"]
      /\ UNCHANGED <<request, cookies, got, msg, resp, password, cookie, drawn, jar, sent,
                     restarts, apart, session, expects>>
  BY DEF Connect, table
<1>3. Moves(c) /\ stage'[c] = "idle" /\ from'[c] = b
  BY <1>1, <1>2 DEF IInv, Functions, Moves, Same
<1>4. Tables'
  BY <1>2 DEF IInv, Tables
<1>5. DrawnForRequests'
  BY <1>2, DrawsRight DEF StageNames, MayLog
<1>6. KeptApart'
  BY <1>2, <1>3, StaysApart DEF InFlight
<1>7. Right(c)'
  <2>1. Typed(c) /\ StageRight(c) /\ TakenRight(c) /\ Current(c) /\ Given(c)
    BY DEF IInv, Right
  <2>2. Typed(c)'
    BY <1>2, <1>3, <2>1 DEF Typed, StageNames, Pieces, IsPost
  <2>3. StageRight(c)'
    BY <1>2, <1>3, <2>1 DEF StageRight
  <2>4. msg[c] = Fresh
    BY <1>2, <2>1 DEF StageRight
  <2>5. TakenRight(c)' /\ Current(c)' /\ Given(c)'
    BY <1>2, <1>3, <2>4, MessageFacts DEF TakenRight, Anonymous, Current, Verified, Given
  <2>. QED
    BY <2>2, <2>3, <2>5 DEF Right
<1>. QED
  BY <1>2, <1>3, <1>4, <1>5, <1>6, <1>7, OneMoves

(* A browser sends a request.                                              *)
LEMMA SendIInv ==
  ASSUME IInv, NEW c \in Conns, Send(c)
  PROVE  IInv'
<1>1. PICK r \in Gets \cup Forms : request' = [request EXCEPT ![c] = r]
  BY DEF Send
<1>2. /\ stage[c] = "idle" /\ stage' = [stage EXCEPT ![c] = "in"]
      /\ sent < MaxRequests /\ sent' = sent + 1
      /\ cookies' = [cookies EXCEPT ![c] = Header(from[c])]
      /\ expects' = [expects EXCEPT ![c] = Expected(from[c])]
      /\ apart' = (apart /\ \A d \in Conns \ {c} :
                     InFlight(d) => from[d] # from[c] /\ About(d) \cap About(c)' = {})
      /\ UNCHANGED <<from, got, msg, resp, password, cookie, drawn, jar, restarts, session>>
  BY DEF Send, table
<1>3. /\ Moves(c) /\ stage'[c] = "in" /\ request'[c] = r /\ cookies'[c] = Header(from[c])
      /\ expects'[c] = Expected(from[c])
  BY <1>1, <1>2 DEF IInv, Functions, Moves, Same
<1>4. Typed(c) /\ StageRight(c)
  BY DEF IInv, Right
<1>5. from[c] \in Browsers /\ got[c] = 0 /\ msg[c] = Fresh /\ resp[c] = NoResp
  BY <1>2, <1>4 DEF Typed, StageRight
<1>6. Header(from[c]) \subseteq Users \X Values /\ \A p \in Header(from[c]) : p[2] # 0
  BY <1>5, HeaderFacts DEF IInv
<1>7. Expected(from[c]) \in Users \cup {"unknown", "out"}
  BY <1>5 DEF Expected, IInv, Tables
<1>8. apart' \in BOOLEAN /\ (apart' => apart)
  BY <1>2 DEF IInv, Tables
<1>9. Tables'
  BY <1>2, <1>8 DEF IInv, Tables
<1>10. DrawnForRequests'
  <2>1. stage \in [Conns -> StageNames] /\ IsFiniteSet(Pending)
    BY DEF IInv, Functions, Right, Typed, DrawnForRequests
  <2>2. IsFiniteSet(Pending') /\ Cardinality(Pending) \in Nat /\ Cardinality(Pending') \in Nat
        /\ Cardinality(Pending') <= Cardinality(Pending) + 1
    BY <1>2, <2>1, PendingMoves DEF StageNames, MayLog
  <2>3. drawn \in Nat /\ sent \in 0..MaxRequests /\ drawn + Cardinality(Pending) <= sent
    BY DEF IInv, DrawnForRequests
  <2>4. MaxRequests \in Nat
    BY HttpAssumption
  <2>. QED
    BY <1>2, <2>2, <2>3, <2>4 DEF DrawnForRequests
<1>11. KeptApart'
  <2>. SUFFICES ASSUME apart', NEW d \in Conns, NEW e \in Conns, d # e, InFlight(d)', InFlight(e)'
                PROVE  from[d] # from[e] /\ About(d)' \cap About(e)' = {}
    BY <1>2 DEF KeptApart
  <2>1. \A x \in Conns \ {c} : InFlight(x)' = InFlight(x) /\ About(x)' = About(x)
    BY <1>3 DEF Moves, Same, InFlight, About
  <2>2. \A x \in Conns \ {c} : InFlight(x) => from[x] # from[c] /\ About(x) \cap About(c)' = {}
    BY <1>2
  <2>3. CASE d # c /\ e # c
    BY <1>8, <2>1, <2>3 DEF IInv, KeptApart
  <2>4. CASE d = c
    BY <2>1, <2>2, <2>4
  <2>5. CASE e = c
    BY <2>1, <2>2, <2>5
  <2>. QED
    BY <2>3, <2>4, <2>5
<1>12. Right(c)'
  <2>1. Pieces(c)' \in {1, 2}
    BY DEF Pieces
  <2>2. Typed(c)'
    BY <1>2, <1>3, <1>4, <1>5, <1>6, <1>7, <2>1 DEF Typed, StageNames
  <2>3. StageRight(c)'
    BY <1>2, <1>3, <1>5, <1>6, <2>1 DEF StageRight
  <2>4. TakenRight(c)' /\ Current(c)' /\ Given(c)'
    BY <1>2, <1>3, <1>5, MessageFacts DEF TakenRight, Anonymous, Current, Verified, Given
  <2>. QED
    BY <2>2, <2>3, <2>4 DEF Right
<1>. QED
  BY <1>2, <1>3, <1>8, <1>9, <1>10, <1>11, <1>12, OneMoves

(* A cookie expires.                                                       *)
LEMMA ExpireIInv ==
  ASSUME IInv, NEW b \in Browsers, NEW u \in Users, Expire(b, u)
  PROVE  IInv'
<1>1. /\ jar' = [jar EXCEPT ![b][u] = 0]
      /\ session' = [session EXCEPT ![b] = IF @ = u THEN "unknown" ELSE @]
      /\ UNCHANGED <<stage, from, request, cookies, got, msg, resp, password, cookie, drawn,
                     sent, restarts, apart, expects>>
  BY DEF Expire, table
<1>2. 0 \in Values
  BY ValuesFacts
<1>3. Tables'
  BY <1>1, <1>2 DEF IInv, Tables
<1>4. Functions' /\ DrawnForRequests' /\ KeptApart'
  BY <1>1 DEF IInv, Functions, DrawnForRequests, Pending, KeptApart, InFlight, About
<1>5. \A d \in Conns : Right(d)'
  BY <1>1, Untouched DEF IInv, Same
<1>. QED
  BY <1>3, <1>4, <1>5 DEF IInv

(* Where a request goes on once g of its pieces are there.                 *)
LEMMA ServesNextFacts ==
  ASSUME IInv, NEW c \in Conns, InFlight(c), NEW g \in 1..Pieces(c)
  PROVE  LET s == ServesNext(c, g)
         IN  /\ s \in {"in", "select", "out"}
             /\ s = "in" => g < Pieces(c)
             /\ s = "select" => request[c] \in Forms
             /\ s = "out" => ~IsPost(request[c]) /\ g = Pieces(c)
<1>1. g \in Nat /\ Pieces(c) \in Nat
  BY PiecesFacts
<1>2. CASE g < Pieces(c)
  BY <1>2 DEF ServesNext
<1>3. CASE ~(g < Pieces(c)) /\ IsPost(request[c])
  BY <1>3 DEF ServesNext, IsPost
<1>4. CASE ~(g < Pieces(c)) /\ ~IsPost(request[c])
  BY <1>1, <1>4 DEF ServesNext
<1>. QED
  BY <1>2, <1>3, <1>4

(* A part of a request arrives.                                            *)
LEMMA RecvIInv ==
  ASSUME IInv, NEW c \in Conns, Recv(c)
  PROVE  IInv'
<1>1. PICK g \in (got[c] + 1)..Pieces(c) :
        /\ got' = [got EXCEPT ![c] = g]
        /\ msg' = [msg EXCEPT ![c].Path = request[c].Path]
        /\ stage' = [stage EXCEPT ![c] =
             IF got[c] = 0 /\ cookies[c] # {} THEN "cookie" ELSE ServesNext(c, g)]
  BY DEF Recv
<1>2. /\ stage[c] = "in"
      /\ UNCHANGED <<from, request, cookies, resp, password, cookie, drawn, jar, sent, restarts,
                     apart, session, expects>>
  BY DEF Recv, client, table
<1>. DEFINE s == stage'[c]
<1>3. Typed(c) /\ StageRight(c) /\ TakenRight(c) /\ Current(c)
  BY DEF IInv, Right
<1>4. g \in 1..Pieces(c) /\ g \in 0..Pieces(c) /\ InFlight(c)
  <2>1. got[c] \in Nat /\ Pieces(c) \in Nat
    BY <1>3, PiecesFacts DEF Typed
  <2>. QED
    BY <1>2, <2>1 DEF InFlight
<1>5. /\ s = IF got[c] = 0 /\ cookies[c] # {} THEN "cookie" ELSE ServesNext(c, g)
      /\ stage' = [stage EXCEPT ![c] = s] /\ got'[c] = g
      /\ msg'[c] = [msg[c] EXCEPT !.Path = request[c].Path]
      /\ Moves(c)
  BY <1>1, <1>2 DEF IInv, Functions, Moves, Same
<1>6. /\ s \in {"cookie", "in", "select", "out"}
      /\ s = "in" => g < Pieces(c)
      /\ s = "select" => request[c] \in Forms
  BY <1>4, <1>5, ServesNextFacts
<1>. HIDE DEF s
<1>7. request[c].Path \in {"index", "private", "logout", "login", "register"}
  BY <1>3, FormFacts, GetFacts DEF Typed
<1>8. /\ msg[c] \in Messages /\ msg'[c] \in Messages /\ msg'[c].Path = request[c].Path
      /\ msg'[c].UserName = msg[c].UserName /\ msg'[c].PassWord = msg[c].PassWord
      /\ msg'[c].isSetCookie = msg[c].isSetCookie
  BY <1>3, <1>5, <1>7 DEF Typed, Messages
<1>9. Tables'
  BY <1>2 DEF IInv, Tables
<1>10. DrawnForRequests'
  BY <1>2, <1>5, <1>6, DrawsRight DEF StageNames, MayLog
<1>11. KeptApart'
  BY <1>2, <1>4, <1>5, StaysApart DEF InFlight, About
<1>12. Right(c)'
  <2>1. Pieces(c)' = Pieces(c)
    BY <1>2 DEF Pieces, IsPost
  <2>2. Typed(c)'
    BY <1>2, <1>3, <1>4, <1>5, <1>6, <1>8, <2>1 DEF Typed, StageNames, s
  <2>3. StageRight(c)'
    BY <1>2, <1>3, <1>4, <1>5, <1>6, <2>1 DEF StageRight, s
  <2>4. msg[c].Path # "welcome" /\ msg'[c].Path # "welcome"
    BY <1>2, <1>3, <1>7, <1>8 DEF TakenRight, Welcomed
  <2>5. TakenRight(c)' /\ Current(c)' /\ Given(c)'
    <3>1. Verified(c)' = Verified(c) /\ Anonymous(c)' = Anonymous(c)
      BY <1>2, <1>8 DEF Verified, Anonymous
    <3>2. stage'[c] # "insert"
      BY <1>6 DEF s
    <3>. QED
      BY <1>2, <1>3, <1>8, <2>4, <3>1, <3>2 DEF TakenRight, Current, Given
  <2>. QED
    BY <2>2, <2>3, <2>5 DEF Right
<1>. QED
  BY <1>2, <1>5, <1>9, <1>10, <1>11, <1>12, OneMoves

(* The cookie of a request is looked up.                                   *)
LEMMA VerifyCookieIInv ==
  ASSUME IInv, NEW c \in Conns, VerifyCookie(c)
  PROVE  IInv'
<1>. DEFINE s == ServesNext(c, got[c])
<1>1. /\ stage[c] = "cookie" /\ stage' = [stage EXCEPT ![c] = s]
      /\ UNCHANGED <<from, request, cookies, got, resp, password, cookie, drawn, jar, sent,
                     restarts, apart, session, expects>>
  BY DEF VerifyCookie, client, table
<1>2. Typed(c) /\ StageRight(c) /\ TakenRight(c) /\ Current(c)
  BY DEF IInv, Right
<1>3. InFlight(c) /\ got[c] \in 1..Pieces(c)
  <2>1. got[c] \in 0..Pieces(c) /\ got[c] >= 1
    BY <1>1, <1>2 DEF Typed, StageRight
  <2>. QED
    BY <1>1, <2>1, PiecesFacts DEF InFlight
<1>4. /\ s \in {"in", "select", "out"}
      /\ s = "in" => got[c] < Pieces(c)
      /\ s = "select" => request[c] \in Forms
  BY <1>3, ServesNextFacts
<1>. HIDE DEF s
<1>5. msg' = msg \/ \E m : msg' = [msg EXCEPT ![c] = m]
  BY DEF VerifyCookie
<1>6. Moves(c) /\ stage'[c] = s
  BY <1>1, <1>5 DEF IInv, Functions, Moves, Same
<1>7. /\ msg'[c] \in Messages /\ msg'[c].Path = msg[c].Path
      /\ msg'[c] = msg[c] \/ (Verified(c)' /\ cookie[msg'[c].UserName] = msg'[c].PassWord)
  <2>1. CASE UNCHANGED msg
    BY <1>2, <2>1 DEF Typed
  <2>2. CASE \E u \in Known(c), v \in Values :
               /\ cookies[c] = {<<u, v>>}
               /\ msg' = [msg EXCEPT ![c] =
                    [UserName |-> u, PassWord |-> v, isSetCookie |-> TRUE, Path |-> @.Path]]
    <3>1. PICK u \in Known(c), v \in Values :
               /\ cookies[c] = {<<u, v>>}
               /\ msg' = [msg EXCEPT ![c] =
                    [UserName |-> u, PassWord |-> v, isSetCookie |-> TRUE, Path |-> @.Path]]
      BY <2>2
    <3>. DEFINE m == [UserName |-> u, PassWord |-> v, isSetCookie |-> TRUE, Path |-> msg[c].Path]
    <3>2. msg' = [msg EXCEPT ![c] = m]
      BY <3>1
    <3>3. u \in Users /\ v = cookie[u]
      <4>1. u \in Users /\ cookies[c] = {<<u, cookie[u]>>}
        BY DEF Known
      <4>2. <<u, v>> \in {<<u, cookie[u]>>}
        BY <3>1, <4>1
      <4>. QED
        BY <4>1, <4>2
    <3>4. v # 0
      BY <1>2, <3>1 DEF StageRight
    <3>5. msg[c].Path \in {"other", "index", "private", "logout", "login", "register",
                           "welcome", "pwderr", "namerr"}
      BY <1>2 DEF Typed, Messages
    <3>6. /\ m \in Messages /\ m.Path = msg[c].Path /\ m.UserName = u /\ m.PassWord = v
          /\ m.isSetCookie
      BY <3>3, <3>5, MessageMade
    <3>8. msg'[c] = m
      BY <3>2, MessageSet DEF IInv
    <3>. HIDE DEF m
    <3>7. Verified(c)' /\ cookie[msg'[c].UserName] = msg'[c].PassWord
      BY <1>1, <3>1, <3>3, <3>4, <3>6, <3>8 DEF Verified
    <3>. QED
      BY <3>6, <3>7, <3>8
  <2>. QED
    BY <2>1, <2>2 DEF VerifyCookie
<1>8. Tables'
  BY <1>1 DEF IInv, Tables
<1>9. DrawnForRequests'
  BY <1>1, <1>4, DrawsRight DEF StageNames, MayLog
<1>10. KeptApart'
  BY <1>1, <1>3, <1>6, StaysApart DEF InFlight, About
<1>11. Right(c)'
  <2>1. Typed(c)'
    BY <1>1, <1>2, <1>4, <1>6, <1>7 DEF Typed, StageNames, Pieces, IsPost
  <2>2. StageRight(c)'
    BY <1>1, <1>2, <1>4, <1>6 DEF StageRight, Pieces, IsPost
  <2>3. msg[c].Path # "welcome" /\ msg'[c].Path # "welcome" /\ stage'[c] # "insert"
    BY <1>1, <1>2, <1>4, <1>6, <1>7 DEF TakenRight, Welcomed
  <2>4. TakenRight(c)' /\ Current(c)' /\ Given(c)'
    <3>1. CASE msg'[c] = msg[c]
      BY <1>1, <1>2, <2>3, <3>1 DEF TakenRight, Anonymous, Verified, Current, Given
    <3>2. CASE Verified(c)' /\ cookie[msg'[c].UserName] = msg'[c].PassWord
      BY <1>1, <2>3, <3>2 DEF TakenRight, Current, Given
    <3>. QED
      BY <1>7, <3>1, <3>2
  <2>. QED
    BY <2>1, <2>2, <2>4 DEF Right
<1>. QED
  BY <1>1, <1>6, <1>8, <1>9, <1>10, <1>11, OneMoves

(* Somebody logs in: the message and the value that is drawn.              *)
LEMMA LogsFacts ==
  ASSUME IInv, NEW c \in Conns, stage[c] \in {"select", "insert"}, Logs(c, request[c].name)
  PROVE  /\ drawn' \in Values /\ drawn' # 0 /\ drawn' = drawn + 1
         /\ session' \in [Browsers -> Users \cup {"unknown", "out"}]
         /\ msg' = [msg EXCEPT ![c] = msg'[c]] /\ msg'[c] \in Messages
         /\ msg'[c].Path = "welcome" /\ msg'[c].UserName = request[c].name
         /\ msg'[c].PassWord = drawn' /\ msg'[c].isSetCookie
         /\ request[c].name \in Users /\ request[c].password # "" /\ request[c] \in Forms
<1>1. Typed(c) /\ StageRight(c)
  BY DEF IInv, Right
<1>2. request[c] \in Forms
  BY <1>1 DEF StageRight
<1>3. request[c].name \in Users /\ request[c].password # ""
  BY <1>2, FormFacts
<1>4. drawn' = drawn + 1 /\ drawn' \in Values /\ drawn' # 0
  <2>1. drawn \in Nat /\ sent \in 0..MaxRequests /\ drawn + Cardinality(Pending) <= sent
        /\ IsFiniteSet(Pending)
    BY DEF IInv, DrawnForRequests
  <2>2. c \in Pending
    BY DEF Pending, MayLog
  <2>3. Cardinality(Pending) \in Nat /\ Cardinality(Pending) # 0
    BY <2>1, <2>2, FS_CardinalityType, FS_EmptySet
  <2>4. MaxRequests \in Nat
    BY HttpAssumption
  <2>5. drawn' = drawn + 1
    BY DEF Logs
  <2>. QED
    BY <2>1, <2>3, <2>4, <2>5 DEF Values
<1>. DEFINE m == [UserName |-> request[c].name, PassWord |-> drawn', isSetCookie |-> TRUE,
                  Path |-> "welcome"]
<1>5. msg' = [msg EXCEPT ![c] = m]
  BY DEF Logs
<1>6. msg'[c] = m /\ msg' = [msg EXCEPT ![c] = msg'[c]]
  BY <1>5, MessageSet DEF IInv
<1>7. /\ m \in Messages /\ m.Path = "welcome" /\ m.UserName = request[c].name
      /\ m.PassWord = drawn' /\ m.isSetCookie
  <2>1. ASSUME NEW v \in Values, NEW n,
               n = [UserName |-> request[c].name, PassWord |-> v, isSetCookie |-> TRUE,
                    Path |-> "welcome"]
        PROVE  /\ n \in Messages /\ n.Path = "welcome" /\ n.UserName = request[c].name
               /\ n.PassWord = v /\ n.isSetCookie
    BY <1>3, <2>1 DEF Messages
  <2>. QED
    BY <1>4, <2>1
<1>. HIDE DEF m
<1>8. session' \in [Browsers -> Users \cup {"unknown", "out"}]
  BY DEF Logs, IInv, Tables
<1>. QED
  BY <1>2, <1>3, <1>4, <1>6, <1>7, <1>8

(* What holds of a connection that logs somebody in.                       *)
LEMMA LogsRight ==
  ASSUME IInv, NEW c \in Conns, stage[c] \in {"select", "insert"}, Logs(c, request[c].name),
         stage'[c] = "update", Moves(c),
         UNCHANGED <<from, request, cookies, got, resp, cookie, expects>>,
         (password'[request[c].name] = request[c].password) \/ (~apart' /\ request[c].Path # "login")
  PROVE  Right(c)'
<1>1. Typed(c) /\ StageRight(c)
  BY DEF IInv, Right
<1>2. /\ msg'[c] \in Messages /\ msg'[c].Path = "welcome" /\ msg'[c].UserName = request[c].name
      /\ msg'[c].PassWord # 0 /\ msg'[c].isSetCookie /\ request[c] \in Forms
  BY LogsFacts
<1>3. Typed(c)'
  BY <1>1, <1>2 DEF Typed, StageNames, Pieces, IsPost
<1>4. StageRight(c)'
  BY <1>1, <1>2 DEF StageRight, Pieces, IsPost
<1>5. TakenRight(c)' /\ Current(c)' /\ Given(c)'
  BY <1>2 DEF TakenRight, Welcomed, Current, Given
<1>. QED
  BY <1>3, <1>4, <1>5 DEF Right

(* A form is compared with the row of its user.                            *)
LEMMA SelectIInv ==
  ASSUME IInv, NEW c \in Conns, Select(c)
  PROVE  IInv'
<1>. DEFINE r == request[c]
            update == IF msg[c].PassWord # 0 THEN "update" ELSE "out"
<1>1. /\ stage[c] = "select"
      /\ UNCHANGED <<from, request, cookies, got, resp, password, cookie, jar, sent, restarts,
                     apart, expects>>
  BY DEF Select
<1>2. Typed(c) /\ StageRight(c) /\ TakenRight(c) /\ Current(c)
  BY DEF IInv, Right
<1>3. r \in Forms /\ r.name \in Users
  BY <1>1, <1>2, FormFacts DEF StageRight
<1>4. msg[c].Path # "welcome"
  BY <1>1, <1>2 DEF TakenRight, Welcomed
<1>5. \/ RowMatches(r) /\ Logs(c, r.name) /\ stage' = [stage EXCEPT ![c] = "update"]
      \/ \E page \in {"pwderr", "namerr"} :
           Refuses(c, page) /\ stage' = [stage EXCEPT ![c] = update]
      \/ /\ ~RowExists(r) /\ r.Path = "register" /\ stage' = [stage EXCEPT ![c] = "insert"]
         /\ UNCHANGED <<msg, drawn, session>>
  BY DEF Select
<1>6. CASE RowMatches(r) /\ Logs(c, r.name) /\ stage' = [stage EXCEPT ![c] = "update"]
  <2>1. /\ drawn' = drawn + 1 /\ session' \in [Browsers -> Users \cup {"unknown", "out"}]
        /\ msg' = [msg EXCEPT ![c] = msg'[c]]
    BY <1>1, <1>6, LogsFacts
  <2>2. Moves(c) /\ stage'[c] = "update"
    BY <1>1, <1>6, <2>1 DEF IInv, Functions, Moves, Same
  <2>3. Tables'
    BY <1>1, <2>1 DEF IInv, Tables
  <2>4. DrawnForRequests'
    BY <1>1, <1>6, <2>1, DrawsRight DEF StageNames, MayLog
  <2>5. KeptApart'
    BY <1>1, <2>2, StaysApart DEF InFlight, About
  <2>6. Right(c)'
    <3>1. password'[request[c].name] = request[c].password
      BY <1>1, <1>6 DEF RowMatches
    <3>2. Logs(c, request[c].name) /\ stage[c] \in {"select", "insert"}
      BY <1>1, <1>6
    <3>3. UNCHANGED <<from, request, cookies, got, resp, cookie, expects>>
      BY <1>1
    <3>. QED
      BY <2>2, <3>1, <3>2, <3>3, LogsRight
  <2>. QED
    BY <1>1, <2>2, <2>3, <2>4, <2>5, <2>6, OneMoves
<1>7. CASE \E page \in {"pwderr", "namerr"} :
             Refuses(c, page) /\ stage' = [stage EXCEPT ![c] = update]
  <2>1. PICK page \in {"pwderr", "namerr"} :
             Refuses(c, page) /\ stage' = [stage EXCEPT ![c] = update]
    BY <1>7
  <2>2. /\ msg' = [msg EXCEPT ![c].Path = page] /\ UNCHANGED <<drawn, session>>
    BY <2>1 DEF Refuses
  <2>3. Moves(c) /\ stage'[c] = update /\ msg'[c] = [msg[c] EXCEPT !.Path = page]
    BY <1>1, <2>1, <2>2 DEF IInv, Functions, Moves, Same
  <2>4. /\ msg'[c] \in Messages /\ msg'[c].Path = page /\ msg'[c].UserName = msg[c].UserName
        /\ msg'[c].PassWord = msg[c].PassWord /\ msg'[c].isSetCookie = msg[c].isSetCookie
    BY <1>2, <2>3 DEF Typed, Messages
  <2>5. update \in {"update", "out"} /\ (update = "update" => msg[c].PassWord # 0)
    OBVIOUS
  <2>. HIDE DEF update
  <2>6. Tables'
    BY <1>1, <2>2 DEF IInv, Tables
  <2>7. DrawnForRequests'
    BY <1>1, <2>1, <2>2, <2>5, DrawsRight DEF StageNames, MayLog
  <2>8. KeptApart'
    BY <1>1, <2>3, StaysApart DEF InFlight, About
  <2>9. Right(c)'
    <3>1. Typed(c)'
      BY <1>1, <1>2, <2>3, <2>4, <2>5 DEF Typed, StageNames, Pieces, IsPost
    <3>2. StageRight(c)'
      BY <1>1, <1>2, <2>3, <2>4, <2>5 DEF StageRight
    <3>3. Verified(c)' = Verified(c) /\ Anonymous(c)' = Anonymous(c)
      BY <1>1, <2>4 DEF Verified, Anonymous
    <3>4. msg'[c].Path # "welcome" /\ stage'[c] # "insert"
      BY <2>3, <2>4, <2>5
    <3>5. TakenRight(c)' /\ Current(c)' /\ Given(c)'
      BY <1>1, <1>2, <1>4, <2>4, <3>3, <3>4 DEF TakenRight, Current, Given
    <3>. QED
      BY <3>1, <3>2, <3>5 DEF Right
  <2>. QED
    BY <1>1, <2>3, <2>6, <2>7, <2>8, <2>9, OneMoves
<1>8. CASE /\ ~RowExists(r) /\ r.Path = "register" /\ stage' = [stage EXCEPT ![c] = "insert"]
           /\ UNCHANGED <<msg, drawn, session>>
  <2>1. Moves(c) /\ stage'[c] = "insert"
    BY <1>1, <1>8 DEF IInv, Functions, Moves, Same
  <2>2. Tables'
    BY <1>1, <1>8 DEF IInv, Tables
  <2>3. DrawnForRequests'
    BY <1>1, <1>8, DrawsRight DEF StageNames, MayLog
  <2>4. KeptApart'
    BY <1>1, <2>1, StaysApart DEF InFlight, About
  <2>5. Right(c)'
    <3>1. Typed(c)'
      BY <1>1, <1>2, <1>8, <2>1 DEF Typed, StageNames, Pieces, IsPost
    <3>2. StageRight(c)'
      BY <1>1, <1>2, <1>3, <1>8, <2>1 DEF StageRight
    <3>3. TakenRight(c)' /\ Given(c)'
      BY <1>1, <1>2, <1>4, <1>8 DEF TakenRight, Anonymous, Verified, Given
    <3>4. Current(c)'
      BY <1>1, <1>2, <1>8 DEF Current, Verified, RowExists
    <3>. QED
      BY <3>1, <3>2, <3>3, <3>4 DEF Right
  <2>. QED
    BY <1>1, <2>1, <2>2, <2>3, <2>4, <2>5, OneMoves
<1>. QED
  BY <1>5, <1>6, <1>7, <1>8

(* A new user's row is inserted.                                           *)
LEMMA InsertIInv ==
  ASSUME IInv, NEW c \in Conns, Insert(c)
  PROVE  IInv'
<1>. DEFINE r == request[c]
<1>1. /\ stage[c] = "insert" /\ stage' = [stage EXCEPT ![c] = "update"] /\ Logs(c, r.name)
      /\ password' = [password EXCEPT ![r.name] = IF @ = "" THEN r.password ELSE @]
      /\ UNCHANGED <<from, request, cookies, got, resp, cookie, jar, sent, restarts, apart,
                     expects>>
  BY DEF Insert
<1>2. Typed(c) /\ StageRight(c) /\ TakenRight(c) /\ Current(c)
  BY DEF IInv, Right
<1>3. r \in Forms /\ r.name \in Users /\ r.name # "" /\ r.password \in Passwords /\ r.password # ""
  BY <1>1, <1>2, FormFacts DEF StageRight
<1>4. /\ drawn' = drawn + 1 /\ session' \in [Browsers -> Users \cup {"unknown", "out"}]
      /\ msg' = [msg EXCEPT ![c] = msg'[c]]
  BY <1>1, LogsFacts
<1>5. Moves(c) /\ stage'[c] = "update"
  BY <1>1, <1>4 DEF IInv, Functions, Moves, Same
<1>6. /\ password \in [Users -> Passwords \cup {""}]
      /\ password' \in [Users -> Passwords \cup {""}]
      /\ \A u \in Users : password[u] # "" \/ u # r.name => password'[u] = password[u]
      /\ password[r.name] = "" => password'[r.name] = r.password
  <2>1. password \in [Users -> Passwords \cup {""}]
    BY DEF IInv, Tables
  <2>2. CASE password[r.name] = ""
    <3>1. password' = [password EXCEPT ![r.name] = r.password]
      BY <1>1, <2>2
    <3>2. password'[r.name] = r.password
      BY <1>3, <2>1, <3>1
    <3>3. password' \in [Users -> Passwords \cup {""}]
      BY <1>3, <2>1, <3>1
    <3>4. \A u \in Users : password[u] # "" \/ u # r.name => password'[u] = password[u]
      BY <1>3, <2>1, <2>2, <3>1
    <3>. QED
      BY <2>1, <3>2, <3>3, <3>4
  <2>3. CASE password[r.name] # ""
    <3>1. password' = [password EXCEPT ![r.name] = password[r.name]]
      BY <1>1, <2>3
    <3>. QED
      BY <1>3, <2>1, <2>3, <3>1
  <2>. QED
    BY <2>2, <2>3
<1>7. Tables'
  BY <1>1, <1>4, <1>6 DEF IInv, Tables
<1>8. DrawnForRequests'
  BY <1>1, <1>4, DrawsRight DEF StageNames, MayLog
<1>9. KeptApart'
  BY <1>1, <1>5, StaysApart DEF InFlight, About
<1>10. Right(c)'
  <2>1. (password'[r.name] = r.password) \/ (~apart' /\ r.Path # "login")
    <3>1. r.Path = "register"
      BY <1>1, <1>2 DEF StageRight
    <3>2. CASE apart
      <4>1. password[r.name] = ""
        BY <1>1, <1>2, <3>2 DEF Current
      <4>. QED
        BY <1>1, <1>3, <1>6, <4>1
    <3>. QED
      BY <1>1, <3>1, <3>2
  <2>. QED
    BY <1>1, <1>5, <2>1, LogsRight
<1>11. ASSUME NEW d \in Conns \ {c} PROVE Right(d)'
  <2>1. Right(d) /\ Same(d)
    BY <1>5 DEF IInv, Moves
  <2>2. Typed(d)' /\ StageRight(d)' /\ TakenRight(d)'
    BY <2>1, Untouched
  <2>3. Current(d)'
    <3>1. Verified(d)' = Verified(d)
      BY <2>1 DEF Verified, Same
    <3>2. ASSUME apart, stage[d] = "insert"
          PROVE  password'[request[d].name] = ""
      <4>1. InFlight(c) /\ InFlight(d) /\ password[request[d].name] = "" /\ request[d] \in Forms
        BY <1>1, <2>1, <3>2 DEF InFlight, Right, StageRight, Current
      <4>2. request[d].name \in Users /\ request[d].name # ""
        BY <4>1, FormFacts
      <4>3. About(c) \cap About(d) = {}
        BY <3>2, <4>1 DEF IInv, KeptApart
      <4>4. r.name \in About(c) /\ request[d].name \in About(d)
        BY <1>3, <4>2 DEF About
      <4>. QED
        BY <1>6, <4>1, <4>2, <4>3, <4>4
    <3>. QED
      BY <1>1, <2>1, <3>1, <3>2 DEF Current, Right, Same
  <2>4. Given(d)'
    <3>. SUFFICES ASSUME msg[d].Path = "welcome", apart \/ request[d].Path = "login"
                  PROVE  password'[request[d].name] = request[d].password
      BY <1>1, <2>1 DEF Given, Same
    <3>1. password[request[d].name] = request[d].password /\ request[d] \in Forms
      BY <2>1 DEF Right, Given, TakenRight, Welcomed
    <3>2. request[d].password # "" /\ request[d].name \in Users
      BY <3>1, FormFacts
    <3>. QED
      BY <1>6, <3>1, <3>2
  <2>. QED
    BY <2>2, <2>3, <2>4 DEF Right
<1>. QED
  BY <1>5, <1>7, <1>8, <1>9, <1>10, <1>11 DEF IInv, Moves

(* What an UPDATE does to the table: the row of the user gets the value,   *)
(* and no other changes.                                                   *)
LEMMA UpdateFacts ==
  ASSUME IInv, NEW c \in Conns, Update(c)
  PROVE  /\ msg[c].UserName \in Users /\ msg[c].PassWord \in Values /\ msg[c].PassWord # 0
         /\ msg[c].UserName \in About(c)
         /\ cookie' \in [Users -> Values]
         /\ \A u \in Users \ {msg[c].UserName} : cookie'[u] = cookie[u]
         /\ cookie' = cookie \/ cookie'[msg[c].UserName] = msg[c].PassWord
<1>1. /\ stage[c] = "update"
      /\ cookie' = IF \E u \in Users \ {msg[c].UserName} : cookie[u] = msg[c].PassWord THEN cookie
                   ELSE [cookie EXCEPT ![msg[c].UserName] = msg[c].PassWord]
  BY DEF Update
<1>2. Typed(c) /\ StageRight(c) /\ TakenRight(c)
  BY DEF IInv, Right
<1>3. msg[c].PassWord \in Values /\ msg[c].PassWord # 0
  BY <1>1, <1>2 DEF Typed, StageRight, Messages
<1>4. msg[c].UserName \in Users /\ msg[c].UserName \in About(c)
  <2>1. CASE msg[c].Path = "welcome"
    <3>1. msg[c].UserName = request[c].name /\ request[c] \in Forms
      BY <1>2, <2>1 DEF TakenRight, Welcomed
    <3>2. request[c].name \in Users /\ request[c].name # ""
      BY <3>1, FormFacts
    <3>. QED
      BY <3>1, <3>2 DEF About
  <2>2. CASE msg[c].Path # "welcome"
    <3>1. Verified(c)
      BY <1>2, <1>3, <2>2 DEF TakenRight, Anonymous
    <3>. QED
      BY <3>1, VerifiedAbout
  <2>. QED
    BY <2>1, <2>2
<1>5. cookie \in [Users -> Values]
  BY DEF IInv, Tables
<1>6. CASE cookie' = cookie
  BY <1>3, <1>4, <1>5, <1>6
<1>7. CASE cookie' = [cookie EXCEPT ![msg[c].UserName] = msg[c].PassWord]
  BY <1>3, <1>4, <1>5, <1>7
<1>. QED
  BY <1>1, <1>6, <1>7

(* The cookie is written to the row.                                       *)
LEMMA UpdateIInv ==
  ASSUME IInv, NEW c \in Conns, Update(c)
  PROVE  IInv'
<1>1. /\ stage[c] = "update" /\ stage' = [stage EXCEPT ![c] = "out"]
      /\ UNCHANGED <<from, request, cookies, got, msg, resp, password, drawn, jar, sent, restarts,
                     apart, session, expects>>
  BY DEF Update, client
<1>2. /\ msg[c].UserName \in About(c) /\ cookie' \in [Users -> Values]
      /\ \A u \in Users \ {msg[c].UserName} : cookie'[u] = cookie[u]
      /\ cookie' = cookie \/ cookie'[msg[c].UserName] = msg[c].PassWord
  BY UpdateFacts
<1>3. Moves(c) /\ stage'[c] = "out"
  BY <1>1 DEF IInv, Functions, Moves, Same
<1>4. Tables'
  BY <1>1, <1>2 DEF IInv, Tables
<1>5. DrawnForRequests'
  BY <1>1, DrawsRight DEF StageNames, MayLog
<1>6. KeptApart'
  BY <1>1, <1>3, StaysApart DEF InFlight, About
<1>7. Right(c)'
  <2>1. Typed(c) /\ StageRight(c) /\ TakenRight(c) /\ Current(c) /\ Given(c)
    BY DEF IInv, Right
  <2>2. Typed(c)'
    BY <1>1, <1>3, <2>1 DEF Typed, StageNames, Pieces, IsPost
  <2>3. StageRight(c)'
    BY <1>1, <1>3, <2>1 DEF StageRight
  <2>4. TakenRight(c)' /\ Given(c)'
    BY <1>1, <1>3, <2>1 DEF TakenRight, Welcomed, Anonymous, Verified, Given
  <2>5. Current(c)'
    BY <1>1, <1>2, <1>3, <2>1 DEF Current, Verified
  <2>. QED
    BY <2>2, <2>3, <2>4, <2>5 DEF Right
<1>8. ASSUME NEW d \in Conns \ {c} PROVE Right(d)'
  <2>1. Right(d) /\ Same(d)
    BY <1>3 DEF IInv, Moves
  <2>2. Typed(d)' /\ StageRight(d)' /\ TakenRight(d)'
    BY <2>1, Untouched
  <2>3. Current(d)'
    <3>1. ASSUME apart, msg[d].Path # "welcome", Verified(d)
          PROVE  cookie'[msg[d].UserName] = msg[d].PassWord
      <4>1. msg[d].UserName \in Users /\ msg[d].UserName \in About(d) /\ cookies[d] # {}
        BY <3>1, VerifiedAbout
      <4>2. InFlight(c) /\ InFlight(d)
        BY <1>1, <2>1, <4>1 DEF InFlight, Right, StageRight
      <4>3. msg[d].UserName # msg[c].UserName
        BY <1>2, <3>1, <4>1, <4>2 DEF IInv, KeptApart
      <4>4. cookie[msg[d].UserName] = msg[d].PassWord
        BY <2>1, <3>1 DEF Right, Current
      <4>. QED
        BY <1>2, <4>1, <4>3, <4>4
    <3>2. Verified(d)' = Verified(d)
      BY <2>1 DEF Verified, Same
    <3>. QED
      BY <1>1, <2>1, <3>1, <3>2 DEF Right, Current, Same
  <2>4. Given(d)'
    BY <1>1, <2>1 DEF Right, Given, Same
  <2>. QED
    BY <2>2, <2>3, <2>4 DEF Right
<1>. QED
  BY <1>3, <1>4, <1>5, <1>6, <1>7, <1>8 DEF IInv, Moves

(* The answer is prepared.                                                 *)
LEMMA RespondIInv ==
  ASSUME IInv, NEW c \in Conns, Respond(c)
  PROVE  IInv'
<1>1. /\ stage[c] = "out" /\ stage' = [stage EXCEPT ![c] = "sending"]
      /\ resp' = [resp EXCEPT ![c] = Page(msg[c])]
      /\ UNCHANGED <<from, request, cookies, got, msg, password, cookie, drawn, jar, sent, restarts,
                     apart, session, expects>>
  BY DEF Respond, client, table
<1>2. Moves(c) /\ stage'[c] = "sending" /\ resp'[c] = Page(msg[c])
  BY <1>1 DEF IInv, Functions, Moves, Same
<1>3. Tables'
  BY <1>1 DEF IInv, Tables
<1>4. DrawnForRequests'
  BY <1>1, DrawsRight DEF StageNames, MayLog
<1>5. KeptApart'
  BY <1>1, <1>2, StaysApart DEF InFlight, About
<1>6. Right(c)'
  <2>1. Typed(c) /\ StageRight(c) /\ TakenRight(c) /\ Current(c) /\ Given(c)
    BY DEF IInv, Right
  <2>2. Page(msg[c]) \in Messages
    BY <2>1, PageFacts DEF Typed
  <2>3. Typed(c)'
    BY <1>1, <1>2, <2>1, <2>2 DEF Typed, StageNames, Pieces, IsPost
  <2>4. StageRight(c)'
    BY <1>1, <1>2, <2>1 DEF StageRight, Page
  <2>5. TakenRight(c)' /\ Given(c)' /\ Current(c)'
    BY <1>1, <1>2, <2>1 DEF TakenRight, Welcomed, Anonymous, Verified, Given, Current
  <2>. QED
    BY <2>3, <2>4, <2>5 DEF Right
<1>. QED
  BY <1>1, <1>2, <1>3, <1>4, <1>5, <1>6, OneMoves

(* A connection whose request is over, however it ended.                   *)
LEMMA ResetRight ==
  ASSUME IInv, NEW c \in Conns, Reset(c), NEW s \in {"idle", "closed"},
         stage' = [stage EXCEPT ![c] = s], NEW b \in Browsers \cup {"nobody"},
         from' = [from EXCEPT ![c] = b], s = "idle" => b \in Browsers
  PROVE  Moves(c) /\ Right(c)' /\ ~InFlight(c)'
<1>1. /\ request' = [request EXCEPT ![c] = NoRequest] /\ cookies' = [cookies EXCEPT ![c] = {}]
      /\ got' = [got EXCEPT ![c] = 0] /\ msg' = [msg EXCEPT ![c] = Fresh]
      /\ resp' = [resp EXCEPT ![c] = NoResp] /\ expects' = [expects EXCEPT ![c] = "unknown"]
  BY DEF Reset
<1>2. /\ Functions' /\ stage'[c] = s /\ from'[c] = b /\ request'[c] = NoRequest
      /\ cookies'[c] = {} /\ got'[c] = 0 /\ msg'[c] = Fresh /\ resp'[c] = NoResp
      /\ expects'[c] = "unknown"
  BY <1>1 DEF IInv, Functions
<1>3. \A d \in Conns \ {c} : Same(d)
  BY <1>1 DEF IInv, Functions, Same
<1>4. Typed(c)'
  <2>1. Pieces(c)' \in {1, 2}
    BY DEF Pieces
  <2>2. got'[c] \in 0..Pieces(c)'
    BY <1>2, <2>1
  <2>. QED
    BY <1>2, <2>2, MessageFacts DEF Typed, StageNames
<1>5. StageRight(c)'
  BY <1>2 DEF StageRight
<1>6. TakenRight(c)' /\ Current(c)' /\ Given(c)'
  BY <1>2, MessageFacts DEF TakenRight, Anonymous, Current, Verified, Given
<1>7. ~InFlight(c)'
  BY <1>2 DEF InFlight
<1>. QED
  BY <1>2, <1>3, <1>4, <1>5, <1>6, <1>7 DEF Right, Moves

(* The answer arrives.                                                     *)
LEMMA DeliverIInv ==
  ASSUME IInv, NEW c \in Conns, Deliver(c)
  PROVE  IInv'
<1>1. /\ stage[c] = "sending" /\ Reset(c)
      /\ jar' = [jar EXCEPT ![from[c]] = Kept(c)]
      /\ session' = [session EXCEPT ![from[c]] = SessionAfter(c)]
      /\ UNCHANGED <<password, cookie, drawn, sent, restarts, apart>>
  BY DEF Deliver, table
<1>2. Right(c)
  BY DEF IInv
<1>3. from[c] \in Browsers /\ resp[c] \in Messages /\ resp[c] = Page(msg[c]) /\ msg[c] \in Messages
  BY <1>1, <1>2 DEF Right, Typed, StageRight
<1>4. PICK s \in {"idle", "closed"}, b \in Browsers \cup {"nobody"} :
        /\ stage' = [stage EXCEPT ![c] = s] /\ from' = [from EXCEPT ![c] = b]
        /\ s = "idle" => b \in Browsers
  <2>1. CASE stage' = [stage EXCEPT ![c] = "idle"] /\ UNCHANGED from
    <3>1. from' = [from EXCEPT ![c] = from[c]]
      BY <2>1 DEF IInv, Functions
    <3>. QED
      BY <1>3, <2>1, <3>1
  <2>2. CASE stage' = [stage EXCEPT ![c] = "closed"] /\ from' = [from EXCEPT ![c] = "nobody"]
    BY <2>2
  <2>. QED
    BY <2>1, <2>2 DEF Deliver
<1>5. Moves(c) /\ Right(c)' /\ ~InFlight(c)'
  BY <1>1, <1>4, ResetRight
<1>6. Tables'
  <2>1. resp[c].UserName \in Users \/ ~resp[c].isSetCookie
    <3>1. resp[c].UserName = msg[c].UserName /\ resp[c].isSetCookie = msg[c].isSetCookie
      BY <1>3, PageFacts
    <3>2. CASE msg[c].Path = "welcome"
      BY <1>2, <3>1, <3>2, FormFacts DEF Right, TakenRight, Welcomed
    <3>3. CASE msg[c].Path # "welcome"
      BY <1>2, <3>1, <3>3 DEF Right, TakenRight, Anonymous, Verified
    <3>. QED
      BY <3>2, <3>3
  <2>2. resp[c].UserName \in Users \cup {""} /\ resp[c].PassWord \in Values
    BY <1>3 DEF Messages
  <2>3. Kept(c) \in [Users -> Values]
    <3>1. jar[from[c]] \in [Users -> Values]
      BY <1>3 DEF IInv, Tables
    <3>2. 0 \in Values
      BY ValuesFacts
    <3>. QED
      BY <2>1, <2>2, <3>1, <3>2 DEF Kept
  <2>4. SessionAfter(c) \in Users \cup {"unknown", "out"}
    <3>1. resp[c].Path = "welcome" => resp[c].UserName \in Users
      <4>1. resp[c].Path = "welcome" => msg[c].Path = "welcome"
        BY <1>3, PageFacts
      <4>2. resp[c].UserName = msg[c].UserName
        BY <1>3, PageFacts
      <4>. QED
        BY <1>2, <4>1, <4>2, FormFacts DEF Right, TakenRight, Welcomed
    <3>2. session[from[c]] \in Users \cup {"unknown", "out"}
      BY <1>3 DEF IInv, Tables
    <3>. QED
      BY <3>1, <3>2 DEF SessionAfter
  <2>. QED
    BY <1>1, <2>3, <2>4 DEF IInv, Tables
<1>7. DrawnForRequests'
  BY <1>1, <1>4, DrawsRight DEF StageNames, MayLog
<1>8. KeptApart'
  BY <1>1, <1>5, StaysApart
<1>. QED
  BY <1>1, <1>5, <1>6, <1>7, <1>8, OneMoves

(* The client goes away.                                                   *)
LEMMA HangupIInv ==
  ASSUME IInv, NEW c \in Conns, Hangup(c)
  PROVE  IInv'
<1>1. /\ Reset(c) /\ stage' = [stage EXCEPT ![c] = "closed"]
      /\ from' = [from EXCEPT ![c] = "nobody"]
      /\ UNCHANGED <<password, cookie, drawn, jar, sent, restarts, apart, session>>
  BY DEF Hangup, table
<1>2. Moves(c) /\ Right(c)' /\ ~InFlight(c)'
  BY <1>1, ResetRight
<1>3. Tables'
  BY <1>1 DEF IInv, Tables
<1>4. DrawnForRequests'
  BY <1>1, DrawsRight DEF StageNames, MayLog
<1>5. KeptApart'
  BY <1>1, <1>2, StaysApart
<1>. QED
  BY <1>1, <1>2, <1>3, <1>4, <1>5, OneMoves

(* The tracker is started again.                                           *)
LEMMA RestartIInv ==
  ASSUME IInv, Restart
  PROVE  IInv'
<1>1. /\ restarts' = restarts + 1 /\ drawn' = 0
      /\ stage' = [c \in Conns |-> "closed"] /\ from' = [c \in Conns |-> "nobody"]
      /\ request' = [c \in Conns |-> NoRequest] /\ cookies' = [c \in Conns |-> {}]
      /\ got' = [c \in Conns |-> 0] /\ msg' = [c \in Conns |-> Fresh]
      /\ resp' = [c \in Conns |-> NoResp] /\ expects' = [c \in Conns |-> "unknown"]
      /\ UNCHANGED <<password, cookie, jar, sent, apart, session>>
  BY DEF Restart
<1>2. Functions'
  <2>1. stage' = [c \in Conns |-> stage'[c]] /\ from' = [c \in Conns |-> from'[c]]
    BY <1>1
  <2>2. request' = [c \in Conns |-> request'[c]] /\ cookies' = [c \in Conns |-> cookies'[c]]
    BY <1>1
  <2>3. got' = [c \in Conns |-> got'[c]] /\ msg' = [c \in Conns |-> msg'[c]]
    BY <1>1
  <2>4. resp' = [c \in Conns |-> resp'[c]] /\ expects' = [c \in Conns |-> expects'[c]]
    BY <1>1
  <2>. QED
    BY <2>1, <2>2, <2>3, <2>4 DEF Functions
<1>3. Tables'
  <2>1. restarts' \in Nat
    <3>1. restarts \in Nat
      BY DEF IInv, Tables
    <3>2. restarts' = restarts + 1
      BY DEF Restart
    <3>. QED
      BY <3>1, <3>2
  <2>2. UNCHANGED <<password, cookie, jar, apart, session>>
    BY <1>1
  <2>. QED
    BY <2>1, <2>2 DEF IInv, Tables
<1>4. DrawnForRequests'
  <2>1. Pending' = {}
    BY <1>1 DEF Pending, MayLog
  <2>2. IsFiniteSet(Pending') /\ Cardinality(Pending') = 0
    BY <2>1, FS_EmptySet
  <2>3. sent \in 0..MaxRequests /\ MaxRequests \in Nat
    BY HttpAssumption DEF IInv, DrawnForRequests
  <2>. QED
    BY <1>1, <2>2, <2>3 DEF DrawnForRequests
<1>5. KeptApart'
  BY <1>1 DEF KeptApart, InFlight
<1>6. ASSUME NEW c \in Conns PROVE Right(c)'
  <2>1. /\ stage'[c] = "closed" /\ from'[c] = "nobody" /\ request'[c] = NoRequest
        /\ cookies'[c] = {} /\ got'[c] = 0 /\ msg'[c] = Fresh /\ resp'[c] = NoResp
        /\ expects'[c] = "unknown"
    BY <1>1
  <2>2. Typed(c)'
    <3>1. Pieces(c)' \in {1, 2}
      BY DEF Pieces
    <3>2. got'[c] \in 0..Pieces(c)'
      BY <2>1, <3>1
    <3>. QED
      BY <2>1, <3>2, MessageFacts DEF Typed, StageNames
  <2>3. StageRight(c)'
    BY <2>1 DEF StageRight
  <2>4. TakenRight(c)' /\ Current(c)' /\ Given(c)'
    BY <2>1, MessageFacts DEF TakenRight, Anonymous, Current, Verified, Given
  <2>. QED
    BY <2>2, <2>3, <2>4 DEF Right
<1>. QED
  BY <1>2, <1>3, <1>4, <1>5, <1>6 DEF IInv

LEMMA NextIInv == IInv /\ [Next]_vars => IInv'
<1>. SUFFICES ASSUME IInv, [Next]_vars PROVE IInv'
  OBVIOUS
<1>1. CASE Next
  <2>1. CASE Restart
    BY <2>1, RestartIInv
  <2>2. CASE \E b \in Browsers, u \in Users : Expire(b, u)
    BY <2>2, ExpireIInv
  <2>3. ASSUME NEW c \in Conns, Connect(c) \/ Send(c) \/ Recv(c) \/ Handle(c) \/ Hangup(c)
        PROVE  IInv'
    BY <2>3, ConnectIInv, SendIInv, RecvIInv, VerifyCookieIInv, SelectIInv, InsertIInv,
       UpdateIInv, RespondIInv, DeliverIInv, HangupIInv DEF Handle
  <2>. QED
    BY <1>1, <2>1, <2>2, <2>3 DEF Next
<1>2. CASE UNCHANGED vars
  <2>1. Functions' /\ Tables' /\ DrawnForRequests' /\ KeptApart'
    BY <1>2 DEF vars, IInv, Functions, Tables, DrawnForRequests, Pending, KeptApart, InFlight, About
  <2>2. \A d \in Conns : Right(d)'
    BY <1>2, Untouched DEF vars, IInv, Same
  <2>. QED
    BY <2>1, <2>2 DEF IInv
<1>. QED
  BY <1>1, <1>2

(* The invariant has every part of TypeOK.                                 *)
LEMMA IInvTyped == IInv => TypeOK
<1>. SUFFICES ASSUME IInv PROVE TypeOK
  OBVIOUS
<1>1. /\ stage \in [Conns -> StageNames] /\ from \in [Conns -> Browsers \cup {"nobody"}]
      /\ request \in [Conns -> Gets \cup Forms \cup {NoRequest}]
      /\ cookies \in [Conns -> SUBSET (Users \X Values)]
  BY DEF IInv, Functions, Right, Typed
<1>2. /\ msg \in [Conns -> Messages] /\ resp \in [Conns -> Messages]
      /\ expects \in [Conns -> Users \cup {"unknown", "out"}]
      /\ \A c \in Conns : got[c] \in 0..Pieces(c)
  BY DEF IInv, Functions, Right, Typed
<1>3. drawn \in Values
  <2>1. /\ drawn \in Nat /\ sent \in 0..MaxRequests /\ drawn + Cardinality(Pending) <= sent
        /\ IsFiniteSet(Pending)
    BY DEF IInv, DrawnForRequests
  <2>2. Cardinality(Pending) \in Nat
    BY <2>1, FS_CardinalityType
  <2>3. MaxRequests \in Nat
    BY HttpAssumption
  <2>. QED
    BY <2>1, <2>2, <2>3 DEF Values
<1>. QED
  BY <1>1, <1>2, <1>3 DEF IInv, Tables, TypeOK, StageNames

LEMMA IInvWelcomes == IInv => WelcomesRightly
<1>. SUFFICES ASSUME IInv, NEW c \in Conns, resp[c].Path = "welcome",
                     apart \/ request[c].Path = "login"
              PROVE  resp[c].UserName = request[c].name
                     /\ password[request[c].name] = request[c].password
  BY DEF WelcomesRightly
<1>1. Typed(c) /\ StageRight(c) /\ TakenRight(c) /\ Given(c)
  BY DEF IInv, Right
<1>2. resp[c] = Page(msg[c]) /\ msg[c] \in Messages
  BY <1>1, MessageFacts DEF StageRight, Typed
<1>3. msg[c].Path = "welcome" /\ resp[c].UserName = msg[c].UserName
  BY <1>2, PageFacts
<1>. QED
  BY <1>1, <1>3 DEF TakenRight, Welcomed, Given

(* A cookie that was looked up is written back as it is.                   *)
LEMMA RefusalsWriteBack ==
  ASSUME IInv, NEW c \in Conns, Update(c), apart, msg[c].Path # "welcome"
  PROVE  cookie' = cookie
<1>1. Right(c)
  BY DEF IInv
<1>2. cookie' = cookie \/ cookie' = [cookie EXCEPT ![msg[c].UserName] = msg[c].PassWord]
  BY DEF Update
<1>3. Verified(c)
  BY <1>1, <1>2, UpdateFacts DEF Right, TakenRight, Anonymous
<1>4. cookie[msg[c].UserName] = msg[c].PassWord /\ cookie \in [Users -> Values]
  BY <1>1, <1>3 DEF Right, Current, IInv, Tables
<1>. QED
  BY <1>2, <1>4

-----------------------------------------------------------------------------
(* Sessions.                                                               *)

IsWelcome(c) == msg[c].Path = "welcome"

(* Until the tracker is restarted every login has a value of its own, and  *)
(* nothing keeps it from the table.                                        *)
DrawRight(c) ==
  /\ msg[c].PassWord <= drawn
  /\ \A d \in Conns \ {c} : IsWelcome(d) => msg[d].PassWord # msg[c].PassWord
  /\ IF stage[c] = "update" THEN \A u \in Users : cookie[u] # msg[c].PassWord
     ELSE cookie[msg[c].UserName] = msg[c].PassWord

Draws ==
  apart /\ restarts = 0 =>
    (\A u \in Users : cookie[u] <= drawn) /\ (\A c \in Conns : IsWelcome(c) => DrawRight(c))

(* A browser that was told it is logged in has the cookie of the table,    *)
(* and one that was told it is logged out has none.                        *)
SessionRight(b) ==
  /\ session[b] \in Users => jar[b][session[b]] # 0 /\ cookie[session[b]] = jar[b][session[b]]
  /\ session[b] = "out" => \A u \in Users : jar[b][u] = 0
  /\ \A c \in Conns : IsWelcome(c) => session[b] # msg[c].UserName

SessionCurrent == apart => \A b \in Browsers : SessionRight(b)

(* While its request is in flight a browser has no other cookies than the  *)
(* request.                                                                *)
HeaderRight(c) ==
  /\ \A u \in Users : jar[from[c]][u] # 0 => <<u, jar[from[c]][u]>> \in cookies[c]
  /\ session[from[c]] = "out" => cookies[c] = {}

HeaderCurrent == apart => \A c \in Conns : InFlight(c) => HeaderRight(c)

(* Whom a request for a page is expected to come from, its cookie says, and *)
(* in the end the message.                                                 *)
ExpectsRight(c) ==
  /\ expects[c] = "out" => cookies[c] = {}
  /\ expects[c] \in Users =>
       /\ cookies[c] = {<<expects[c], cookie[expects[c]]>>}
       /\ stage[c] \in {"out", "sending"} => msg[c].UserName = expects[c]

AsExpected == apart => \A c \in Conns : InFlight(c) /\ ~IsPost(request[c]) => ExpectsRight(c)

SInv == Draws /\ SessionCurrent /\ HeaderCurrent /\ AsExpected

(* What a step of a connection does to what the others are welcomed with,  *)
(* expected to be and have sent: nothing.                                  *)
LEMMA OthersSame ==
  ASSUME NEW d, Same(d)
  PROVE  /\ IsWelcome(d)' = IsWelcome(d) /\ InFlight(d)' = InFlight(d)
         /\ IsPost(request[d])' = IsPost(request[d])
         /\ UNCHANGED <<jar, session>> /\ HeaderRight(d) => HeaderRight(d)'
         /\ UNCHANGED cookie /\ ExpectsRight(d) => ExpectsRight(d)'
<1>1. IsWelcome(d)' = IsWelcome(d) /\ InFlight(d)' = InFlight(d)
      /\ IsPost(request[d])' = IsPost(request[d])
  BY DEF Same, IsWelcome, InFlight, IsPost
<1>2. UNCHANGED <<jar, session>> /\ HeaderRight(d) => HeaderRight(d)'
  BY DEF Same, HeaderRight
<1>3. UNCHANGED cookie /\ ExpectsRight(d) => ExpectsRight(d)'
  BY DEF Same, ExpectsRight
<1>. QED
  BY <1>1, <1>2, <1>3

(* Who is welcomed is a user his request is about; two that do not overlap *)
(* are not the same.                                                       *)
LEMMA WelcomeFacts ==
  ASSUME IInv, NEW c \in Conns, IsWelcome(c)
  PROVE  /\ Welcomed(c) /\ InFlight(c) /\ msg[c].UserName \in Users /\ msg[c].UserName \in About(c)
         /\ msg[c].PassWord \in Values
         /\ \A d \in Conns \ {c} : apart /\ IsWelcome(d) => msg[d].UserName # msg[c].UserName
<1>1. ASSUME NEW d \in Conns, IsWelcome(d)
      PROVE  Welcomed(d) /\ InFlight(d) /\ msg[d].UserName \in Users /\ msg[d].UserName \in About(d)
  <2>1. Welcomed(d)
    BY <1>1 DEF IInv, Right, TakenRight, IsWelcome
  <2>2. msg[d].UserName = request[d].name /\ request[d].name \in Users /\ request[d].name # ""
    BY <2>1, FormFacts DEF Welcomed
  <2>. QED
    BY <2>1, <2>2 DEF Welcomed, InFlight, About
<1>2. \A d \in Conns \ {c} : apart /\ IsWelcome(d) => msg[d].UserName # msg[c].UserName
  BY <1>1 DEF IInv, KeptApart
<1>3. msg[c].PassWord \in Values
  BY DEF IInv, Right, Typed, Messages
<1>. QED
  BY <1>1, <1>2, <1>3

(* A step of one connection that logs nobody in and leaves the tables, the *)
(* browsers' cookies and its request alone.                                *)
Quiet(c) ==
  /\ Moves(c) /\ UNCHANGED <<cookie, drawn, jar, session, restarts>> /\ (apart' => apart)
  /\ IsWelcome(c)' => IsWelcome(c) /\ msg'[c] = msg[c] /\ (stage'[c] = "update" <=> stage[c] = "update")

LEMMA QuietKeeps ==
  ASSUME IInv, SInv, NEW c \in Conns, Quiet(c)
  PROVE  Draws' /\ SessionCurrent'
<1>1. \A d \in Conns : IsWelcome(d)' =>
        IsWelcome(d) /\ msg'[d] = msg[d] /\ (stage'[d] = "update" <=> stage[d] = "update")
  BY DEF Quiet, Moves, Same, IsWelcome
<1>2. Draws'
  BY <1>1 DEF SInv, Draws, DrawRight, Quiet
<1>3. SessionCurrent'
  BY <1>1 DEF SInv, SessionCurrent, SessionRight, Quiet
<1>. QED
  BY <1>2, <1>3

(* If it sends no request either, it only has to come to the right answer. *)
LEMMA QuietMoves ==
  ASSUME IInv, SInv, NEW c \in Conns, Quiet(c),
         InFlight(c)' => InFlight(c) /\ UNCHANGED <<from, request, cookies, expects>>,
         apart' /\ InFlight(c)' /\ ~IsPost(request[c]) /\ expects[c] \in Users
           /\ stage'[c] \in {"out", "sending"} => msg'[c].UserName = expects[c]
  PROVE  SInv'
<1>1. \A d \in Conns \ {c} : Same(d)
  BY DEF Quiet, Moves
<1>2. HeaderCurrent'
  <2>. SUFFICES ASSUME apart', NEW d \in Conns, InFlight(d)' PROVE HeaderRight(d)'
    BY DEF HeaderCurrent
  <2>1. CASE d = c
    BY <2>1 DEF SInv, HeaderCurrent, HeaderRight, Quiet
  <2>2. CASE d # c
    BY <1>1, <2>2, OthersSame DEF SInv, HeaderCurrent, Quiet
  <2>. QED
    BY <2>1, <2>2
<1>3. AsExpected'
  <2>. SUFFICES ASSUME apart', NEW d \in Conns, InFlight(d)', ~IsPost(request[d])'
                PROVE  ExpectsRight(d)'
    BY DEF AsExpected
  <2>1. CASE d = c
    BY <2>1 DEF SInv, AsExpected, ExpectsRight, Quiet, IsPost
  <2>2. CASE d # c
    BY <1>1, <2>2, OthersSame DEF SInv, AsExpected, Quiet
  <2>. QED
    BY <2>1, <2>2
<1>. QED
  BY <1>2, <1>3, QuietKeeps DEF SInv

LEMMA InitSInv == Init => SInv
<1>. SUFFICES ASSUME Init PROVE SInv
  OBVIOUS
<1>1. \A c \in Conns : ~IsWelcome(c) /\ ~InFlight(c)
  BY MessageFacts DEF Init, IsWelcome, InFlight
<1>2. Draws
  BY <1>1 DEF Init, Draws
<1>3. SessionCurrent
  BY <1>1, HttpAssumption DEF Init, SessionCurrent, SessionRight
<1>. QED
  BY <1>1, <1>2, <1>3 DEF SInv, HeaderCurrent, AsExpected

LEMMA ConnectSInv ==
  ASSUME IInv, SInv, NEW c \in Conns, Connect(c)
  PROVE  SInv'
<1>1. /\ stage[c] = "closed" /\ stage' = [stage EXCEPT ![c] = "idle"]
      /\ UNCHANGED <<request, cookies, got, msg, resp, cookie, drawn, jar, restarts, apart,
                     session, expects>>
  BY DEF Connect, table
<1>2. PICK b \in Browsers : from' = [from EXCEPT ![c] = b]
  BY DEF Connect
<1>3. Moves(c) /\ stage'[c] = "idle"
  BY <1>1, <1>2 DEF IInv, Functions, Moves, Same
<1>4. Quiet(c) /\ ~InFlight(c)'
  BY <1>1, <1>3 DEF Quiet, IsWelcome, InFlight
<1>. QED
  BY <1>4, QuietMoves

LEMMA RecvSInv ==
  ASSUME IInv, SInv, NEW c \in Conns, Recv(c)
  PROVE  SInv'
<1>1. PICK g \in (got[c] + 1)..Pieces(c) :
        /\ got' = [got EXCEPT ![c] = g]
        /\ msg' = [msg EXCEPT ![c].Path = request[c].Path]
        /\ stage' = [stage EXCEPT ![c] =
             IF got[c] = 0 /\ cookies[c] # {} THEN "cookie" ELSE ServesNext(c, g)]
  BY DEF Recv
<1>2. /\ stage[c] = "in"
      /\ UNCHANGED <<from, request, cookies, resp, cookie, drawn, jar, restarts, apart, session,
                     expects>>
  BY DEF Recv, client, table
<1>3. Typed(c) /\ StageRight(c) /\ InFlight(c)
  BY <1>2 DEF IInv, Right, InFlight
<1>4. got[c] \in Nat /\ Pieces(c) \in Nat /\ g \in 1..Pieces(c)
  BY <1>3, PiecesFacts DEF Typed
<1>5. /\ stage'[c] = IF got[c] = 0 /\ cookies[c] # {} THEN "cookie" ELSE ServesNext(c, g)
      /\ msg'[c] = [msg[c] EXCEPT !.Path = request[c].Path] /\ Moves(c)
  BY <1>1, <1>2 DEF IInv, Functions, Moves, Same
<1>6. stage'[c] \in {"cookie", "in", "select", "out"}
  BY <1>3, <1>4, <1>5, ServesNextFacts
<1>7. ~IsWelcome(c)'
  <2>1. request[c].Path # "welcome"
    BY <1>3, FormFacts, GetFacts DEF Typed
  <2>. QED
    BY <1>3, <1>5, <2>1 DEF Typed, Messages, IsWelcome
<1>8. Quiet(c)
  BY <1>2, <1>5, <1>7 DEF Quiet
<1>9. ASSUME apart', ~IsPost(request[c]), expects[c] \in Users
      PROVE  stage'[c] \notin {"out", "sending"}
  <2>1. cookies[c] # {}
    BY <1>2, <1>3, <1>9 DEF SInv, AsExpected, ExpectsRight
  <2>2. got[c] = 0
    <3>1. Pieces(c) = 1 /\ got[c] < Pieces(c)
      BY <1>2, <1>3, <1>9, PiecesFacts DEF StageRight
    <3>. QED
      BY <1>4, <3>1
  <2>. QED
    BY <1>5, <2>1, <2>2
<1>. QED
  BY <1>2, <1>3, <1>8, <1>9, QuietMoves

LEMMA VerifyCookieSInv ==
  ASSUME IInv, SInv, NEW c \in Conns, VerifyCookie(c)
  PROVE  SInv'
<1>1. /\ stage[c] = "cookie" /\ stage' = [stage EXCEPT ![c] = ServesNext(c, got[c])]
      /\ UNCHANGED <<from, request, cookies, got, resp, cookie, drawn, jar, restarts, apart,
                     session, expects>>
  BY DEF VerifyCookie, client, table
<1>2. Right(c) /\ InFlight(c)
  BY <1>1 DEF IInv, InFlight
<1>3. msg' = msg \/ \E m : msg' = [msg EXCEPT ![c] = m]
  BY DEF VerifyCookie
<1>4. Moves(c)
  BY <1>1, <1>3 DEF IInv, Functions, Moves, Same
<1>5. /\ ~IsWelcome(c)'
      /\ \A u \in Users : cookies[c] = {<<u, cookie[u]>>} => msg'[c].UserName = u
  <2>0. msg[c].Path # "welcome"
    BY <1>1, <1>2 DEF Right, TakenRight, Welcomed
  <2>1. CASE Known(c) = {} /\ UNCHANGED msg
    BY <2>0, <2>1 DEF Known, IsWelcome
  <2>2. CASE \E u \in Known(c), v \in Values :
               /\ cookies[c] = {<<u, v>>}
               /\ msg' = [msg EXCEPT ![c] =
                    [UserName |-> u, PassWord |-> v, isSetCookie |-> TRUE, Path |-> @.Path]]
    <3>1. PICK u \in Known(c), v \in Values :
               /\ cookies[c] = {<<u, v>>}
               /\ msg' = [msg EXCEPT ![c] =
                    [UserName |-> u, PassWord |-> v, isSetCookie |-> TRUE, Path |-> @.Path]]
      BY <2>2
    <3>2. msg'[c] = [UserName |-> u, PassWord |-> v, isSetCookie |-> TRUE, Path |-> msg[c].Path]
      BY <3>1, MessageSet DEF IInv
    <3>3. msg'[c].Path # "welcome" /\ msg'[c].UserName = u
      BY <2>0, <3>2
    <3>4. ASSUME NEW w \in Users, cookies[c] = {<<w, cookie[w]>>} PROVE u = w
      <4>1. <<u, v>> \in {<<w, cookie[w]>>}
        BY <3>1, <3>4
      <4>. QED
        BY <4>1
    <3>. QED
      BY <3>3, <3>4 DEF IsWelcome
  <2>. QED
    BY <2>1, <2>2 DEF VerifyCookie
<1>6. Quiet(c)
  BY <1>1, <1>4, <1>5 DEF Quiet
<1>7. ASSUME apart, ~IsPost(request[c]), expects[c] \in Users
      PROVE  msg'[c].UserName = expects[c]
  BY <1>2, <1>5, <1>7 DEF SInv, AsExpected, ExpectsRight
<1>. QED
  BY <1>1, <1>2, <1>6, <1>7, QuietMoves

LEMMA RespondSInv ==
  ASSUME IInv, SInv, NEW c \in Conns, Respond(c)
  PROVE  SInv'
<1>1. /\ stage[c] = "out" /\ stage' = [stage EXCEPT ![c] = "sending"]
      /\ resp' = [resp EXCEPT ![c] = Page(msg[c])]
      /\ UNCHANGED <<from, request, cookies, got, msg, cookie, drawn, jar, restarts, apart, session,
                     expects>>
  BY DEF Respond, client, table
<1>2. Moves(c) /\ stage'[c] = "sending"
  BY <1>1 DEF IInv, Functions, Moves, Same
<1>3. Quiet(c) /\ InFlight(c)
  BY <1>1, <1>2 DEF Quiet, IsWelcome, InFlight
<1>4. apart /\ ~IsPost(request[c]) /\ expects[c] \in Users => msg[c].UserName = expects[c]
  BY <1>1, <1>3 DEF SInv, AsExpected, ExpectsRight
<1>. QED
  BY <1>1, <1>3, <1>4, QuietMoves

LEMMA HangupSInv ==
  ASSUME IInv, SInv, NEW c \in Conns, Hangup(c)
  PROVE  SInv'
<1>1. /\ Reset(c) /\ stage' = [stage EXCEPT ![c] = "closed"]
      /\ from' = [from EXCEPT ![c] = "nobody"]
      /\ UNCHANGED <<cookie, drawn, jar, restarts, apart, session>>
  BY DEF Hangup, table
<1>2. Moves(c) /\ ~InFlight(c)'
  BY <1>1, ResetRight
<1>3. msg'[c] = Fresh
  BY <1>1, MessageSet DEF IInv, Reset
<1>4. Quiet(c)
  BY <1>1, <1>2, <1>3, MessageFacts DEF Quiet, IsWelcome
<1>. QED
  BY <1>2, <1>4, QuietMoves

LEMMA RestartSInv ==
  ASSUME IInv, SInv, Restart
  PROVE  SInv'
<1>1. /\ restarts' = restarts + 1 /\ stage' = [c \in Conns |-> "closed"]
      /\ msg' = [c \in Conns |-> Fresh] /\ UNCHANGED <<cookie, jar, apart, session>>
  BY DEF Restart
<1>2. \A c \in Conns : ~IsWelcome(c)' /\ ~InFlight(c)'
  BY <1>1, MessageFacts DEF IsWelcome, InFlight
<1>3. restarts' # 0
  <2>1. restarts \in Nat
    BY DEF IInv, Tables
  <2>2. restarts' = restarts + 1
    BY <1>1
  <2>. QED
    BY <2>1, <2>2
<1>4. SessionCurrent'
  BY <1>1, <1>2 DEF SInv, SessionCurrent, SessionRight
<1>. QED
  BY <1>2, <1>3, <1>4 DEF SInv, Draws, HeaderCurrent, AsExpected

LEMMA SendSInv ==
  ASSUME IInv, SInv, NEW c \in Conns, Send(c)
  PROVE  SInv'
<1>1. PICK r \in Gets \cup Forms : request' = [request EXCEPT ![c] = r]
  BY DEF Send
<1>2. /\ stage[c] = "idle" /\ stage' = [stage EXCEPT ![c] = "in"]
      /\ cookies' = [cookies EXCEPT ![c] = Header(from[c])]
      /\ expects' = [expects EXCEPT ![c] = Expected(from[c])]
      /\ apart' => apart
      /\ UNCHANGED <<from, got, msg, resp, cookie, drawn, jar, restarts, session>>
  BY DEF Send, table
<1>3. /\ Moves(c) /\ stage'[c] = "in" /\ cookies'[c] = Header(from[c])
      /\ expects'[c] = Expected(from[c])
  BY <1>1, <1>2 DEF IInv, Functions, Moves, Same
<1>4. Right(c) /\ from[c] \in Browsers
  BY <1>2 DEF IInv, Right, Typed
<1>5. ~IsWelcome(c)
  BY <1>2, <1>4, MessageFacts DEF Right, StageRight, IsWelcome
<1>6. Quiet(c)
  BY <1>2, <1>3, <1>5 DEF Quiet, IsWelcome
<1>7. ASSUME apart' PROVE HeaderRight(c)'
  <2>1. \A u \in Users : jar[from[c]][u] # 0 => <<u, jar[from[c]][u]>> \in Header(from[c])
    BY <1>4, HeaderFacts DEF IInv
  <2>2. ASSUME session[from[c]] = "out" PROVE Header(from[c]) = {}
    <3>1. \A u \in Users : jar[from[c]][u] = 0
      BY <1>2, <1>4, <1>7, <2>2 DEF SInv, SessionCurrent, SessionRight
    <3>. QED
      BY <3>1 DEF Header
  <2>. QED
    BY <1>2, <1>3, <2>1, <2>2 DEF HeaderRight
<1>8. ASSUME apart' PROVE ExpectsRight(c)'
  <2>1. SessionRight(from[c])
    BY <1>2, <1>4, <1>8 DEF SInv, SessionCurrent
  <2>2. ASSUME Expected(from[c]) = "out" PROVE Header(from[c]) = {}
    <3>1. session[from[c]] = "out"
      BY <2>2 DEF Expected
    <3>2. \A u \in Users : jar[from[c]][u] = 0
      BY <2>1, <3>1 DEF SessionRight
    <3>. QED
      BY <3>2 DEF Header
  <2>3. ASSUME Expected(from[c]) \in Users
        PROVE  Header(from[c]) = {<<Expected(from[c]), cookie[Expected(from[c])]>>}
    <3>. DEFINE u == session[from[c]]
    <3>1. u \in Users /\ Expected(from[c]) = u /\ {p[1] : p \in Header(from[c])} = {u}
      BY <2>3, HttpAssumption DEF Expected
    <3>2. jar[from[c]][u] # 0 /\ cookie[u] = jar[from[c]][u]
      BY <2>1, <3>1 DEF SessionRight
    <3>3. <<u, cookie[u]>> \in Header(from[c])
      BY <1>4, <3>1, <3>2, HeaderFacts DEF IInv
    <3>4. ASSUME NEW p \in Header(from[c]) PROVE p = <<u, cookie[u]>>
      <4>1. PICK w \in Users : p = <<w, jar[from[c]][w]>>
        BY DEF Header
      <4>2. p[1] \in {u}
        BY <3>1
      <4>. QED
        BY <3>2, <4>1, <4>2
    <3>. QED
      BY <3>1, <3>3, <3>4
  <2>. QED
    BY <1>2, <1>3, <2>2, <2>3 DEF ExpectsRight
<1>9. HeaderCurrent'
  <2>1. \A d \in Conns \ {c} : apart' /\ InFlight(d)' => HeaderRight(d)'
    BY <1>2, <1>3, OthersSame DEF SInv, HeaderCurrent, Moves
  <2>. QED
    BY <1>7, <2>1 DEF HeaderCurrent
<1>10. AsExpected'
  <2>1. \A d \in Conns \ {c} : apart' /\ InFlight(d)' /\ ~IsPost(request[d])' => ExpectsRight(d)'
    BY <1>2, <1>3, OthersSame DEF SInv, AsExpected, Moves
  <2>. QED
    BY <1>8, <2>1 DEF AsExpected
<1>. QED
  BY <1>6, <1>9, <1>10, QuietKeeps DEF SInv

LEMMA ExpireSInv ==
  ASSUME IInv, SInv, NEW b \in Browsers, NEW u \in Users, Expire(b, u)
  PROVE  SInv'
<1>1. /\ jar' = [jar EXCEPT ![b][u] = 0]
      /\ session' = [session EXCEPT ![b] = IF @ = u THEN "unknown" ELSE @]
      /\ UNCHANGED <<stage, from, request, cookies, msg, cookie, drawn, restarts, apart, expects>>
  BY DEF Expire, table
<1>2. /\ \A w \in Users : w # u => jar'[b][w] = jar[b][w]
      /\ jar'[b][u] = 0 /\ \A e \in Browsers \ {b} : jar'[e] = jar[e]
  BY <1>1 DEF IInv, Tables
<1>3. /\ session'[b] = IF session[b] = u THEN "unknown" ELSE session[b]
      /\ \A e \in Browsers \ {b} : session'[e] = session[e]
  BY <1>1 DEF IInv, Tables
<1>4. Draws'
  BY <1>1 DEF SInv, Draws, DrawRight, IsWelcome
<1>5. SessionCurrent'
  <2>. SUFFICES ASSUME apart, NEW e \in Browsers, SessionRight(e) PROVE SessionRight(e)'
    BY <1>1 DEF SInv, SessionCurrent
  <2>1. \A c \in Conns : IsWelcome(c)' = IsWelcome(c) /\ msg'[c] = msg[c]
    BY <1>1 DEF IsWelcome
  <2>2. CASE e # b
    BY <1>1, <1>2, <1>3, <2>1, <2>2 DEF SessionRight
  <2>3. CASE e = b /\ session[b] = u
    <3>1. session'[e] = "unknown" /\ "unknown" \notin Users
      BY <1>3, <2>3, HttpAssumption
    <3>2. \A c \in Conns : IsWelcome(c) => msg[c].UserName \in Users
      BY WelcomeFacts
    <3>. QED
      BY <2>1, <3>1, <3>2 DEF SessionRight
  <2>4. CASE e = b /\ session[b] # u
    <3>1. session'[e] = session[e]
      BY <1>3, <2>4
    <3>2. \A w \in Users : jar'[e][w] = jar[e][w] \/ (w = u /\ jar'[e][w] = 0)
      BY <1>2, <2>4
    <3>. QED
      BY <1>1, <2>1, <2>4, <3>1, <3>2 DEF SessionRight
  <2>. QED
    BY <2>2, <2>3, <2>4
<1>6. HeaderCurrent'
  <2>. SUFFICES ASSUME apart, NEW c \in Conns, InFlight(c), HeaderRight(c) PROVE HeaderRight(c)'
    BY <1>1 DEF SInv, HeaderCurrent, InFlight
  <2>1. from[c] \in Browsers
    BY DEF IInv, Right, Typed, InFlight
  <2>2. \A w \in Users : jar'[from[c]][w] = jar[from[c]][w] \/ jar'[from[c]][w] = 0
    BY <1>2, <2>1
  <2>3. session'[from[c]] = "out" => session[from[c]] = "out"
    BY <1>3, <2>1
  <2>. QED
    BY <1>1, <2>2, <2>3 DEF HeaderRight
<1>7. AsExpected'
  BY <1>1 DEF SInv, AsExpected, ExpectsRight, InFlight, IsPost
<1>. QED
  BY <1>4, <1>5, <1>6, <1>7 DEF SInv

(* A login takes the user away from wherever he was logged in before.      *)
LEMMA LogsSInv ==
  ASSUME IInv, SInv, NEW c \in Conns, stage[c] \in {"select", "insert"},
         Logs(c, request[c].name), stage' = [stage EXCEPT ![c] = "update"],
         UNCHANGED <<from, request, cookies, got, resp, cookie, jar, restarts, apart, expects>>
  PROVE  SInv'
<1>. DEFINE u == request[c].name
<1>1. /\ drawn' \in Values /\ drawn' # 0 /\ drawn' = drawn + 1
      /\ msg' = [msg EXCEPT ![c] = msg'[c]] /\ msg'[c].Path = "welcome"
      /\ msg'[c].UserName = u /\ msg'[c].PassWord = drawn' /\ u \in Users /\ request[c] \in Forms
  BY LogsFacts
<1>2. Moves(c) /\ stage'[c] = "update"
  BY <1>1 DEF IInv, Functions, Moves, Same
<1>3. \A e \in Browsers : session'[e] = IF e = from[c] \/ session[e] = u THEN "unknown" ELSE session[e]
  BY DEF Logs
<1>4. "unknown" \notin Users
  BY HttpAssumption
<1>5. \A d \in Conns \ {c} : Same(d) /\ IsWelcome(d)' = IsWelcome(d) /\ msg'[d] = msg[d]
  BY <1>2, OthersSame DEF Moves, Same
<1>6. drawn \in Nat
  BY DEF IInv, DrawnForRequests
<1>7. Draws'
  <2>. SUFFICES ASSUME apart, restarts = 0
                PROVE  /\ \A w \in Users : cookie'[w] <= drawn'
                       /\ \A e \in Conns : IsWelcome(e)' => DrawRight(e)'
    BY DEF Draws
  <2>1. \A w \in Users : cookie[w] \in Nat /\ cookie[w] <= drawn
    <3>1. \A w \in Users : cookie[w] \in Nat
      BY ValuesFacts DEF IInv, Tables
    <3>. QED
      BY <3>1 DEF SInv, Draws
  <2>2. \A d \in Conns : IsWelcome(d) => msg[d].PassWord \in Nat /\ DrawRight(d)
    BY WelcomeFacts, ValuesFacts DEF SInv, Draws
  <2>3. \A w \in Users : cookie[w] <= drawn' /\ cookie[w] # drawn'
    BY <1>1, <1>6, <2>1
  <2>4. \A d \in Conns \ {c} : IsWelcome(d)' => msg'[d].PassWord <= drawn' /\ msg'[d].PassWord # drawn'
    BY <1>1, <1>5, <1>6, <2>2 DEF DrawRight
  <2>5. ASSUME NEW e \in Conns \ {c}, IsWelcome(e)' PROVE DrawRight(e)'
    BY <1>1, <1>5, <2>2, <2>4, <2>5 DEF DrawRight, Same
  <2>6. DrawRight(c)'
    BY <1>1, <1>2, <1>6, <2>3, <2>4 DEF DrawRight
  <2>. QED
    BY <2>3, <2>5, <2>6
<1>8. SessionCurrent'
  <2>. SUFFICES ASSUME apart, NEW e \in Browsers, SessionRight(e) PROVE SessionRight(e)'
    BY DEF SInv, SessionCurrent
  <2>1. \A d \in Conns \ {c} : IsWelcome(d) => msg[d].UserName \in Users
    BY WelcomeFacts
  <2>. QED
    BY <1>1, <1>3, <1>4, <1>5, <2>1 DEF SessionRight, IsWelcome
<1>9. HeaderCurrent'
  <2>. SUFFICES ASSUME apart, NEW d \in Conns, InFlight(d), HeaderRight(d) PROVE HeaderRight(d)'
    BY <1>2, <1>5, OthersSame DEF SInv, HeaderCurrent, InFlight
  <2>1. from[d] \in Browsers
    BY DEF IInv, Right, Typed, InFlight
  <2>2. session'[from[d]] = "out" => session[from[d]] = "out"
    BY <1>3, <2>1
  <2>. QED
    BY <2>2 DEF HeaderRight
<1>10. AsExpected'
  <2>. SUFFICES ASSUME apart, NEW d \in Conns, InFlight(d)', ~IsPost(request[d])'
                PROVE  ExpectsRight(d)'
    BY DEF AsExpected
  <2>1. d # c
    BY <1>1 DEF IsPost
  <2>. QED
    BY <1>5, <2>1, OthersSame DEF SInv, AsExpected
<1>. QED
  BY <1>7, <1>8, <1>9, <1>10 DEF SInv

LEMMA SelectSInv ==
  ASSUME IInv, SInv, NEW c \in Conns, Select(c)
  PROVE  SInv'
<1>. DEFINE r == request[c]
            update == IF msg[c].PassWord # 0 THEN "update" ELSE "out"
<1>1. /\ stage[c] = "select"
      /\ UNCHANGED <<from, request, cookies, got, resp, cookie, jar, restarts, apart, expects>>
  BY DEF Select
<1>2. Right(c) /\ InFlight(c) /\ IsPost(r)
  BY <1>1 DEF IInv, Right, StageRight, InFlight, IsPost
<1>3. \/ Logs(c, r.name) /\ stage' = [stage EXCEPT ![c] = "update"]
      \/ \E page \in {"pwderr", "namerr"} :
           Refuses(c, page) /\ stage' = [stage EXCEPT ![c] = update]
      \/ stage' = [stage EXCEPT ![c] = "insert"] /\ UNCHANGED <<msg, drawn, session>>
  BY DEF Select
<1>4. CASE Logs(c, r.name) /\ stage' = [stage EXCEPT ![c] = "update"]
  BY <1>1, <1>4, LogsSInv
<1>5. CASE \E page \in {"pwderr", "namerr"} :
             Refuses(c, page) /\ stage' = [stage EXCEPT ![c] = update]
  <2>1. PICK page \in {"pwderr", "namerr"} :
             Refuses(c, page) /\ stage' = [stage EXCEPT ![c] = update]
    BY <1>5
  <2>2. msg' = [msg EXCEPT ![c].Path = page] /\ UNCHANGED <<drawn, session>>
    BY <2>1 DEF Refuses
  <2>3. Moves(c) /\ msg'[c] = [msg[c] EXCEPT !.Path = page]
    BY <1>1, <2>1, <2>2 DEF IInv, Functions, Moves, Same
  <2>4. ~IsWelcome(c)'
    BY <1>2, <2>3 DEF IsWelcome, Right, Typed, Messages
  <2>5. Quiet(c)
    BY <1>1, <2>2, <2>3, <2>4 DEF Quiet
  <2>. QED
    BY <1>1, <1>2, <2>5, QuietMoves
<1>6. CASE stage' = [stage EXCEPT ![c] = "insert"] /\ UNCHANGED <<msg, drawn, session>>
  <2>1. Moves(c) /\ stage'[c] = "insert"
    BY <1>1, <1>6 DEF IInv, Functions, Moves, Same
  <2>2. Quiet(c)
    BY <1>1, <1>6, <2>1 DEF Quiet, IsWelcome
  <2>. QED
    BY <1>1, <1>2, <2>2, QuietMoves
<1>. QED
  BY <1>3, <1>4, <1>5, <1>6

LEMMA InsertSInv ==
  ASSUME IInv, SInv, NEW c \in Conns, Insert(c)
  PROVE  SInv'
BY LogsSInv DEF Insert

LEMMA UpdateSInv ==
  ASSUME IInv, SInv, NEW c \in Conns, Update(c)
  PROVE  SInv'
<1>. DEFINE u == msg[c].UserName
<1>1. /\ stage[c] = "update" /\ stage' = [stage EXCEPT ![c] = "out"]
      /\ UNCHANGED <<from, request, cookies, got, msg, resp, drawn, jar, restarts, apart, session,
                     expects>>
  BY DEF Update, client
<1>2. /\ u \in Users /\ u \in About(c) /\ \A w \in Users \ {u} : cookie'[w] = cookie[w]
      /\ cookie' \in [Users -> Values]
  BY UpdateFacts
<1>3. Moves(c) /\ stage'[c] = "out"
  BY <1>1 DEF IInv, Functions, Moves, Same
<1>4. IsPost(request[c]) /\ InFlight(c)
  BY <1>1 DEF IInv, Right, StageRight, IsPost, InFlight
<1>5. CASE ~apart
  BY <1>1, <1>5 DEF SInv, Draws, SessionCurrent, HeaderCurrent, AsExpected
<1>6. CASE apart /\ ~IsWelcome(c)
  <2>1. cookie' = cookie
    BY <1>6, RefusalsWriteBack DEF IsWelcome
  <2>2. Quiet(c)
    BY <1>1, <1>3, <1>6, <2>1 DEF Quiet, IsWelcome
  <2>. QED
    BY <1>1, <1>4, <2>2, QuietMoves
<1>7. CASE apart /\ IsWelcome(c)
  <2>1. \A d \in Conns \ {c} : Same(d)
    BY <1>3 DEF Moves
  <2>2. \A d \in Conns : IsWelcome(d)' = IsWelcome(d) /\ InFlight(d)' = InFlight(d) /\ About(d)' = About(d)
    BY <1>1, <1>3, <1>4, <2>1 DEF IsWelcome, InFlight, Same, About
  <2>3. Draws'
    <3>. SUFFICES ASSUME restarts = 0
                  PROVE  /\ \A w \in Users : cookie'[w] <= drawn
                         /\ \A d \in Conns : IsWelcome(d) => DrawRight(d)'
      BY <1>1, <2>2 DEF Draws
    <3>1. (\A w \in Users : cookie[w] <= drawn) /\ (\A d \in Conns : IsWelcome(d) => DrawRight(d))
      BY <1>7 DEF SInv, Draws
    <3>2. msg[c].PassWord <= drawn /\ \A w \in Users : cookie[w] # msg[c].PassWord
      BY <1>1, <1>7, <3>1 DEF DrawRight
    <3>3. cookie'[u] = msg[c].PassWord
      <4>1. cookie' = [cookie EXCEPT ![u] = msg[c].PassWord]
        BY <3>2 DEF Update
      <4>. QED
        BY <1>2, <4>1 DEF IInv, Tables
    <3>4. \A w \in Users : cookie'[w] <= drawn
      BY <1>2, <3>1, <3>2, <3>3
    <3>5. DrawRight(c)'
      BY <1>1, <1>3, <1>7, <2>2, <3>1, <3>3 DEF DrawRight
    <3>6. ASSUME NEW d \in Conns \ {c}, IsWelcome(d) PROVE DrawRight(d)'
      <4>1. /\ DrawRight(d) /\ msg'[d] = msg[d] /\ stage'[d] = stage[d]
            /\ msg[c].PassWord # msg[d].PassWord
        BY <1>7, <2>1, <3>1, <3>6 DEF DrawRight, Same
      <4>2. msg[d].UserName \in Users /\ msg[d].UserName # u
        BY <1>7, <3>6, WelcomeFacts
      <4>3. \A e \in Conns \ {d} : IsWelcome(e)' => msg'[e].PassWord # msg'[d].PassWord
        BY <1>1, <2>2, <4>1 DEF DrawRight
      <4>4. IF stage[d] = "update" THEN \A w \in Users : cookie'[w] # msg[d].PassWord
            ELSE cookie'[msg[d].UserName] = msg[d].PassWord
        BY <1>2, <3>3, <4>1, <4>2 DEF DrawRight
      <4>. QED
        BY <1>1, <4>1, <4>3, <4>4 DEF DrawRight
    <3>. QED
      BY <3>4, <3>5, <3>6
  <2>4. SessionCurrent'
    <3>. SUFFICES ASSUME NEW b \in Browsers, SessionRight(b) PROVE SessionRight(b)'
      BY <1>1, <1>7 DEF SInv, SessionCurrent
    <3>1. session[b] # u
      BY <1>7 DEF SessionRight
    <3>. QED
      BY <1>1, <1>2, <2>2, <3>1 DEF SessionRight
  <2>5. HeaderCurrent'
    BY <1>1, <2>2 DEF SInv, HeaderCurrent, HeaderRight
  <2>6. AsExpected'
    <3>. SUFFICES ASSUME NEW d \in Conns, InFlight(d), ~IsPost(request[d]), ExpectsRight(d)
                  PROVE  ExpectsRight(d)'
      BY <1>1, <1>7, <2>2 DEF SInv, AsExpected, IsPost
    <3>1. d # c
      BY <1>4
    <3>2. CASE expects[d] \in Users
      <4>1. cookies[d] = {<<expects[d], cookie[expects[d]]>>}
        BY <3>2 DEF ExpectsRight
      <4>2. expects[d] \in About(d)
        <5>. DEFINE p == <<expects[d], cookie[expects[d]]>>
        <5>1. p \in cookies[d] /\ p[1] = expects[d]
          BY <4>1
        <5>2. p[1] \in {q[1] : q \in cookies[d]}
          BY <5>1
        <5>. QED
          BY <5>1, <5>2 DEF About
      <4>3. expects[d] # u
        BY <1>2, <1>4, <1>7, <3>1, <4>2 DEF IInv, KeptApart
      <4>. QED
        BY <1>1, <1>2, <2>1, <3>1, <3>2, <4>3 DEF ExpectsRight, Same
    <3>3. CASE expects[d] \notin Users
      BY <1>1, <3>3 DEF ExpectsRight
    <3>. QED
      BY <3>2, <3>3
  <2>. QED
    BY <2>3, <2>4, <2>5, <2>6 DEF SInv
<1>. QED
  BY <1>5, <1>6, <1>7

LEMMA DeliverSInv ==
  ASSUME IInv, SInv, NEW c \in Conns, Deliver(c)
  PROVE  SInv'
<1>0. PICK b \in Browsers : b = from[c]
  BY DEF Deliver, IInv, Right, Typed
<1>1. /\ stage[c] = "sending" /\ Reset(c)
      /\ jar' = [jar EXCEPT ![b] = Kept(c)] /\ session' = [session EXCEPT ![b] = SessionAfter(c)]
      /\ UNCHANGED <<cookie, drawn, restarts, apart>>
  BY <1>0 DEF Deliver, table
<1>2. Right(c) /\ InFlight(c)
  BY <1>1 DEF IInv, InFlight
<1>3. /\ resp[c].UserName = msg[c].UserName /\ resp[c].PassWord = msg[c].PassWord
      /\ resp[c].isSetCookie = msg[c].isSetCookie
      /\ resp[c].Path = "welcome" <=> IsWelcome(c)
  <2>1. resp[c] = Page(msg[c]) /\ msg[c] \in Messages
    BY <1>1, <1>2 DEF Right, Typed, StageRight
  <2>. QED
    BY <2>1, PageFacts DEF IsWelcome
<1>4. Moves(c) /\ ~InFlight(c)' /\ ~IsWelcome(c)'
  <2>1. PICK s \in {"idle", "closed"}, e \in Browsers \cup {"nobody"} :
          /\ stage' = [stage EXCEPT ![c] = s] /\ from' = [from EXCEPT ![c] = e]
          /\ s = "idle" => e \in Browsers
    <3>1. CASE stage' = [stage EXCEPT ![c] = "idle"] /\ UNCHANGED from
      <4>1. from' = [from EXCEPT ![c] = b]
        BY <1>0, <3>1 DEF IInv, Functions
      <4>. QED
        BY <1>0, <3>1, <4>1
    <3>2. CASE stage' = [stage EXCEPT ![c] = "closed"] /\ from' = [from EXCEPT ![c] = "nobody"]
      BY <3>2
    <3>. QED
      BY <3>1, <3>2 DEF Deliver
  <2>2. msg'[c] = Fresh
    BY <1>1, MessageSet DEF IInv, Reset
  <2>. QED
    BY <1>1, <2>1, <2>2, ResetRight, MessageFacts DEF IsWelcome
<1>5. \A d \in Conns \ {c} : Same(d)
  BY <1>4 DEF Moves
<1>6. /\ jar'[b] = Kept(c) /\ session'[b] = SessionAfter(c)
      /\ \A e \in Browsers \ {b} : jar'[e] = jar[e] /\ session'[e] = session[e]
  BY <1>1, <1>2 DEF IInv, Tables
<1>7. \A d \in Conns : IsWelcome(d)' => d # c /\ IsWelcome(d) /\ msg'[d] = msg[d] /\ stage'[d] = stage[d]
  BY <1>4, <1>5, OthersSame DEF Same
<1>8. Draws'
  BY <1>1, <1>7 DEF SInv, Draws, DrawRight
<1>9. ASSUME apart PROVE SessionRight(b)'
  <2>. DEFINE u == msg[c].UserName
  <2>1. SessionRight(b) /\ HeaderRight(c)
    BY <1>0, <1>2, <1>9 DEF SInv, SessionCurrent, HeaderCurrent
  <2>2. jar[b] \in [Users -> Values]
    BY <1>2 DEF IInv, Tables
  <2>3. CASE IsWelcome(c)
    <3>1. u \in Users /\ msg[c].PassWord # 0 /\ msg[c].isSetCookie
      BY <2>3, WelcomeFacts DEF Welcomed
    <3>2. SessionAfter(c) = IF restarts = 0 THEN u ELSE "unknown"
      BY <1>3, <2>3 DEF SessionAfter
    <3>3. jar'[b] = [jar[b] EXCEPT ![u] = msg[c].PassWord]
      BY <1>3, <1>0, <1>6, <2>3, <3>1 DEF Kept
    <3>4. restarts = 0 => cookie[u] = msg[c].PassWord
      BY <1>1, <1>9, <2>3 DEF SInv, Draws, DrawRight
    <3>5. \A d \in Conns : IsWelcome(d)' => msg'[d].UserName \in Users /\ msg'[d].UserName # u
      BY <1>7, <1>9, <2>3, WelcomeFacts
    <3>6. "unknown" \notin Users /\ "out" \notin Users
      BY HttpAssumption
    <3>. QED
      BY <1>1, <1>0, <1>6, <2>2, <3>1, <3>2, <3>3, <3>4, <3>5, <3>6 DEF SessionRight
  <2>4. CASE ~IsWelcome(c) /\ Anonymous(c)
    <3>1. jar'[b] = jar[b]
      BY <1>3, <1>0, <1>6, <2>4 DEF Kept, Anonymous
    <3>2. CASE resp[c].Path = "logout" /\ cookies[c] = {}
      <4>1. session'[b] = "out"
        BY <1>3, <1>0, <1>6, <3>2 DEF SessionAfter
      <4>2. \A w \in Users : jar[b][w] = 0
        BY <1>0, <2>1, <3>2 DEF HeaderRight
      <4>3. "out" \notin Users /\ \A d \in Conns : IsWelcome(d)' => msg'[d].UserName \in Users
        BY <1>7, WelcomeFacts, HttpAssumption
      <4>. QED
        BY <3>1, <4>1, <4>2, <4>3 DEF SessionRight
    <3>3. CASE resp[c].Path = "logout" /\ cookies[c] # {}
      <4>1. session'[b] = "unknown"
        BY <1>3, <1>0, <1>6, <2>4, <3>3 DEF SessionAfter, Anonymous
      <4>2. "unknown" \notin Users /\ \A d \in Conns : IsWelcome(d)' => msg'[d].UserName \in Users
        BY <1>7, WelcomeFacts, HttpAssumption
      <4>. QED
        BY <4>1, <4>2 DEF SessionRight
    <3>4. CASE resp[c].Path # "logout"
      <4>1. session'[b] = session[b]
        BY <1>3, <1>0, <1>6, <2>4, <3>4 DEF SessionAfter
      <4>. QED
        BY <1>1, <1>7, <2>1, <3>1, <4>1 DEF SessionRight
    <3>. QED
      BY <3>2, <3>3, <3>4
  <2>5. CASE ~IsWelcome(c) /\ Verified(c)
    <3>1. /\ u \in Users /\ msg[c].PassWord # 0 /\ msg[c].isSetCookie
          /\ cookies[c] = {<<u, msg[c].PassWord>>} /\ cookie[u] = msg[c].PassWord
      BY <1>2, <1>9, <2>5 DEF Verified, Right, Current, IsWelcome
    <3>2. session[b] # "out"
      BY <1>0, <2>1, <3>1 DEF HeaderRight
    <3>3. CASE resp[c].Path = "logout"
      <4>1. session'[b] = "out"
        BY <1>3, <1>0, <1>6, <3>1, <3>3 DEF SessionAfter
      <4>2. jar'[b] = [jar[b] EXCEPT ![u] = 0]
        BY <1>3, <1>0, <1>6, <3>1, <3>3 DEF Kept
      <4>3. \A w \in Users : w # u => jar[b][w] = 0
        <5>. SUFFICES ASSUME NEW w \in Users, w # u, jar[b][w] # 0 PROVE FALSE
          OBVIOUS
        <5>1. <<w, jar[b][w]>> \in {<<u, msg[c].PassWord>>}
          BY <1>0, <2>1, <3>1 DEF HeaderRight
        <5>. QED
          BY <5>1
      <4>4. \A w \in Users : jar'[b][w] = 0
        BY <2>2, <3>1, <4>2, <4>3
      <4>5. "out" \notin Users /\ \A d \in Conns : IsWelcome(d)' => msg'[d].UserName \in Users
        BY <1>7, WelcomeFacts, HttpAssumption
      <4>. QED
        BY <4>1, <4>4, <4>5 DEF SessionRight
    <3>4. CASE resp[c].Path # "logout"
      <4>1. session'[b] = session[b]
        BY <1>3, <1>0, <1>6, <2>5, <3>4 DEF SessionAfter
      <4>2. jar'[b] = [jar[b] EXCEPT ![u] = msg[c].PassWord]
        BY <1>3, <1>0, <1>6, <3>1, <3>4 DEF Kept
      <4>. QED
        BY <1>1, <1>7, <2>1, <2>2, <3>1, <3>2, <4>1, <4>2 DEF SessionRight
    <3>. QED
      BY <3>3, <3>4
  <2>. QED
    BY <1>2, <2>3, <2>4, <2>5 DEF Right, TakenRight, IsWelcome
<1>10. SessionCurrent'
  <2>. SUFFICES ASSUME apart, NEW e \in Browsers PROVE SessionRight(e)'
    BY <1>1 DEF SessionCurrent
  <2>1. CASE e # b
    BY <1>1, <1>0, <1>6, <1>7, <2>1 DEF SInv, SessionCurrent, SessionRight
  <2>. QED
    BY <1>9, <2>1
<1>11. HeaderCurrent'
  <2>. SUFFICES ASSUME apart, NEW d \in Conns, InFlight(d)' PROVE HeaderRight(d)'
    BY <1>1 DEF HeaderCurrent
  <2>1. d # c /\ InFlight(d) /\ Same(d)
    BY <1>4, <1>5, OthersSame
  <2>2. HeaderRight(d) /\ from[d] # b /\ from[d] \in Browsers
    BY <1>0, <1>2, <2>1 DEF SInv, HeaderCurrent, IInv, KeptApart, Right, Typed, InFlight
  <2>. QED
    BY <1>0, <1>6, <2>1, <2>2 DEF HeaderRight, Same
<1>12. AsExpected'
  <2>. SUFFICES ASSUME apart, NEW d \in Conns, InFlight(d)', ~IsPost(request[d])'
                PROVE  ExpectsRight(d)'
    BY <1>1 DEF AsExpected
  <2>1. d # c /\ InFlight(d) /\ ~IsPost(request[d])
    BY <1>4, <1>5, OthersSame
  <2>. QED
    BY <1>1, <1>5, <2>1, OthersSame DEF SInv, AsExpected
<1>. QED
  BY <1>8, <1>10, <1>11, <1>12 DEF SInv

LEMMA NextSInv == IInv /\ SInv /\ [Next]_vars => SInv'
<1>. SUFFICES ASSUME IInv, SInv, [Next]_vars PROVE SInv'
  OBVIOUS
<1>1. CASE Next
  <2>1. CASE Restart
    BY <2>1, RestartSInv
  <2>2. CASE \E b \in Browsers, u \in Users : Expire(b, u)
    BY <2>2, ExpireSInv
  <2>3. ASSUME NEW c \in Conns, Connect(c) \/ Send(c) \/ Recv(c) \/ Handle(c) \/ Hangup(c)
        PROVE  SInv'
    BY <2>3, ConnectSInv, SendSInv, RecvSInv, VerifyCookieSInv, SelectSInv, InsertSInv,
       UpdateSInv, RespondSInv, DeliverSInv, HangupSInv DEF Handle
  <2>. QED
    BY <1>1, <2>1, <2>2, <2>3 DEF Next
<1>2. CASE UNCHANGED vars
  <2>1. Draws' /\ SessionCurrent'
    BY <1>2 DEF vars, SInv, Draws, DrawRight, SessionCurrent, SessionRight, IsWelcome
  <2>2. HeaderCurrent' /\ AsExpected'
    BY <1>2 DEF vars, SInv, HeaderCurrent, HeaderRight, AsExpected, ExpectsRight, InFlight, IsPost
  <2>. QED
    BY <2>1, <2>2 DEF SInv
<1>. QED
  BY <1>1, <1>2

LEMMA SInvHolds == IInv /\ SInv => SessionsHold
<1>. SUFFICES ASSUME IInv, SInv, NEW c \in Conns, apart, stage[c] = "sending", ~IsPost(request[c])
              PROVE  /\ expects[c] \in Users => resp[c].UserName = expects[c]
                     /\ expects[c] = "out" => resp[c].UserName = ""
  BY DEF SessionsHold
<1>1. Right(c) /\ ExpectsRight(c)
  BY DEF IInv, SInv, AsExpected, InFlight
<1>2. resp[c].UserName = msg[c].UserName
  BY <1>1, PageFacts DEF Right, Typed, StageRight
<1>3. expects[c] \in Users => msg[c].UserName = expects[c]
  BY <1>1 DEF ExpectsRight
<1>4. ASSUME expects[c] = "out" PROVE msg[c].UserName = ""
  <2>1. ~Verified(c) /\ ~Welcomed(c)
    BY <1>1, <1>4, VerifiedAbout DEF ExpectsRight, Welcomed, IsPost
  <2>. QED
    BY <1>1, <2>1 DEF Right, TakenRight, Anonymous
<1>. QED
  BY <1>2, <1>3, <1>4

-----------------------------------------------------------------------------
(* The results, for all constants that satisfy HttpAssumption.             *)

(* Who is welcomed gave the password in the table, for a login always, for *)
(* a registration if nobody registered the same name meanwhile.            *)
THEOREM AccountsAreSound == Spec => []AccountsSound
<1>1. IInv => AccountsSound
  BY IInvTyped, IInvWelcomes DEF AccountsSound
<1>. QED
  BY <1>1, InitIInv, NextIInv, PTL DEF Spec

(* The cookie in the table changes by a login alone, if requests of one    *)
(* browser or about one user do not overlap.                               *)
THEOREM LoginsMoveCookies == Spec => OnlyLoginsMoveCookies
<1>1. IInv /\ [Next]_vars =>
        [apart /\ cookie' # cookie =>
           \E c \in Conns : stage[c] = "update" /\ msg[c].Path = "welcome"
                             /\ \A u \in Users \ {request[c].name} : cookie'[u] = cookie[u]]_vars
  <2>. SUFFICES ASSUME IInv, Next, apart, cookie' # cookie
                PROVE  \E c \in Conns : stage[c] = "update" /\ msg[c].Path = "welcome"
                         /\ \A u \in Users \ {request[c].name} : cookie'[u] = cookie[u]
    OBVIOUS
  <2>1. PICK c \in Conns : Update(c)
    BY DEF Next, Handle, Connect, Send, Recv, VerifyCookie, Select, Insert, Respond, Deliver,
           Hangup, Expire, Restart, table
  <2>2. msg[c].Path = "welcome" /\ stage[c] = "update"
    BY <2>1, RefusalsWriteBack DEF Update
  <2>3. msg[c].UserName = request[c].name
    BY <2>2, WelcomeFacts DEF IsWelcome, Welcomed
  <2>4. \A u \in Users \ {request[c].name} : cookie'[u] = cookie[u]
    BY <2>1, <2>3, UpdateFacts
  <2>. QED
    BY <2>2, <2>4
<1>. QED
  BY <1>1, InitIInv, NextIInv, PTL DEF Spec, OnlyLoginsMoveCookies

(* A browser that was told it is logged in is taken for that user, on any  *)
(* connection and after a restart, and one that was told it is logged out  *)
(* for nobody.                                                             *)
THEOREM SessionsAreKept == Spec => []SessionsHold
<1>1. Init => IInv /\ SInv
  BY InitIInv, InitSInv
<1>2. (IInv /\ SInv) /\ [Next]_vars => (IInv /\ SInv)'
  BY NextIInv, NextSInv
<1>. QED
  BY <1>1, <1>2, SInvHolds, PTL DEF Spec
=============================================================================
