---------------------------- MODULE TrackerHttp ----------------------------
(***************************************************************************)
(* Registration, login and cookies on the tracker: HttpRequest and         *)
(* HttpResponse of tracker/src/http over the table `user` of MySQL, with   *)
(* the browsers that keep the cookies.  A request is handled by one worker *)
(* (EPOLLONESHOT); between two statements of one handler those of others   *)
(* run.  A connection is kept alive and serves one request after another.  *)
(*                                                                         *)
(* A request arrives as its head and, for a POST, the form, in one recv or *)
(* in two.  A browser keeps one cookie for                                 *)
(* each user it logged in as (its name is a digest of the user's name) and *)
(* sends all it has.  HttpMessage::onlieUser and userServer, which the     *)
(* handlers fill too, are read only when a storage node sends CHG user,    *)
(* which none does, and are left out; so are redirects (TrackerGroup),     *)
(* timers (HeapTimer) and malformed requests.                              *)
(***************************************************************************)
EXTENDS Naturals, FiniteSets

CONSTANTS
  Conns,        \* connections, opened again after they were closed
  Browsers, Users, Passwords,
  Registered,   \* the password of each user at the start, "" for no row
  GetPaths,     \* what is asked for by GET: index, private, logout
  Forms,        \* what is sent by POST to login or register
  MaxRequests,  \* bound: requests sent
  MaxRestarts   \* bound: restarts of the tracker

ASSUME HttpAssumption ==
  /\ GetPaths \subseteq {"index", "private", "logout"}
  /\ Forms \subseteq [Path : {"login", "register"}, name : Users, password : Passwords]
  /\ {"", "unknown", "out"} \cap Users = {} /\ "" \notin Passwords
  /\ Registered \in [Users -> Passwords \cup {""}]
  /\ MaxRequests \in Nat /\ MaxRestarts \in Nat

(* Values of cookies; 0 stands for none.  Each login draws one.            *)
Values == 0..MaxRequests

Gets == [Path : GetPaths, name : {""}, password : {""}]

VARIABLES
  stage,        \* per connection: where its handler or its request is
  from,         \* per connection: the browser at the other end
  request,      \* per connection: what is being asked for
  cookies,      \* per connection: the Cookie header that came with it
  got,          \* per connection: pieces of the request received
  msg,          \* per connection: HttpMessage
  resp,         \* per connection: the answer, once prepared
  password,     \* column of `user`, "" where there is no row
  cookie,       \* column of `user`, unique, 0 for NULL
  drawn,        \* numbers rand() has returned since the tracker started
  jar,          \* per browser: its cookies
  sent, restarts,
  apart,        \* so far requests of one browser or about one user never overlapped
  session,      \* per browser: who it is logged in as, by the answers it got
  expects       \* per connection: that, at the time the request was sent

table == <<password, cookie, drawn>>
client == <<from, request, cookies, jar, sent, session, expects, apart>>
vars == <<stage, from, request, cookies, got, msg, resp, password, cookie,
          drawn, jar, sent, restarts, apart, session, expects>>

NoRequest == [Path |-> "index", name |-> "", password |-> ""]
Fresh == [UserName |-> "", PassWord |-> 0, isSetCookie |-> FALSE, Path |-> "other"]
NoResp == [Path |-> "other", UserName |-> "", PassWord |-> 0, isSetCookie |-> FALSE]

IsPost(r) == r \in Forms
Pieces(c) == IF IsPost(request[c]) THEN 2 ELSE 1
InFlight(c) == stage[c] \notin {"closed", "idle"}

Init ==
  /\ stage = [c \in Conns |-> "closed"] /\ from = [c \in Conns |-> "nobody"]
  /\ request = [c \in Conns |-> NoRequest] /\ cookies = [c \in Conns |-> {}]
  /\ got = [c \in Conns |-> 0] /\ msg = [c \in Conns |-> Fresh]
  /\ resp = [c \in Conns |-> NoResp]
  /\ password = Registered /\ cookie = [u \in Users |-> 0]
  /\ drawn = 0 /\ jar = [b \in Browsers |-> [u \in Users |-> 0]]
  /\ sent = 0 /\ restarts = 0 /\ apart = TRUE
  /\ session = [b \in Browsers |-> "unknown"] /\ expects = [c \in Conns |-> "unknown"]

-----------------------------------------------------------------------------
(* The browsers.                                                           *)

Header(b) == {<<u, jar[b][u]>> : u \in {w \in Users : jar[b][w] # 0}}

About(c) == {p[1] : p \in cookies[c]} \cup ({request[c].name} \ {""})

(* What b should be taken for: with the cookies of several users in its    *)
(* header nobody is recognised.                                            *)
Expected(b) ==
  IF session[b] \notin Users \/ {p[1] : p \in Header(b)} = {session[b]}
  THEN session[b] ELSE "unknown"

Connect(c) ==
  /\ stage[c] = "closed" /\ stage' = [stage EXCEPT ![c] = "idle"]
  /\ \E b \in Browsers : from' = [from EXCEPT ![c] = b]
  /\ UNCHANGED <<request, cookies, got, msg, resp, table, jar, sent, restarts,
                 apart, session, expects>>

Send(c) ==
  LET b == from[c]
  IN  /\ stage[c] = "idle" /\ sent < MaxRequests
      /\ sent' = sent + 1
      /\ stage' = [stage EXCEPT ![c] = "in"]
      /\ cookies' = [cookies EXCEPT ![c] = Header(b)]
      /\ expects' = [expects EXCEPT ![c] = Expected(b)]
      /\ \E r \in Gets \cup Forms : request' = [request EXCEPT ![c] = r]
      /\ apart' = (apart /\ \A d \in Conns \ {c} :
                     InFlight(d) => from[d] # b /\ About(d) \cap About(c)' = {})
      /\ UNCHANGED <<from, got, msg, resp, table, jar, restarts, session>>

(* Max-Age has passed.                                                     *)
Expire(b, u) ==
  /\ jar[b][u] # 0 /\ jar' = [jar EXCEPT ![b][u] = 0]
  /\ session' = [session EXCEPT ![b] = IF @ = u THEN "unknown" ELSE @]
  /\ UNCHANGED <<stage, from, request, cookies, got, msg, resp, table, sent,
                 restarts, apart, expects>>

-----------------------------------------------------------------------------
(* HttpRequest::process.                                                   *)

ServesNext(c, g) ==
  IF g < Pieces(c) THEN "in" ELSE IF IsPost(request[c]) THEN "select" ELSE "out"

(* recv, and the parsing of what came.  Verify runs once the headers are   *)
(* in; without a cookie and without a form it has nothing to look up.      *)
Recv(c) ==
  /\ stage[c] = "in"
  /\ \E g \in (got[c] + 1)..Pieces(c) :
       /\ got' = [got EXCEPT ![c] = g]
       /\ msg' = [msg EXCEPT ![c].Path = request[c].Path]
       /\ stage' = [stage EXCEPT ![c] =
            IF got[c] = 0 /\ cookies[c] # {} THEN "cookie" ELSE ServesNext(c, g)]
  /\ UNCHANGED <<client, resp, table, restarts>>

(* Verify, first part: the row with this cookie must be of the user whose  *)
(* digest names the cookie.  Several cookies in one header make a value    *)
(* that no row has.                                                        *)
KnownByName(c) == {u \in Users : \E v \in Values : cookies[c] = {<<u, v>>}}
Known(c) == {u \in Users : cookies[c] = {<<u, cookie[u]>>}}

VerifyCookie(c) ==
  /\ stage[c] = "cookie"
  /\ \/ Known(c) = {} /\ UNCHANGED msg
     \/ \E u \in Known(c), v \in Values :
          /\ cookies[c] = {<<u, v>>}
          /\ msg' = [msg EXCEPT ![c] =
               [UserName |-> u, PassWord |-> v, isSetCookie |-> TRUE, Path |-> @.Path]]
  /\ stage' = [stage EXCEPT ![c] = ServesNext(c, got[c])]
  /\ UNCHANGED <<client, got, resp, table, restarts>>

(* Login_ and AddCookie_: the value is the next of rand(), which is never  *)
(* seeded and starts over when the tracker does.                           *)
Logs(c, u) ==
  /\ drawn' = drawn + 1
  /\ msg' = [msg EXCEPT ![c] =
       [UserName |-> u, PassWord |-> drawn', isSetCookie |-> TRUE, Path |-> "welcome"]]
  /\ session' = [b \in Browsers |->
       IF b = from[c] \/ session[b] = u THEN "unknown" ELSE session[b]]

Refuses(c, page) ==
  /\ msg' = [msg EXCEPT ![c].Path = page]
  /\ UNCHANGED <<drawn, session>>

RowExists(r) == password[r.name] # ""
RowMatches(r) == password[r.name] = r.password

(* Verify, second part: SELECT by the name in the form.  Whatever PassWord *)
(* then holds, the cookie of the request included, is written to the row.  *)
Select(c) ==
  LET r == request[c]
      next(s) == stage' = [stage EXCEPT ![c] = s]
      update == IF msg[c].PassWord # 0 THEN "update" ELSE "out"
  IN  /\ stage[c] = "select"
      /\ \/ /\ RowMatches(r)
            /\ Logs(c, r.name) /\ next("update")
         \/ /\ RowExists(r) /\ ~RowMatches(r)
            /\ Refuses(c, "pwderr") /\ next(update)
         \/ /\ ~RowExists(r) /\ r.Path = "login"
            /\ Refuses(c, "namerr") /\ next(update)
         \/ /\ ~RowExists(r) /\ r.Path = "register"
            /\ next("insert") /\ UNCHANGED <<msg, drawn, session>>
      /\ UNCHANGED <<from, request, cookies, got, resp, password, cookie, jar,
                     sent, restarts, apart, expects>>

(* INSERT fails when the name, the primary key, is there by now; nobody    *)
(* looks at the outcome.                                                   *)
Insert(c) ==
  LET r == request[c]
  IN  /\ stage[c] = "insert" /\ stage' = [stage EXCEPT ![c] = "update"]
      /\ password' = [password EXCEPT ![r.name] = IF @ = "" THEN r.password ELSE @]
      /\ Logs(c, r.name)
      /\ UNCHANGED <<from, request, cookies, got, resp, cookie, jar, sent,
                     restarts, apart, expects>>

(* UPDATE fails when another row has the value: the column is unique.      *)
Update(c) ==
  LET m == msg[c]
  IN  /\ stage[c] = "update" /\ stage' = [stage EXCEPT ![c] = "out"]
      /\ cookie' = IF \E u \in Users \ {m.UserName} : cookie[u] = m.PassWord THEN cookie
                   ELSE [cookie EXCEPT ![m.UserName] = m.PassWord]
      /\ UNCHANGED <<client, got, msg, resp, password, drawn, restarts>>

-----------------------------------------------------------------------------
(* HttpResponse::process.  The answer is prepared once, when the socket is *)
(* writable; when it does not fit, the rest goes out later.  After that    *)
(* request_.Init makes the connection ready for the next request.          *)

Page(m) == IF m.UserName = "" /\ m.Path = "private" THEN [m EXCEPT !.Path = "login"] ELSE m

Respond(c) ==
  /\ stage[c] = "out" /\ stage' = [stage EXCEPT ![c] = "sending"]
  /\ resp' = [resp EXCEPT ![c] = Page(msg[c])]
  /\ UNCHANGED <<client, got, msg, table, restarts>>

Reset(c) ==
  /\ request' = [request EXCEPT ![c] = NoRequest]
  /\ cookies' = [cookies EXCEPT ![c] = {}]
  /\ got' = [got EXCEPT ![c] = 0] /\ msg' = [msg EXCEPT ![c] = Fresh]
  /\ resp' = [resp EXCEPT ![c] = NoResp]
  /\ expects' = [expects EXCEPT ![c] = "unknown"]

(* The cookies the browser has once the answer is there.                   *)
KeptOnLogout(c) ==
  IF resp[c].isSetCookie THEN [jar[from[c]] EXCEPT ![resp[c].UserName] = resp[c].PassWord]
  ELSE jar[from[c]]
Kept(c) ==
  LET r == resp[c]
      old == jar[from[c]]
  IN  IF ~r.isSetCookie THEN old
      ELSE [old EXCEPT ![r.UserName] = IF r.Path = "logout" THEN 0 ELSE r.PassWord]

(* The last of the answer is written and the browser has it: Set-Cookie    *)
(* replaces its cookie of that user, or removes it.  When the request did  *)
(* not ask to keep the connection alive, it is closed.                     *)
SessionAfter(c) ==
  CASE resp[c].Path = "welcome" -> IF restarts = 0 THEN resp[c].UserName ELSE "unknown"
    [] resp[c].Path = "logout" ->
         IF resp[c].isSetCookie \/ cookies[c] = {} THEN "out" ELSE "unknown"
    [] OTHER -> session[from[c]]

Deliver(c) ==
  /\ stage[c] = "sending"
  /\ jar' = [jar EXCEPT ![from[c]] = Kept(c)]
  /\ session' = [session EXCEPT ![from[c]] = SessionAfter(c)]
  /\ Reset(c)
  /\ \/ stage' = [stage EXCEPT ![c] = "idle"] /\ UNCHANGED from
     \/ stage' = [stage EXCEPT ![c] = "closed"] /\ from' = [from EXCEPT ![c] = "nobody"]
  /\ UNCHANGED <<table, sent, restarts, apart>>

(* The client goes away, or its timer goes off, between two events.        *)
Hangup(c) ==
  /\ stage[c] \in {"idle", "in", "out", "sending"}
  /\ stage' = [stage EXCEPT ![c] = "closed"]
  /\ Reset(c) /\ from' = [from EXCEPT ![c] = "nobody"]
  /\ UNCHANGED <<table, jar, sent, restarts, apart, session>>

Restart ==
  /\ restarts < MaxRestarts /\ restarts' = restarts + 1
  /\ drawn' = 0
  /\ stage' = [c \in Conns |-> "closed"]
  /\ request' = [c \in Conns |-> NoRequest] /\ cookies' = [c \in Conns |-> {}]
  /\ got' = [c \in Conns |-> 0] /\ msg' = [c \in Conns |-> Fresh]
  /\ resp' = [c \in Conns |-> NoResp] /\ expects' = [c \in Conns |-> "unknown"]
  /\ from' = [c \in Conns |-> "nobody"]
  /\ UNCHANGED <<password, cookie, jar, sent, apart, session>>

-----------------------------------------------------------------------------
Handle(c) ==
  \/ VerifyCookie(c) \/ Select(c) \/ Insert(c) \/ Update(c)
  \/ Respond(c) \/ Deliver(c)

Next ==
  \/ \E c \in Conns : Connect(c) \/ Send(c) \/ Recv(c) \/ Handle(c) \/ Hangup(c)
  \/ \E b \in Browsers, u \in Users : Expire(b, u)
  \/ Restart

Spec == Init /\ [][Next]_vars

-----------------------------------------------------------------------------
Messages == [UserName : Users \cup {""}, PassWord : Values, isSetCookie : BOOLEAN,
             Path : {"other", "index", "private", "logout", "login", "register",
                     "welcome", "pwderr", "namerr"}]

(* Types; a cookie in the table was drawn by a login.                      *)
TypeOK ==
  /\ stage \in [Conns -> {"closed", "idle", "in", "cookie", "select", "insert",
                          "update", "out", "sending"}]
  /\ from \in [Conns -> Browsers \cup {"nobody"}]
  /\ request \in [Conns -> Gets \cup Forms \cup {NoRequest}]
  /\ cookies \in [Conns -> SUBSET (Users \X Values)]
  /\ msg \in [Conns -> Messages] /\ resp \in [Conns -> Messages]
  /\ \A c \in Conns : got[c] \in 0..Pieces(c)
  /\ password \in [Users -> Passwords \cup {""}] /\ cookie \in [Users -> Values]
  /\ drawn \in Values /\ jar \in [Browsers -> [Users -> Values]]
  /\ session \in [Browsers -> Users \cup {"unknown", "out"}]
  /\ expects \in [Conns -> Users \cup {"unknown", "out"}]

(* Who is welcomed gave the password in the table, by which he can log in  *)
(* again.  For a login that always holds; two registrations of one name    *)
(* that overlap are both welcomed although one of the INSERTs failed.      *)
WelcomesRightly ==
  \A c \in Conns :
    resp[c].Path = "welcome" /\ (apart \/ request[c].Path = "login")
    => resp[c].UserName = request[c].name
       /\ password[request[c].name] = request[c].password

AccountsSound == TypeOK /\ WelcomesRightly

(* Logging in saves logging in again (README:26): a browser that was       *)
(* welcomed as u is taken for u from then on, on any connection and across *)
(* a restart of the tracker, until its cookie expires or u logs in         *)
(* elsewhere; and one whose logout was confirmed is taken for nobody.      *)
(* Requests of one browser, or about one user, must not overlap (a late    *)
(* answer brings an old cookie back), and the login must come before a     *)
(* restart: later ones draw values again that rows may still have.         *)
SessionsHold ==
  \A c \in Conns :
    apart /\ stage[c] = "sending" /\ ~IsPost(request[c]) =>
      /\ expects[c] \in Users => resp[c].UserName = expects[c]
      /\ expects[c] = "out" => resp[c].UserName = ""

(* The cookie in the table changes by a login alone: a refused form writes *)
(* back the cookie its request came with, which is still the current one,  *)
(* unless somebody has logged in as that user in between.                  *)
OnlyLoginsMoveCookies ==
  [][apart /\ cookie' # cookie =>
       \E c \in Conns : stage[c] = "update" /\ msg[c].Path = "welcome"
                         /\ \A u \in Users \ {request[c].name} : cookie'[u] = cookie[u]]_vars
=============================================================================
