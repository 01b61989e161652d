---------------------------- MODULE StorageHttp ----------------------------
(***************************************************************************)
(* A client's file operation on a storage node: HttpConn, HttpRequest and  *)
(* HttpResponse of storage/src/http with the rollback log of               *)
(* storage/src/consistlog/rollbacklog, over the MySQL tables and the files *)
(* of data_path.  The process serves many connections with a few workers,  *)
(* so the steps of different connections interleave; one connection is     *)
(* served by one worker at a time (EPOLLONESHOT).                          *)
(*                                                                         *)
(* A request arrives in pieces: the request line, the headers (with the    *)
(* cookie that names the user) and, for an upload, Chunks of content, the  *)
(* last of which carries the end boundary.  One recv may return several.   *)
(* An upload has two names: the one of its URL goes to the tables, the one *)
(* the form sends with the content to the disk.  Nothing compares them.    *)
(***************************************************************************)
EXTENDS Naturals, FiniteSets, Sequences

CONSTANTS
  Conns,        \* connections a behaviour may see, each used once
  Files,        \* file names
  Behaviors,    \* what clients ask for: UPLOAD, DELETE, DOWNLOAD
  Spaces,       \* PATH: public, private (of one user)
  Chunks,       \* pieces of content of an upload
  MaxOpen,      \* bound: connections open at a time
  MaxAborts,    \* bound: clients that go away before their request is whole
  MaxKills      \* bound: kill -9 and restart

ASSUME HttpAssumption ==
  /\ Behaviors \subseteq {"UPLOAD", "DELETE", "DOWNLOAD"}
  /\ Spaces \subseteq {"public", "private"}
  /\ Chunks \in Nat \ {0} /\ "" \notin Files
  /\ MaxOpen \in Nat /\ MaxAborts \in Nat /\ MaxKills \in Nat

(* file is the last part of the URL, sent the form's filename="...", which *)
(* only an upload has.                                                     *)
Requests ==
  {r \in [behavior : Behaviors, space : Spaces, file : Files, sent : Files] :
     r.behavior # "UPLOAD" => r.sent = r.file}

Names == {"public", "private"} \X (Files \cup {""})

VARIABLES
  state,        \* per connection: new, in, log, sql, out, sending, closed
  req,          \* what the client is asking for
  got,          \* pieces of the request received so far
  order,        \* Message_->rollbacklog
  written,      \* rollback entries the connection put into the ring log
  freed,        \* those it took out again
  rows,         \* MySQL: how many rows name a file
  files,        \* data_path: the chunks a file consists of, <<>> when absent
  userCount,    \* HttpConn::userCount
  aborts, kills,\* how often the environment struck
  alone         \* so far no two connections have been open at once

vars == <<state, req, got, order, written, freed, rows, files, userCount,
          aborts, kills, alone>>

Open == {c \in Conns : state[c] \notin {"new", "closed"}}

Row(c) == <<req[c].space, req[c].file>>      \* what the URL names
Stored(c) == <<req[c].space, req[c].sent>>   \* where the content goes

Modifies(c) == req[c].behavior \in {"UPLOAD", "DELETE"}

Pieces(c) == IF req[c].behavior = "UPLOAD" THEN 2 + Chunks ELSE 2

NoOrder == [hasorder |-> FALSE, isUpload |-> FALSE, space |-> "public", file |-> ""]

Orders == [hasorder : BOOLEAN, isUpload : BOOLEAN,
           space : {"public", "private"}, file : Files \cup {""}]

Init ==
  /\ state = [c \in Conns |-> "new"]
  /\ req \in [Conns -> Requests]
  /\ got = [c \in Conns |-> 0]
  /\ order = [c \in Conns |-> NoOrder]
  /\ written = [c \in Conns |-> 0] /\ freed = [c \in Conns |-> 0]
  /\ rows = [n \in Names |-> 0] /\ files = [n \in Names |-> <<>>]
  /\ userCount = 0 /\ aborts = 0 /\ kills = 0 /\ alone = TRUE

-----------------------------------------------------------------------------
(* The tables.  INSERT INTO public with two values, which is what private  *)
(* uploads and their rollback ask for, fails and is only logged.           *)

Insert(space, file) ==
  rows' = IF space = "public" THEN [rows EXCEPT ![<<space, file>>] = @ + 1]
          ELSE rows

DeleteRowsOfTheOther(space, file) ==
  LET other == IF space = "public" THEN "private" ELSE "public"
  IN  rows' = [rows EXCEPT ![<<other, file>>] = 0]
DeleteRows(space, file) == rows' = [rows EXCEPT ![<<space, file>>] = 0]

-----------------------------------------------------------------------------
(* ListenHttp::ReadProcess and HttpConn::Init.  RollbackLog's constructor  *)
(* leaves hasorder and isUpload as the heap has them.                      *)
Accept(c) ==
  /\ state[c] = "new" /\ Cardinality(Open) < MaxOpen
  /\ state' = [state EXCEPT ![c] = "in"]
  /\ \E o \in BOOLEAN, u \in BOOLEAN :
       order' = [order EXCEPT ![c] =
                  [NoOrder EXCEPT !.hasorder = o, !.isUpload = u]]
  /\ userCount' = userCount + 1
  /\ alone' = (alone /\ Open = {})
  /\ UNCHANGED <<req, got, written, freed, rows, files, aborts, kills>>

(* The user of a private request is known once Verify has looked up the    *)
(* cookie among the headers; an empty user name means the public space.    *)
SpaceKnown(c, g) == IF g >= 2 THEN req[c].space ELSE "public"

(* MakeOrder, once the request line is in: what undoes the request.        *)
MakeOrder(c, g) ==
  [hasorder |-> TRUE,
   isUpload |-> req[c].behavior # "UPLOAD",
   space |-> SpaceKnown(c, g),
   file |-> req[c].file]

LogsUnlessWhole(c, g) == Modifies(c) /\ g < Pieces(c)
LogsRollback(c, g) == Modifies(c)

(* The content among the pieces received after the first n, up to g.       *)
ContentAfterHeaders(c, n, g) ==
  IF n < 2 THEN <<>> ELSE [i \in 1..(g - n) |-> <<c, n - 2 + i>>]

Content(c, n, g) ==
  LET before == IF n < 2 THEN 0 ELSE n - 2
  IN  IF g <= 2 THEN <<>> ELSE [i \in 1..(g - 2 - before) |-> <<c, before + i>>]

(* One turn of HttpRequest::process: recv, parse what is there, log the    *)
(* rollback, append content to the file.                                   *)
Recv(c) ==
  /\ state[c] = "in"
  /\ \E g \in (got[c] + 1)..Pieces(c) :
       /\ got' = [got EXCEPT ![c] = g]
       /\ IF LogsRollback(c, g)
          THEN /\ order' = [order EXCEPT ![c] = MakeOrder(c, g)]
               /\ written' = [written EXCEPT ![c] = @ + 1]
          ELSE UNCHANGED <<order, written>>
       /\ files' = [files EXCEPT ![Stored(c)] = @ \o Content(c, got[c], g)]
       /\ state' = [state EXCEPT ![c] = IF g = Pieces(c) THEN "log" ELSE "in"]
  /\ UNCHANGED <<req, freed, rows, userCount, aborts, kills, alone>>

(* HttpConn::UpdateLog_: the sync tasks are queued (module PeerSync), the  *)
(* rollback entry is freed and the order cleared.                          *)
KeepOrder(c) == order
ClearOrder(c) == [order EXCEPT ![c].hasorder = FALSE]

UpdateLog(c) ==
  /\ state[c] = "log"
  /\ state' = [state EXCEPT ![c] = "sql"]
  /\ IF Modifies(c)
     THEN order' = ClearOrder(c) /\ freed' = [freed EXCEPT ![c] = @ + 1]
     ELSE UNCHANGED <<order, freed>>
  /\ UNCHANGED <<req, got, written, rows, files, userCount, aborts, kills, alone>>

(* HttpConn::UpdateSql_, then OnRead_ waits for the socket to be writable. *)
ArmAfterRequestAsRead == "in"
ArmAfterRequest == "out"

UpdateSql(c) ==
  /\ state[c] = "sql"
  /\ state' = [state EXCEPT ![c] = ArmAfterRequest]
  /\ CASE req[c].behavior = "UPLOAD" -> Insert(req[c].space, req[c].file)
       [] req[c].behavior = "DELETE" -> DeleteRows(req[c].space, req[c].file)
       [] OTHER -> UNCHANGED rows
  /\ UNCHANGED <<req, got, order, written, freed, files, userCount, aborts, kills, alone>>

-----------------------------------------------------------------------------
(* ~HttpConn: Close, then RollbackOrder.                                   *)

CountAfterClose == userCount - 1

Rollback(o) ==
  CASE ~o.hasorder -> UNCHANGED rows
    [] o.hasorder /\ o.isUpload -> Insert(o.space, o.file)
    [] OTHER -> DeleteRows(o.space, o.file)

Destroy(c) ==
  /\ state' = [state EXCEPT ![c] = "closed"]
  /\ userCount' = CountAfterClose
  /\ Rollback(order[c])

(* HttpResponse::process.  A delete removes the file when the response is  *)
(* prepared; a finished response always ends the connection, and so does a *)
(* client that has gone.                                                   *)
Respond(c) ==
  /\ state[c] = "out"
  /\ files' = IF req[c].behavior = "DELETE"
              THEN [files EXCEPT ![Row(c)] = <<>>]
              ELSE files
  /\ \/ Destroy(c)
     \/ state' = [state EXCEPT ![c] = "sending"] /\ UNCHANGED <<rows, userCount>>
  /\ UNCHANGED <<req, got, order, written, freed, aborts, kills, alone>>

SendRest(c) ==
  /\ state[c] = "sending"
  /\ Destroy(c)
  /\ UNCHANGED <<req, got, order, written, freed, files, aborts, kills, alone>>

(* The client goes away before its request is whole: recv returns 0.       *)
Abort(c) ==
  /\ state[c] = "in"
  /\ aborts < MaxAborts /\ aborts' = aborts + 1
  /\ Destroy(c)
  /\ UNCHANGED <<req, got, order, written, freed, files, kills, alone>>

(* stop.sh kills with -9: no destructor runs, tables and files stay.       *)
Kill ==
  /\ kills < MaxKills /\ kills' = kills + 1
  /\ state' = [c \in Conns |-> IF c \in Open THEN "closed" ELSE state[c]]
  /\ userCount' = 0
  /\ UNCHANGED <<req, got, order, written, freed, rows, files, aborts, alone>>

-----------------------------------------------------------------------------
Serve(c) == UpdateLog(c) \/ UpdateSql(c) \/ Respond(c) \/ SendRest(c)

Next ==
  \/ \E c \in Conns : Accept(c) \/ Recv(c) \/ Abort(c) \/ Serve(c)
  \/ Kill

Spec == Init /\ [][Next]_vars

(* A worker carries on with what it has received, and the socket of a new  *)
(* response is writable.  Clients promise nothing: one that does not read  *)
(* may leave the rest unsent for ever, the node has no timeout.            *)
FairSpec ==
  Spec /\ \A c \in Conns : WF_vars(UpdateLog(c) \/ UpdateSql(c) \/ Respond(c))

-----------------------------------------------------------------------------
(* Types, and the count of people online: userCount is the number of open  *)
(* connections, however each of them ended.                                *)
TypeOK ==
  /\ state \in [Conns -> {"new", "in", "log", "sql", "out", "sending", "closed"}]
  /\ req \in [Conns -> Requests]
  /\ \A c \in Conns : got[c] \in 0..Pieces(c)
  /\ order \in [Conns -> Orders]
  /\ written \in [Conns -> Nat] /\ freed \in [Conns -> Nat]
  /\ rows \in [Names -> Nat] /\ DOMAIN files = Names
  /\ userCount = Cardinality(Open)

(* FreeLog is called for a rollback entry the same connection wrote before *)
(* and never twice, so it never unlinks the ring's header (address 0, the  *)
(* initial ringlogAddr_Rollback) or somebody else's entry.                 *)
FreesWhatItWrote == \A c \in Conns : freed[c] <= 1 /\ freed[c] <= written[c]

(* A connection's books are right to its end, however it ends: the entries *)
(* of the ring it frees are its own, and userCount counts open connections.*)
BooksRight == TypeOK /\ FreesWhatItWrote

(* A transaction that committed is not undone: once the tables are updated *)
(* the end of the connection, whoever caused it, changes no row.           *)
NoRollbackAfterCommit ==
  [][\A c \in Conns :
       state[c] \in {"out", "sending"} /\ Modifies(c) /\ state'[c] = "closed"
       => rows' = rows]_vars

(* A public file the tables list exists: the row is written after the      *)
(* content and removed before the file, and a kill in between only leaves  *)
(* a file without a row (README:38, consistent files).  That takes         *)
(* requests that do not overlap and clients that see theirs through: a     *)
(* delete overtaken by an upload, and the rollback of a delete that was    *)
(* never carried out, leave a row without its file.  And it takes, for     *)
(* this file, uploads whose form sends the name their URL has: the row is  *)
(* the URL's, the content the form's.                                      *)
SentAsNamed(f) ==
  \A c \in Conns :
    state[c] # "new" /\ req[c].behavior = "UPLOAD" /\ req[c].file = f => req[c].sent = f

Listed(f) == rows[<<"public", f>>] > 0
Stands(f) == files[<<"public", f>>] # <<>>

RowsHaveFiles ==
  alone /\ aborts = 0 =>
    \A f \in Files : SentAsNamed(f) /\ Listed(f) => Stands(f)

(* When an upload commits that no other request overlapped, its chunks are *)
(* the end of the file, all of them and in order, however recv cut the     *)
(* request into pieces and whatever was interrupted before.                *)
Uploaded(c) == [i \in 1..Chunks |-> <<c, i>>]

UploadIsWhole ==
  \A c \in Conns :
    LET content == files[Stored(c)]
    IN  alone /\ state[c] \in {"log", "sql"} /\ req[c].behavior = "UPLOAD"
        => /\ Len(content) >= Chunks
           /\ SubSeq(content, Len(content) - Chunks + 1, Len(content)) = Uploaded(c)

(* A request received whole has its transaction carried out and its answer *)
(* begun, or its connection ends: epoll is asked for the right event after *)
(* it, whatever other connections do and even if this client never reads.  *)
RequestsAnswered ==
  \A c \in Conns : state[c] = "log" ~> state[c] \in {"sending", "closed"}

-----------------------------------------------------------------------------
(* What the README promises and the code does not keep.                    *)

(* A client that goes away before its upload or delete is whole leaves the *)
(* tables as they were (README:45, the rollback log guards against         *)
(* unexpected disconnects): rolling back what never reached the tables     *)
(* would insert or delete the rows of somebody else's request.             *)
AbortKeepsTables ==
  [][\A c \in Conns :
       state[c] = "in" /\ got[c] > 0 /\ Modifies(c) /\ state'[c] = "closed"
       => rows' = rows]_vars
=============================================================================
