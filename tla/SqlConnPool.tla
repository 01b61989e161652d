---------------------------- MODULE SqlConnPool ----------------------------
(***************************************************************************)
(* The pool of MySQL connections (pool/sqlconnpool.cpp of storage and      *)
(* tracker): a queue under mtx_ and a semaphore that counts what it holds. *)
(* A user keeps at most one connection (SqlConnRAII in a block of its own).*)
(* Only the tracker has a thread that refreshes the connections; it holds  *)
(* mtx_, which is not recursive, while it takes connections from the pool. *)
(* The critical sections of the users are single steps; mtx_ is a variable *)
(* for those that block inside: the refresh, and ClosePool's join.         *)
(***************************************************************************)
EXTENDS Integers, FiniteSets

CONSTANTS
  Users,        \* the threads that use MySQL
  Conns,        \* the connections Init could open (it skips those it cannot)
  Refreshes     \* the refreshing thread exists (tracker)

ASSUME PoolAssumption ==
  /\ IsFiniteSet(Users) /\ IsFiniteSet(Conns)
  /\ Refreshes \in BOOLEAN

VARIABLES
  userAt,       \* per user: out, wait (at sem_wait), pop (past it), using
  held,         \* per user: the connection it has, if any
  connQue,      \* the connections in the queue
  sem,          \* semId_
  mtx,          \* who blocks with mtx_ held: nobody, fresh, main
  fresh,        \* refresher: off, sleep, due, reset, getconn, exited
  phase,        \* running, joining (main waits for the refresher), done
  stop,         \* stop_
  closed        \* connections given to mysql_close

poolVars == <<userAt, held, connQue, sem, mtx, fresh, phase, stop, closed>>

PoolInit ==
  /\ userAt = [u \in Users |-> "out"] /\ held = [u \in Users |-> {}]
  /\ connQue = Conns /\ sem = Cardinality(Conns)
  /\ mtx = "nobody" /\ phase = "running" /\ stop = FALSE /\ closed = {}
  /\ fresh = IF Refreshes THEN "sleep" ELSE "off"

-----------------------------------------------------------------------------
(* GetConn and FreeConn.                                                   *)

Call(u) ==
  /\ phase = "running" /\ userAt[u] = "out"
  /\ userAt' = [userAt EXCEPT ![u] = "wait"]
  /\ UNCHANGED <<held, connQue, sem, mtx, fresh, phase, stop, closed>>

SemWait == sem > 0

Wait(u) ==
  /\ userAt[u] = "wait" /\ SemWait
  /\ sem' = sem - 1
  /\ userAt' = [userAt EXCEPT ![u] = "pop"]
  /\ UNCHANGED <<held, connQue, mtx, fresh, phase, stop, closed>>

QueueAfterFrontOnly(c) == connQue
QueueAfterPop(c) == connQue \ {c}

Pop(u) ==
  /\ userAt[u] = "pop" /\ mtx = "nobody"
  /\ \E c \in connQue :
       held' = [held EXCEPT ![u] = {c}] /\ connQue' = QueueAfterPop(c)
  /\ userAt' = [userAt EXCEPT ![u] = "using"]
  /\ UNCHANGED <<sem, mtx, fresh, phase, stop, closed>>

SemPostTwice == sem + 2
SemPostForgotten == sem
SemPost == sem + 1

FreeConn(u) ==
  /\ userAt[u] = "using" /\ mtx = "nobody"
  /\ connQue' = connQue \cup held[u] /\ sem' = SemPost
  /\ held' = [held EXCEPT ![u] = {}]
  /\ userAt' = [userAt EXCEPT ![u] = "out"]
  /\ UNCHANGED <<mtx, fresh, phase, stop, closed>>

-----------------------------------------------------------------------------
(* Freshen_: wake, look at stop_, and when the 28000 seconds have passed   *)
(* lock mtx_ and reset every connection.  Its GetConn passes the semaphore *)
(* and then asks for mtx_ again: from getconn there is no step.            *)

FreshIgnoresStop == fresh' \in {"sleep", "due"}
FreshLooksAtStop == fresh' \in IF stop THEN {"exited"} ELSE {"sleep", "due"}

FreshWake ==
  /\ fresh = "sleep"
  /\ FreshLooksAtStop
  /\ UNCHANGED <<userAt, held, connQue, sem, mtx, phase, stop, closed>>

FreshLock ==
  /\ fresh = "due" /\ mtx = "nobody"
  /\ mtx' = "fresh" /\ fresh' = "reset"
  /\ UNCHANGED <<userAt, held, connQue, sem, phase, stop, closed>>

FreshWait ==
  /\ fresh = "reset" /\ sem > 0
  /\ sem' = sem - 1 /\ fresh' = "getconn"
  /\ UNCHANGED <<userAt, held, connQue, mtx, phase, stop, closed>>

Fresh == FreshWake \/ FreshLock \/ FreshWait

FreshExits == FreshWake /\ fresh' = "exited"

-----------------------------------------------------------------------------
(* ShutDown and ClosePool, which main calls in the signal handler when the *)
(* workers of the thread pool have been joined.                            *)

EmptiedButOne == IF connQue = {} THEN {} ELSE {CHOOSE c \in connQue : TRUE}
Emptied == {}

ClosePool ==
  /\ phase = "running" /\ mtx = "nobody"
  /\ \A u \in Users : userAt[u] = "out"
  /\ stop' = TRUE
  /\ connQue' = Emptied /\ closed' = closed \cup (connQue \ Emptied)
  /\ IF Refreshes
     THEN phase' = "joining" /\ mtx' = "main"
     ELSE phase' = "done" /\ UNCHANGED mtx
  /\ UNCHANGED <<userAt, held, sem, fresh>>

Join ==
  /\ phase = "joining" /\ fresh = "exited"
  /\ phase' = "done" /\ mtx' = "nobody"
  /\ UNCHANGED <<userAt, held, connQue, sem, fresh, stop, closed>>

Serve(u) == Wait(u) \/ Pop(u) \/ FreeConn(u)

PoolNext ==
  \/ \E u \in Users : Call(u) \/ Serve(u)
  \/ Fresh
  \/ ClosePool \/ Join

PoolSpec == PoolInit /\ [][PoolNext]_poolVars

(* Threads that can run do; nobody has to call, no signal has to come, and *)
(* the server need not live for 28000 seconds.                             *)
PoolFairSpec ==
  /\ PoolSpec
  /\ \A u \in Users : WF_poolVars(Serve(u))
  /\ WF_poolVars(FreshExits) /\ WF_poolVars(FreshLock) /\ WF_poolVars(FreshWait)
  /\ WF_poolVars(Join)

-----------------------------------------------------------------------------
(* Types; the semaphore's value is never negative.                         *)
PoolTypeOK ==
  /\ userAt \in [Users -> {"out", "wait", "pop", "using"}]
  /\ held \in [Users -> SUBSET Conns]
  /\ connQue \subseteq Conns /\ closed \subseteq Conns /\ sem \in Nat
  /\ mtx \in {"nobody", "fresh", "main"}
  /\ fresh \in {"off", "sleep", "due", "reset", "getconn", "exited"}
  /\ phase \in {"running", "joining", "done"} /\ stop \in BOOLEAN

(* No two threads ever use one MYSQL*, and none is lost: a connection is   *)
(* in the queue, with exactly one user, or closed, and a user has one      *)
(* connection exactly while it is using MySQL.                             *)
Held == UNION {held[u] : u \in Users}

ConnsConserved ==
  /\ connQue \cup Held \cup closed = Conns
  /\ connQue \cap Held = {} /\ connQue \cap closed = {} /\ Held \cap closed = {}
  /\ \A u, v \in Users : u # v => held[u] \cap held[v] = {}
  /\ \A u \in Users : IF userAt[u] = "using" THEN \E c \in Conns : held[u] = {c}
                       ELSE held[u] = {}

(* Whoever passed the semaphore finds a connection although others took    *)
(* theirs between the sem_wait and the lock: front() and pop() are never   *)
(* applied to an empty queue.                                              *)
NeverPopsEmpty == \A u \in Users : userAt[u] = "pop" => connQue # {}

(* The semaphore counts the connections nobody has a claim on.             *)
Popping == {u \in Users : userAt[u] = "pop"}

SemCounts ==
  phase = "running" =>
    sem + Cardinality(Popping) + (IF fresh = "getconn" THEN 1 ELSE 0)
      = Cardinality(connQue)

(* After shutdown every connection that was opened has been closed.        *)
ClosedWhenDone == phase = "done" => closed = Conns

(* With fewer connections than users somebody may have to wait for ever    *)
(* (sem_wait promises no order), but then others keep being served: the    *)
(* pool never stops working while somebody waits, except under a refresh.  *)
WaitersServed ==
  \A u \in Users :
    userAt[u] = "wait" ~> mtx = "fresh" \/ \E v \in Users : userAt[v] = "using"

(* A shutdown that has begun ends, although main joins the refresher with  *)
(* mtx_ held, unless the refresh became due just before stop_ was set.     *)
ShutdownCompletes == phase = "joining" ~> phase = "done" \/ fresh = "due"
=============================================================================
