------------------------------ MODULE AsyncLog ------------------------------
(***************************************************************************)
(* The asynchronous log (log/log.cpp of storage and tracker) over its      *)
(* bounded queue (log/blockqueue.h): threads that log, the thread that     *)
(* writes the file, and ShutDown, which the storage node calls when its    *)
(* workers have been joined.                                               *)
(*                                                                         *)
(* Log::mtx_ is a variable, since write holds it over several calls of the *)
(* queue; what the queue does under its own mutex is a step.  Lines are    *)
(* numbered by the turn their writers got Log::mtx_.  Opening the next     *)
(* file after a day or MAX_LINES lines leaves the lines as they are: file  *)
(* stands for all the files.  The macros' flush, which reads fp_ without   *)
(* the lock, is taken not to meet that change of files.                    *)
(***************************************************************************)
EXTENDS Naturals, FiniteSets, Sequences

CONSTANTS
  Threads,      \* threads that log
  Capacity,     \* capacity_ of the queue (1000)
  MaxLines      \* bound: lines logged

NoLine == 0
Nobody == "nobody"

ASSUME LogAssumption ==
  /\ IsFiniteSet(Threads) /\ Nobody \notin Threads
  /\ Capacity \in Nat \ {0} /\ MaxLines \in Nat

VARIABLES
  pc,           \* per thread: out, locked, push, direct, unlock, flush
  line,         \* per thread: the line it is writing
  logged,       \* lines begun so far
  mtx,          \* who holds Log::mtx_
  deq,          \* deq_
  wasFull,      \* full() has returned true
  isClose,      \* isClose_
  writer,       \* the writer thread: check, sleep, woken, hand, gone
  hand,         \* the line it popped
  file,         \* lines in the file
  main,         \* ShutDown: no, drain, closed, join, done
  missed        \* the writer was not waiting when Close notified

vars == <<pc, line, logged, mtx, deq, wasFull, isClose, writer, hand, file,
          main, missed>>

Init ==
  /\ pc = [t \in Threads |-> "out"] /\ line = [t \in Threads |-> NoLine]
  /\ logged = 0 /\ mtx = Nobody
  /\ deq = <<>> /\ wasFull = FALSE /\ isClose = FALSE
  /\ writer = "check" /\ hand = NoLine /\ file = <<>>
  /\ main = "no" /\ missed = FALSE

(* notify_one of condConsumer_; only the writer thread waits for it.       *)
NotifyNobody == UNCHANGED writer
NotifyConsumer == writer' = IF writer = "sleep" THEN "woken" ELSE writer

-----------------------------------------------------------------------------
(* Log::write: lock and format, ask the queue whether it is full, then     *)
(* flush and push, or write to the file at once.                           *)

Write(t) ==
  /\ main = "no" /\ pc[t] = "out" /\ mtx = Nobody /\ logged < MaxLines
  /\ logged' = logged + 1 /\ line' = [line EXCEPT ![t] = logged + 1]
  /\ mtx' = t /\ pc' = [pc EXCEPT ![t] = "locked"]
  /\ UNCHANGED <<deq, wasFull, isClose, writer, hand, file, main, missed>>

isFull == Len(deq) >= Capacity

FindsItFull(t) ==
  /\ isFull /\ wasFull' = TRUE
  /\ pc' = [pc EXCEPT ![t] = "direct"]
  /\ UNCHANGED writer

FindsRoom(t) ==
  /\ ~isFull /\ UNCHANGED wasFull
  /\ pc' = [pc EXCEPT ![t] = "push"]
  /\ NotifyConsumer

AsksWhetherFull(t) ==
  /\ pc[t] = "locked"
  /\ FindsItFull(t) \/ FindsRoom(t)
  /\ UNCHANGED <<line, logged, mtx, deq, isClose, hand, file, main, missed>>

(* push_back waits for room (condProducer_) while the queue is full.       *)
push_front(t) == deq' = <<line[t]>> \o deq
push_back(t) == deq' = Append(deq, line[t])

Pushes(t) ==
  /\ pc[t] = "push" /\ Len(deq) < Capacity
  /\ push_back(t) /\ NotifyConsumer
  /\ pc' = [pc EXCEPT ![t] = "unlock"]
  /\ UNCHANGED <<line, logged, mtx, wasFull, isClose, hand, file, main, missed>>

PutsDirectly(t) ==
  /\ pc[t] = "direct"
  /\ file' = Append(file, line[t])
  /\ pc' = [pc EXCEPT ![t] = "unlock"]
  /\ UNCHANGED <<line, logged, mtx, deq, wasFull, isClose, writer, hand, main, missed>>

Unlocks(t) ==
  /\ pc[t] = "unlock"
  /\ mtx' = Nobody /\ line' = [line EXCEPT ![t] = NoLine]
  /\ pc' = [pc EXCEPT ![t] = "flush"]
  /\ UNCHANGED <<logged, deq, wasFull, isClose, writer, hand, file, main, missed>>

(* The macro's flush: consume, which notifies although nothing is there.   *)
Flush(t) ==
  /\ pc[t] = "flush"
  /\ NotifyConsumer
  /\ pc' = [pc EXCEPT ![t] = "out"]
  /\ UNCHANGED <<line, logged, mtx, deq, wasFull, isClose, hand, file, main, missed>>

-----------------------------------------------------------------------------
(* AsyncWrite and BlockDeque::pop.                                         *)

Pop ==
  /\ writer = "check"
  /\ IF deq = <<>>
     THEN writer' = "sleep" /\ UNCHANGED <<deq, hand>>
     ELSE deq' = Tail(deq) /\ hand' = Head(deq) /\ writer' = "hand"
  /\ UNCHANGED <<pc, line, logged, mtx, wasFull, isClose, file, main, missed>>

(* After a wait, and only then, isClose_ counts.                           *)
IgnoresClose == writer' = "check"
LooksAtClose == writer' = IF isClose THEN "gone" ELSE "check"

Wake ==
  /\ writer = "woken"
  /\ LooksAtClose
  /\ UNCHANGED <<pc, line, logged, mtx, deq, wasFull, isClose, hand, file, main, missed>>

WriterPuts ==
  /\ writer = "hand" /\ mtx = Nobody
  /\ file' = Append(file, hand) /\ hand' = NoLine /\ writer' = "check"
  /\ UNCHANGED <<pc, line, logged, mtx, deq, wasFull, isClose, main, missed>>

WakesForNoReason ==
  /\ writer = "sleep" /\ writer' = "woken"
  /\ UNCHANGED <<pc, line, logged, mtx, deq, wasFull, isClose, hand, file, main, missed>>

-----------------------------------------------------------------------------
(* Log::ShutDown: notify until the queue is empty, close it, join.         *)

ShutDown ==
  /\ main = "no" /\ \A t \in Threads : pc[t] = "out"
  /\ main' = "drain"
  /\ UNCHANGED <<pc, line, logged, mtx, deq, wasFull, isClose, writer, hand, file, missed>>

Drain ==
  /\ main = "drain" /\ deq # <<>>
  /\ NotifyConsumer
  /\ UNCHANGED <<pc, line, logged, mtx, deq, wasFull, isClose, hand, file, main, missed>>

DrainedAtOnce == TRUE
Drained == deq = <<>>

Close ==
  /\ main = "drain" /\ Drained
  /\ deq' = <<>> /\ isClose' = TRUE /\ main' = "closed"
  /\ UNCHANGED <<pc, line, logged, mtx, wasFull, writer, hand, file, missed>>

CloseNotifies ==
  /\ main = "closed"
  /\ NotifyConsumer /\ main' = "join"
  /\ missed' = (writer \notin {"sleep", "woken"})
  /\ UNCHANGED <<pc, line, logged, mtx, deq, wasFull, isClose, hand, file>>

Join ==
  /\ main = "join" /\ writer = "gone" /\ main' = "done"
  /\ UNCHANGED <<pc, line, logged, mtx, deq, wasFull, isClose, writer, hand, file, missed>>

-----------------------------------------------------------------------------
Carry(t) ==
  AsksWhetherFull(t) \/ Pushes(t) \/ PutsDirectly(t) \/ Unlocks(t) \/ Flush(t)

Writing == Pop \/ Wake \/ WriterPuts

Closing == Drain \/ Close \/ CloseNotifies \/ Join

Next ==
  \/ \E t \in Threads : Write(t) \/ Carry(t)
  \/ Writing \/ WakesForNoReason
  \/ ShutDown \/ Closing

Spec == Init /\ [][Next]_vars

(* Threads that can run do; nobody has to log, the server need not be shut *)
(* down, and nobody counts on spurious wake-ups.  The writer thread may    *)
(* lose the race for Log::mtx_ now and then, but not for ever: lines that  *)
(* are logged are bounded.                                                 *)
FairSpec ==
  /\ Spec
  /\ \A t \in Threads : WF_vars(Carry(t))
  /\ WF_vars(Writing) /\ WF_vars(Closing)

-----------------------------------------------------------------------------
(* Types; Log::mtx_ is held by the thread that is inside write.            *)
TypeOK ==
  /\ pc \in [Threads -> {"out", "locked", "push", "direct", "unlock", "flush"}]
  /\ line \in [Threads -> 0..MaxLines] /\ logged \in 0..MaxLines
  /\ \A t \in Threads : mtx = t <=> pc[t] \notin {"out", "flush"}
  /\ deq \in Seq(1..MaxLines) /\ file \in Seq(1..MaxLines)
  /\ wasFull \in BOOLEAN /\ isClose \in BOOLEAN /\ missed \in BOOLEAN
  /\ writer \in {"check", "sleep", "woken", "hand", "gone"}
  /\ hand \in 0..MaxLines
  /\ main \in {"no", "drain", "closed", "join", "done"}

(* Every line that was logged is in one place only, once: with the thread  *)
(* that logs it, in the queue, in the writer's hands, or in the file; and  *)
(* none is lost when the queue is cleared by Close.                        *)
InHands ==
  {line[t] : t \in {u \in Threads : pc[u] \in {"locked", "push", "direct"}}}
  \cup ({hand} \ {NoLine})

ElementsOf(s) == {s[i] : i \in DOMAIN s}

LinesConserved ==
  /\ ElementsOf(deq) \cup ElementsOf(file) \cup InHands = 1..logged
  /\ Len(deq) + Len(file) + Cardinality(InHands) = logged

(* As long as the queue never was full the file has the lines in the order *)
(* in which they were logged; a line that finds it full overtakes those    *)
(* that are queued.                                                        *)
LinesInOrder ==
  ~wasFull => \A i, j \in DOMAIN file : i < j => file[i] < file[j]

(* A thread never waits for room in the queue with Log::mtx_ in its hands, *)
(* where it would hold up everybody who logs: that there was room is still *)
(* true when it pushes, since nobody else adds lines meanwhile.            *)
NeverWaitsForRoom == \A t \in Threads : pc[t] = "push" => Len(deq) < Capacity

(* Lines are handled soundly: none is lost or doubled, none overtakes      *)
(* another without need, and nobody holds up the others.                   *)
LinesSound == TypeOK /\ LinesConserved /\ LinesInOrder /\ NeverWaitsForRoom

(* A line that waits in the queue gets into the file.                      *)
LinesWritten == \A l \in 1..MaxLines : l \in ElementsOf(deq) ~> l \in ElementsOf(file)

(* ShutDown ends if the writer thread was waiting when Close notified.  If *)
(* it was still at its last line it goes to wait afterwards, without a     *)
(* look at isClose_, and is never woken: main joins it for ever.           *)
ShutDownEnds == main = "join" /\ ~missed ~> main = "done"
=============================================================================
