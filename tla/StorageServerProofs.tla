------------------------- MODULE StorageServerProofs -------------------------
(***************************************************************************)
(* The storage node as a server, in two parts.                             *)
(*                                                                         *)
(* Its pool of workers is sound for any number of workers and tasks and    *)
(* wherever the signal comes: PoolSound of ThreadPool.                     *)
(*                                                                         *)
(* A connection's books, its rollback order, the tables and the files hold *)
(* for any number of connections, files and chunks, however many are open  *)
(* at once, leave early or are killed: BooksRight, NoRollbackAfterCommit,  *)
(* RowsHaveFiles and UploadIsWhole of StorageHttp.                         *)
(***************************************************************************)
EXTENDS ThreadPool, StorageHttp, FiniteSetTheorems, SequenceTheorems, TLAPS

-----------------------------------------------------------------------------
(* The pool.                                                               *)

Loop == {"test", "enter", "wait", "dispatch", "locked", "notify"}
Handler == {"close", "shutdown", "wakeall", "join"}

(* How far the shutdown is where the main thread is, and who holds mtx_.   *)
Phases ==
  /\ interrupted = "none" => main \in Loop /\ ~serverStop /\ ~stop
  /\ main = "close" => ~serverStop /\ ~stop
  /\ main = "shutdown" => ~stop
  /\ interrupted # "none" /\ main \notin {"close", "shutdown"} => stop
  /\ mtx <=> main = "locked" \/ (main \in Handler /\ interrupted = "locked")
  /\ stop => interrupted # "locked" /\ main # "locked"

(* The loop has a task in hand when it goes to AddTask, and if it was      *)
(* interrupted on its way.                                                 *)
RoomForTask ==
  /\ main \in {"dispatch", "locked"} => added < MaxTasks
  /\ main \in Handler /\ interrupted \in {"dispatch", "locked"} => added < MaxTasks

(* Workers leave an empty, closed pool, and main does not go on without.   *)
LeaversLeaveNothing ==
  /\ \A w \in Workers : pc[w] = "gone" => stop /\ tasks = <<>>
  /\ stop /\ main \notin {"wakeall", "join"} => \A w \in Workers : pc[w] = "gone"

ServerInv ==
  /\ ServerTypeOK /\ TasksRunOnce /\ NoLostNotify
  /\ Phases /\ RoomForTask /\ LeaversLeaveNothing

-----------------------------------------------------------------------------
(* Numbered sequences, and the workers that are counted.                   *)

(* A sequence of consecutive numbers, number by number.                    *)
LEMMA Consecutive ==
  ASSUME NEW s \in Seq(Nat), NEW a \in Nat
  PROVE  s = [i \in 1..Len(s) |-> a - Len(s) + i]
         <=> \A i \in 1..Len(s) : s[i] = a - Len(s) + i
<1>1. s = [i \in 1..Len(s) |-> s[i]]
  BY LenProperties
<1>. QED
  BY <1>1

(* Tasks are numbers.                                                      *)
LEMMA TasksAreNumbers ==
  ASSUME ServerTypeOK
  PROVE  /\ tasks \in Seq(Nat) /\ Len(tasks) \in Nat
         /\ done \in Seq(1..MaxTasks) /\ Len(done) \in Nat
         /\ DOMAIN done = 1..Len(done)
         /\ added \in Nat /\ MaxTasks \in Nat /\ added <= MaxTasks
<1>1. tasks \in Seq(1..MaxTasks) /\ done \in Seq(1..MaxTasks) /\ added \in 0..MaxTasks
      /\ MaxTasks \in Nat
  BY ThreadPoolAssumption DEF ServerTypeOK
<1>2. tasks \in Seq(Nat)
  <2>1. \A i \in 1..Len(tasks) : tasks[i] \in Nat
    BY <1>1, LenProperties
  <2>. QED
    BY <1>1, <2>1, LenProperties
<1>. QED
  BY <1>1, <1>2, LenProperties

(* Sets of workers are finite.                                             *)
LEMMA WorkersCounted ==
  ASSUME NEW S \in SUBSET Workers
  PROVE  IsFiniteSet(S) /\ Cardinality(S) \in Nat
BY ThreadPoolAssumption, FS_Subset, FS_CardinalityType

-----------------------------------------------------------------------------
(* Every action preserves the invariant.                                   *)

(* The pool starts open and empty, its workers about to look.              *)
LEMMA InitServerInv == ServerInit => ServerInv
<1>. SUFFICES ASSUME ServerInit PROVE ServerInv
  OBVIOUS
<1>1. Working = {} /\ {w \in Workers : pc[w] # "run"} = Workers
  BY DEF ServerInit, Working
<1>2. ServerTypeOK
  <2>1. <<>> \in Seq(1..MaxTasks) /\ 0 \in 0..MaxTasks
    BY ThreadPoolAssumption, EmptySeq
  <2>2. free = Cardinality({w \in Workers : pc[w] # "run"})
    BY <1>1 DEF ServerInit
  <2>. QED
    BY <2>1, <2>2 DEF ServerInit, ServerTypeOK
<1>3. TasksRunOnce
  <2>1. Len(tasks) = 0 /\ Len(done) = 0 /\ DOMAIN done = {} /\ tasks \in Seq(Nat)
    BY EmptySeq, LenProperties DEF ServerInit
  <2>2. tasks = [i \in 1..Len(tasks) |-> added - Len(tasks) + i]
    BY <2>1, Consecutive DEF ServerInit
  <2>. QED
    BY <1>1, <2>1, <2>2, FS_EmptySet DEF ServerInit, TasksRunOnce
<1>4. NoLostNotify /\ Phases /\ RoomForTask /\ LeaversLeaveNothing
  BY DEF ServerInit, NoLostNotify, Phases, RoomForTask, LeaversLeaveNothing, Loop, Handler
<1>. QED
  BY <1>2, <1>3, <1>4 DEF ServerInv

(* Steps of the main thread between its looks at the queue.                *)
LEMMA MainIInv ==
  ASSUME ServerInv,
         \/ TestsStop \/ EpollWait \/ Events \/ AddTaskLock
         \/ Signal \/ CloseServer \/ ShutdownLock \/ Join
  PROVE  ServerInv'
<1>. USE DEF ServerInv
<1>1. UNCHANGED <<tasks, added, pc, task, free, done>>
  BY DEF TestsStop, EpollWait, Events, ReturnsTo, AddTaskLock, Signal, CloseServer, ShutdownLock, Join, poolVars
<1>2. ServerTypeOK'
  <2>1. main' \in Loop \cup Handler \cup {"exit", "abort"}
    BY DEF TestsStop, EpollWait, Events, ReturnsTo, AddTaskLock, Signal, CloseServer, ShutdownLock, Join, ServerTypeOK, Phases, Loop, Handler
  <2>2. interrupted' \in {"none"} \cup Loop
    BY DEF TestsStop, EpollWait, Events, ReturnsTo, AddTaskLock, Signal, CloseServer, ShutdownLock, Join, ServerTypeOK, Loop
  <2>3. serverStop' \in BOOLEAN /\ mtx' \in BOOLEAN /\ stop' \in BOOLEAN
    BY DEF TestsStop, EpollWait, Events, ReturnsTo, AddTaskLock, Signal, CloseServer, ShutdownLock, Join, ServerTypeOK, poolVars
  <2>. QED
    BY <1>1, <2>1, <2>2, <2>3 DEF ServerTypeOK, Loop, Handler
<1>3. TasksRunOnce'
  BY <1>1 DEF TasksRunOnce, Working
<1>4. NoLostNotify'
  BY <1>1 DEF TestsStop, EpollWait, Events, ReturnsTo, AddTaskLock, Signal, CloseServer, ShutdownLock, Join,
              NoLostNotify, Sleepers, Phases, LeaversLeaveNothing
<1>5. Phases'
  BY DEF TestsStop, EpollWait, Events, ReturnsTo, AddTaskLock, Signal, CloseServer, ShutdownLock, Join,
         Phases, ServerTypeOK, poolVars, Loop, Handler
<1>6. RoomForTask'
  BY <1>1 DEF TestsStop, EpollWait, Events, ReturnsTo, AddTaskLock, Signal, CloseServer, ShutdownLock, Join,
              RoomForTask, Phases, ServerTypeOK, Loop, Handler
<1>7. LeaversLeaveNothing'
  BY <1>1 DEF TestsStop, EpollWait, Events, ReturnsTo, AddTaskLock, Signal, CloseServer, ShutdownLock, Join,
              LeaversLeaveNothing, Phases, ServerTypeOK, poolVars, Loop, Handler
<1>. QED
  BY <1>2, <1>3, <1>4, <1>5, <1>6, <1>7

(* A task is numbered and put behind the others.                           *)
LEMMA AddTaskPushIInv ==
  ASSUME ServerInv, AddTaskPush
  PROVE  ServerInv'
<1>. USE DEF ServerInv, AddTaskPush
<1>1. added < MaxTasks /\ added + 1 \in 1..MaxTasks /\ ~stop
  BY TasksAreNumbers DEF RoomForTask, Phases
<1>2. /\ tasks' \in Seq(1..MaxTasks) /\ Len(tasks') = Len(tasks) + 1
      /\ \A i \in 1..Len(tasks) : tasks'[i] = tasks[i]
      /\ tasks'[Len(tasks) + 1] = added + 1
  BY <1>1, AppendProperties DEF ServerTypeOK
<1>3. ServerTypeOK'
  <2>1. added' \in 0..MaxTasks
    BY <1>1, TasksAreNumbers
  <2>2. main' = "notify" /\ mtx' = FALSE
    OBVIOUS
  <2>. QED
    BY <1>2, <2>1, <2>2 DEF ServerTypeOK
<1>4. TasksRunOnce'
  <2>1. Working' = Working
    BY DEF Working
  <2>2. \A i \in 1..Len(tasks') : tasks'[i] = added' - Len(tasks') + i
    <3>1. \A i \in 1..Len(tasks) : tasks[i] = added - Len(tasks) + i
      BY TasksAreNumbers, Consecutive DEF TasksRunOnce
    <3>. QED
      BY <1>2, <3>1, TasksAreNumbers
  <2>3. tasks' = [i \in 1..Len(tasks') |-> added' - Len(tasks') + i]
    <3>1. tasks' \in Seq(Nat) /\ added' \in Nat
      BY <1>3, TasksAreNumbers, AppendProperties
    <3>. QED
      BY <2>2, <3>1, Consecutive
  <2>4. added' - Len(tasks') = added - Len(tasks)
    BY <1>2, TasksAreNumbers
  <2>5. Cardinality(Working) \in Nat
    BY WorkersCounted DEF Working
  <2>6. (Len(done) + Cardinality(Working) + Len(tasks) = added)'
    BY <1>2, <2>1, <2>5, TasksAreNumbers DEF TasksRunOnce
  <2>7. ({done[i] : i \in DOMAIN done} \cup {task[w] : w \in Working}
          = 1..(added - Len(tasks)))'
    BY <2>1, <2>4 DEF TasksRunOnce
  <2>. QED
    BY <2>3, <2>6, <2>7 DEF TasksRunOnce
<1>5. NoLostNotify' /\ RoomForTask'
  BY DEF NoLostNotify, RoomForTask, Handler
<1>6. Phases' /\ LeaversLeaveNothing'
  BY <1>1 DEF Phases, LeaversLeaveNothing, Loop, Handler
<1>. QED
  BY <1>3, <1>4, <1>5, <1>6

(* Workers that wake up, or go to sleep, or leave: no task moves.          *)
LEMMA SameBooks ==
  ASSUME ServerTypeOK, TasksRunOnce, UNCHANGED <<tasks, added, task, free, done>>,
         pc' \in [Workers -> {"check", "sleep", "took", "run", "gone"}],
         \A w \in Workers : pc'[w] = pc[w] \/ {pc[w], pc'[w]} \subseteq {"check", "sleep", "gone"}
  PROVE  TasksRunOnce' /\ free' = Cardinality({w \in Workers : pc[w] # "run"})'
<1>1. Working' = Working
  BY DEF Working
<1>2. {w \in Workers : pc'[w] # "run"} = {w \in Workers : pc[w] # "run"}
  OBVIOUS
<1>3. TasksRunOnce'
  BY <1>1 DEF TasksRunOnce
<1>. QED
  BY <1>2, <1>3 DEF ServerTypeOK

(* One sleeper, if there is one, is woken; nobody was asleep after that.   *)
LEMMA AddTaskNotifyIInv ==
  ASSUME ServerInv, AddTaskNotify
  PROVE  ServerInv'
<1>. USE DEF ServerInv
<1>1. /\ pc' \in [Workers -> {"check", "sleep", "took", "run", "gone"}]
      /\ \A w \in Workers : pc'[w] = pc[w] \/ (pc[w] = "sleep" /\ pc'[w] = "check")
      /\ Sleepers' # Workers
  <2>1. CASE Sleepers = {}
    BY <2>1, ThreadPoolAssumption DEF AddTaskNotify, NotifyOne, ServerTypeOK, Sleepers
  <2>2. CASE Sleepers # {}
    <3>1. PICK w \in Sleepers : pc' = [pc EXCEPT ![w] = "check"]
      BY <2>2 DEF AddTaskNotify, NotifyOne
    <3>2. w \in Workers /\ pc[w] = "sleep"
      BY <3>1 DEF Sleepers
    <3>. QED
      BY <3>1, <3>2 DEF ServerTypeOK, Sleepers
  <2>. QED
    BY <2>1, <2>2
<1>2. UNCHANGED <<interrupted, serverStop, mtx, stop, tasks, added, task, free, done>>
      /\ main = "notify" /\ main' \in {"test", "dispatch"}
      /\ (main' = "dispatch" => added < MaxTasks)
  BY DEF AddTaskNotify
<1>3. TasksRunOnce' /\ free' = Cardinality({w \in Workers : pc[w] # "run"})'
  BY <1>1, <1>2, SameBooks
<1>4. ServerTypeOK'
  BY <1>1, <1>2, <1>3 DEF ServerTypeOK
<1>5. NoLostNotify' /\ Phases' /\ RoomForTask'
  BY <1>1, <1>2 DEF NoLostNotify, Phases, RoomForTask, Loop, Handler
<1>6. LeaversLeaveNothing'
  BY <1>1, <1>2 DEF LeaversLeaveNothing
<1>. QED
  BY <1>3, <1>4, <1>5, <1>6

(* The handler wakes everybody.                                            *)
LEMMA ShutdownNotifyIInv ==
  ASSUME ServerInv, ShutdownNotify
  PROVE  ServerInv'
<1>. USE DEF ServerInv
<1>1. /\ pc' \in [Workers -> {"check", "sleep", "took", "run", "gone"}]
      /\ \A w \in Workers : pc'[w] = pc[w] \/ (pc[w] = "sleep" /\ pc'[w] = "check")
      /\ Sleepers' # Workers
  BY ThreadPoolAssumption DEF ShutdownNotify, WakesOnShutdown, NotifyAll, ServerTypeOK, Sleepers
<1>2. UNCHANGED <<interrupted, serverStop, mtx, stop, tasks, added, task, free, done>>
      /\ main = "wakeall" /\ main' = "join"
  BY DEF ShutdownNotify
<1>3. TasksRunOnce' /\ free' = Cardinality({w \in Workers : pc[w] # "run"})'
  BY <1>1, <1>2, SameBooks
<1>4. ServerTypeOK'
  BY <1>1, <1>2, <1>3 DEF ServerTypeOK
<1>5. NoLostNotify' /\ Phases' /\ RoomForTask'
  BY <1>1, <1>2 DEF NoLostNotify, Phases, RoomForTask, Loop, Handler
<1>6. LeaversLeaveNothing'
  BY <1>1, <1>2 DEF LeaversLeaveNothing
<1>. QED
  BY <1>3, <1>4, <1>5, <1>6

(* A worker that finds nothing to do, or wakes up for no reason.           *)
LEMMA IdleIInv ==
  ASSUME ServerInv, NEW w \in Workers,
         WakeSpuriously(w) \/ (Check(w) /\ UNCHANGED <<tasks, task>>)
  PROVE  ServerInv'
<1>. USE DEF ServerInv
<1>1. UNCHANGED <<main, interrupted, serverStop, mtx, stop, tasks, added, task, free, done>>
  BY DEF WakeSpuriously, Check
<1>2. \/ pc[w] = "sleep" /\ pc' = [pc EXCEPT ![w] = "check"]
      \/ pc[w] = "check" /\ stop /\ tasks = <<>> /\ pc' = [pc EXCEPT ![w] = "gone"]
      \/ pc[w] = "check" /\ ~stop /\ tasks = <<>> /\ pc' = [pc EXCEPT ![w] = "sleep"]
  <2>1. tasks # <<>> => Tail(tasks) # tasks
    <3>1. ASSUME tasks # <<>> PROVE Len(Tail(tasks)) # Len(tasks)
      BY <3>1, TasksAreNumbers, HeadTailProperties
    <3>. QED
      BY <3>1
  <2>. QED
    BY <2>1 DEF WakeSpuriously, Check, Leaves, TasksAfterPop
<1>3. /\ pc' \in [Workers -> {"check", "sleep", "took", "run", "gone"}]
      /\ \A v \in Workers : v # w => pc'[v] = pc[v]
      /\ {pc[w], pc'[w]} \subseteq {"check", "sleep", "gone"}
  BY <1>2 DEF ServerTypeOK
<1>4. TasksRunOnce' /\ free' = Cardinality({v \in Workers : pc[v] # "run"})'
  BY <1>1, <1>3, SameBooks
<1>5. ServerTypeOK'
  BY <1>1, <1>3, <1>4 DEF ServerTypeOK
<1>6. NoLostNotify'
  BY <1>1, <1>2 DEF NoLostNotify, Sleepers, ServerTypeOK
<1>7. Phases' /\ RoomForTask'
  BY <1>1 DEF Phases, RoomForTask
<1>8. LeaversLeaveNothing'
  BY <1>1, <1>2 DEF LeaversLeaveNothing, ServerTypeOK
<1>. QED
  BY <1>4, <1>5, <1>6, <1>7, <1>8

(* A worker that takes the first task.                                     *)
LEMMA TakeIInv ==
  ASSUME ServerInv, NEW w \in Workers, Check(w), tasks # <<>>
  PROVE  ServerInv'
<1>. USE DEF ServerInv
<1>1. /\ pc[w] = "check" /\ ~mtx /\ pc' = [pc EXCEPT ![w] = "took"]
      /\ task' = [task EXCEPT ![w] = Head(tasks)] /\ tasks' = Tail(tasks)
      /\ UNCHANGED <<main, interrupted, serverStop, mtx, stop, added, free, done>>
  BY DEF Check, Leaves, TasksAfterPop
<1>2. /\ tasks \in Seq(1..MaxTasks) /\ Len(tasks) \in Nat \ {0}
      /\ tasks' \in Seq(1..MaxTasks) /\ Len(tasks') = Len(tasks) - 1
      /\ Head(tasks) = tasks[1] /\ tasks[1] \in 1..MaxTasks
      /\ \A i \in 1..Len(tasks') : tasks'[i] = tasks[i + 1]
  <2>1. tasks \in Seq(1..MaxTasks) /\ Len(tasks) \in Nat \ {0}
    BY EmptySeq, LenProperties DEF ServerTypeOK
  <2>2. /\ Tail(tasks) \in Seq(1..MaxTasks) /\ Len(Tail(tasks)) = Len(tasks) - 1
        /\ \A i \in 1..Len(Tail(tasks)) : Tail(tasks)[i] = tasks[i + 1]
    BY <2>1, HeadTailProperties
  <2>3. Head(tasks) = tasks[1] /\ tasks[1] \in 1..MaxTasks
    <3>1. Head(tasks) = tasks[1]
      BY <2>1
    <3>2. 1 \in 1..Len(tasks)
      BY <2>1
    <3>3. tasks[1] \in 1..MaxTasks
      BY <2>1, <3>2, ElementOfSeq
    <3>. QED
      BY <3>1, <3>3
  <2>. QED
    BY <1>1, <2>1, <2>2, <2>3
<1>3. \A i \in 1..Len(tasks) : tasks[i] = added - Len(tasks) + i
  BY TasksAreNumbers, Consecutive DEF TasksRunOnce
<1>4. w \notin Working /\ Working' = Working \cup {w}
  BY <1>1 DEF Working, ServerTypeOK
<1>5. ServerTypeOK'
  <2>1. pc' \in [Workers -> {"check", "sleep", "took", "run", "gone"}]
    BY <1>1 DEF ServerTypeOK
  <2>2. task' \in [Workers -> 0..MaxTasks]
    BY <1>1, <1>2 DEF ServerTypeOK
  <2>3. {v \in Workers : pc'[v] # "run"} = {v \in Workers : pc[v] # "run"}
    BY <1>1 DEF ServerTypeOK
  <2>. QED
    BY <1>1, <1>2, <2>1, <2>2, <2>3 DEF ServerTypeOK
<1>6. TasksRunOnce'
  <2>1. tasks' = [i \in 1..Len(tasks') |-> added' - Len(tasks') + i]
    <3>1. ASSUME NEW i \in 1..Len(tasks')
          PROVE  tasks'[i] = added' - Len(tasks') + i
      <4>1. i + 1 \in 1..Len(tasks) /\ tasks'[i] = tasks[i + 1]
        BY <1>2
      <4>2. tasks'[i] = added - Len(tasks) + (i + 1)
        BY <1>3, <4>1
      <4>3. added' = added /\ Len(tasks') = Len(tasks) - 1
        BY <1>1, <1>2
      <4>4. added \in Nat /\ Len(tasks) \in Nat /\ i \in Nat
        BY <1>2, <4>3, TasksAreNumbers
      <4>5. \A a, b, c \in Nat : a - b + (c + 1) = a - (b - 1) + c
        OBVIOUS
      <4>. QED
        BY <4>2, <4>3, <4>4, <4>5
    <3>2. tasks' \in Seq(Nat) /\ added' \in Nat
      BY <1>5, TasksAreNumbers, <1>1, HeadTailProperties, <1>2
    <3>. QED
      BY <3>1, <3>2, Consecutive
  <2>2. (Len(done) + Cardinality(Working) + Len(tasks) = added)'
    <3>1. /\ Cardinality(Working) \in Nat
          /\ Cardinality(Working') = Cardinality(Working) + 1
      BY <1>4, WorkersCounted, FS_AddElement DEF Working
    <3>. QED
      BY <1>1, <1>2, <3>1, TasksAreNumbers DEF TasksRunOnce
  <2>3. ({done[i] : i \in DOMAIN done} \cup {task[v] : v \in Working}
          = 1..(added - Len(tasks)))'
    <3>1. {task'[v] : v \in Working'} = {task[v] : v \in Working} \cup {Head(tasks)}
      BY <1>1, <1>4 DEF ServerTypeOK, Working
    <3>2. Head(tasks) = added - Len(tasks) + 1
      BY <1>2, <1>3
    <3>3. 1..(added' - Len(tasks')) = 1..(added - Len(tasks)) \cup {added - Len(tasks) + 1}
      <4>1. added - Len(tasks) \in Nat
        BY WorkersCounted, TasksAreNumbers DEF TasksRunOnce, Working
      <4>2. added' - Len(tasks') = (added - Len(tasks)) + 1
        BY <1>1, <1>2, TasksAreNumbers
      <4>3. ASSUME NEW n \in Nat PROVE 1..(n + 1) = 1..n \cup {n + 1}
        OBVIOUS
      <4>. QED
        BY <4>1, <4>2, <4>3
    <3>4. {done[i] : i \in DOMAIN done} \cup {task[v] : v \in Working}
            = 1..(added - Len(tasks))
      BY DEF TasksRunOnce
    <3>5. {done'[i] : i \in DOMAIN done'} = {done[i] : i \in DOMAIN done}
      BY <1>1
    <3>. QED
      BY <3>1, <3>2, <3>3, <3>4, <3>5
  <2>. QED
    BY <2>1, <2>2, <2>3 DEF TasksRunOnce
<1>7. NoLostNotify'
  BY <1>1 DEF NoLostNotify, Sleepers, ServerTypeOK
<1>8. Phases' /\ RoomForTask'
  BY <1>1 DEF Phases, RoomForTask
<1>9. LeaversLeaveNothing'
  BY <1>1 DEF LeaversLeaveNothing, ServerTypeOK
<1>. QED
  BY <1>5, <1>6, <1>7, <1>8, <1>9

(* A worker that starts its task is no longer free.                        *)
LEMMA BeginIInv ==
  ASSUME ServerInv, NEW w \in Workers, Begin(w)
  PROVE  ServerInv'
<1>. USE DEF ServerInv
<1>1. /\ pc[w] = "took" /\ pc' = [pc EXCEPT ![w] = "run"] /\ free' = free - 1
      /\ UNCHANGED <<main, interrupted, serverStop, mtx, stop, tasks, added, task, done>>
  BY DEF Begin
<1>2. free' = Cardinality({v \in Workers : pc[v] # "run"})'
  <2> DEFINE F == {v \in Workers : pc[v] # "run"}
  <2>1. {v \in Workers : pc'[v] # "run"} = F \ {w} /\ w \in F
    BY <1>1 DEF ServerTypeOK
  <2>2. Cardinality(F \ {w}) = Cardinality(F) - 1
    BY <2>1, WorkersCounted, FS_RemoveElement
  <2>. QED
    BY <1>1, <2>1, <2>2 DEF ServerTypeOK
<1>3. ServerTypeOK'
  BY <1>1, <1>2 DEF ServerTypeOK
<1>4. TasksRunOnce'
  <2>1. Working' = Working
    BY <1>1 DEF Working, ServerTypeOK
  <2>. QED
    BY <1>1, <2>1 DEF TasksRunOnce
<1>5. NoLostNotify' /\ Phases' /\ RoomForTask'
  BY <1>1 DEF NoLostNotify, Sleepers, Phases, RoomForTask, ServerTypeOK
<1>6. LeaversLeaveNothing'
  BY <1>1 DEF LeaversLeaveNothing, ServerTypeOK
<1>. QED
  BY <1>3, <1>4, <1>5, <1>6

(* A worker whose task ends is free again, and the task is done.           *)
LEMMA EndIInv ==
  ASSUME ServerInv, NEW w \in Workers, End(w)
  PROVE  ServerInv'
<1>. USE DEF ServerInv
<1>1. /\ pc[w] = "run" /\ pc' = [pc EXCEPT ![w] = "check"] /\ free' = free + 1
      /\ done' = Append(done, task[w])
      /\ UNCHANGED <<main, interrupted, serverStop, mtx, stop, tasks, added, task>>
  BY DEF End, FreeAfterTask
<1>2. w \in Working /\ Working' = Working \ {w}
  BY <1>1 DEF Working, ServerTypeOK
<1>3. task[w] \in 1..MaxTasks
  <2>1. task[w] \in 1..(added - Len(tasks))
    BY <1>2 DEF TasksRunOnce
  <2>. QED
    BY <2>1, TasksAreNumbers
<1>4. /\ done' \in Seq(1..MaxTasks) /\ Len(done') = Len(done) + 1
      /\ DOMAIN done' = 1..(Len(done) + 1)
      /\ \A i \in 1..Len(done) : done'[i] = done[i]
      /\ done'[Len(done) + 1] = task[w]
  BY <1>1, <1>3, AppendProperties, LenProperties DEF ServerTypeOK
<1>5. ServerTypeOK'
  <2> DEFINE F == {v \in Workers : pc[v] # "run"}
  <2>1. {v \in Workers : pc'[v] # "run"} = F \cup {w} /\ w \notin F
    BY <1>1 DEF ServerTypeOK
  <2>2. Cardinality(F \cup {w}) = Cardinality(F) + 1
    BY <2>1, WorkersCounted, FS_AddElement
  <2>3. free' = Cardinality({v \in Workers : pc[v] # "run"})'
    BY <1>1, <2>1, <2>2 DEF ServerTypeOK
  <2>. QED
    BY <1>1, <1>4, <2>3 DEF ServerTypeOK
<1>6. TasksRunOnce'
  <2>1. (Len(done) + Cardinality(Working) + Len(tasks) = added)'
    <3>1. /\ Cardinality(Working) \in Nat
          /\ Cardinality(Working') = Cardinality(Working) - 1
      BY <1>2, WorkersCounted, FS_RemoveElement DEF Working
    <3>. QED
      BY <1>1, <1>4, <3>1, TasksAreNumbers DEF TasksRunOnce
  <2>2. {done'[i] : i \in DOMAIN done'} = {done[i] : i \in DOMAIN done} \cup {task[w]}
    <3>1. /\ DOMAIN done = 1..Len(done)
          /\ DOMAIN done' = DOMAIN done \cup {Len(done) + 1}
      BY <1>4, TasksAreNumbers
    <3>. QED
      BY <1>4, <3>1
  <2>3. {task[v] : v \in Working} = {task[v] : v \in Working \ {w}} \cup {task[w]}
    BY <1>2
  <2>4. ({done[i] : i \in DOMAIN done} \cup {task[v] : v \in Working}
          = 1..(added - Len(tasks)))'
    BY <1>1, <1>2, <2>2, <2>3 DEF TasksRunOnce
  <2>. QED
    BY <1>1, <2>1, <2>4 DEF TasksRunOnce
<1>7. NoLostNotify' /\ Phases' /\ RoomForTask'
  BY <1>1 DEF NoLostNotify, Sleepers, Phases, RoomForTask, ServerTypeOK
<1>8. LeaversLeaveNothing'
  BY <1>1 DEF LeaversLeaveNothing, ServerTypeOK
<1>. QED
  BY <1>5, <1>6, <1>7, <1>8

(* Every step preserves the invariant.                                     *)
LEMMA NextServerInv == ServerInv /\ [ServerNext]_serverVars => ServerInv'
<1>. SUFFICES ASSUME ServerInv, [ServerNext]_serverVars PROVE ServerInv'
  OBVIOUS
<1>1. CASE TestsStop \/ EpollWait \/ Events \/ AddTaskLock \/ Signal \/ CloseServer \/ ShutdownLock \/ Join
  BY <1>1, MainIInv
<1>2. CASE AddTaskPush
  BY <1>2, AddTaskPushIInv
<1>3. CASE AddTaskNotify
  BY <1>3, AddTaskNotifyIInv
<1>4. CASE ShutdownNotify
  BY <1>4, ShutdownNotifyIInv
<1>5. ASSUME NEW w \in Workers, WorkerStep(w) \/ WakeSpuriously(w)
      PROVE  ServerInv'
  <2>1. CASE Check(w) /\ tasks # <<>>
    BY <2>1, TakeIInv
  <2>2. CASE Check(w) /\ tasks = <<>>
    <3>1. UNCHANGED <<tasks, task>>
      BY <2>2 DEF Check
    <3>. QED
      BY <2>2, <3>1, IdleIInv
  <2>3. CASE Begin(w)
    BY <2>3, BeginIInv
  <2>4. CASE End(w)
    BY <2>4, EndIInv
  <2>5. CASE WakeSpuriously(w)
    BY <2>5, IdleIInv
  <2>. QED
    BY <1>5, <2>1, <2>2, <2>3, <2>4, <2>5 DEF WorkerStep
<1>6. CASE UNCHANGED serverVars
  <2>. USE <1>6 DEF serverVars, ServerInv
  <2>1. ServerTypeOK'
    BY DEF ServerTypeOK
  <2>2. TasksRunOnce' /\ NoLostNotify'
    BY DEF TasksRunOnce, Working, NoLostNotify, Sleepers
  <2>3. Phases' /\ RoomForTask' /\ LeaversLeaveNothing'
    BY DEF Phases, RoomForTask, LeaversLeaveNothing
  <2>. QED
    BY <2>1, <2>2, <2>3
<1>. QED
  BY <1>1, <1>2, <1>3, <1>4, <1>5, <1>6 DEF ServerNext, MainStep

(* When the handler has returned, nobody is left and nothing is to do.     *)
LEMMA IInvDrains == ServerInv => PoolSound
<1>. SUFFICES ASSUME ServerInv, stop, main \notin {"wakeall", "join"}
              PROVE  Len(done) = added /\ \A w \in Workers : pc[w] = "gone"
  BY DEF ServerInv, PoolSound, ShutdownDrains
<1>1. \A w \in Workers : pc[w] = "gone"
  BY DEF ServerInv, Phases, LeaversLeaveNothing
<1>2. tasks = <<>> /\ Len(tasks) = 0
  BY <1>1, ThreadPoolAssumption, EmptySeq DEF ServerInv, LeaversLeaveNothing
<1>3. Working = {} /\ Cardinality(Working) = 0
  BY <1>1, FS_EmptySet DEF Working
<1>. QED
  BY <1>1, <1>2, <1>3, TasksAreNumbers DEF ServerInv, TasksRunOnce

(* AddTask, the workers and the SIGINT handler of pool/threadpool.h keep   *)
(* the pool sound wherever the signal comes: every task has one place and  *)
(* is run once, no worker sleeps through one, and when Shutdown returns    *)
(* all of them are done.                                                   *)
THEOREM PoolIsSound == ServerSpec => []PoolSound
<1>1. ServerInit => ServerInv
  BY InitServerInv
<1>2. ServerInv /\ [ServerNext]_serverVars => ServerInv'
  BY NextServerInv
<1>3. ServerInv => PoolSound
  BY IInvDrains
<1>. QED
  BY <1>1, <1>2, <1>3, PTL DEF ServerSpec

-----------------------------------------------------------------------------
(* File operations.                                                        *)

States == {"new", "in", "log", "sql", "out", "sending", "closed"}

(* What TypeOK leaves out: only finitely many connections are open, and a  *)
(* file is a sequence of chunks.                                           *)
Shapes ==
  /\ IsFiniteSet(Open) /\ got \in [Conns -> Nat]
  /\ aborts \in Nat /\ alone \in BOOLEAN
  /\ files \in [Names -> Seq(Conns \X Nat)]

(* The rollback entry is written before it is freed, and freed once.       *)
Logged ==
  \A c \in Conns :
    /\ state[c] = "new" => got[c] = 0
    /\ state[c] \in {"new", "in", "log"} => freed[c] = 0
    /\ state[c] = "in" /\ Modifies(c) /\ got[c] > 0 => written[c] >= 1
    /\ state[c] = "log" /\ Modifies(c) => written[c] >= 1
    /\ state[c] \in {"log", "sql"} => got[c] = Pieces(c)

(* Once the entry is freed there is no order, and a request that modifies  *)
(* nothing has at most the order its constructor left: it names no file.   *)
Orderly ==
  \A c \in Conns :
    /\ Modifies(c) /\ state[c] \in {"sql", "out", "sending"} => ~order[c].hasorder
    /\ ~Modifies(c) => order[c].file = ""

(* While no two requests overlap, at most one connection is open.          *)
OneAtATime == alone => \A c, d \in Open : c = d

(* The chunks received so far are the end of the file.                     *)
Received(c) == IF got[c] < 2 THEN 0 ELSE got[c] - 2

EndsWith(content, c, n) ==
  /\ Len(content) >= n
  /\ \A i \in 1..n : content[Len(content) - n + i] = <<c, i>>

EndsWithReceived ==
  \A c \in Conns :
    alone /\ state[c] \in {"in", "log", "sql"} /\ req[c].behavior = "UPLOAD"
    => EndsWith(files[Stored(c)], c, Received(c))

(* A delete that is about to be answered has removed the rows.             *)
RowsDeleted ==
  \A c \in Conns :
    alone /\ state[c] = "out" /\ req[c].behavior = "DELETE" => rows[Row(c)] = 0

IInv ==
  /\ TypeOK /\ FreesWhatItWrote /\ RowsHaveFiles
  /\ Shapes /\ Logged /\ Orderly /\ OneAtATime /\ EndsWithReceived /\ RowsDeleted

-----------------------------------------------------------------------------
(* Requests, orders, tables and contents.                                  *)

(* There is a first piece at least, and the headers.                       *)
LEMMA PiecesTyped ==
  ASSUME NEW c
  PROVE  /\ Pieces(c) \in Nat /\ Pieces(c) >= 2
         /\ req[c].behavior = "UPLOAD" => Pieces(c) = 2 + Chunks
<1>1. Chunks \in Nat
  BY HttpAssumption
<1>2. CASE req[c].behavior = "UPLOAD"
  BY <1>1, <1>2 DEF Pieces
<1>3. CASE req[c].behavior # "UPLOAD"
  BY <1>3 DEF Pieces
<1>. QED
  BY <1>2, <1>3

(* A request names a file of one of the spaces and has a first piece.      *)
LEMMA RequestFacts ==
  ASSUME TypeOK, NEW c \in Conns
  PROVE  /\ req[c].behavior \in {"UPLOAD", "DELETE", "DOWNLOAD"}
         /\ req[c].space \in {"public", "private"} /\ req[c].file \in Files
         /\ Row(c) \in Names /\ Stored(c) \in Names
         /\ Pieces(c) \in Nat /\ Pieces(c) >= 2 /\ got[c] \in 0..Pieces(c)
         /\ req[c].behavior = "UPLOAD" => Pieces(c) = 2 + Chunks
<1>1. req[c] \in Requests /\ got[c] \in 0..Pieces(c)
  BY DEF TypeOK
<1>2. req[c].space \in {"public", "private"} /\ req[c].file \in Files
      /\ req[c].sent \in Files /\ req[c].behavior \in {"UPLOAD", "DELETE", "DOWNLOAD"}
  BY <1>1, HttpAssumption DEF Requests
<1>3. Row(c) \in Names /\ Stored(c) \in Names
  BY <1>2 DEF Row, Stored, Names
<1>. QED
  BY <1>1, <1>2, <1>3, PiecesTyped

(* An order names a row of a table.                                        *)
LEMMA OrderFacts ==
  ASSUME TypeOK, NEW c \in Conns
  PROVE  /\ order[c] \in Orders
         /\ <<order[c].space, order[c].file>> \in Names
BY DEF TypeOK, Orders, Names

(* The tables stay tables.                                                 *)
LEMMA InsertTyped ==
  ASSUME TypeOK, NEW s, NEW f, <<s, f>> \in Names, Insert(s, f)
  PROVE  rows' \in [Names -> Nat]
BY DEF TypeOK, Insert

LEMMA DeleteTyped ==
  ASSUME TypeOK, NEW s, NEW f, <<s, f>> \in Names, DeleteRows(s, f)
  PROVE  rows' \in [Names -> Nat]
BY DEF TypeOK, DeleteRows

(* Rolling back touches the row the order names, and no other.             *)
LEMMA RollbackRows ==
  ASSUME TypeOK, NEW c \in Conns, Rollback(order[c])
  PROVE  /\ rows' \in [Names -> Nat]
         /\ ~order[c].hasorder => rows' = rows
         /\ \A n \in Names : n # <<order[c].space, order[c].file>> => rows'[n] = rows[n]
<1>. DEFINE o == order[c]
<1>1. rows \in [Names -> Nat] /\ <<o.space, o.file>> \in Names
  BY OrderFacts DEF TypeOK
<1>2. CASE ~o.hasorder
  BY <1>1, <1>2 DEF Rollback
<1>3. CASE o.hasorder /\ o.isUpload
  <2>1. Insert(o.space, o.file)
    BY <1>3 DEF Rollback
  <2>. QED
    BY <1>1, <1>3, <2>1 DEF Insert
<1>4. CASE o.hasorder /\ ~o.isUpload
  <2>1. DeleteRows(o.space, o.file)
    BY <1>4 DEF Rollback
  <2>. QED
    BY <1>1, <1>4, <2>1 DEF DeleteRows
<1>. QED
  BY <1>2, <1>3, <1>4

(* The chunks a turn appends follow those received before.                 *)
Chunk(n) == IF n < 2 THEN 0 ELSE n - 2

LEMMA ContentFollows ==
  ASSUME NEW c \in Conns, NEW n \in Nat, NEW g \in Nat, n < g
  PROVE  /\ Content(c, n, g) \in Seq(Conns \X Nat)
         /\ Len(Content(c, n, g)) = Chunk(g) - Chunk(n)
         /\ Chunk(n) \in Nat /\ Chunk(g) \in Nat /\ Chunk(n) <= Chunk(g)
         /\ \A i \in 1..(Chunk(g) - Chunk(n)) : Content(c, n, g)[i] = <<c, Chunk(n) + i>>
<1>1. Chunk(n) \in Nat /\ Chunk(g) \in Nat /\ Chunk(n) <= Chunk(g)
  BY DEF Chunk
<1>2. CASE g <= 2
  <2>1. Content(c, n, g) = <<>> /\ Chunk(g) = 0 /\ Chunk(n) = 0
    BY <1>2 DEF Content, Chunk
  <2>. QED
    BY <1>1, <2>1, EmptySeq, LenProperties
<1>3. CASE g > 2
  <2>. DEFINE k == Chunk(g) - Chunk(n)
  <2>1. Content(c, n, g) = [i \in 1..k |-> <<c, Chunk(n) + i>>]
    <3>1. Content(c, n, g) = [i \in 1..(g - 2 - Chunk(n)) |-> <<c, Chunk(n) + i>>]
      <4>1. Content(c, n, g) = [i \in 1..(g - 2 - (IF n < 2 THEN 0 ELSE n - 2)) |->
                                  <<c, (IF n < 2 THEN 0 ELSE n - 2) + i>>]
        <5>1. ~(g <= 2)
          BY <1>3
        <5>. QED
          BY <5>1, Zenon DEF Content
      <4>. QED
        BY <4>1, Zenon DEF Chunk
    <3>2. g - 2 - Chunk(n) = k
      BY <1>3 DEF Chunk
    <3>. QED
      BY <3>1, <3>2, Zenon
  <2>2. k \in Nat
    BY <1>1
  <2>3. \A i \in 1..k : <<c, Chunk(n) + i>> \in Conns \X Nat
    BY <1>1, <2>2
  <2>4. Content(c, n, g) \in Seq(Conns \X Nat) /\ Len(Content(c, n, g)) = k
    <3>. HIDE DEF k
    <3>1. [i \in 1..k |-> <<c, Chunk(n) + i>>] \in [1..k -> Conns \X Nat]
      BY <2>3
    <3>. QED
      BY <2>1, <2>2, <3>1, LenProperties, SeqDef
  <2>. QED
    BY <1>1, <2>1, <2>2, <2>4
<1>. QED
  BY <1>2, <1>3

(* Appending the chunks that follow keeps the end of a file what it was    *)
(* and what is new.                                                        *)
LEMMA EndGrows ==
  ASSUME NEW S, NEW s \in Seq(S), NEW t \in Seq(S), NEW c, NEW n \in Nat, EndsWith(s, c, n),
         \A i \in 1..Len(t) : t[i] = <<c, n + i>>
  PROVE  EndsWith(s \o t, c, n + Len(t))
<1>1. /\ s \o t \in Seq(S) /\ Len(s \o t) = Len(s) + Len(t)
      /\ Len(s) \in Nat /\ Len(t) \in Nat /\ Len(s) >= n
      /\ \A i \in 1..Len(s) : (s \o t)[i] = s[i]
      /\ \A i \in 1..Len(t) : (s \o t)[Len(s) + i] = t[i]
  BY ConcatProperties, LenProperties DEF EndsWith
<1>2. ASSUME NEW i \in 1..(n + Len(t))
      PROVE  (s \o t)[Len(s \o t) - (n + Len(t)) + i] = <<c, i>>
  <2>1. Len(s \o t) - (n + Len(t)) + i = Len(s) - n + i
    BY <1>1, <1>2
  <2>2. CASE i <= n
    <3>1. i \in 1..n /\ Len(s) - n + i \in 1..Len(s)
      BY <1>1, <1>2, <2>2
    <3>2. s[Len(s) - n + i] = <<c, i>>
      BY <3>1 DEF EndsWith
    <3>. QED
      BY <1>1, <2>1, <3>1, <3>2
  <2>3. CASE i > n
    <3>. DEFINE j == i - n
    <3>1. j \in 1..Len(t) /\ Len(s) - n + i = Len(s) + j /\ n + j = i
      BY <1>1, <1>2, <2>3
    <3>. HIDE DEF j
    <3>. QED
      BY <1>1, <2>1, <3>1
  <2>. QED
    BY <1>1, <1>2, <2>2, <2>3
<1>3. n + Len(t) \in Nat /\ Len(s \o t) >= n + Len(t)
  BY <1>1
<1>. QED
  <2>. DEFINE u == s \o t
              k == n + Len(t)
  <2>1. Len(u) >= k /\ \A i \in 1..k : u[Len(u) - k + i] = <<c, i>>
    BY <1>2, <1>3
  <2>. HIDE DEF u, k
  <2>2. EndsWith(u, c, k)
    BY <2>1 DEF EndsWith
  <2>. QED
    BY <2>2 DEF u, k

-----------------------------------------------------------------------------
(* Every action preserves the invariant.                                   *)

(* Names once sent are not changed: a file whose uploads agree after a step*)
(* is one whose uploads agreed before.                                     *)
LEMMA NamesStay ==
  ASSUME req' = req, \A c \in Conns : state[c] # "new" => state'[c] # "new",
         NEW f, SentAsNamed(f)'
  PROVE  SentAsNamed(f)
BY DEF SentAsNamed

(* A step that lists no file anew and removes none keeps rows and files.   *)
LEMMA RowsStayWithFiles ==
  ASSUME RowsHaveFiles, req' = req, \A c \in Conns : state[c] # "new" => state'[c] # "new",
         alone' => alone, aborts' = aborts,
         \A f \in Files : (Listed(f)' => Listed(f)) /\ (Stands(f) => Stands(f)')
  PROVE  RowsHaveFiles'
BY NamesStay DEF RowsHaveFiles

(* No connection is open, no table has a row, no file is there.            *)
LEMMA InitIInv == Init => IInv
<1>. SUFFICES ASSUME Init PROVE IInv
  OBVIOUS
<1>1. Open = {}
  BY DEF Init, Open
<1>2. IsFiniteSet(Open) /\ Cardinality(Open) = 0
  BY <1>1, FS_EmptySet
<1>3. TypeOK
  <2>1. order \in [Conns -> Orders]
    BY DEF Init, NoOrder, Orders
  <2>2. ASSUME NEW c \in Conns PROVE got[c] \in 0..Pieces(c)
    <3>1. Pieces(c) \in Nat
      BY PiecesTyped
    <3>. QED
      BY <3>1 DEF Init
  <2>. QED
    BY <1>2, <2>1, <2>2 DEF Init, TypeOK
<1>4. FreesWhatItWrote /\ OneAtATime
  BY <1>1 DEF Init, FreesWhatItWrote, OneAtATime
<1>5. RowsHaveFiles
  <2>1. \A f \in Files : <<"public", f>> \in Names
    BY DEF Names
  <2>. QED
    BY <2>1 DEF Init, RowsHaveFiles, Listed
<1>6. Shapes
  <2>1. <<>> \in Seq(Conns \X Nat)
    BY EmptySeq
  <2>. QED
    BY <1>2, <2>1 DEF Init, Shapes
<1>7. Logged /\ Orderly /\ EndsWithReceived /\ RowsDeleted
  BY DEF Init, Logged, Orderly, EndsWithReceived, RowsDeleted, NoOrder
<1>. QED
  BY <1>3, <1>4, <1>5, <1>6, <1>7 DEF IInv

(* A connection comes: the others are as they were.                        *)
LEMMA AcceptIInv ==
  ASSUME IInv, NEW c \in Conns, Accept(c)
  PROVE  IInv'
<1>1. /\ state[c] = "new" /\ state' = [state EXCEPT ![c] = "in"]
      /\ UNCHANGED <<req, got, written, freed, rows, files, aborts, kills>>
      /\ userCount' = userCount + 1 /\ (alone' <=> alone /\ Open = {})
  BY DEF Accept, IInv, Shapes
<1>2. /\ order' \in [Conns -> Orders] /\ order'[c].file = ""
      /\ \A d \in Conns \ {c} : order'[d] = order[d]
  <2>1. PICK o \in BOOLEAN, u \in BOOLEAN :
          order' = [order EXCEPT ![c] = [NoOrder EXCEPT !.hasorder = o, !.isUpload = u]]
    BY DEF Accept
  <2>2. [NoOrder EXCEPT !.hasorder = o, !.isUpload = u] \in Orders
        /\ [NoOrder EXCEPT !.hasorder = o, !.isUpload = u].file = ""
    BY DEF NoOrder, Orders
  <2>. QED
    BY <2>1, <2>2 DEF IInv, TypeOK
<1>3. state' \in [Conns -> States] /\ \A d \in Conns \ {c} : state'[d] = state[d]
  BY <1>1 DEF IInv, TypeOK, States
<1>4. c \notin Open /\ Open' = Open \cup {c}
  BY <1>1, <1>3 DEF Open, IInv, TypeOK
<1>5. IsFiniteSet(Open') /\ Cardinality(Open') = Cardinality(Open) + 1
  BY <1>4, FS_AddElement DEF IInv, Shapes
<1>6. \A d \in Conns : Pieces(d)' = Pieces(d) /\ (Modifies(d)' <=> Modifies(d))
                       /\ Row(d)' = Row(d) /\ Stored(d)' = Stored(d)
  BY <1>1 DEF Pieces, Modifies, Row, Stored
<1>7. TypeOK'
  BY <1>1, <1>2, <1>3, <1>5, <1>6 DEF IInv, TypeOK, States
<1>8. FreesWhatItWrote' /\ RowsHaveFiles'
  <2>1. RowsHaveFiles'
    BY <1>1, <1>3, RowsStayWithFiles DEF IInv, Listed, Stands
  <2>. QED
    BY <1>1, <2>1 DEF IInv, FreesWhatItWrote
<1>9. Shapes'
  BY <1>1, <1>5 DEF IInv, Shapes
<1>10. Logged'
  BY <1>1, <1>3, <1>6 DEF IInv, Logged
<1>11. Orderly'
  BY <1>1, <1>2, <1>3, <1>6 DEF IInv, Orderly
<1>12. OneAtATime'
  BY <1>1, <1>4 DEF OneAtATime
<1>13. EndsWithReceived'
  <2>. SUFFICES ASSUME NEW d \in Conns, alone', state'[d] \in {"in", "log", "sql"}
                PROVE  EndsWith(files[Stored(d)], d, Received(d)')
    BY <1>1, <1>6 DEF EndsWithReceived
  <2>1. d = c
    BY <1>1, <1>4 DEF Open
  <2>2. Received(c)' = 0
    BY <1>1 DEF Received, IInv, Logged
  <2>3. files[Stored(c)] \in Seq(Conns \X Nat)
    BY RequestFacts DEF IInv, Shapes
  <2>4. Len(files[Stored(c)]) \in Nat
    BY <2>3, LenProperties
  <2>. QED
    BY <2>1, <2>2, <2>4 DEF EndsWith
<1>14. RowsDeleted'
  BY <1>1, <1>3 DEF RowsDeleted, Open
<1>. QED
  BY <1>7, <1>8, <1>9, <1>10, <1>11, <1>12, <1>13, <1>14 DEF IInv

(* A turn of the request: the entry is logged, the content appended.       *)
LEMMA RecvIInv ==
  ASSUME IInv, NEW c \in Conns, Recv(c)
  PROVE  IInv'
<1>1. PICK g \in (got[c] + 1)..Pieces(c) :
        /\ got' = [got EXCEPT ![c] = g]
        /\ IF LogsRollback(c, g)
           THEN /\ order' = [order EXCEPT ![c] = MakeOrder(c, g)]
                /\ written' = [written EXCEPT ![c] = @ + 1]
           ELSE UNCHANGED <<order, written>>
        /\ files' = [files EXCEPT ![Stored(c)] = @ \o Content(c, got[c], g)]
        /\ state' = [state EXCEPT ![c] = IF g = Pieces(c) THEN "log" ELSE "in"]
  BY Zenon DEF Recv
<1>. DEFINE content == files[Stored(c)]
            new == Content(c, got[c], g)
<1>2. state[c] = "in" /\ UNCHANGED <<req, freed, rows, userCount, aborts, kills, alone>>
  BY DEF Recv
<1>3. /\ got[c] \in Nat /\ g \in Nat /\ got[c] < g /\ g <= Pieces(c) /\ Pieces(c) \in Nat
      /\ Stored(c) \in Names /\ TypeOK
  BY <1>1, RequestFacts DEF IInv
<1>4. /\ new \in Seq(Conns \X Nat) /\ Len(new) = Chunk(g) - Chunk(got[c])
      /\ Chunk(got[c]) \in Nat /\ Chunk(g) \in Nat /\ Chunk(got[c]) <= Chunk(g)
      /\ \A i \in 1..(Chunk(g) - Chunk(got[c])) : new[i] = <<c, Chunk(got[c]) + i>>
  BY <1>3, ContentFollows
<1>. HIDE DEF new
<1>5. \A d \in Conns : Pieces(d)' = Pieces(d) /\ (Modifies(d)' <=> Modifies(d))
                       /\ Row(d)' = Row(d) /\ Stored(d)' = Stored(d)
  BY <1>2 DEF Pieces, Modifies, Row, Stored
<1>6. /\ state' \in [Conns -> States] /\ state'[c] \in {"in", "log"}
      /\ state'[c] = "log" => g = Pieces(c)
      /\ \A d \in Conns \ {c} : state'[d] = state[d]
  BY <1>1 DEF IInv, TypeOK, States
<1>7. Open' = Open
  BY <1>2, <1>6 DEF Open
<1>8. \A d \in Conns : got'[d] = IF d = c THEN g ELSE got[d]
  BY <1>1 DEF IInv, Shapes
<1>9. /\ order' \in [Conns -> Orders]
      /\ \A d \in Conns : d # c \/ ~Modifies(c) => order'[d] = order[d]
  <2>1. MakeOrder(c, g) \in Orders
    BY <1>3, RequestFacts DEF MakeOrder, SpaceKnown, Orders
  <2>2. order \in [Conns -> Orders]
    BY DEF IInv, TypeOK
  <2>3. CASE Modifies(c)
    BY <1>1, <2>1, <2>2, <2>3 DEF LogsRollback
  <2>4. CASE ~Modifies(c)
    BY <1>1, <2>2, <2>4 DEF LogsRollback
  <2>. QED
    BY <2>3, <2>4
<1>10. /\ written' \in [Conns -> Nat]
       /\ \A d \in Conns : written'[d] >= written[d]
       /\ Modifies(c) => written'[c] >= 1
  <2>1. written \in [Conns -> Nat]
    BY DEF IInv, TypeOK
  <2>2. CASE Modifies(c)
    BY <1>1, <2>1, <2>2 DEF LogsRollback
  <2>3. CASE ~Modifies(c)
    BY <1>1, <2>1, <2>3 DEF LogsRollback
  <2>. QED
    BY <2>2, <2>3
<1>11. TypeOK'
  <2>1. \A d \in Conns : got'[d] \in 0..Pieces(d)'
    BY <1>3, <1>5, <1>8 DEF TypeOK
  <2>2. DOMAIN files' = Names
    BY <1>1 DEF IInv, TypeOK
  <2>. QED
    BY <1>2, <1>6, <1>7, <1>9, <1>10, <2>1, <2>2 DEF IInv, TypeOK, States
<1>12. FreesWhatItWrote'
  BY <1>2, <1>10 DEF IInv, TypeOK, FreesWhatItWrote
<1>13. /\ content \in Seq(Conns \X Nat) /\ content \o new \in Seq(Conns \X Nat)
       /\ content \o new = <<>> => content = <<>>
  BY <1>3, <1>4, ConcatProperties, ConcatEqualIffEmpty DEF IInv, Shapes
<1>14. files' \in [Names -> Seq(Conns \X Nat)]
       /\ files'[Stored(c)] = content \o new
       /\ \A n \in Names : n # Stored(c) => files'[n] = files[n]
  BY <1>1, <1>3, <1>13 DEF IInv, Shapes, new
<1>15. RowsHaveFiles'
  <2>1. \A n \in Names : files[n] # <<>> => files'[n] # <<>>
    BY <1>13, <1>14
  <2>2. \A f \in Files : <<"public", f>> \in Names
    BY DEF Names
  <2>3. \A f \in Files : (Listed(f)' => Listed(f)) /\ (Stands(f) => Stands(f)')
    BY <1>2, <2>1, <2>2 DEF Listed, Stands
  <2>4. \A d \in Conns : state[d] # "new" => state'[d] # "new"
    BY <1>6
  <2>. QED
    BY <1>2, <2>3, <2>4, RowsStayWithFiles DEF IInv
<1>16. Shapes'
  BY <1>1, <1>2, <1>3, <1>7, <1>14 DEF IInv, Shapes
<1>17. Logged'
  BY <1>2, <1>3, <1>5, <1>6, <1>8, <1>10 DEF IInv, Logged, TypeOK
<1>18. Orderly'
  BY <1>2, <1>5, <1>6, <1>9 DEF IInv, Orderly
<1>19. OneAtATime'
  BY <1>2, <1>7 DEF IInv, OneAtATime
<1>20. EndsWithReceived'
  <2>. SUFFICES ASSUME NEW d \in Conns, alone, state'[d] \in {"in", "log", "sql"},
                       req[d].behavior = "UPLOAD"
                PROVE  EndsWith(files'[Stored(d)], d, Received(d)')
    BY <1>2, <1>5 DEF EndsWithReceived
  <2>1. d = c
    BY <1>2, <1>6 DEF IInv, OneAtATime, Open
  <2>2. Received(c) = Chunk(got[c]) /\ Received(c)' = Chunk(g)
    BY <1>8 DEF Received, Chunk
  <2>3. EndsWith(content, c, Chunk(got[c]))
    BY <1>2, <2>1, <2>2 DEF IInv, EndsWithReceived
  <2>4. EndsWith(content \o new, c, Chunk(got[c]) + Len(new))
    BY <1>4, <1>13, <2>3, EndGrows
  <2>5. Chunk(got[c]) + Len(new) = Chunk(g)
    BY <1>4
  <2>. QED
    BY <1>14, <2>1, <2>2, <2>4, <2>5
<1>21. RowsDeleted'
  BY <1>2, <1>5, <1>6 DEF IInv, RowsDeleted
<1>. QED
  BY <1>11, <1>12, <1>15, <1>16, <1>17, <1>18, <1>19, <1>20, <1>21 DEF IInv

(* The request is whole: its entry is freed and its order cleared.         *)
LEMMA UpdateLogIInv ==
  ASSUME IInv, NEW c \in Conns, UpdateLog(c)
  PROVE  IInv'
<1>1. /\ state[c] = "log" /\ state' = [state EXCEPT ![c] = "sql"]
      /\ UNCHANGED <<req, got, written, rows, files, userCount, aborts, kills, alone>>
  BY DEF UpdateLog
<1>2. state' \in [Conns -> States] /\ state'[c] = "sql"
      /\ \A d \in Conns \ {c} : state'[d] = state[d]
  BY <1>1 DEF IInv, TypeOK, States
<1>3. Open' = Open
  BY <1>1, <1>2 DEF Open
<1>4. /\ \A d \in Conns : Pieces(d)' = Pieces(d) /\ (Modifies(d)' <=> Modifies(d))
                       /\ Row(d)' = Row(d) /\ Stored(d)' = Stored(d)
      /\ \A d \in Conns : Received(d)' = Received(d)
  BY <1>1 DEF Pieces, Modifies, Row, Stored, Received
<1>5. /\ order' \in [Conns -> Orders]
      /\ Modifies(c) => ~order'[c].hasorder
      /\ \A d \in Conns : order'[d].file = order[d].file
      /\ \A d \in Conns : d # c \/ ~Modifies(c) => order'[d] = order[d]
  <2>1. order \in [Conns -> Orders]
    BY DEF IInv, TypeOK
  <2>2. CASE Modifies(c)
    <3>1. order' = [order EXCEPT ![c] = [order[c] EXCEPT !.hasorder = FALSE]]
      BY <2>2 DEF UpdateLog, ClearOrder
    <3>2. /\ [order[c] EXCEPT !.hasorder = FALSE] \in Orders
          /\ [order[c] EXCEPT !.hasorder = FALSE].file = order[c].file
          /\ ~[order[c] EXCEPT !.hasorder = FALSE].hasorder
      BY <2>1 DEF Orders
    <3>. QED
      BY <2>1, <2>2, <3>1, <3>2
  <2>3. CASE ~Modifies(c)
    BY <2>1, <2>3 DEF UpdateLog
  <2>. QED
    BY <2>2, <2>3
<1>6. /\ freed' \in [Conns -> Nat] /\ \A d \in Conns \ {c} : freed'[d] = freed[d]
      /\ freed'[c] <= 1 /\ freed'[c] <= written[c]
  <2>1. freed \in [Conns -> Nat] /\ written \in [Conns -> Nat] /\ freed[c] = 0
    BY <1>1 DEF IInv, TypeOK, Logged
  <2>2. CASE Modifies(c)
    <3>1. written[c] >= 1
      BY <1>1, <2>2 DEF IInv, Logged
    <3>. QED
      BY <2>1, <2>2, <3>1 DEF UpdateLog
  <2>3. CASE ~Modifies(c)
    BY <2>1, <2>3 DEF UpdateLog
  <2>. QED
    BY <2>2, <2>3
<1>7. TypeOK'
  BY <1>1, <1>2, <1>3, <1>4, <1>5, <1>6 DEF IInv, TypeOK, States
<1>8. FreesWhatItWrote' /\ RowsHaveFiles'
  <2>1. RowsHaveFiles'
    BY <1>1, <1>2, RowsStayWithFiles DEF IInv, Listed, Stands
  <2>. QED
    BY <1>1, <1>6, <2>1 DEF IInv, FreesWhatItWrote
<1>9. Shapes' /\ OneAtATime'
  BY <1>1, <1>3 DEF IInv, Shapes, OneAtATime
<1>10. Logged'
  BY <1>1, <1>2, <1>4, <1>6 DEF IInv, Logged
<1>11. Orderly'
  BY <1>2, <1>4, <1>5 DEF IInv, Orderly
<1>12. EndsWithReceived'
  BY <1>1, <1>2, <1>4 DEF IInv, EndsWithReceived
<1>13. RowsDeleted'
  BY <1>1, <1>2, <1>4 DEF IInv, RowsDeleted
<1>. QED
  BY <1>7, <1>8, <1>9, <1>10, <1>11, <1>12, <1>13 DEF IInv

(* The transaction: an upload that did not overlap has its file by then.   *)
LEMMA UpdateSqlIInv ==
  ASSUME IInv, NEW c \in Conns, UpdateSql(c)
  PROVE  IInv'
<1>1. /\ state[c] = "sql" /\ state' = [state EXCEPT ![c] = "out"]
      /\ UNCHANGED <<req, got, order, written, freed, files, userCount, aborts, kills, alone>>
  BY DEF UpdateSql, ArmAfterRequest
<1>2. state' \in [Conns -> States] /\ state'[c] = "out"
      /\ \A d \in Conns \ {c} : state'[d] = state[d]
  BY <1>1 DEF IInv, TypeOK, States
<1>3. Open' = Open
  BY <1>1, <1>2 DEF Open
<1>4. /\ \A d \in Conns : Pieces(d)' = Pieces(d) /\ (Modifies(d)' <=> Modifies(d))
                       /\ Row(d)' = Row(d) /\ Stored(d)' = Stored(d)
      /\ \A d \in Conns : Received(d)' = Received(d)
  BY <1>1 DEF Pieces, Modifies, Row, Stored, Received
<1>5. /\ Row(c) \in Names /\ rows \in [Names -> Nat] /\ TypeOK
      /\ req[c].behavior \in {"UPLOAD", "DELETE", "DOWNLOAD"}
  BY RequestFacts DEF IInv, TypeOK
<1>6. /\ rows' \in [Names -> Nat]
      /\ req[c].behavior = "DELETE" => rows'[Row(c)] = 0
      /\ \A n \in Names : rows'[n] > rows[n] => n = Row(c) /\ req[c].behavior = "UPLOAD"
  <2>1. CASE req[c].behavior = "UPLOAD"
    <3>1. Insert(req[c].space, req[c].file)
      BY <2>1 DEF UpdateSql
    <3>. QED
      BY <1>5, <2>1, <3>1 DEF Insert, Row
  <2>2. CASE req[c].behavior = "DELETE"
    <3>1. rows' = [rows EXCEPT ![Row(c)] = 0]
      BY <2>2 DEF UpdateSql, DeleteRows, Row
    <3>. QED
      BY <1>5, <2>2, <3>1
  <2>3. CASE req[c].behavior = "DOWNLOAD"
    <3>1. rows' = rows
      BY <2>3 DEF UpdateSql
    <3>. QED
      BY <1>5, <2>3, <3>1
  <2>. QED
    BY <1>5, <2>1, <2>2, <2>3
<1>7. TypeOK'
  BY <1>1, <1>2, <1>3, <1>4, <1>6 DEF IInv, TypeOK, States
<1>8. FreesWhatItWrote'
  BY <1>1 DEF IInv, FreesWhatItWrote
<1>9. Shapes' /\ OneAtATime'
  BY <1>1, <1>3 DEF IInv, Shapes, OneAtATime
<1>10. Logged' /\ Orderly'
  BY <1>1, <1>2, <1>4 DEF IInv, Logged, Orderly
<1>11. EndsWithReceived'
  BY <1>1, <1>2, <1>4 DEF IInv, EndsWithReceived
<1>12. RowsDeleted'
  <2>. SUFFICES ASSUME NEW d \in Conns, alone, state'[d] = "out", req[d].behavior = "DELETE"
                PROVE  rows'[Row(d)] = 0
    BY <1>1, <1>4 DEF RowsDeleted
  <2>1. d = c
    BY <1>1, <1>2 DEF IInv, OneAtATime, Open
  <2>. QED
    BY <1>6, <2>1
<1>13. RowsHaveFiles'
  <2>. SUFFICES ASSUME alone, aborts = 0, NEW f \in Files, SentAsNamed(f),
                       rows'[<<"public", f>>] > 0
                PROVE  files[<<"public", f>>] # <<>>
    BY <1>1, <1>2, NamesStay DEF RowsHaveFiles, Listed, Stands
  <2>. DEFINE n == <<"public", f>>
  <2>1. n \in Names
    BY DEF Names
  <2>2. CASE rows[n] > 0
    BY <2>2 DEF IInv, RowsHaveFiles, Listed, Stands
  <2>3. CASE ~(rows[n] > 0)
    <3>1. rows'[n] > rows[n]
      BY <1>5, <1>6, <2>1, <2>3
    <3>2. n = Row(c) /\ req[c].behavior = "UPLOAD"
      BY <1>6, <2>1, <3>1
    <3>3. EndsWith(files[n], c, Received(c))
      <4>1. n = Stored(c)
        BY <1>1, <3>2 DEF SentAsNamed, Row, Stored
      <4>. QED
        BY <1>1, <3>2, <4>1 DEF IInv, EndsWithReceived
    <3>4. Received(c) = Chunks /\ Chunks \in Nat \ {0}
      <4>1. got[c] = 2 + Chunks /\ Chunks \in Nat \ {0}
        BY <1>1, <3>2, PiecesTyped, HttpAssumption DEF IInv, Logged
      <4>. QED
        BY <4>1 DEF Received
    <3>5. Len(files[n]) >= Chunks
      BY <3>3, <3>4 DEF EndsWith
    <3>6. files[n] # <<>>
      BY <3>4, <3>5
    <3>. QED
      BY <3>6
  <2>. QED
    BY <2>2, <2>3
<1>. QED
  BY <1>7, <1>8, <1>9, <1>10, <1>11, <1>12, <1>13 DEF IInv

(* A connection ends: whatever it does to the files, what the others rely  *)
(* on is as it was.                                                        *)
LEMMA LeaveKeeps ==
  ASSUME IInv, NEW c \in Conns, Destroy(c), state[c] \in {"in", "out", "sending"},
         UNCHANGED <<req, got, order, written, freed, alone>>, aborts' \in Nat,
         files' \in [Names -> Seq(Conns \X Nat)]
  PROVE  /\ TypeOK' /\ FreesWhatItWrote' /\ Shapes' /\ Logged' /\ Orderly'
         /\ OneAtATime' /\ EndsWithReceived' /\ RowsDeleted'
<1>1. state' = [state EXCEPT ![c] = "closed"] /\ userCount' = userCount - 1
  BY DEF Destroy, CountAfterClose
<1>2. state' \in [Conns -> States] /\ state'[c] = "closed"
      /\ \A d \in Conns \ {c} : state'[d] = state[d]
  BY <1>1 DEF IInv, TypeOK, States
<1>3. c \in Open /\ Open' = Open \ {c}
  BY <1>2 DEF Open
<1>4. IsFiniteSet(Open') /\ Cardinality(Open') = Cardinality(Open) - 1
  BY <1>3, FS_RemoveElement DEF IInv, Shapes
<1>5. \A d \in Conns : Pieces(d)' = Pieces(d) /\ (Modifies(d)' <=> Modifies(d))
  BY DEF Pieces, Modifies
<1>6. rows' \in [Names -> Nat]
  BY RollbackRows DEF IInv, Destroy
<1>7. TypeOK'
  <2>1. userCount' = Cardinality(Open')
    BY <1>1, <1>4 DEF IInv, TypeOK
  <2>2. DOMAIN files' = Names
    OBVIOUS
  <2>. QED
    BY <1>2, <1>5, <1>6, <2>1, <2>2 DEF IInv, TypeOK, States
<1>8. FreesWhatItWrote'
  BY DEF IInv, FreesWhatItWrote
<1>9. Shapes' /\ OneAtATime'
  BY <1>3, <1>4 DEF IInv, Shapes, OneAtATime
<1>10. Logged' /\ Orderly'
  BY <1>2, <1>5 DEF IInv, Logged, Orderly
<1>11. \A d \in Conns : alone => state'[d] \in {"new", "closed"}
  BY <1>2, <1>3 DEF IInv, OneAtATime, Open
<1>12. EndsWithReceived' /\ RowsDeleted'
  BY <1>11 DEF EndsWithReceived, RowsDeleted
<1>. QED
  BY <1>7, <1>8, <1>9, <1>10, <1>12

(* A request that is done leaves the rows of every file as they are.       *)
LEMMA DoneRollsNothingBack ==
  ASSUME IInv, NEW c \in Conns, Destroy(c), state[c] \in {"out", "sending"}
  PROVE  /\ Modifies(c) => rows' = rows
         /\ \A s \in {"public", "private"}, f \in Files : rows'[<<s, f>>] = rows[<<s, f>>]
<1>1. Rollback(order[c]) /\ TypeOK
  BY DEF Destroy, IInv
<1>2. CASE Modifies(c)
  BY <1>1, <1>2, RollbackRows DEF IInv, Orderly
<1>3. CASE ~Modifies(c)
  <2>1. order[c].file = ""
    BY <1>3 DEF IInv, Orderly
  <2>2. \A s \in {"public", "private"}, f \in Files :
          <<s, f>> \in Names /\ <<s, f>> # <<order[c].space, order[c].file>>
    BY <2>1, HttpAssumption DEF Names
  <2>. QED
    BY <1>1, <1>3, <2>2, RollbackRows
<1>. QED
  BY <1>2, <1>3

(* The response: a delete whose rows are gone may lose its file.           *)
LEMMA RespondIInv ==
  ASSUME IInv, NEW c \in Conns, Respond(c)
  PROVE  IInv'
<1>1. /\ state[c] = "out" /\ UNCHANGED <<req, got, order, written, freed, aborts, kills, alone>>
      /\ files' = IF req[c].behavior = "DELETE"
                  THEN [files EXCEPT ![Row(c)] = <<>>] ELSE files
  BY DEF Respond, Row
<1>2. /\ Row(c) \in Names /\ aborts' \in Nat
      /\ files \in [Names -> Seq(Conns \X Nat)]
  BY <1>1, RequestFacts DEF IInv, Shapes
<1>3. /\ files' \in [Names -> Seq(Conns \X Nat)]
      /\ \A n \in Names : files'[n] = files[n]
                          \/ (n = Row(c) /\ req[c].behavior = "DELETE")
  BY <1>1, <1>2, EmptySeq
<1>4. ASSUME NEW f \in Files, alone, aborts = 0, SentAsNamed(f), rows[<<"public", f>>] > 0
      PROVE  files'[<<"public", f>>] # <<>>
  <2>. DEFINE n == <<"public", f>>
  <2>1. n \in Names /\ files[n] # <<>>
    BY <1>4 DEF Names, IInv, RowsHaveFiles, Listed, Stands
  <2>2. ~(n = Row(c) /\ req[c].behavior = "DELETE")
    BY <1>1, <1>4 DEF IInv, RowsDeleted
  <2>. QED
    BY <1>3, <2>1, <2>2
<1>5. CASE Destroy(c)
  <2>1. /\ TypeOK' /\ FreesWhatItWrote' /\ Shapes' /\ Logged' /\ Orderly'
        /\ OneAtATime' /\ EndsWithReceived' /\ RowsDeleted'
    BY <1>1, <1>2, <1>3, <1>5, LeaveKeeps
  <2>2. RowsHaveFiles'
    <3>1. \A d \in Conns : state[d] # "new" => state'[d] # "new"
      BY <1>5 DEF Destroy, IInv, TypeOK
    <3>2. \A f \in Files : rows'[<<"public", f>>] = rows[<<"public", f>>]
      BY <1>1, <1>5, DoneRollsNothingBack
    <3>. QED
      BY <1>1, <1>4, <3>1, <3>2, NamesStay DEF RowsHaveFiles, Listed, Stands
  <2>. QED
    BY <2>1, <2>2 DEF IInv
<1>6. CASE state' = [state EXCEPT ![c] = "sending"] /\ UNCHANGED <<rows, userCount>>
  <2>1. state' \in [Conns -> States] /\ state'[c] = "sending"
        /\ \A d \in Conns \ {c} : state'[d] = state[d]
    BY <1>6 DEF IInv, TypeOK, States
  <2>2. Open' = Open
    BY <1>1, <2>1 DEF Open
  <2>3. \A d \in Conns : Pieces(d)' = Pieces(d) /\ (Modifies(d)' <=> Modifies(d))
    BY <1>1 DEF Pieces, Modifies
  <2>4. TypeOK'
    BY <1>1, <1>3, <1>6, <2>1, <2>2, <2>3 DEF IInv, TypeOK, States
  <2>5. FreesWhatItWrote'
    BY <1>1 DEF IInv, FreesWhatItWrote
  <2>6. RowsHaveFiles'
    <3>1. \A d \in Conns : state[d] # "new" => state'[d] # "new"
      BY <2>1
    <3>. QED
      BY <1>1, <1>4, <1>6, <3>1, NamesStay DEF RowsHaveFiles, Listed, Stands
  <2>7. Shapes' /\ OneAtATime'
    BY <1>1, <1>3, <2>2 DEF IInv, Shapes, OneAtATime
  <2>8. Logged' /\ Orderly'
    BY <1>1, <2>1, <2>3 DEF IInv, Logged, Orderly
  <2>9. \A d \in Conns : alone => state'[d] \in {"new", "closed", "sending"}
    BY <1>1, <2>1 DEF IInv, OneAtATime, Open, States
  <2>10. EndsWithReceived' /\ RowsDeleted'
    BY <1>1, <2>9 DEF EndsWithReceived, RowsDeleted
  <2>. QED
    BY <2>4, <2>5, <2>6, <2>7, <2>8, <2>10 DEF IInv
<1>. QED
  BY <1>5, <1>6 DEF Respond

(* The last of the response, and the connection ends.                      *)
LEMMA SendRestIInv ==
  ASSUME IInv, NEW c \in Conns, SendRest(c)
  PROVE  IInv'
<1>1. /\ state[c] = "sending" /\ Destroy(c)
      /\ UNCHANGED <<req, got, order, written, freed, files, aborts, kills, alone>>
  BY DEF SendRest
<1>2. /\ TypeOK' /\ FreesWhatItWrote' /\ Shapes' /\ Logged' /\ Orderly'
      /\ OneAtATime' /\ EndsWithReceived' /\ RowsDeleted'
  <2>1. aborts' \in Nat /\ files' \in [Names -> Seq(Conns \X Nat)]
    BY <1>1 DEF IInv, Shapes
  <2>. QED
    BY <1>1, <2>1, LeaveKeeps
<1>3. RowsHaveFiles'
  <2>1. \A d \in Conns : state[d] # "new" => state'[d] # "new"
    BY <1>1 DEF Destroy, IInv, TypeOK
  <2>2. \A f \in Files : rows'[<<"public", f>>] = rows[<<"public", f>>]
    BY <1>1, DoneRollsNothingBack
  <2>. QED
    BY <1>1, <2>1, <2>2, RowsStayWithFiles DEF IInv, Listed, Stands
<1>. QED
  BY <1>2, <1>3 DEF IInv

(* The client goes away in the middle: from then on nothing is promised of *)
(* rows and files.                                                         *)
LEMMA AbortIInv ==
  ASSUME IInv, NEW c \in Conns, Abort(c)
  PROVE  IInv'
<1>1. /\ state[c] = "in" /\ Destroy(c) /\ aborts' = aborts + 1
      /\ UNCHANGED <<req, got, order, written, freed, files, kills, alone>>
  BY DEF Abort
<1>2. aborts' \in Nat /\ aborts' # 0 /\ files' \in [Names -> Seq(Conns \X Nat)]
  BY <1>1 DEF IInv, Shapes
<1>3. /\ TypeOK' /\ FreesWhatItWrote' /\ Shapes' /\ Logged' /\ Orderly'
      /\ OneAtATime' /\ EndsWithReceived' /\ RowsDeleted'
  BY <1>1, <1>2, LeaveKeeps
<1>4. RowsHaveFiles'
  BY <1>2 DEF RowsHaveFiles
<1>. QED
  BY <1>3, <1>4 DEF IInv

(* All connections are gone, no destructor has run.                        *)
LEMMA KillIInv ==
  ASSUME IInv, Kill
  PROVE  IInv'
<1>1. /\ state' = [c \in Conns |-> IF c \in Open THEN "closed" ELSE state[c]]
      /\ userCount' = 0
      /\ UNCHANGED <<req, got, order, written, freed, rows, files, aborts, alone>>
  BY DEF Kill
<1>2. state' \in [Conns -> States]
      /\ \A c \in Conns : state'[c] = "closed" \/ (state[c] = "new" /\ state'[c] = "new")
  BY <1>1 DEF Open, IInv, TypeOK, States
<1>3. Open' = {}
  BY <1>2 DEF Open
<1>4. IsFiniteSet(Open') /\ Cardinality(Open') = 0
  BY <1>3, FS_EmptySet
<1>5. \A d \in Conns : Pieces(d)' = Pieces(d) /\ (Modifies(d)' <=> Modifies(d))
  BY <1>1 DEF Pieces, Modifies
<1>6. TypeOK'
  BY <1>1, <1>2, <1>4, <1>5 DEF IInv, TypeOK, States
<1>7. FreesWhatItWrote' /\ RowsHaveFiles'
  <2>1. \A c \in Conns : state[c] # "new" => state'[c] # "new"
    BY <1>2
  <2>2. RowsHaveFiles'
    BY <1>1, <2>1, RowsStayWithFiles DEF IInv, Listed, Stands
  <2>. QED
    BY <1>1, <2>2 DEF IInv, FreesWhatItWrote
<1>8. Shapes' /\ OneAtATime'
  BY <1>1, <1>3, <1>4 DEF IInv, Shapes, OneAtATime
<1>9. Logged' /\ Orderly'
  BY <1>1, <1>2, <1>5 DEF IInv, Logged, Orderly
<1>10. EndsWithReceived' /\ RowsDeleted'
  BY <1>2 DEF EndsWithReceived, RowsDeleted
<1>. QED
  BY <1>6, <1>7, <1>8, <1>9, <1>10 DEF IInv

(* The invariant is inductive.                                             *)
LEMMA NextIInv == IInv /\ [Next]_vars => IInv'
<1>. SUFFICES ASSUME IInv, [Next]_vars PROVE IInv'
  OBVIOUS
<1>1. ASSUME NEW c \in Conns, Accept(c) PROVE IInv'
  BY <1>1, AcceptIInv
<1>2. ASSUME NEW c \in Conns, Recv(c) PROVE IInv'
  BY <1>2, RecvIInv
<1>3. ASSUME NEW c \in Conns, Abort(c) PROVE IInv'
  BY <1>3, AbortIInv
<1>4. ASSUME NEW c \in Conns, UpdateLog(c) PROVE IInv'
  BY <1>4, UpdateLogIInv
<1>5. ASSUME NEW c \in Conns, UpdateSql(c) PROVE IInv'
  BY <1>5, UpdateSqlIInv
<1>6. ASSUME NEW c \in Conns, Respond(c) PROVE IInv'
  BY <1>6, RespondIInv
<1>7. ASSUME NEW c \in Conns, SendRest(c) PROVE IInv'
  BY <1>7, SendRestIInv
<1>8. CASE Kill
  BY <1>8, KillIInv
<1>9. CASE UNCHANGED vars
  <2>1. UNCHANGED <<state, req, got, order, written, freed, rows, files, userCount, aborts, alone>>
    BY <1>9 DEF vars
  <2>2. UNCHANGED Open
    BY <2>1 DEF Open
  <2>3. \A d \in Conns : /\ Pieces(d)' = Pieces(d) /\ (Modifies(d)' <=> Modifies(d))
                        /\ Row(d)' = Row(d) /\ Stored(d)' = Stored(d) /\ Received(d)' = Received(d)
    BY <2>1 DEF Pieces, Modifies, Row, Stored, Received
  <2>4. TypeOK' /\ FreesWhatItWrote' /\ RowsHaveFiles'
    <3>1. RowsHaveFiles'
      BY <2>1, RowsStayWithFiles DEF IInv, Listed, Stands
    <3>. QED
      BY <2>1, <2>2, <2>3, <3>1 DEF IInv, TypeOK, FreesWhatItWrote
  <2>5. Shapes' /\ Logged' /\ Orderly' /\ OneAtATime'
    BY <2>1, <2>2, <2>3 DEF IInv, Shapes, Logged, Orderly, OneAtATime
  <2>6. EndsWithReceived' /\ RowsDeleted'
    BY <2>1, <2>3 DEF IInv, EndsWithReceived, RowsDeleted
  <2>. QED
    BY <2>4, <2>5, <2>6 DEF IInv
<1>. QED
  BY <1>1, <1>2, <1>3, <1>4, <1>5, <1>6, <1>7, <1>8, <1>9 DEF Next, Serve

(* An upload that is whole is the end of its file, chunk by chunk.         *)
LEMMA IInvUploadIsWhole == IInv => UploadIsWhole
<1>. SUFFICES ASSUME IInv, NEW c \in Conns, alone, state[c] \in {"log", "sql"},
                     req[c].behavior = "UPLOAD"
              PROVE  LET content == files[Stored(c)]
                     IN  /\ Len(content) >= Chunks
                         /\ SubSeq(content, Len(content) - Chunks + 1, Len(content)) = Uploaded(c)
  BY Zenon DEF UploadIsWhole
<1>. DEFINE content == files[Stored(c)]
            first == Len(content) - Chunks + 1
<1>1. Received(c) = Chunks /\ Chunks \in Nat \ {0}
  <2>1. got[c] = 2 + Chunks /\ Chunks \in Nat \ {0}
    BY PiecesTyped, HttpAssumption DEF IInv, Logged
  <2>. QED
    BY <2>1 DEF Received
<1>2. EndsWith(content, c, Chunks)
  BY <1>1 DEF IInv, EndsWithReceived
<1>3. content \in Seq(Conns \X Nat) /\ Len(content) \in Nat
  BY RequestFacts, LenProperties DEF IInv, Shapes
<1>. HIDE DEF content
<1>4. Len(content) >= Chunks /\ first \in 1..Len(content)
      /\ Len(content) - first + 1 = Chunks
  BY <1>1, <1>2, <1>3 DEF EndsWith
<1>5. /\ SubSeq(content, first, Len(content)) \in Seq(Conns \X Nat)
      /\ Len(SubSeq(content, first, Len(content))) = Chunks
      /\ \A i \in 1..Chunks : SubSeq(content, first, Len(content))[i] = content[first + i - 1]
  <2>1. first \in 1..(Len(content) + 1) /\ Len(content) \in (first - 1)..Len(content)
    BY <1>3, <1>4
  <2>. HIDE DEF first
  <2>. QED
    BY <1>3, <1>4, <2>1, SubSeqProperties
<1>6. \A i \in 1..Chunks : content[first + i - 1] = <<c, i>>
  <2>1. \A i \in 1..Chunks : first + i - 1 = Len(content) - Chunks + i
    BY <1>1, <1>3
  <2>. QED
    BY <1>2, <2>1 DEF EndsWith
<1>7. SubSeq(content, first, Len(content)) = [i \in 1..Chunks |-> <<c, i>>]
  <2>. DEFINE sub == SubSeq(content, first, Len(content))
  <2>1. sub = [i \in 1..Chunks |-> sub[i]]
    <3>. HIDE DEF sub
    <3>. QED
      BY <1>5, LenProperties DEF sub
  <2>. HIDE DEF sub, first
  <2>2. \A i \in 1..Chunks : sub[i] = <<c, i>>
    BY <1>5, <1>6 DEF sub
  <2>. QED
    BY <2>1, <2>2 DEF sub
<1>. QED
  BY <1>4, <1>7 DEF Uploaded, content

-----------------------------------------------------------------------------
(* The results, for all constants that satisfy HttpAssumption.             *)

(* A connection frees the rollback entry it wrote, once, and userCount is  *)
(* the number of open connections, whatever ends them.                     *)
THEOREM BooksAreRight == Spec => []BooksRight
<1>1. IInv => BooksRight
  BY DEF IInv, BooksRight
<1>. QED
  BY <1>1, InitIInv, NextIInv, PTL DEF Spec

(* The end of a connection whose transaction has committed changes no row. *)
THEOREM CommittedStays == Spec => NoRollbackAfterCommit
<1>1. ASSUME IInv, [Next]_vars, NEW c \in Conns,
             state[c] \in {"out", "sending"}, Modifies(c), state'[c] = "closed"
      PROVE  rows' = rows
  <2>1. \A d \in Conns : d # c => ~(state' = [state EXCEPT ![d] = "closed"])
    BY <1>1 DEF IInv, TypeOK
  <2>2. \A d \in Conns : Destroy(d) => d = c
    BY <2>1 DEF Destroy
  <2>3. CASE Destroy(c)
    BY <1>1, <2>3, DoneRollsNothingBack
  <2>4. CASE Kill \/ UNCHANGED vars
    BY <2>4 DEF Kill, vars
  <2>5. ASSUME NEW d \in Conns, Accept(d) \/ Recv(d) \/ UpdateLog(d)
        PROVE  rows' = rows
    BY <2>5 DEF Accept, Recv, UpdateLog
  <2>6. ASSUME NEW d \in Conns, UpdateSql(d) PROVE FALSE
    BY <1>1, <2>6 DEF UpdateSql, ArmAfterRequest, IInv, TypeOK
  <2>7. ASSUME NEW d \in Conns, Respond(d), ~Destroy(d) PROVE FALSE
    BY <1>1, <2>7 DEF Respond, IInv, TypeOK
  <2>8. \A d \in Conns : Abort(d) \/ SendRest(d) => Destroy(d)
    BY DEF Abort, SendRest
  <2>. QED
    BY <1>1, <2>2, <2>3, <2>4, <2>5, <2>6, <2>7, <2>8 DEF Next, Serve
<1>2. IInv /\ [Next]_vars
      => \A c \in Conns :
           state[c] \in {"out", "sending"} /\ Modifies(c) /\ state'[c] = "closed"
           => rows' = rows
  BY <1>1
<1>. QED
  BY <1>2, InitIInv, NextIInv, PTL DEF Spec, NoRollbackAfterCommit

(* A public file the tables list exists, where requests do not overlap, no *)
(* client goes away early and the file's uploads send the name of their    *)
(* URL, whenever the node is killed.                                       *)
THEOREM ListedFilesExist == Spec => []RowsHaveFiles
<1>1. IInv => RowsHaveFiles
  BY DEF IInv
<1>. QED
  BY <1>1, InitIInv, NextIInv, PTL DEF Spec

(* An upload that no request overlapped commits with all its chunks at the *)
(* end of its file, in order, however recv cut the request.                *)
THEOREM UploadsAreWhole == Spec => []UploadIsWhole
BY IInvUploadIsWhole, InitIInv, NextIInv, PTL DEF Spec
=============================================================================
