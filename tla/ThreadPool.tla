----------------------------- MODULE ThreadPool -----------------------------
(***************************************************************************)
(* The worker pool (pool/threadpool.h), the event loop that feeds it (the  *)
(* StartUp of storageserver.cpp, where the whole process runs its loop on  *)
(* the main thread) and the SIGINT handler of main.cpp, which the kernel   *)
(* runs on that same thread: CloseServer, then ThreadPool::Shutdown.       *)
(***************************************************************************)
EXTENDS Naturals, FiniteSets, Sequences

CONSTANTS
  Workers,          \* workers_ (four of them)
  MaxTasks          \* bound: events the loop turns into tasks

ASSUME ThreadPoolAssumption ==
  /\ IsFiniteSet(Workers) /\ Workers # {}
  /\ MaxTasks \in Nat

VARIABLES
  main,         \* the main thread: test, enter, wait, dispatch, locked, notify,
                \* exit, abort, and in the handler close, shutdown, wakeall, join
  interrupted,  \* where the handler will return to; none before the signal
  serverStop,   \* StorageServer::stop_
  mtx,          \* main holds mtx_ (the workers' sections are single steps)
  stop,         \* ThreadPool::stop_
  tasks,        \* tasks_, numbered in the order of the events
  added,        \* tasks pushed so far
  pc,           \* per worker: check, sleep, took, run, gone
  task,         \* per worker: the task it took last
  free,         \* free_
  done          \* tasks that have been run, in the order they ended

serverVars == <<main, interrupted, serverStop, mtx, stop, tasks, added, pc,
                task, free, done>>

poolVars == <<stop, tasks, added, pc, task, free, done>>

ServerInit ==
  /\ main = "test" /\ interrupted = "none" /\ serverStop = FALSE
  /\ mtx = FALSE /\ stop = FALSE /\ tasks = <<>> /\ added = 0
  /\ pc = [w \in Workers |-> "check"] /\ task = [w \in Workers |-> 0]
  /\ free = Cardinality(Workers) /\ done = <<>>

Sleepers == {w \in Workers : pc[w] = "sleep"}

-----------------------------------------------------------------------------
(* The event loop and AddTask.                                             *)

(* The loop looks at stop_ and then goes to sleep, without a time-out.  A  *)
(* signal may come in between.                                             *)
TestsStop ==
  /\ main = "test"
  /\ main' = IF serverStop THEN "exit" ELSE "enter"
  /\ UNCHANGED <<interrupted, serverStop, mtx, poolVars>>

EpollWait ==
  /\ main = "enter"
  /\ main' = "wait"
  /\ UNCHANGED <<interrupted, serverStop, mtx, poolVars>>

(* Sockets become ready, if their peers want it: epoll_wait returns.       *)
Events ==
  /\ main = "wait" /\ added < MaxTasks
  /\ main' = "dispatch"
  /\ UNCHANGED <<interrupted, serverStop, mtx, poolVars>>

(* lock, and the assertion that the pool is still open.                    *)
AddTaskLock ==
  /\ main = "dispatch" /\ ~mtx
  /\ IF stop THEN main' = "abort" /\ UNCHANGED mtx
     ELSE main' = "locked" /\ mtx' = TRUE
  /\ UNCHANGED <<interrupted, serverStop, poolVars>>

AddTaskPush ==
  /\ main = "locked"
  /\ tasks' = Append(tasks, added + 1) /\ added' = added + 1
  /\ mtx' = FALSE /\ main' = "notify"
  /\ UNCHANGED <<interrupted, serverStop, stop, pc, task, free, done>>

NotifyNobody == pc' = pc
NotifyOne ==
  IF Sleepers = {} THEN pc' = pc
  ELSE \E w \in Sleepers : pc' = [pc EXCEPT ![w] = "check"]

(* notify_one, and on to the next event of the batch or to the test.       *)
AddTaskNotify ==
  /\ main = "notify"
  /\ NotifyOne
  /\ \/ main' = "test"
     \/ added < MaxTasks /\ main' = "dispatch"
  /\ UNCHANGED <<interrupted, serverStop, mtx, stop, tasks, added, task, free, done>>

-----------------------------------------------------------------------------
(* A worker.  The wait on cv_ re-evaluates its predicate under mtx_.       *)

LeavesOnStop == stop
Leaves == stop /\ tasks = <<>>

TasksAfterPop == Tail(tasks)

Check(w) ==
  /\ pc[w] = "check" /\ ~mtx
  /\ \/ /\ Leaves
        /\ pc' = [pc EXCEPT ![w] = "gone"]
        /\ UNCHANGED <<tasks, task>>
     \/ /\ ~Leaves /\ tasks # <<>>
        /\ task' = [task EXCEPT ![w] = Head(tasks)]
        /\ tasks' = TasksAfterPop
        /\ pc' = [pc EXCEPT ![w] = "took"]
     \/ /\ ~stop /\ tasks = <<>>
        /\ pc' = [pc EXCEPT ![w] = "sleep"]
        /\ UNCHANGED <<tasks, task>>
  /\ UNCHANGED <<main, interrupted, serverStop, mtx, stop, added, free, done>>

(* condition_variable allows waking up for no reason.                      *)
WakeSpuriously(w) ==
  /\ pc[w] = "sleep"
  /\ pc' = [pc EXCEPT ![w] = "check"]
  /\ UNCHANGED <<main, interrupted, serverStop, mtx, stop, tasks, added, task, free, done>>

Begin(w) ==
  /\ pc[w] = "took"
  /\ pc' = [pc EXCEPT ![w] = "run"] /\ free' = free - 1
  /\ UNCHANGED <<main, interrupted, serverStop, mtx, stop, tasks, added, task, done>>

FreeAfterTask == free + 1

End(w) ==
  /\ pc[w] = "run"
  /\ pc' = [pc EXCEPT ![w] = "check"] /\ free' = FreeAfterTask
  /\ done' = Append(done, task[w])
  /\ UNCHANGED <<main, interrupted, serverStop, mtx, stop, tasks, added, task>>

-----------------------------------------------------------------------------
(* SIGINT.  Bound: one signal.                                             *)

Signal ==
  /\ interrupted = "none"
  /\ main \in {"test", "enter", "wait", "dispatch", "locked", "notify"}
  /\ interrupted' = main /\ main' = "close"
  /\ UNCHANGED <<serverStop, mtx, poolVars>>

(* CloseServer, after its two seconds of sleep.                            *)
CloseServer ==
  /\ main = "close"
  /\ serverStop' = TRUE /\ main' = "shutdown"
  /\ UNCHANGED <<interrupted, mtx, poolVars>>

(* Shutdown; mtx_ is not recursive, so if the signal came while main held  *)
(* it, the handler waits for what it interrupted.                          *)
ShutdownLock ==
  /\ main = "shutdown" /\ ~mtx
  /\ stop' = TRUE /\ main' = "wakeall"
  /\ UNCHANGED <<interrupted, serverStop, mtx, tasks, added, pc, task, free, done>>

NotifyAll == pc' = [w \in Workers |-> IF w \in Sleepers THEN "check" ELSE pc[w]]

WakesOnShutdown == NotifyAll

ShutdownNotify ==
  /\ main = "wakeall"
  /\ WakesOnShutdown
  /\ main' = "join"
  /\ UNCHANGED <<interrupted, serverStop, mtx, stop, tasks, added, task, free, done>>

(* All workers joined, the handler returns to what it interrupted; an      *)
(* epoll_wait that had begun returns -1, and the loop looks at stop_.      *)
ReturnsTo(place) == IF place = "wait" THEN "test" ELSE place

Join ==
  /\ main = "join"
  /\ \A w \in Workers : pc[w] = "gone"
  /\ main' = ReturnsTo(interrupted)
  /\ UNCHANGED <<interrupted, serverStop, mtx, poolVars>>

-----------------------------------------------------------------------------
MainStep ==
  \/ TestsStop \/ EpollWait \/ AddTaskLock \/ AddTaskPush \/ AddTaskNotify
  \/ CloseServer \/ ShutdownLock \/ ShutdownNotify \/ Join

WorkerStep(w) == Check(w) \/ Begin(w) \/ End(w)

ServerNext ==
  \/ MainStep \/ Events \/ Signal
  \/ \E w \in Workers : WorkerStep(w) \/ WakeSpuriously(w)

ServerSpec == ServerInit /\ [][ServerNext]_serverVars

(* Tasks end and threads that can run do; events and signals need not      *)
(* come, and nobody counts on spurious wake-ups.                           *)
ServerFairSpec ==
  /\ ServerSpec /\ WF_serverVars(MainStep)
  /\ \A w \in Workers : WF_serverVars(WorkerStep(w))

-----------------------------------------------------------------------------
(* Types; free_ is the number of workers that are not running a task.      *)
ServerTypeOK ==
  /\ main \in {"test", "enter", "wait", "dispatch", "locked", "notify",
               "exit", "abort", "close", "shutdown", "wakeall", "join"}
  /\ interrupted \in {"none", "test", "enter", "wait", "dispatch", "locked", "notify"}
  /\ serverStop \in BOOLEAN /\ mtx \in BOOLEAN /\ stop \in BOOLEAN
  /\ tasks \in Seq(1..MaxTasks) /\ added \in 0..MaxTasks
  /\ pc \in [Workers -> {"check", "sleep", "took", "run", "gone"}]
  /\ task \in [Workers -> 0..MaxTasks] /\ done \in Seq(1..MaxTasks)
  /\ free = Cardinality({w \in Workers : pc[w] # "run"})

(* Every task that was added is in exactly one place: waiting, with one    *)
(* worker, or done, and the waiting ones are the last ones added, in order.*)
Working == {w \in Workers : pc[w] \in {"took", "run"}}

TasksRunOnce ==
  /\ tasks = [i \in 1..Len(tasks) |-> added - Len(tasks) + i]
  /\ Len(done) + Cardinality(Working) + Len(tasks) = added
  /\ {done[i] : i \in DOMAIN done} \cup {task[w] : w \in Working}
       = 1..(added - Len(tasks))

(* A worker never sleeps through work: while a task waits and everybody    *)
(* sleeps, a notification is on its way.                                   *)
NoLostNotify ==
  tasks # <<>> /\ Sleepers = Workers => main \in {"notify", "wakeall"}
                                        \/ interrupted = "notify"

(* Shutdown gives the requests that were accepted the time to end: when    *)
(* the handler is through, wherever the loop goes on, all their tasks are  *)
(* done and no worker is left.                                             *)
ShutdownDrains ==
  stop /\ main \notin {"wakeall", "join"}
  => Len(done) = added /\ \A w \in Workers : pc[w] = "gone"

(* The pool is sound wherever the signal comes: tasks are run once, no     *)
(* worker sleeps through them, and a shutdown lets them end.               *)
PoolSound == ServerTypeOK /\ TasksRunOnce /\ NoLostNotify /\ ShutdownDrains

(* A task that was added is run, whether or not a shutdown comes, unless   *)
(* the signal interrupted AddTask while it held mtx_: the handler and all  *)
(* workers then wait for the main thread, which is in the handler.         *)
TasksRun == tasks # <<>> ~> tasks = <<>> \/ interrupted = "locked"

(* A signal ends the server, whether or not another event comes: the loop  *)
(* leaves, or, when it had more events of the batch to add, AddTask        *)
(* aborts.  There are two places where it does not: in AddTask's critical  *)
(* section the handler waits for ever, and between the test of stop_ and   *)
(* epoll_wait the loop sleeps on without a pool behind it.                 *)
ShutdownCompletes ==
  main = "close" /\ interrupted \notin {"locked", "enter"} ~> main \in {"exit", "abort"}
=============================================================================
