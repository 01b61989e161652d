----------------------------- MODULE HeapTimer -----------------------------
(***************************************************************************)
(* The tracker's timer heap (tracker/src/single/heaptimer.cpp) and those   *)
(* who use it: the event loop, which asks how long it may sleep and closes *)
(* idle connections on the way, and the handlers of HTTP connections.  The *)
(* heap has no lock; calls of different threads are taken to follow one    *)
(* another here, each a single step.                                       *)
(*                                                                         *)
(* A connection is a descriptor and a generation, since descriptors are    *)
(* used again: the callback of a timer holds the object, the heap and its  *)
(* index ref_ know the descriptor.  Positions count from 1, from 0 in the  *)
(* code, and ref is 0 for a descriptor that ref_ has no entry for.  What a *)
(* heap of less than 64 nodes has behind its end is reserved memory, so    *)
(* that writing to "node 1" of an empty heap changes nothing.              *)
(***************************************************************************)
EXTENDS Integers, FiniteSets, Sequences, SequencesExt

CONSTANTS
  Fds,          \* descriptors the kernel hands out
  TimeOut,      \* Conf::timeOut
  MaxTime,      \* bound: the clock
  MaxGen        \* bound: connections on one descriptor

ASSUME TimerAssumption ==
  /\ IsFiniteSet(Fds) /\ TimeOut \in Nat \ {0}
  /\ MaxTime \in Nat /\ MaxGen \in Nat

VARIABLES
  timer,        \* [heap, ref]: heap_ and ref_
  now,          \* Clock::now()
  gen,          \* per descriptor: connections accepted on it so far
  open,         \* descriptors whose connection is open
  active,       \* per descriptor: when its timer was last asked for
  job,          \* per descriptor: the generation its queued handler is for
  listening,    \* ListenHttp's handler is queued
  main,         \* the event loop: run, ticked, timed, sleep
  timeMS,       \* what GetNextTick returned; epoll_wait takes any number
                \* below 0, here -1, for no time-out
  readAt,       \* the clock when it was worked out
  sleptAt,      \* the clock when epoll_wait was called
  missed,       \* the first timer's time was over by then, as history
  timedOut,     \* a timer has gone off
  crashed       \* an object was used after it had been deleted

timerVars == <<timer, now, gen, open, active, job, listening, main, timeMS,
               readAt, sleptAt, missed, timedOut, crashed>>

loopVars == <<timeMS, readAt, sleptAt, missed>>

Never == MaxTime + TimeOut + 1
ConnObjects == Fds \X (1..MaxGen)
Nodes == [id : Fds, expires : 0..(MaxTime + TimeOut), cb : ConnObjects]
Timers == [heap : Seq(Nodes), ref : [Fds -> Nat]]

-----------------------------------------------------------------------------
(* The heap.                                                               *)

SwapForgetsIndex(t, u, v) ==
  [t EXCEPT !.heap = [t.heap EXCEPT ![u] = t.heap[v], ![v] = t.heap[u]]]

SwapNode(t, u, v) ==
  LET h == [t.heap EXCEPT ![u] = t.heap[v], ![v] = t.heap[u]]
  IN  [heap |-> h, ref |-> [t.ref EXCEPT ![h[u].id] = u, ![h[v].id] = v]]

Before(a, b) == a.expires < b.expires

(* A sift moves the node at i among the first n, one step of its loop at a *)
(* time.                                                                   *)
Sifts == {s \in [t : Timers, i : Nat \ {0}, n : Nat] : s.i <= s.n /\ s.n <= Len(s.t.heap)}

siftup[s \in Sifts] ==
  LET f == s.i \div 2
  IN  IF s.i = 1 \/ Before(s.t.heap[f], s.t.heap[s.i]) THEN s
      ELSE siftup[[t |-> SwapNode(s.t, f, s.i), i |-> f, n |-> s.n]]

(* The lesser child is the one to compare with.                            *)
LesserChild(s) ==
  LET j == 2 * s.i
  IN  IF j + 1 <= s.n /\ Before(s.t.heap[j + 1], s.t.heap[j]) THEN j + 1 ELSE j

siftdown[s \in Sifts] ==
  LET j == LesserChild(s)
  IN  IF j > s.n \/ Before(s.t.heap[s.i], s.t.heap[j]) THEN s
      ELSE siftdown[[t |-> SwapNode(s.t, s.i, j), i |-> j, n |-> s.n]]

(* siftdown_ tells whether it moved the node, siftup_ is called otherwise. *)
Settle(t, i, n) ==
  LET s == [t |-> t, i |-> i, n |-> n]
      down == siftdown[s]
  IN  IF down.i > i THEN down.t ELSE siftup[s].t

del(t, i) ==
  LET n == Len(t.heap)
      s == IF i < n THEN Settle(SwapNode(t, i, n), i, n - 1) ELSE t
  IN  IF i > n THEN t
      ELSE [heap |-> Front(s.heap), ref |-> [s.ref EXCEPT ![Last(s.heap).id] = 0]]

add(t, id, expires, cb) ==
  LET n == Len(t.heap)
      pushed == [heap |-> Append(t.heap, [id |-> id, expires |-> expires, cb |-> cb]),
                 ref |-> [t.ref EXCEPT ![id] = n + 1]]
      i == t.ref[id]
  IN  IF i = 0 THEN siftup[[t |-> pushed, i |-> n + 1, n |-> n + 1]].t
      ELSE IF i > n THEN t
      ELSE Settle([heap |-> [t.heap EXCEPT ![i].expires = expires, ![i].cb = cb],
                   ref |-> t.ref], i, n)

(* ref_[id] makes an entry 0 for an id it does not know.                   *)
RefMade(t, id) ==
  IF t.ref[id] # 0 THEN t ELSE [heap |-> t.heap, ref |-> [t.ref EXCEPT ![id] = 1]]

update(t, id, expires) ==
  LET r == RefMade(t, id)
      i == r.ref[id]
      n == Len(r.heap)
  IN  IF i > n THEN r
      ELSE siftdown[[t |-> [heap |-> [r.heap EXCEPT ![i].expires = expires], ref |-> r.ref],
                     i |-> i, n |-> n]].t

eraseNothing(t, id) == t
erase(t, id) ==
  IF t.heap = <<>> \/ t.ref[id] = 0 THEN t ELSE del(t, t.ref[id])

pop(t) == IF t.heap = <<>> THEN t ELSE del(t, 1)

-----------------------------------------------------------------------------
(* tick: while the first node has expired, its callback (CloseUser, whose  *)
(* delete makes ~HttpConn erase the timer) and then pop.  s is the heap    *)
(* with the open descriptors and whether a deleted object was used.        *)
Ticks == [timer : Timers, open : SUBSET Fds, crashed : BOOLEAN]

Alive(s, conn) == conn[1] \in s.open /\ gen[conn[1]] = conn[2]

CloseUser(s, conn) ==
  IF Alive(s, conn)
  THEN [timer |-> erase(s.timer, conn[1]), open |-> s.open \ {conn[1]}, crashed |-> s.crashed]
  ELSE [s EXCEPT !.crashed = TRUE]

ExpiredSoon(node) == node.expires - 1 <= now
Expired(node) == node.expires <= now

tick[s \in Ticks] ==
  IF s.crashed \/ s.timer.heap = <<>> \/ ~Expired(s.timer.heap[1]) THEN s
  ELSE LET closed == CloseUser(s, s.timer.heap[1].cb)
       IN  tick[[closed EXCEPT !.timer = pop(closed.timer)]]

(* What is left for the first node, -1 without one.  res is unsigned, so   *)
(* that its test for less than 0 never holds: what is negative becomes a   *)
(* huge number and, as the function's int, negative again.  A unit of the  *)
(* model's clock is more than the millisecond duration_cast cuts off.      *)
LeftOfLast(t) == IF t.heap = <<>> THEN -1 ELSE Last(t.heap).expires - now
Left(t) == IF t.heap = <<>> THEN -1 ELSE t.heap[1].expires - now

TimerInit ==
  /\ timer = [heap |-> <<>>, ref |-> [f \in Fds |-> 0]] /\ now = 0
  /\ gen = [f \in Fds |-> 0] /\ open = {} /\ active = [f \in Fds |-> 0]
  /\ job = [f \in Fds |-> 0] /\ listening = FALSE
  /\ main = "run" /\ timeMS = -1 /\ readAt = 0 /\ sleptAt = 0
  /\ missed = FALSE /\ timedOut = FALSE /\ crashed = FALSE

(* StartUp: GetNextTick calls tick and reads the clock again, then comes   *)
(* epoll_wait.  Time goes on in between, and so do the handlers.  What the *)
(* last turn worked out is forgotten.                                      *)
Tick ==
  LET s == tick[[timer |-> timer, open |-> open, crashed |-> FALSE]]
  IN  /\ ~crashed /\ main = "run"
      /\ timer' = s.timer /\ open' = s.open /\ crashed' = s.crashed
      /\ timedOut' = (timedOut \/ timer # s.timer)
      /\ main' = "ticked" /\ timeMS' = -1 /\ readAt' = 0 /\ sleptAt' = 0 /\ missed' = FALSE
      /\ UNCHANGED <<now, gen, active, job, listening>>

GetNextTick ==
  /\ ~crashed /\ main = "ticked"
  /\ timeMS' = IF Left(timer) < 0 THEN -1 ELSE Left(timer)
  /\ missed' = (timer.heap # <<>> /\ Left(timer) < 0)
  /\ readAt' = now /\ main' = "timed"
  /\ UNCHANGED <<timer, now, gen, open, active, job, listening, sleptAt, timedOut, crashed>>

EpollWait ==
  /\ ~crashed /\ main = "timed"
  /\ sleptAt' = now /\ main' = "sleep"
  /\ UNCHANGED <<timer, now, gen, open, active, job, listening, timeMS, readAt, missed,
                 timedOut, crashed>>

(* When epoll_wait returns by itself.                                      *)
Wake == IF timeMS < 0 THEN Never ELSE sleptAt + timeMS

WakeUp ==
  /\ ~crashed /\ main = "sleep" /\ now >= Wake
  /\ main' = "run"
  /\ UNCHANGED <<timer, now, gen, open, active, job, listening, loopVars, timedOut, crashed>>

(* Events: DealRead_ and DealWrite_ queue a handler, which the one-shot    *)
(* registration allows once; DealClose_ deletes the connection at once.    *)
Armed(f) == f \in open /\ job[f] = 0

DispatchListen ==
  /\ ~crashed /\ main = "sleep" /\ ~listening
  /\ listening' = TRUE /\ main' = "run"
  /\ UNCHANGED <<timer, now, gen, open, active, job, loopVars, timedOut, crashed>>

Dispatch(f) ==
  /\ ~crashed /\ main = "sleep" /\ Armed(f)
  /\ job' = [job EXCEPT ![f] = gen[f]] /\ main' = "run"
  /\ UNCHANGED <<timer, now, gen, open, active, listening, loopVars, timedOut, crashed>>

DealClose(f) ==
  /\ timer' = erase(timer, f) /\ open' = open \ {f}

HangUp(f) ==
  /\ ~crashed /\ main = "sleep" /\ Armed(f)
  /\ DealClose(f) /\ main' = "run"
  /\ UNCHANGED <<now, gen, active, job, listening, loopVars, timedOut, crashed>>

-----------------------------------------------------------------------------
(* The handlers, on the workers of the pool.                               *)

(* ListenHttp::ReadProcess; accept may find nobody any more.               *)
Accept ==
  /\ ~crashed /\ listening /\ listening' = FALSE
  /\ \/ \E f \in Fds \ open :
          /\ gen[f] < MaxGen
          /\ gen' = [gen EXCEPT ![f] = @ + 1] /\ open' = open \cup {f}
          /\ timer' = add(timer, f, now + TimeOut, <<f, gen[f] + 1>>)
          /\ active' = [active EXCEPT ![f] = now]
     \/ UNCHANGED <<gen, open, timer, active>>
  /\ UNCHANGED <<now, job, main, loopVars, timedOut, crashed>>

(* ReadProcess or WriteProcess of HttpConn: the connection lives on, or    *)
(* DealClose_ deletes it.                                                  *)
Handle(f) ==
  LET updated == update(timer, f, now + TimeOut)
  IN  /\ ~crashed /\ job[f] # 0 /\ job' = [job EXCEPT ![f] = 0]
      /\ IF f \notin open \/ job[f] # gen[f]
         THEN crashed' = TRUE /\ UNCHANGED <<timer, open, active>>
         ELSE /\ active' = [active EXCEPT ![f] = now]
              /\ \/ timer' = updated /\ UNCHANGED open
                 \/ timer' = erase(updated, f) /\ open' = open \ {f}
              /\ UNCHANGED crashed
      /\ UNCHANGED <<now, gen, listening, main, loopVars, timedOut>>

Advance ==
  /\ now < MaxTime /\ now' = now + 1
  /\ UNCHANGED <<timer, gen, open, active, job, listening, main, loopVars,
                 timedOut, crashed>>

TimerNext ==
  \/ Tick \/ GetNextTick \/ EpollWait \/ WakeUp \/ DispatchListen \/ Accept \/ Advance
  \/ \E f \in Fds : Dispatch(f) \/ HangUp(f) \/ Handle(f)

TimerSpec == TimerInit /\ [][TimerNext]_timerVars

-----------------------------------------------------------------------------
(* Types.                                                                  *)
TimerTypeOK ==
  /\ timer \in Timers /\ \A f \in Fds : timer.ref[f] <= Cardinality(Fds)
  /\ now \in 0..MaxTime /\ open \subseteq Fds /\ gen \in [Fds -> 0..MaxGen]
  /\ job \in [Fds -> 0..MaxGen] /\ active \in [Fds -> 0..MaxTime]
  /\ listening \in BOOLEAN /\ main \in {"run", "ticked", "timed", "sleep"}
  /\ timeMS \in -1..(MaxTime + TimeOut) /\ readAt \in 0..now /\ sleptAt \in 0..now
  /\ missed \in BOOLEAN
  /\ timedOut \in BOOLEAN /\ crashed \in BOOLEAN

(* heap_ is a heap, and ref_ gives every node of it its position           *)
(* (heaptimer.h:23): whatever the callers do, even with entries of ref_    *)
(* that stand for no node.                                                 *)
HeapShape ==
  \A i \in DOMAIN timer.heap :
    LET node == timer.heap[i]
    IN  /\ i > 1 => timer.heap[i \div 2].expires <= node.expires
        /\ timer.ref[node.id] = i

(* Until the first timer goes off, the heap is the map from the open       *)
(* connections to the ends of their time: one timer each, bound to the     *)
(* object that is open now, and set by its last activity.                  *)
TimersMatch ==
  ~timedOut =>
    /\ \A f \in Fds : timer.ref[f] # 0 <=> f \in open
    /\ Len(timer.heap) = Cardinality(open)
    /\ \A f \in open : \E i \in DOMAIN timer.heap :
         timer.heap[i] = [id |-> f, expires |-> active[f] + TimeOut, cb |-> <<f, gen[f]>>]

(* The heap is sound, its index within the array, and until a timer goes   *)
(* off it has what its users put there.                                    *)
HeapSound == TimerTypeOK /\ HeapShape /\ TimersMatch

(* The event loop wakes for every connection that was active before the    *)
(* loop worked out its time-out: by the end of that connection's time, or  *)
(* later by as much as the way to epoll_wait took.  Handlers may change    *)
(* the heap all the while, since activity only moves an end away.  But if  *)
(* the first timer's end passes between tick's look at the clock and       *)
(* GetNextTick's, the loop sleeps on for ever; and a timer that is added   *)
(* while the loop sleeps without a time-out ends unseen.                   *)
Known(node) == node.expires - TimeOut < readAt

SleepsUntilFirstTimer ==
  main = "sleep" /\ ~missed =>
    \A i \in DOMAIN timer.heap :
      Known(timer.heap[i]) => Wake <= timer.heap[i].expires + (sleptAt - readAt)

(* The first timers to go off close connections that were idle for TimeOut *)
(* and nobody else (README:27).                                            *)
ClosesOnlyIdle ==
  [][main = "run" /\ main' = "ticked" /\ ~timedOut =>
       \A f \in open \ open' : now - active[f] >= TimeOut]_timerVars
=============================================================================
