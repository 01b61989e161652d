-------------------------- MODULE LockPoolTimerProofs -----------------------
(***************************************************************************)
(* What the threads of the tracker share, in three parts.                  *)
(*                                                                         *)
(* The lock: for any finite set of threads the lock of RWLock.tla is type  *)
(* correct, counts exactly, excludes, loses no wake-up, lets no reader     *)
(* overtake a queued writer, and implements RWLockSpec.                    *)
(*                                                                         *)
(* The pool of MySQL connections: for any finite set of users and any      *)
(* finite set of connections, were it empty, with or without the           *)
(* refreshing thread, no connection is shared or lost, no pop finds the    *)
(* queue empty, the semaphore counts, and after the shutdown every         *)
(* connection is closed.                                                   *)
(*                                                                         *)
(* The timer heap: for any finite set of descriptors, any time out and any *)
(* bounds of the clock and of the generations, the heap stays a heap that  *)
(* its index fits, the event loop does not sleep past a timer it could     *)
(* have known of, and the first timers to go off close idle connections.   *)
(* The sifts and tick are recursive functions; that they are defined, and  *)
(* what their steps keep, follows from lemmas about loops in general.      *)
(***************************************************************************)
EXTENDS RWLock, SqlConnPool, HeapTimer,
        FunctionTheorems, FiniteSetTheorems, SequenceTheorems, WellFoundedInduction, TLAPS

-----------------------------------------------------------------------------
(* The lock.                                                               *)

(* The inductive invariant.  Exclusion alone is not inductive: that no     *)
(* reader is inside when a writer enters is known only from the counter,   *)
(* and that the counter can be trusted only from CountersExact.            *)
IInv == TypeOK /\ CountersExact /\ Exclusion /\ NoLostWakeup

-----------------------------------------------------------------------------
(* How many threads are at a place, before and after one more or one less. *)

LEMMA AtFinite ==
  ASSUME NEW p
  PROVE  /\ IsFiniteSet(At(p)) /\ Cardinality(At(p)) \in Nat
         /\ Cardinality(At(p)) = 0 <=> At(p) = {}
<1>1. IsFiniteSet(At(p))
  BY ThreadsAssumption, FS_Subset DEF At
<1>. QED
  BY <1>1, FS_CardinalityType, FS_EmptySet

LEMMA AtPlus ==
  ASSUME NEW p, NEW t, t \notin At(p)
  PROVE  Cardinality(At(p) \cup {t}) = Cardinality(At(p)) + 1
BY AtFinite, FS_AddElement

LEMMA AtMinus ==
  ASSUME NEW p, NEW t, t \in At(p)
  PROVE  /\ Cardinality(At(p)) > 0
         /\ Cardinality(At(p) \ {t}) = Cardinality(At(p)) - 1
BY AtFinite, FS_RemoveElement

-----------------------------------------------------------------------------
(* Every action preserves the invariant.                                   *)

LEMMA InitIInv == Init => IInv
<1>. SUFFICES ASSUME Init PROVE IInv
  OBVIOUS
<1>1. \A p : p # "out" => At(p) = {}
  BY DEF Init, At
<1>2. TypeOK
  BY DEF Init, TypeOK
<1>3. CountersExact
  BY <1>1, FS_EmptySet DEF Init, CountersExact
<1>4. Exclusion /\ NoLostWakeup
  BY <1>1 DEF Init, Exclusion, NoLostWakeup, At
<1>. QED
  BY <1>2, <1>3, <1>4 DEF IInv

LEMMA ReaderSleepsIInv ==
  ASSUME IInv, NEW t \in Threads, pc[t] \in {"out", "rwait"}, ReaderSleeps(t)
  PROVE  IInv'
<1>. USE DEF IInv
<1>1. /\ At("read")' = At("read") /\ At("wwait")' = At("wwait")
      /\ At("write")' = At("write") /\ At("rwait")' = At("rwait") \cup {t}
  BY DEF ReaderSleeps, TypeOK, At
<1>2. TypeOK'
  BY <1>1 DEF ReaderSleeps, TypeOK
<1>3. CountersExact'
  BY <1>1 DEF ReaderSleeps, CountersExact
<1>4. Exclusion'
  BY DEF ReaderSleeps, TypeOK, Exclusion
<1>5. NoLostWakeup'
  BY <1>1 DEF ReaderSleeps, ReaderMustWait, NoLostWakeup
<1>. QED
  BY <1>2, <1>3, <1>4, <1>5

LEMMA ReaderEntersIInv ==
  ASSUME IInv, NEW t \in Threads, pc[t] \in {"out", "rwait"},
         t \notin readCV, ReaderEnters(t)
  PROVE  IInv'
<1>. USE DEF IInv
<1>1. /\ At("read")' = At("read") \cup {t} /\ t \notin At("read")
      /\ At("wwait")' = At("wwait") /\ At("write")' = At("write")
      /\ At("rwait")' = At("rwait") \ {t}
  BY DEF ReaderEnters, TypeOK, At
<1>2. TypeOK'
  BY <1>1 DEF ReaderEnters, TypeOK
<1>3. CountersExact'
  BY <1>1, AtPlus DEF ReaderEnters, CountersExact
<1>4. Exclusion'
  <2>1. At("write") = {}
    BY DEF ReaderEnters, ReaderMustWait, TypeOK, CountersExact
  <2>. QED
    BY <1>1, <2>1 DEF Exclusion, At
<1>5. NoLostWakeup'
  BY <1>1 DEF ReaderEnters, NoLostWakeup, TypeOK
<1>. QED
  BY <1>2, <1>3, <1>4, <1>5

LEMMA ReaderUnlockIInv ==
  ASSUME IInv, NEW t \in Threads, ReaderUnlock(t)
  PROVE  IInv'
<1>. USE DEF IInv
<1>1. /\ At("read")' = At("read") \ {t} /\ t \in At("read")
      /\ At("wwait")' = At("wwait") /\ At("write")' = At("write")
      /\ At("rwait")' = At("rwait")
  BY DEF ReaderUnlock, TypeOK, At
<1>2. readCV' = readCV /\ writeCV' \subseteq writeCV
  BY DEF ReaderUnlock, NotifyWhenLastReaderLeaves, NotifyOne
<1>3. CountersExact'
  BY <1>1, AtMinus DEF ReaderUnlock, CountersExact
<1>4. TypeOK'
  <2>1. reader' \in Nat
    <3>1. Cardinality(At("read")) > 0
      BY <1>1, AtMinus
    <3>. QED
      BY <3>1 DEF ReaderUnlock, CountersExact, TypeOK
  <2>. QED
    BY <1>1, <1>2, <2>1 DEF ReaderUnlock, TypeOK
<1>5. Exclusion'
  BY DEF ReaderUnlock, TypeOK, Exclusion
<1>6. NoLostWakeup'
  <2>1. ASSUME At("wwait") # {}, reader' = 0
        PROVE  At("wwait") \ writeCV' # {}
    BY <2>1 DEF ReaderUnlock, NotifyWhenLastReaderLeaves, NotifyOne, TypeOK
  <2>. QED
    BY <1>1, <1>2, <2>1 DEF ReaderUnlock, NoLostWakeup
<1>. QED
  BY <1>3, <1>4, <1>5, <1>6

LEMMA WriterLockIInv ==
  ASSUME IInv, NEW t \in Threads, WriterLock(t)
  PROVE  IInv'
<1>. USE DEF IInv
<1>1. CASE WriterMustWait
  <2>. USE <1>1
  <2>1. /\ At("wwait")' = At("wwait") \cup {t} /\ t \notin At("wwait")
        /\ At("read")' = At("read") /\ At("write")' = At("write")
        /\ At("rwait")' = At("rwait")
    BY DEF WriterLock, TypeOK, At
  <2>2. CountersExact'
    BY <2>1, AtPlus DEF WriterLock, CountersExact
  <2>3. TypeOK'
    BY <2>1 DEF WriterLock, TypeOK
  <2>4. Exclusion'
    BY DEF WriterLock, TypeOK, Exclusion
  <2>5. NoLostWakeup'
    BY <2>1 DEF WriterLock, WriterMustWait, TypeOK, NoLostWakeup
  <2>. QED
    BY <2>2, <2>3, <2>4, <2>5
<1>2. CASE ~WriterMustWait
  <2>. USE <1>2
  <2>1. /\ At("write")' = At("write") \cup {t}
        /\ At("read")' = At("read") /\ At("wwait")' = At("wwait")
        /\ At("rwait")' = At("rwait")
    BY DEF WriterLock, TypeOK, At
  <2>2. CountersExact'
    BY <2>1 DEF WriterLock, CountersExact
  <2>3. TypeOK'
    BY <2>1 DEF WriterLock, TypeOK
  <2>4. At("read") = {} /\ At("write") = {}
    BY AtFinite DEF WriterMustWait, TypeOK, CountersExact
  <2>5. Exclusion'
    BY <2>1, <2>4 DEF Exclusion, At
  <2>6. NoLostWakeup'
    BY <2>1 DEF WriterLock, NoLostWakeup
  <2>. QED
    BY <2>2, <2>3, <2>5, <2>6
<1>. QED
  BY <1>1, <1>2

LEMMA WriterWakesIInv ==
  ASSUME IInv, NEW t \in Threads, WriterWakes(t)
  PROVE  IInv'
<1>. USE DEF IInv
<1>1. CASE WriterMustWait
  <2>. USE <1>1
  <2>1. /\ pc' = pc /\ reader' = reader /\ writer' = writer
        /\ writeQuest' = writeQuest /\ readCV' = readCV
        /\ writeCV' = writeCV \cup {t} /\ t \in At("wwait")
    BY DEF WriterWakes, At
  <2>2. \A p : At(p)' = At(p)
    BY <2>1 DEF At
  <2>3. TypeOK' /\ CountersExact' /\ Exclusion'
    BY <2>1, <2>2 DEF TypeOK, CountersExact, Exclusion
  <2>4. NoLostWakeup'
    BY <2>1, <2>2 DEF WriterMustWait, TypeOK, NoLostWakeup
  <2>. QED
    BY <2>3, <2>4
<1>2. CASE ~WriterMustWait
  <2>. USE <1>2
  <2>1. /\ At("write")' = At("write") \cup {t}
        /\ At("wwait")' = At("wwait") \ {t} /\ t \in At("wwait")
        /\ At("read")' = At("read") /\ At("rwait")' = At("rwait")
    BY DEF WriterWakes, TypeOK, At
  <2>2. CountersExact'
    BY <2>1, AtMinus DEF WriterWakes, CountersExact
  <2>3. TypeOK'
    <3>1. writeQuest' \in Nat
      <4>1. Cardinality(At("wwait")) > 0
        BY <2>1, AtMinus
      <4>. QED
        BY <4>1 DEF WriterWakes, CountersExact, TypeOK
    <3>. QED
      BY <2>1, <3>1 DEF WriterWakes, TypeOK
  <2>4. At("read") = {} /\ At("write") = {}
    BY AtFinite DEF WriterMustWait, TypeOK, CountersExact
  <2>5. Exclusion'
    BY <2>1, <2>4 DEF Exclusion, At
  <2>6. NoLostWakeup'
    BY <2>1 DEF WriterWakes, NoLostWakeup
  <2>. QED
    BY <2>2, <2>3, <2>5, <2>6
<1>. QED
  BY <1>1, <1>2

LEMMA WriterUnlockIInv ==
  ASSUME IInv, NEW t \in Threads, WriterUnlock(t)
  PROVE  IInv'
<1>. USE DEF IInv
<1>1. /\ At("write")' = At("write") \ {t} /\ t \in At("write")
      /\ At("wwait")' = At("wwait") /\ At("read")' = At("read")
      /\ At("rwait")' = At("rwait")
  BY DEF WriterUnlock, TypeOK, At
<1>2. readCV' \subseteq readCV /\ writeCV' \subseteq writeCV
  BY DEF WriterUnlock, NotifyWhenWriterLeaves, NotifyOne
<1>3. TypeOK'
  BY <1>1, <1>2 DEF WriterUnlock, TypeOK
<1>4. At("write")' = {}
  BY <1>1 DEF Exclusion, At
<1>5. CountersExact'
  BY <1>1, <1>4 DEF WriterUnlock, CountersExact
<1>6. Exclusion'
  BY <1>4 DEF Exclusion, At
<1>7. NoLostWakeup'
  <2>1. CASE writeQuest > 0
    <3>1. At("wwait") # {} => At("wwait") \ writeCV' # {}
      BY <2>1 DEF WriterUnlock, NotifyWhenWriterLeaves, NotifyOne, TypeOK
    <3>. QED
      BY <1>1, <2>1, <3>1 DEF WriterUnlock, NoLostWakeup
  <2>2. CASE ~(writeQuest > 0)
    <3>1. At("wwait") = {}
      BY <2>2, AtFinite DEF TypeOK, CountersExact
    <3>. QED
      BY <1>1, <2>2, <3>1
         DEF WriterUnlock, NotifyWhenWriterLeaves, NoLostWakeup
  <2>. QED
    BY <2>1, <2>2
<1>. QED
  BY <1>3, <1>5, <1>6, <1>7

LEMMA SpuriousWakeupIInv ==
  ASSUME IInv, NEW t \in Threads, SpuriousWakeup(t)
  PROVE  IInv'
<1>1. \A p : At(p)' = At(p)
  BY DEF SpuriousWakeup, At
<1>. QED
  BY <1>1
     DEF SpuriousWakeup, IInv, TypeOK, CountersExact, Exclusion, NoLostWakeup

LEMMA NextIInv == IInv /\ [Next]_vars => IInv'
<1>. SUFFICES ASSUME IInv, [Next]_vars PROVE IInv'
  OBVIOUS
<1>1. CASE UNCHANGED vars
  <2>1. \A p : At(p)' = At(p)
    BY <1>1 DEF vars, At
  <2>. QED
    BY <1>1, <2>1
       DEF vars, IInv, TypeOK, CountersExact, Exclusion, NoLostWakeup
<1>2. ASSUME NEW t \in Threads, ReaderLock(t) \/ ReaderWakes(t)
      PROVE  IInv'
  <2>1. pc[t] \in {"out", "rwait"} /\ t \notin readCV
    BY <1>2 DEF ReaderLock, ReaderWakes, IInv, TypeOK, At
  <2>2. ReaderSleeps(t) \/ ReaderEnters(t)
    BY <1>2 DEF ReaderLock, ReaderWakes
  <2>. QED
    BY <2>1, <2>2, ReaderSleepsIInv, ReaderEntersIInv
<1>. QED
  BY <1>1, <1>2, ReaderUnlockIInv, WriterLockIInv, WriterWakesIInv,
     WriterUnlockIInv, SpuriousWakeupIInv DEF Next, Step

LEMMA SpecIInv == Spec => []IInv
BY InitIInv, NextIInv, PTL DEF Spec

-----------------------------------------------------------------------------
(* The lock's fields always have their types: in particular neither        *)
(* counter is ever decremented below zero by a destructor.                 *)
THEOREM TypeCorrect == Spec => []TypeOK
<1>1. IInv => TypeOK
  BY DEF IInv
<1>. QED
  BY <1>1, SpecIInv, PTL

(* The counters of rwlock.h are exact, whatever the interleaving.          *)
THEOREM CountersAreExact == Spec => []CountersExact
<1>1. IInv => CountersExact
  BY DEF IInv
<1>. QED
  BY <1>1, SpecIInv, PTL

(* A thread in a writer scope of rwlock.h is alone, for any number of      *)
(* threads.                                                                *)
THEOREM LockExcludes == Spec => []Exclusion
<1>1. IInv => Exclusion
  BY DEF IInv
<1>. QED
  BY <1>1, SpecIInv, PTL

(* The notifications of the two destructors of rwlock.h never leave a free *)
(* lock with only sleeping threads.                                        *)
THEOREM WakeupsNotLost == Spec => []NoLostWakeup
<1>1. IInv => NoLostWakeup
  BY DEF IInv
<1>. QED
  BY <1>1, SpecIInv, PTL

(* The two loop tests of rwlock.h let no reader overtake a queued writer.  *)
THEOREM WritersPreferred == Spec => WriterPriority
<1>1. ASSUME IInv, [Next]_vars, At("wwait") # {}
      PROVE  At("read")' \subseteq At("read")
  <2>1. writeQuest > 0
    BY <1>1, AtFinite DEF IInv, CountersExact
  <2>2. CASE UNCHANGED vars
    BY <2>2 DEF vars, At
  <2>3. ASSUME NEW t \in Threads, Step(t) \/ SpuriousWakeup(t)
        PROVE  At("read")' \subseteq At("read")
    <3>1. pc' = pc \/ \E p : p # "read" /\ pc' = [pc EXCEPT ![t] = p]
      BY <2>1, <2>3
         DEF Step, ReaderLock, ReaderWakes, ReaderSleeps, ReaderEnters,
             ReaderMustWait, ReaderUnlock, WriterLock, WriterWakes,
             WriterUnlock, SpuriousWakeup
    <3>. QED
      BY <1>1, <3>1 DEF IInv, TypeOK, At
  <2>. QED
    BY <1>1, <2>2, <2>3 DEF Next
<1>2. IInv /\ [Next]_vars
      => [At("wwait") # {} => At("read")' \subseteq At("read")]_vars
  BY <1>1
<1>. QED
  BY <1>2, SpecIInv, PTL DEF Spec, WriterPriority

-----------------------------------------------------------------------------
(* The lock of rwlock.h implements the abstract one: a thread's entering a *)
(* scope, queuing and leaving are the abstract steps, and sleeping, waking *)
(* and testing again are invisible.                                        *)

LEMMA AbstractInit == Init => Abstract!Init
BY DEF Init, Abstract!Init, At

LEMMA AbstractStep ==
  ASSUME IInv, NEW t \in Threads, Step(t) \/ SpuriousWakeup(t)
  PROVE  Abstract!Next \/ UNCHANGED Abstract!vars
<1>. USE DEF IInv
<1>1. CASE SpuriousWakeup(t)
  BY <1>1 DEF SpuriousWakeup, Abstract!vars, At
<1>2. ASSUME ReaderSleeps(t), pc[t] \in {"out", "rwait"}
      PROVE  UNCHANGED Abstract!vars
  BY <1>2 DEF ReaderSleeps, TypeOK, At, Abstract!vars
<1>3. ASSUME ReaderEnters(t), pc[t] \in {"out", "rwait"}
      PROVE  Abstract!Read(t)
  <2>1. At("write") = {} /\ At("wwait") = {}
    BY <1>3, AtFinite
       DEF ReaderEnters, ReaderMustWait, TypeOK, CountersExact
  <2>2. /\ At("read")' = At("read") \cup {t} /\ t \notin At("read")
        /\ At("wwait")' = At("wwait") /\ At("write")' = At("write")
    BY <1>3 DEF ReaderEnters, TypeOK, At
  <2>. QED
    BY <2>1, <2>2 DEF Abstract!Read, Abstract!Idle
<1>4. CASE ReaderLock(t) \/ ReaderWakes(t)
  <2>1. pc[t] \in {"out", "rwait"} /\ (ReaderSleeps(t) \/ ReaderEnters(t))
    BY <1>4 DEF ReaderLock, ReaderWakes
  <2>. QED
    BY <1>2, <1>3, <2>1 DEF Abstract!Next
<1>5. CASE ReaderUnlock(t) \/ WriterUnlock(t)
  <2>1. /\ t \in At("read") \cup At("write")
        /\ At("read")' = At("read") \ {t} /\ At("write")' = At("write") \ {t}
        /\ At("wwait")' = At("wwait")
    BY <1>5 DEF ReaderUnlock, WriterUnlock, TypeOK, At
  <2>. QED
    BY <2>1 DEF Abstract!Release, Abstract!Next
<1>6. ASSUME ~WriterMustWait, pc[t] \in {"out", "wwait"},
             pc' = [pc EXCEPT ![t] = "write"]
      PROVE  Abstract!Write(t)
  <2>1. At("read") = {} /\ At("write") = {}
    BY <1>6, AtFinite DEF WriterMustWait, TypeOK, CountersExact
  <2>2. /\ At("write")' = At("write") \cup {t} /\ At("read")' = At("read")
        /\ At("wwait")' = At("wwait") \ {t}
    BY <1>6 DEF TypeOK, At
  <2>3. t \in Abstract!Idle \cup At("wwait")
    BY <1>6 DEF Abstract!Idle, At
  <2>. QED
    BY <2>1, <2>2, <2>3 DEF Abstract!Write
<1>7. CASE WriterLock(t)
  <2>1. CASE WriterMustWait
    <3>1. /\ t \in Abstract!Idle
          /\ At("wwait")' = At("wwait") \cup {t}
          /\ At("read")' = At("read") /\ At("write")' = At("write")
      BY <1>7, <2>1 DEF WriterLock, TypeOK, At, Abstract!Idle
    <3>. QED
      BY <3>1 DEF Abstract!Queue, Abstract!Next
  <2>2. CASE ~WriterMustWait
    BY <1>6, <1>7, <2>2 DEF WriterLock, Abstract!Next
  <2>. QED
    BY <2>1, <2>2
<1>8. CASE WriterWakes(t)
  <2>1. CASE WriterMustWait
    BY <1>8, <2>1 DEF WriterWakes, At, Abstract!vars
  <2>2. CASE ~WriterMustWait
    BY <1>6, <1>8, <2>2 DEF WriterWakes, Abstract!Next
  <2>. QED
    BY <2>1, <2>2
<1>. QED
  BY <1>1, <1>4, <1>5, <1>7, <1>8 DEF Step

THEOREM LockImplementsSpec == Spec => RefinesRWLockSpec
<1>1. IInv /\ [Next]_vars => [Abstract!Next]_Abstract!vars
  <2>1. ASSUME UNCHANGED vars PROVE UNCHANGED Abstract!vars
    BY <2>1 DEF vars, Abstract!vars, At
  <2>. QED
    BY <2>1, AbstractStep DEF Next
<1>. QED
  BY <1>1, AbstractInit, SpecIInv, PTL
     DEF Spec, RefinesRWLockSpec, Abstract!Spec

-----------------------------------------------------------------------------
(* The pool of MySQL connections.                                          *)

(* The queue is emptied for good when nobody uses the pool any more.       *)
QuietWhenClosed ==
  phase # "running" => connQue = {} /\ \A u \in Users : userAt[u] = "out"

(* The inductive invariant: that a pop finds a connection follows from the *)
(* count alone, and the count holds only until the queue is emptied.       *)
PoolIInv == PoolTypeOK /\ ConnsConserved /\ SemCounts /\ QuietWhenClosed

-----------------------------------------------------------------------------
(* Counting users past the semaphore and connections in the queue.         *)

LEMMA PoppingFinite ==
  /\ IsFiniteSet(Popping) /\ Cardinality(Popping) \in Nat
  /\ Cardinality(Popping) = 0 <=> Popping = {}
<1>1. IsFiniteSet(Popping)
  BY PoolAssumption, FS_Subset DEF Popping
<1>. QED
  BY <1>1, FS_CardinalityType, FS_EmptySet

LEMMA QueueFinite ==
  ASSUME PoolTypeOK
  PROVE  /\ IsFiniteSet(connQue) /\ Cardinality(connQue) \in Nat
         /\ Cardinality(connQue) = 0 <=> connQue = {}
<1>1. IsFiniteSet(connQue)
  BY PoolAssumption, FS_Subset DEF PoolTypeOK
<1>. QED
  BY <1>1, FS_CardinalityType, FS_EmptySet

-----------------------------------------------------------------------------
(* Every action preserves the invariant.                                   *)

LEMMA PoolInitIInv == PoolInit => PoolIInv
<1>. SUFFICES ASSUME PoolInit PROVE PoolIInv
  OBVIOUS
<1>1. PoolTypeOK
  BY PoolAssumption, FS_CardinalityType DEF PoolInit, PoolTypeOK
<1>2. ConnsConserved
  <2>1. Held = {}
    BY DEF PoolInit, Held
  <2>. QED
    BY <2>1 DEF PoolInit, ConnsConserved
<1>3. SemCounts
  <2>1. Popping = {} /\ Cardinality(Conns) \in Nat
    BY PoolAssumption, FS_CardinalityType DEF PoolInit, Popping
  <2>. QED
    BY <2>1, FS_EmptySet DEF PoolInit, SemCounts
<1>4. QuietWhenClosed
  BY DEF PoolInit, QuietWhenClosed
<1>. QED
  BY <1>1, <1>2, <1>3, <1>4 DEF PoolIInv

LEMMA CallIInv ==
  ASSUME PoolIInv, NEW u \in Users, Call(u)
  PROVE  PoolIInv'
<1>. USE DEF PoolIInv, Call
<1>1. Popping' = Popping
  BY DEF PoolTypeOK, Popping
<1>2. PoolTypeOK'
  BY DEF PoolTypeOK
<1>3. ConnsConserved'
  <2>1. Held' = Held
    BY DEF Held
  <2>. QED
    BY <2>1 DEF ConnsConserved, PoolTypeOK
<1>4. SemCounts' /\ QuietWhenClosed'
  BY <1>1 DEF SemCounts, QuietWhenClosed
<1>. QED
  BY <1>2, <1>3, <1>4

LEMMA WaitIInv ==
  ASSUME PoolIInv, NEW u \in Users, Wait(u)
  PROVE  PoolIInv'
<1>. USE DEF PoolIInv, Wait, SemWait
<1>1. Popping' = Popping \cup {u} /\ u \notin Popping
  BY DEF PoolTypeOK, Popping
<1>2. Cardinality(Popping') = Cardinality(Popping) + 1
  BY <1>1, PoppingFinite, FS_AddElement
<1>3. PoolTypeOK'
  BY DEF PoolTypeOK
<1>4. ConnsConserved'
  <2>1. Held' = Held
    BY DEF Held
  <2>. QED
    BY <2>1 DEF ConnsConserved, PoolTypeOK
<1>5. SemCounts'
  BY <1>2, PoppingFinite, QueueFinite DEF SemCounts, PoolTypeOK
<1>6. QuietWhenClosed'
  BY DEF QuietWhenClosed
<1>. QED
  BY <1>3, <1>4, <1>5, <1>6

LEMMA PopIInv ==
  ASSUME PoolIInv, NEW u \in Users, Pop(u)
  PROVE  PoolIInv'
<1>. USE DEF PoolIInv
<1>1. PICK c \in connQue :
        held' = [held EXCEPT ![u] = {c}] /\ connQue' = connQue \ {c}
  BY DEF Pop, QueueAfterPop
<1>2. /\ userAt[u] = "pop" /\ userAt' = [userAt EXCEPT ![u] = "using"]
      /\ UNCHANGED <<sem, mtx, fresh, phase, stop, closed>>
  BY DEF Pop
<1>. HIDE DEF Pop
<1>3. PoolTypeOK'
  BY <1>1, <1>2 DEF PoolTypeOK
<1>4. held[u] = {}
  BY <1>2 DEF ConnsConserved
<1>5. ConnsConserved'
  <2>1. Held' = Held \cup {c}
    BY <1>1, <1>4 DEF Held, PoolTypeOK
  <2>2. c \notin Held /\ c \notin closed
    BY <1>1 DEF ConnsConserved
  <2>3. connQue' \cup Held' \cup closed' = Conns
    BY <1>1, <1>2, <2>1 DEF ConnsConserved, PoolTypeOK
  <2>4. /\ connQue' \cap Held' = {} /\ connQue' \cap closed' = {}
        /\ Held' \cap closed' = {}
    BY <1>1, <1>2, <2>1, <2>2 DEF ConnsConserved
  <2>5. \A v \in Users : c \notin held[v]
    BY <2>2 DEF Held
  <2>6. \A v, x \in Users : v # x => held'[v] \cap held'[x] = {}
    BY <1>1, <2>5 DEF ConnsConserved, PoolTypeOK
  <2>7. \A v \in Users : IF userAt'[v] = "using" THEN \E k \in Conns : held'[v] = {k}
                         ELSE held'[v] = {}
    BY <1>1, <1>2 DEF ConnsConserved, PoolTypeOK
  <2>. QED
    BY <2>3, <2>4, <2>6, <2>7 DEF ConnsConserved
<1>6. SemCounts'
  <2>1. Popping' = Popping \ {u} /\ u \in Popping
    BY <1>2 DEF PoolTypeOK, Popping
  <2>2. Cardinality(Popping') = Cardinality(Popping) - 1
    BY <2>1, PoppingFinite, FS_RemoveElement
  <2>3. Cardinality(connQue') = Cardinality(connQue) - 1
    BY <1>1, QueueFinite, FS_RemoveElement
  <2>. QED
    BY <1>2, <2>2, <2>3, PoppingFinite, QueueFinite DEF SemCounts, PoolTypeOK
<1>7. QuietWhenClosed'
  BY <1>2 DEF QuietWhenClosed
<1>. QED
  BY <1>3, <1>5, <1>6, <1>7

LEMMA FreeConnIInv ==
  ASSUME PoolIInv, NEW u \in Users, FreeConn(u)
  PROVE  PoolIInv'
<1>. USE DEF PoolIInv, FreeConn, SemPost
<1>1. PoolTypeOK'
  BY DEF PoolTypeOK
<1>2. PICK c \in Conns : held[u] = {c}
  BY DEF ConnsConserved
<1>3. c \in Held /\ c \notin connQue
  BY <1>2 DEF Held, ConnsConserved
<1>4. ConnsConserved'
  <2>1. Held' = Held \ {c}
    BY <1>2 DEF Held, PoolTypeOK, ConnsConserved
  <2>2. connQue' \cup Held' \cup closed' = Conns
    BY <1>2, <1>3, <2>1 DEF ConnsConserved
  <2>3. /\ connQue' \cap Held' = {} /\ connQue' \cap closed' = {}
        /\ Held' \cap closed' = {}
    BY <1>2, <1>3, <2>1 DEF ConnsConserved
  <2>4. \A v, x \in Users : v # x => held'[v] \cap held'[x] = {}
    BY DEF ConnsConserved, PoolTypeOK
  <2>5. \A v \in Users : IF userAt'[v] = "using" THEN \E k \in Conns : held'[v] = {k}
                         ELSE held'[v] = {}
    BY DEF ConnsConserved, PoolTypeOK
  <2>. QED
    BY <2>2, <2>3, <2>4, <2>5 DEF ConnsConserved
<1>5. SemCounts'
  <2>1. Popping' = Popping
    BY DEF PoolTypeOK, Popping
  <2>2. Cardinality(connQue') = Cardinality(connQue) + 1
    BY <1>2, <1>3, QueueFinite, FS_AddElement
  <2>. QED
    BY <2>1, <2>2, PoppingFinite, QueueFinite DEF SemCounts, PoolTypeOK
<1>6. QuietWhenClosed'
  BY DEF QuietWhenClosed
<1>. QED
  BY <1>1, <1>4, <1>5, <1>6

(* The refreshing thread takes at most the semaphore; the connections and  *)
(* the users are not touched.                                              *)
LEMMA FreshIInv ==
  ASSUME PoolIInv, Fresh
  PROVE  PoolIInv'
<1>. USE DEF PoolIInv
<1>1. UNCHANGED <<userAt, held, connQue, phase, stop, closed>>
  BY DEF Fresh, FreshWake, FreshLock, FreshWait
<1>2. PoolTypeOK'
  BY DEF Fresh, FreshWake, FreshLooksAtStop, FreshLock, FreshWait, PoolTypeOK
<1>3. ConnsConserved' /\ QuietWhenClosed' /\ Popping' = Popping
  BY <1>1 DEF ConnsConserved, Held, QuietWhenClosed, Popping
<1>4. SemCounts'
  <2>1. Cardinality(Popping') = Cardinality(Popping)
    BY <1>3
  <2>2. CASE FreshWake \/ FreshLock
    <3>1. fresh # "getconn" /\ fresh' # "getconn" /\ sem' = sem
      BY <2>2 DEF FreshWake, FreshLooksAtStop, FreshLock
    <3>. QED
      BY <1>1, <2>1, <3>1 DEF SemCounts
  <2>3. CASE FreshWait
    <3>1. fresh # "getconn" /\ fresh' = "getconn" /\ sem' = sem - 1
      BY <2>3 DEF FreshWait
    <3>. QED
      BY <1>1, <2>1, <3>1, PoppingFinite, QueueFinite DEF SemCounts, PoolTypeOK
  <2>. QED
    BY <2>2, <2>3 DEF Fresh
<1>. QED
  BY <1>2, <1>3, <1>4

LEMMA ClosePoolIInv ==
  ASSUME PoolIInv, ClosePool
  PROVE  PoolIInv'
<1>. USE DEF PoolIInv, ClosePool, Emptied
<1>1. PoolTypeOK'
  BY DEF PoolTypeOK
<1>2. ConnsConserved'
  <2>1. Held = {} /\ Held' = {}
    BY DEF Held, ConnsConserved
  <2>. QED
    BY <2>1 DEF ConnsConserved
<1>3. SemCounts' /\ QuietWhenClosed'
  BY DEF SemCounts, QuietWhenClosed
<1>. QED
  BY <1>1, <1>2, <1>3

LEMMA JoinIInv ==
  ASSUME PoolIInv, Join
  PROVE  PoolIInv'
BY DEF PoolIInv, Join, PoolTypeOK, ConnsConserved, Held, SemCounts, QuietWhenClosed, Popping

LEMMA PoolNextIInv == PoolIInv /\ [PoolNext]_poolVars => PoolIInv'
<1>. SUFFICES ASSUME PoolIInv, [PoolNext]_poolVars PROVE PoolIInv'
  OBVIOUS
<1>1. ASSUME NEW u \in Users, Call(u) \/ Serve(u) PROVE PoolIInv'
  BY <1>1, CallIInv, WaitIInv, PopIInv, FreeConnIInv DEF Serve
<1>2. CASE Fresh
  BY <1>2, FreshIInv
<1>3. CASE ClosePool \/ Join
  BY <1>3, ClosePoolIInv, JoinIInv
<1>4. CASE UNCHANGED poolVars
  BY <1>4 DEF poolVars, PoolIInv, PoolTypeOK, ConnsConserved, Held, SemCounts,
              QuietWhenClosed, Popping
<1>. QED
  BY <1>1, <1>2, <1>3, <1>4 DEF PoolNext

LEMMA PoolSpecIInv == PoolSpec => []PoolIInv
BY PoolInitIInv, PoolNextIInv, PTL DEF PoolSpec

-----------------------------------------------------------------------------
(* What the pool promises.                                                 *)

(* The fields keep their types; in particular the semaphore's value never  *)
(* goes below zero.                                                        *)
THEOREM PoolTypeCorrect == PoolSpec => []PoolTypeOK
<1>1. PoolIInv => PoolTypeOK
  BY DEF PoolIInv
<1>. QED
  BY <1>1, PoolSpecIInv, PTL

(* No connection is shared by two threads, lost, or used after mysql_close.*)
THEOREM ConnectionsConserved == PoolSpec => []ConnsConserved
<1>1. PoolIInv => ConnsConserved
  BY DEF PoolIInv
<1>. QED
  BY <1>1, PoolSpecIInv, PTL

(* semId_ counts the connections of the queue that nobody has a claim on.  *)
THEOREM SemaphoreCounts == PoolSpec => []SemCounts
<1>1. PoolIInv => SemCounts
  BY DEF PoolIInv
<1>. QED
  BY <1>1, PoolSpecIInv, PTL

(* front() and pop() of GetConn are never applied to an empty queue.       *)
THEOREM PopsFindConnections == PoolSpec => []NeverPopsEmpty
<1>1. PoolIInv => NeverPopsEmpty
  <2>. SUFFICES ASSUME PoolIInv, NEW u \in Users, userAt[u] = "pop" PROVE connQue # {}
    BY DEF NeverPopsEmpty
  <2>1. Popping # {} /\ phase = "running"
    BY DEF Popping, PoolIInv, QuietWhenClosed, PoolTypeOK
  <2>2. Cardinality(Popping) > 0
    BY <2>1, PoppingFinite
  <2>. QED
    BY <2>1, <2>2, PoppingFinite, QueueFinite DEF PoolIInv, SemCounts, PoolTypeOK
<1>. QED
  BY <1>1, PoolSpecIInv, PTL

(* Once ShutDown or ClosePool is through, every connection is closed.      *)
THEOREM ShutdownClosesAll == PoolSpec => []ClosedWhenDone
<1>1. PoolIInv => ClosedWhenDone
  <2>. SUFFICES ASSUME PoolIInv, phase = "done" PROVE closed = Conns
    BY DEF ClosedWhenDone
  <2>1. connQue = {} /\ Held = {}
    BY DEF PoolIInv, QuietWhenClosed, ConnsConserved, Held
  <2>. QED
    BY <2>1 DEF PoolIInv, ConnsConserved
<1>. QED
  BY <1>1, PoolSpecIInv, PTL

-----------------------------------------------------------------------------
(* The timer heap.                                                         *)

(* Sets of numbers have a least element.                                   *)
LEMMA LeastOf ==
  ASSUME NEW T, T \subseteq Nat, T # {}
  PROVE  \E x \in T : \A y \in T : x <= y
<1>1. PICK x \in T : \A y \in T : ~(<<y, x>> \in OpToRel(<, Nat))
  <2> DEFINE R == OpToRel(<, Nat)
  <2>1. IsWellFoundedOn(R, Nat)
    BY NatLessThanWellFounded
  <2> HIDE DEF R
  <2>2. \E x \in T : \A y \in T : ~(<<y, x>> \in R)
    BY <2>1, WFMin
  <2>. QED
    BY <2>2 DEF R
<1>2. \A y \in T : ~(y < x)
  BY <1>1 DEF OpToRel
<1>. QED
  BY <1>2

(* A loop: a step nxt on the states D, until one of halt is reached; the   *)
(* measure m says that it is reached.                                      *)
Closed(D, halt, nxt) == {Q \in SUBSET D : \A q \in Q \ halt : nxt[q] \in Q}
Orbit(D, halt, nxt, x) == {y \in D : \A Q \in Closed(D, halt, nxt) : x \in Q => y \in Q}

LEMMA OrbitFacts ==
  ASSUME NEW D, NEW halt, NEW nxt \in [D -> D], NEW x \in D
  PROVE  /\ x \in Orbit(D, halt, nxt, x)
         /\ Orbit(D, halt, nxt, x) \in Closed(D, halt, nxt)
         /\ \A Q \in Closed(D, halt, nxt) : x \in Q => Orbit(D, halt, nxt, x) \subseteq Q
         /\ x \in halt => Orbit(D, halt, nxt, x) = {x}
         /\ x \notin halt => Orbit(D, halt, nxt, x) = {x} \cup Orbit(D, halt, nxt, nxt[x])
<1> DEFINE O(y) == Orbit(D, halt, nxt, y)
           C == Closed(D, halt, nxt)
<1>1. \A y \in D : y \in O(y) /\ O(y) \subseteq D
  BY DEF Orbit
<1>2. \A y \in D : \A Q \in C : y \in Q => O(y) \subseteq Q
  BY DEF Orbit
<1>3. \A y \in D : O(y) \in C
  <2>. SUFFICES ASSUME NEW y \in D, NEW q \in O(y), q \notin halt PROVE nxt[q] \in O(y)
    BY <1>1 DEF Closed
  <2>1. nxt[q] \in D /\ q \in D
    BY <1>1
  <2>2. ASSUME NEW Q \in C, y \in Q PROVE nxt[q] \in Q
    <3>1. q \in Q
      BY <1>2, <2>2
    <3>. QED
      BY <2>2, <3>1 DEF Closed
  <2>. QED
    BY <2>1, <2>2 DEF Orbit
<1>4. ASSUME x \in halt PROVE O(x) = {x}
  <2>1. {x} \in C
    BY <1>4 DEF Closed
  <2>. QED
    BY <1>1, <1>2, <2>1
<1>5. ASSUME x \notin halt PROVE O(x) = {x} \cup O(nxt[x])
  <2>1. nxt[x] \in D /\ nxt[x] \in O(x)
    BY <1>1, <1>3, <1>5 DEF Closed
  <2>2. O(nxt[x]) \subseteq O(x)
    BY <1>2, <1>3, <2>1
  <2>3. {x} \cup O(nxt[x]) \in C
    BY <1>1, <1>3, <2>1 DEF Closed
  <2>. QED
    BY <1>1, <1>2, <2>2, <2>3
<1>. QED
  BY <1>1, <1>2, <1>3, <1>4, <1>5

(* Such a loop defines a function, and what its steps keep and where it    *)
(* stops hold of its result.                                               *)
IsLoop(D, halt, nxt, m) ==
  /\ nxt \in [D -> D] /\ m \in [D -> Nat]
  /\ \A x \in D \ halt : m[nxt[x]] < m[x]

Runs(g, D, halt, nxt) == \A x \in D : g[x] = IF x \in halt THEN x ELSE g[nxt[x]]

LEMMA LoopDefined ==
  ASSUME NEW D, NEW halt, NEW nxt, NEW m, IsLoop(D, halt, nxt, m)
  PROVE  \E g : g = [x \in D |-> g[x]] /\ Runs(g, D, halt, nxt)
<1>. USE DEF IsLoop, Runs
<1> DEFINE O(y) == Orbit(D, halt, nxt, y)
           g == [x \in D |-> CHOOSE y : y \in O(x) \cap halt]
<1>1. ASSUME NEW x \in D PROVE O(x) \cap halt # {} /\ O(x) \subseteq D
  <2> DEFINE T == {m[y] : y \in O(x)}
  <2>1. O(x) \in Closed(D, halt, nxt) /\ x \in O(x)
    BY OrbitFacts
  <2>2. O(x) \subseteq D /\ \A q \in O(x) \ halt : nxt[q] \in O(x)
    BY <2>1 DEF Closed
  <2>. HIDE DEF O
  <2>3. T \subseteq Nat /\ T # {}
    BY <2>1, <2>2
  <2>. HIDE DEF T
  <2>4. PICK k \in T : \A l \in T : k <= l
    BY <2>3, LeastOf
  <2>5. PICK y \in O(x) : k = m[y]
    BY <2>4 DEF T
  <2>6. ASSUME y \notin halt PROVE FALSE
    <3>1. nxt[y] \in O(x) /\ y \in D /\ nxt[y] \in D
      BY <2>2, <2>6
    <3>2. m[nxt[y]] \in T
      BY <3>1 DEF T
    <3>3. m[nxt[y]] < m[y] /\ m[nxt[y]] \in Nat /\ m[y] \in Nat
      BY <2>6, <3>1
    <3>. QED
      BY <2>4, <2>5, <3>2, <3>3
  <2>. QED
    BY <2>2, <2>5, <2>6
<1>2. \A x \in D : (CHOOSE y : y \in O(x) \cap halt) \in O(x) \cap halt
  <2>. HIDE DEF O
  <2>. QED
    BY <1>1
<1>3. g \in [D -> D]
  <2>. HIDE DEF O
  <2>. QED
    BY <1>1, <1>2
<1>4. ASSUME NEW x \in D PROVE g[x] = IF x \in halt THEN x ELSE g[nxt[x]]
  <2>1. CASE x \in halt
    <3>1. O(x) = {x}
      BY <2>1, OrbitFacts
    <3>. HIDE DEF O
    <3>2. (CHOOSE y : y \in O(x) \cap halt) \in {x}
      BY <1>2, <3>1
    <3>. QED
      BY <2>1, <3>2
  <2>2. CASE x \notin halt
    <3>1. O(x) = {x} \cup O(nxt[x]) /\ nxt[x] \in D
      BY <2>2, OrbitFacts
    <3>. HIDE DEF O
    <3>2. O(x) \cap halt = O(nxt[x]) \cap halt
      BY <2>2, <3>1
    <3>3. g[nxt[x]] = CHOOSE y : y \in O(nxt[x]) \cap halt
      BY <3>1
    <3>4. g[x] = CHOOSE y : y \in O(x) \cap halt
      OBVIOUS
    <3>. QED
      BY <2>2, <3>2, <3>3, <3>4
  <2>. QED
    BY <2>1, <2>2
<1>5. g = [x \in D |-> g[x]]
  OBVIOUS
<1>6. Runs(g, D, halt, nxt)
  <2>. HIDE DEF g
  <2>. QED
    BY <1>4
<1>. HIDE DEF g
<1>. QED
  BY <1>5, <1>6

LEMMA LoopKeeps ==
  ASSUME NEW D, NEW halt, NEW nxt, NEW m, IsLoop(D, halt, nxt, m),
         NEW g, Runs(g, D, halt, nxt),
         NEW P, P \subseteq D, \A x \in P \ halt : nxt[x] \in P
  PROVE  \A x \in P : g[x] \in P \cap halt
<1>. USE DEF IsLoop, Runs
<1> DEFINE B == {x \in P : g[x] \notin P \cap halt}
           T == {m[x] : x \in B}
<1>. SUFFICES ASSUME B # {} PROVE FALSE
  OBVIOUS
<1>1. T \subseteq Nat /\ T # {}
  OBVIOUS
<1>. HIDE DEF T
<1>2. PICK k \in T : \A l \in T : k <= l
  BY <1>1, LeastOf
<1>3. PICK x \in B : k = m[x]
  BY <1>2 DEF T
<1>4. x \in D /\ x \notin halt /\ g[x] = g[nxt[x]] /\ nxt[x] \in P
  OBVIOUS
<1>5. nxt[x] \in B
  BY <1>3, <1>4
<1>6. m[nxt[x]] \in T
  BY <1>5 DEF T
<1>7. m[nxt[x]] < m[x] /\ m[nxt[x]] \in Nat /\ m[x] \in Nat
  BY <1>4
<1>. QED
  BY <1>2, <1>3, <1>6, <1>7

-----------------------------------------------------------------------------
(* The sifts are such loops.                                               *)

UpStep(s) == [t |-> SwapNode(s.t, s.i \div 2, s.i), i |-> s.i \div 2, n |-> s.n]
UpStop == {s \in Sifts : s.i = 1 \/ Before(s.t.heap[s.i \div 2], s.t.heap[s.i])}
UpNext == [s \in Sifts |-> IF s \in UpStop THEN s ELSE UpStep(s)]
UpLeft == [s \in Sifts |-> s.i]

DownStep(s) == [t |-> SwapNode(s.t, s.i, LesserChild(s)), i |-> LesserChild(s), n |-> s.n]
DownStop == {s \in Sifts : LesserChild(s) > s.n
                           \/ Before(s.t.heap[s.i], s.t.heap[LesserChild(s)])}
DownNext == [s \in Sifts |-> IF s \in DownStop THEN s ELSE DownStep(s)]
DownLeft == [s \in Sifts |-> s.n - s.i]

(* A node's parent is at half of its place.                                *)
LEMMA Halves ==
  ASSUME NEW i \in Nat, i >= 2
  PROVE  /\ i \div 2 \in Nat /\ 1 <= i \div 2 /\ i \div 2 < i
         /\ (i = 2 * (i \div 2) \/ i = 2 * (i \div 2) + 1)
OBVIOUS

LEMMA Children ==
  ASSUME NEW i \in Nat, NEW j \in Nat
  PROVE  j \div 2 = i <=> j = 2 * i \/ j = 2 * i + 1
OBVIOUS

LEMMA SiftParts ==
  ASSUME NEW s \in Sifts
  PROVE  /\ s.t \in Timers /\ s.t.heap \in Seq(Nodes) /\ s.t.ref \in [Fds -> Nat]
         /\ s.i \in Nat /\ s.n \in Nat /\ 1 <= s.i /\ s.i <= s.n /\ s.n <= Len(s.t.heap)
         /\ s = [t |-> s.t, i |-> s.i, n |-> s.n]
BY DEF Sifts, Timers

LEMMA SwapParts ==
  ASSUME NEW t \in Timers, NEW u \in 1..Len(t.heap), NEW v \in 1..Len(t.heap)
  PROVE  /\ SwapNode(t, u, v) \in Timers /\ Len(SwapNode(t, u, v).heap) = Len(t.heap)
         /\ \A j \in 1..Len(t.heap) :
              SwapNode(t, u, v).heap[j]
                = IF j = v THEN t.heap[u] ELSE IF j = u THEN t.heap[v] ELSE t.heap[j]
<1> DEFINE h == [t.heap EXCEPT ![u] = t.heap[v], ![v] = t.heap[u]]
<1>1. t.heap \in Seq(Nodes) /\ t.ref \in [Fds -> Nat] /\ Len(t.heap) \in Nat
  BY LenProperties DEF Timers
<1>2. /\ t.heap[u] \in Nodes /\ t.heap[v] \in Nodes /\ u \in Nat /\ v \in Nat
  BY <1>1, ElementOfSeq
<1>3. h \in Seq(Nodes) /\ Len(h) = Len(t.heap)
  BY <1>1, <1>2, ExceptSeq
<1>4. \A j \in 1..Len(t.heap) :
        h[j] = IF j = v THEN t.heap[u] ELSE IF j = u THEN t.heap[v] ELSE t.heap[j]
  BY <1>1, <1>2, ExceptSeq
<1>. HIDE DEF h
<1>5. [t.ref EXCEPT ![h[u].id] = u, ![h[v].id] = v] \in [Fds -> Nat]
  BY <1>1, <1>2
<1>6. SwapNode(t, u, v) = [heap |-> h, ref |-> [t.ref EXCEPT ![h[u].id] = u, ![h[v].id] = v]]
  BY DEF SwapNode, h
<1>. QED
  BY <1>3, <1>4, <1>5, <1>6 DEF Timers

LEMMA UpMoves ==
  ASSUME NEW s \in Sifts \ UpStop
  PROVE  /\ UpStep(s) \in Sifts /\ s.i >= 2 /\ s.i \div 2 \in 1..Len(s.t.heap)
         /\ s.i \div 2 < s.i /\ s.t.heap[s.i].expires <= s.t.heap[s.i \div 2].expires
<1>1. s \in Sifts /\ s.i # 1 /\ ~Before(s.t.heap[s.i \div 2], s.t.heap[s.i])
  BY DEF UpStop
<1> DEFINE f == s.i \div 2
           t == SwapNode(s.t, f, s.i)
<1>2. /\ s.t \in Timers /\ s.t.heap \in Seq(Nodes) /\ Len(s.t.heap) \in Nat
      /\ s.i \in Nat /\ s.n \in Nat /\ s.i >= 2 /\ s.i <= s.n /\ s.n <= Len(s.t.heap)
  BY <1>1, SiftParts, LenProperties
<1>3. f \in Nat /\ 1 <= f /\ f < s.i /\ f \in 1..Len(s.t.heap) /\ s.i \in 1..Len(s.t.heap)
  BY <1>2, Halves
<1>4. t \in Timers /\ Len(t.heap) = Len(s.t.heap)
  BY <1>2, <1>3, SwapParts
<1>5. s.t.heap[f] \in Nodes /\ s.t.heap[s.i] \in Nodes
  BY <1>2, <1>3, ElementOfSeq
<1>6. s.t.heap[s.i].expires <= s.t.heap[f].expires
  BY <1>1, <1>5, TimerAssumption DEF Before, Nodes
<1>7. UpStep(s) = [t |-> t, i |-> f, n |-> s.n]
  BY DEF UpStep
<1>. HIDE DEF f, t
<1>8. UpStep(s) \in Sifts
  BY <1>2, <1>3, <1>4, <1>7 DEF Sifts
<1>. QED
  BY <1>2, <1>3, <1>6, <1>8 DEF f

LEMMA UpLoop == IsLoop(Sifts, UpStop, UpNext, UpLeft) /\ Runs(siftup, Sifts, UpStop, UpNext)
<1> DEFINE Body(g) == [s \in Sifts |->
             IF s.i = 1 \/ Before(s.t.heap[s.i \div 2], s.t.heap[s.i]) THEN s
             ELSE g[[t |-> SwapNode(s.t, s.i \div 2, s.i), i |-> s.i \div 2, n |-> s.n]]]
<1>1. siftup = CHOOSE g : g = Body(g)
  BY DEF siftup
<1>2. IsLoop(Sifts, UpStop, UpNext, UpLeft)
  <2>1. \A s \in Sifts \ UpStop : UpNext[s] = UpStep(s) /\ UpNext[s].i = s.i \div 2
    BY DEF UpNext, UpStep
  <2>2. UpNext \in [Sifts -> Sifts]
    BY UpMoves DEF UpNext
  <2>3. UpLeft \in [Sifts -> Nat]
    BY SiftParts DEF UpLeft
  <2>4. \A s \in Sifts \ UpStop : UpLeft[UpNext[s]] < UpLeft[s]
    BY <2>1, <2>2, UpMoves DEF UpLeft
  <2>. QED
    BY <2>2, <2>3, <2>4 DEF IsLoop
<1>3. PICK g : g = [s \in Sifts |-> g[s]] /\ Runs(g, Sifts, UpStop, UpNext)
  BY <1>2, LoopDefined
<1>4. \A h : \A s \in Sifts : Body(h)[s] = IF s \in UpStop THEN s ELSE h[UpNext[s]]
  BY DEF UpStop, UpNext, UpStep
<1>5. \A h : Body(h) = [s \in Sifts |-> Body(h)[s]]
  OBVIOUS
<1>. HIDE DEF Body
<1>6. g = Body(g)
  <2>1. \A s \in Sifts : g[s] = Body(g)[s]
    BY <1>3, <1>4 DEF Runs
  <2>. QED
    BY <1>3, <1>5, <2>1
<1>7. siftup = Body(siftup)
  BY <1>1, <1>6
<1>. QED
  BY <1>2, <1>4, <1>7 DEF Runs

(* LesserChild: a child of the first n there is none of, or the least one. *)
LEMMA LesserChildIs ==
  ASSUME NEW s \in Sifts
  PROVE  LET c == LesserChild(s)
         IN  /\ c \in Nat /\ s.i < c
             /\ c <= s.n => /\ c \in 2..s.n /\ c \div 2 = s.i
                            /\ \A j \in 2..s.n : j \div 2 = s.i =>
                                 s.t.heap[c].expires <= s.t.heap[j].expires
             /\ c > s.n => \A j \in 2..s.n : j \div 2 # s.i
<1> DEFINE c == LesserChild(s)
           i == s.i
           n == s.n
           h == s.t.heap
           N == Len(h)
<1>1. /\ h \in Seq(Nodes) /\ N \in Nat /\ i \in Nat /\ n \in Nat /\ i >= 1 /\ i <= n /\ n <= N
      /\ s.t \in Timers
  BY SiftParts, LenProperties
<1>2. \A k \in 1..N : h[k].expires \in Int
  <2>1. \A j \in 1..N : h[j] \in Nodes
    BY <1>1, ElementOfSeq
  <2>. QED
    BY <2>1, TimerAssumption DEF Nodes
<1>3. c = IF 2 * i + 1 <= n /\ Before(h[2 * i + 1], h[2 * i]) THEN 2 * i + 1 ELSE 2 * i
  BY DEF LesserChild
<1>. HIDE DEF c, i, h, n, N
<1>4. c \in Nat /\ (c = 2 * i \/ c = 2 * i + 1) /\ i < c /\ c >= 2
  BY <1>1, <1>3
<1>5. c \div 2 = i
  BY <1>1, <1>4, Children
<1>6. ASSUME NEW j \in 2..n, j \div 2 = i PROVE c <= n /\ h[c].expires <= h[j].expires
  <2>1. (j = 2 * i \/ j = 2 * i + 1) /\ j \in Nat
    BY <1>1, <1>6, Children
  <2>2. 2 * i \in 1..N /\ 2 * i <= n
    BY <1>1, <2>1
  <2>3. CASE 2 * i + 1 <= n /\ Before(h[2 * i + 1], h[2 * i])
    <3>1. c = 2 * i + 1 /\ 2 * i + 1 \in 1..N /\ h[2 * i + 1].expires < h[2 * i].expires
      BY <1>1, <1>3, <2>3 DEF Before
    <3>. QED
      BY <1>2, <2>1, <2>2, <2>3, <3>1
  <2>4. CASE ~(2 * i + 1 <= n)
    <3>1. j = 2 * i /\ c = 2 * i
      BY <1>1, <1>3, <2>1, <2>4
    <3>. QED
      BY <1>2, <2>2, <3>1
  <2>5. CASE 2 * i + 1 <= n /\ ~Before(h[2 * i + 1], h[2 * i])
    <3>1. c = 2 * i /\ 2 * i + 1 \in 1..N /\ ~(h[2 * i + 1].expires < h[2 * i].expires)
      BY <1>1, <1>3, <2>5 DEF Before
    <3>. QED
      BY <1>2, <2>1, <2>2, <3>1
  <2>. QED
    BY <2>3, <2>4, <2>5
<1>7. c \in Nat /\ i < c /\ (c <= n => c \in 2..n)
  BY <1>1, <1>4
<1>8. \A j \in 2..n : j \div 2 = i => c <= n /\ h[c].expires <= h[j].expires
  BY <1>6
<1>9. c > n => ~(c <= n)
  BY <1>1, <1>4
<1>. QED
  BY <1>5, <1>7, <1>8, <1>9 DEF c, i, h, n

LEMMA DownMoves ==
  ASSUME NEW s \in Sifts \ DownStop
  PROVE  /\ DownStep(s) \in Sifts /\ LesserChild(s) \in 2..s.n
         /\ s.i \in 1..Len(s.t.heap) /\ LesserChild(s) \in 1..Len(s.t.heap)
         /\ s.i < LesserChild(s) /\ LesserChild(s) \div 2 = s.i
         /\ s.t.heap[LesserChild(s)].expires <= s.t.heap[s.i].expires
<1> DEFINE c == LesserChild(s)
           t == SwapNode(s.t, s.i, c)
<1>1. s \in Sifts /\ ~(c > s.n) /\ ~Before(s.t.heap[s.i], s.t.heap[c])
  BY DEF DownStop
<1>2. /\ s.t \in Timers /\ s.t.heap \in Seq(Nodes) /\ Len(s.t.heap) \in Nat
      /\ s.i \in Nat /\ s.n \in Nat /\ s.i >= 1 /\ s.i <= s.n /\ s.n <= Len(s.t.heap)
  BY <1>1, SiftParts, LenProperties
<1>3. c \in Nat /\ s.i < c /\ (c <= s.n => c \in 2..s.n /\ c \div 2 = s.i)
  BY <1>1, LesserChildIs
<1>4. DownStep(s) = [t |-> t, i |-> c, n |-> s.n]
  BY DEF DownStep
<1>. HIDE DEF c
<1>5. /\ c \in 2..s.n /\ c \div 2 = s.i /\ c \in 1..Len(s.t.heap) /\ s.i \in 1..Len(s.t.heap)
      /\ c >= 1
  BY <1>1, <1>2, <1>3
<1>6. t \in Timers /\ Len(t.heap) = Len(s.t.heap)
  BY <1>2, <1>5, SwapParts
<1>7. s.t.heap[c].expires <= s.t.heap[s.i].expires
  <2>1. s.t.heap[c] \in Nodes /\ s.t.heap[s.i] \in Nodes
    BY <1>2, <1>5, ElementOfSeq
  <2>. QED
    BY <1>1, <2>1, TimerAssumption DEF Before, Nodes
<1>. HIDE DEF t
<1>8. DownStep(s) \in Sifts
  BY <1>2, <1>4, <1>5, <1>6 DEF Sifts
<1>. QED
  BY <1>3, <1>5, <1>7, <1>8 DEF c

LEMMA DownLoop ==
  IsLoop(Sifts, DownStop, DownNext, DownLeft) /\ Runs(siftdown, Sifts, DownStop, DownNext)
<1> DEFINE Body(g) == [s \in Sifts |->
             IF LesserChild(s) > s.n \/ Before(s.t.heap[s.i], s.t.heap[LesserChild(s)]) THEN s
             ELSE g[[t |-> SwapNode(s.t, s.i, LesserChild(s)), i |-> LesserChild(s), n |-> s.n]]]
<1>1. siftdown = CHOOSE g : g = Body(g)
  BY DEF siftdown
<1>2. IsLoop(Sifts, DownStop, DownNext, DownLeft)
  <2>1. \A s \in Sifts \ DownStop :
          DownNext[s] = DownStep(s) /\ DownNext[s].i = LesserChild(s) /\ DownNext[s].n = s.n
    BY DEF DownNext, DownStep
  <2>2. DownNext \in [Sifts -> Sifts]
    BY DownMoves DEF DownNext
  <2>3. DownLeft \in [Sifts -> Nat]
    BY SiftParts DEF DownLeft
  <2>4. ASSUME NEW s \in Sifts \ DownStop PROVE DownLeft[DownNext[s]] < DownLeft[s]
    <3>1. DownLeft[DownNext[s]] = s.n - LesserChild(s) /\ DownLeft[s] = s.n - s.i
      BY <2>1, <2>2 DEF DownLeft
    <3>2. s.n \in Nat /\ s.i \in Nat /\ LesserChild(s) \in Nat /\ s.i < LesserChild(s)
      BY DownMoves, SiftParts
    <3>. QED
      BY <3>1, <3>2
  <2>. QED
    BY <2>2, <2>3, <2>4 DEF IsLoop
<1>3. PICK g : g = [s \in Sifts |-> g[s]] /\ Runs(g, Sifts, DownStop, DownNext)
  BY <1>2, LoopDefined
<1>4. \A h : \A s \in Sifts : Body(h)[s] = IF s \in DownStop THEN s ELSE h[DownNext[s]]
  BY DEF DownStop, DownNext, DownStep
<1>5. \A h : Body(h) = [s \in Sifts |-> Body(h)[s]]
  OBVIOUS
<1>. HIDE DEF Body
<1>6. g = Body(g)
  <2>1. \A s \in Sifts : g[s] = Body(g)[s]
    BY <1>3, <1>4 DEF Runs
  <2>. QED
    BY <1>3, <1>5, <2>1
<1>7. siftdown = Body(siftdown)
  BY <1>1, <1>6
<1>. QED
  BY <1>2, <1>4, <1>7 DEF Runs

-----------------------------------------------------------------------------
(* What sifting does to the nodes.                                         *)

Indexed(t) == \A j \in 1..Len(t.heap) : t.ref[t.heap[j].id] = j

Among(t, n) == {t.heap[j] : j \in 1..n}

(* r has the nodes of t, the first n of them in some order; entries of ref *)
(* are neither made nor lost.                                              *)
Rearranged(t, r, n) ==
  /\ r \in Timers /\ Len(r.heap) = Len(t.heap) /\ Indexed(r)
  /\ Among(r, n) = Among(t, n) /\ \A j \in (n + 1)..Len(t.heap) : r.heap[j] = t.heap[j]
  /\ \A f \in Fds : /\ r.ref[f] # 0 <=> t.ref[f] # 0
                    /\ r.ref[f] = t.ref[f] \/ r.ref[f] \in 1..Len(t.heap)

LEMMA RearrangedTwice ==
  ASSUME NEW t, NEW r, NEW q, NEW n, Rearranged(t, r, n), Rearranged(r, q, n)
  PROVE  Rearranged(t, q, n)
BY DEF Rearranged

LEMMA TimerNodes ==
  ASSUME NEW t \in Timers
  PROVE  /\ t.heap \in Seq(Nodes) /\ t.ref \in [Fds -> Nat] /\ Len(t.heap) \in Nat
         /\ t = [heap |-> t.heap, ref |-> t.ref]
         /\ \A j \in 1..Len(t.heap) :
              /\ t.heap[j] \in Nodes /\ t.heap[j].id \in Fds /\ t.heap[j].expires \in Nat
              /\ t.heap[j].cb \in ConnObjects
<1>1. t.heap \in Seq(Nodes) /\ t.ref \in [Fds -> Nat] /\ Len(t.heap) \in Nat
  BY LenProperties DEF Timers
<1>2. \A j \in 1..Len(t.heap) : t.heap[j] \in Nodes
  BY <1>1, ElementOfSeq
<1>. QED
  BY <1>1, <1>2, TimerAssumption DEF Nodes, Timers

(* Swapping two nodes of the first n moves nothing else, and ref follows.  *)
LEMMA SwapRearranges ==
  ASSUME NEW t \in Timers, Indexed(t), NEW n \in Nat, n <= Len(t.heap),
         NEW u \in 1..n, NEW v \in 1..n, u # v
  PROVE  Rearranged(t, SwapNode(t, u, v), n)
<1> DEFINE r == SwapNode(t, u, v)
<1>1. u \in 1..Len(t.heap) /\ v \in 1..Len(t.heap) /\ Len(t.heap) \in Nat
  BY TimerNodes
<1>2. /\ r \in Timers /\ Len(r.heap) = Len(t.heap)
      /\ \A j \in 1..Len(t.heap) :
           r.heap[j] = IF j = v THEN t.heap[u] ELSE IF j = u THEN t.heap[v] ELSE t.heap[j]
  BY <1>1, SwapParts
<1> DEFINE a == t.heap[u].id
           b == t.heap[v].id
<1>3. a \in Fds /\ b \in Fds /\ t.ref[a] = u /\ t.ref[b] = v /\ t.ref \in [Fds -> Nat]
  BY <1>1, TimerNodes DEF Indexed
<1>4. a # b
  BY <1>3
<1>5. r.ref = [t.ref EXCEPT ![b] = u, ![a] = v]
  <2> DEFINE h == [t.heap EXCEPT ![u] = t.heap[v], ![v] = t.heap[u]]
  <2>1. r.heap = h /\ r.ref = [t.ref EXCEPT ![h[u].id] = u, ![h[v].id] = v]
    BY DEF SwapNode
  <2>2. h[u].id = b /\ h[v].id = a
    BY <1>1, <1>2, <2>1
  <2>. HIDE DEF h, a, b
  <2>. QED
    BY <2>1, <2>2
<1>. HIDE DEF r, a, b
<1>6. \A f \in Fds : r.ref[f] = IF f = a THEN v ELSE IF f = b THEN u ELSE t.ref[f]
  BY <1>3, <1>4, <1>5
<1>7. Indexed(r)
  <2>. SUFFICES ASSUME NEW j \in 1..Len(t.heap) PROVE r.ref[r.heap[j].id] = j
    BY <1>2 DEF Indexed
  <2>1. t.heap[j].id \in Fds /\ t.ref[t.heap[j].id] = j
    BY TimerNodes DEF Indexed
  <2>2. CASE j = u
    BY <1>1, <1>2, <1>3, <1>4, <1>6, <2>2 DEF b
  <2>3. CASE j = v
    BY <1>1, <1>2, <1>3, <1>4, <1>6, <2>3 DEF a
  <2>4. CASE j # u /\ j # v
    BY <1>2, <1>3, <1>6, <2>1, <2>4
  <2>. QED
    BY <2>2, <2>3, <2>4
<1>8. Among(r, n) = Among(t, n)
  <2>1. \A j \in 1..n :
          r.heap[j] = IF j = v THEN t.heap[u] ELSE IF j = u THEN t.heap[v] ELSE t.heap[j]
    BY <1>1, <1>2
  <2>2. ASSUME NEW j \in 1..n PROVE r.heap[j] \in Among(t, n)
    BY <2>1 DEF Among
  <2>3. ASSUME NEW j \in 1..n PROVE t.heap[j] \in Among(r, n)
    <3>1. r.heap[u] = t.heap[v] /\ r.heap[v] = t.heap[u]
      BY <2>1
    <3>2. j \notin {u, v} => r.heap[j] = t.heap[j]
      BY <2>1
    <3>. QED
      BY <3>1, <3>2 DEF Among
  <2>. QED
    BY <2>2, <2>3 DEF Among
<1>9. \A j \in (n + 1)..Len(t.heap) : r.heap[j] = t.heap[j]
  BY <1>1, <1>2
<1>10. \A f \in Fds : /\ r.ref[f] # 0 <=> t.ref[f] # 0
                      /\ r.ref[f] = t.ref[f] \/ r.ref[f] \in 1..Len(t.heap)
  BY <1>1, <1>3, <1>6
<1>. QED
  BY <1>2, <1>7, <1>8, <1>9, <1>10 DEF Rearranged, r

-----------------------------------------------------------------------------
(* What sifting does to their order: e gives the ends of the nodes.        *)

Ends(t) == [j \in 1..Len(t.heap) |-> t.heap[j].expires]

InOrder(e, n) == \A j \in 2..n : e[j \div 2] <= e[j]

(* In order but for the node at i, which may be after its children ...     *)
SinkOrder(e, i, n) ==
  /\ \A j \in 2..n : j \div 2 # i => e[j \div 2] <= e[j]
  /\ i > 1 => \A j \in 2..n : j \div 2 = i => e[i \div 2] <= e[j]

(* ... or before its parent.                                               *)
RiseOrder(e, i, n) ==
  /\ \A j \in 2..n : j # i => e[j \div 2] <= e[j]
  /\ i > 1 => \A j \in 2..n : j \div 2 = i => e[i \div 2] <= e[j]

Swapped(e, d, u, v, n) ==
  \A j \in 1..n : d[j] = IF j = v THEN e[u] ELSE IF j = u THEN e[v] ELSE e[j]

LEMMA SinkSwap ==
  ASSUME NEW n \in Nat, NEW i \in 1..n, NEW c \in 2..n, c \div 2 = i, NEW e, NEW d,
         \A j \in 1..n : e[j] \in Int, Swapped(e, d, i, c, n), e[c] <= e[i],
         \A j \in 2..n : j \div 2 = i => e[c] <= e[j], SinkOrder(e, i, n)
  PROVE  SinkOrder(d, c, n)
<1> DEFINE p == [j \in 2..n |-> j \div 2]
<1>1. \A j \in 2..n : p[j] = j \div 2 /\ p[j] \in 1..n /\ p[j] < j
  BY Halves
<1>2. /\ \A j \in 2..n : p[j] # i => e[p[j]] <= e[j]
      /\ i > 1 => \A j \in 2..n : p[j] = i => e[p[i]] <= e[j]
      /\ \A j \in 2..n : p[j] = i => e[c] <= e[j]
      /\ p[c] = i
  BY <1>1 DEF SinkOrder
<1>. HIDE DEF p
<1>3. \A j \in 2..n : p[j] # c => d[p[j]] <= d[j]
  <2>. SUFFICES ASSUME NEW j \in 2..n, p[j] # c PROVE d[p[j]] <= d[j]
    OBVIOUS
  <2>1. i < c /\ i \in Nat /\ c \in Nat /\ j \in 1..n /\ p[j] \in 1..n /\ p[j] < j
    BY <1>1, <1>2
  <2>2. CASE j = c
    <3>1. d[j] = e[i] /\ d[p[j]] = e[c]
      BY <1>2, <2>1, <2>2 DEF Swapped
    <3>. QED
      BY <3>1
  <2>3. CASE j # c /\ p[j] = i
    <3>1. d[j] = e[j] /\ d[p[j]] = e[c]
      BY <1>2, <2>1, <2>3 DEF Swapped
    <3>. QED
      BY <1>2, <2>3, <3>1
  <2>4. CASE j = i
    <3>1. d[j] = e[c] /\ d[p[j]] = e[p[j]] /\ i > 1
      BY <1>2, <2>1, <2>4 DEF Swapped
    <3>. QED
      BY <1>2, <2>4, <3>1
  <2>5. CASE j # c /\ p[j] # i /\ j # i
    <3>1. d[j] = e[j] /\ d[p[j]] = e[p[j]]
      BY <2>1, <2>5 DEF Swapped
    <3>. QED
      BY <1>2, <2>5, <3>1
  <2>. QED
    BY <2>2, <2>3, <2>4, <2>5
<1>4. \A j \in 2..n : p[j] = c => d[p[c]] <= d[j]
  <2>. SUFFICES ASSUME NEW j \in 2..n, p[j] = c PROVE d[i] <= d[j]
    BY <1>2
  <2>1. i < c /\ i \in Nat /\ c \in Nat /\ c < j /\ j \in 1..n
    BY <1>1, <1>2
  <2>2. d[i] = e[c] /\ d[j] = e[j]
    BY <2>1 DEF Swapped
  <2>3. e[c] <= e[j]
    BY <1>2, <2>1
  <2>. QED
    BY <2>2, <2>3
<1>. QED
  BY <1>1, <1>3, <1>4 DEF SinkOrder

LEMMA RiseSwap ==
  ASSUME NEW n \in Nat, NEW i \in 2..n, NEW e, NEW d, \A j \in 1..n : e[j] \in Int,
         Swapped(e, d, i \div 2, i, n), e[i] <= e[i \div 2], RiseOrder(e, i, n)
  PROVE  RiseOrder(d, i \div 2, n)
<1> DEFINE p == [j \in 2..n |-> j \div 2]
           f == p[i]
<1>1. \A j \in 2..n : p[j] = j \div 2 /\ p[j] \in 1..n /\ p[j] < j
  BY Halves
<1>2. /\ \A j \in 2..n : j # i => e[p[j]] <= e[j]
      /\ \A j \in 2..n : p[j] = i => e[f] <= e[j]
      /\ Swapped(e, d, f, i, n) /\ e[i] <= e[f]
  BY <1>1 DEF RiseOrder
<1>3. f = i \div 2 /\ f \in 1..n /\ f < i /\ p[i] = f
  BY <1>1
<1>. HIDE DEF p, f
<1>4. \A j \in 2..n : j # f => d[p[j]] <= d[j]
  <2>. SUFFICES ASSUME NEW j \in 2..n, j # f PROVE d[p[j]] <= d[j]
    OBVIOUS
  <2>1. f < i /\ i \in Nat /\ f \in Nat /\ j \in 1..n /\ p[j] \in 1..n /\ p[j] < j
    BY <1>1, <1>3
  <2>2. CASE j = i
    <3>1. d[j] = e[f] /\ d[p[j]] = e[i]
      BY <1>2, <1>3, <2>1, <2>2 DEF Swapped
    <3>. QED
      BY <1>2, <3>1
  <2>3. CASE j # i /\ p[j] = f
    <3>1. d[j] = e[j] /\ d[p[j]] = e[i] /\ e[f] <= e[j]
      BY <1>2, <1>3, <2>1, <2>3 DEF Swapped
    <3>2. e[i] \in Int /\ e[f] \in Int /\ e[j] \in Int
      BY <1>3, <2>1
    <3>. QED
      BY <1>2, <3>1, <3>2
  <2>4. CASE p[j] = i
    <3>1. d[j] = e[j] /\ d[p[j]] = e[f] /\ e[f] <= e[j]
      BY <1>2, <1>3, <2>1, <2>4 DEF Swapped
    <3>. QED
      BY <3>1
  <2>5. CASE j # i /\ p[j] # i /\ p[j] # f
    <3>1. d[j] = e[j] /\ d[p[j]] = e[p[j]]
      BY <1>2, <2>1, <2>5 DEF Swapped
    <3>. QED
      BY <1>2, <2>5, <3>1
  <2>. QED
    BY <2>2, <2>3, <2>4, <2>5
<1>5. ASSUME f > 1, NEW j \in 2..n, p[j] = f PROVE d[p[f]] <= d[j]
  <2>1. f \in 2..n /\ p[f] \in 1..n /\ p[f] < f /\ j \in 1..n /\ f < j /\ f < i
    BY <1>1, <1>3, <1>5
  <2>2. d[p[f]] = e[p[f]] /\ e[p[f]] <= e[f]
    BY <1>2, <1>3, <2>1 DEF Swapped
  <2>3. d[j] = (IF j = i THEN e[f] ELSE e[j])
    BY <1>2, <2>1 DEF Swapped
  <2>4. j # i => e[f] <= e[j]
    BY <1>2, <1>5
  <2>5. e[p[f]] \in Int /\ e[f] \in Int /\ e[j] \in Int
    BY <1>3, <2>1
  <2>. QED
    BY <2>2, <2>3, <2>4, <2>5
<1>6. \A j \in 2..n : j # f => d[j \div 2] <= d[j]
  BY <1>1, <1>4
<1>7. f > 1 => \A j \in 2..n : j \div 2 = f => d[f \div 2] <= d[j]
  <2>1. f > 1 => p[f] = f \div 2
    BY <1>1, <1>3
  <2>2. f > 1 => \A j \in 2..n : p[j] = f => d[p[f]] <= d[j]
    BY <1>5
  <2>. QED
    BY <1>1, <2>1, <2>2
<1>. QED
  BY <1>3, <1>6, <1>7 DEF RiseOrder

LEMMA EndsAre ==
  ASSUME NEW t \in Timers
  PROVE  /\ \A j \in 1..Len(t.heap) : Ends(t)[j] = t.heap[j].expires /\ Ends(t)[j] \in Int
         /\ \A u, v \in 1..Len(t.heap) : \A n \in Nat :
              n <= Len(t.heap) => Swapped(Ends(t), Ends(SwapNode(t, u, v)), u, v, n)
<1>1. \A j \in 1..Len(t.heap) : Ends(t)[j] = t.heap[j].expires /\ Ends(t)[j] \in Int
  BY TimerNodes DEF Ends
<1>2. ASSUME NEW u \in 1..Len(t.heap), NEW v \in 1..Len(t.heap), NEW n \in Nat, n <= Len(t.heap)
      PROVE  Swapped(Ends(t), Ends(SwapNode(t, u, v)), u, v, n)
  <2> DEFINE q == SwapNode(t, u, v)
  <2>1. /\ Len(q.heap) = Len(t.heap) /\ Len(t.heap) \in Nat
        /\ \A j \in 1..Len(t.heap) :
             q.heap[j] = IF j = v THEN t.heap[u] ELSE IF j = u THEN t.heap[v] ELSE t.heap[j]
    <3>1. Len(t.heap) \in Nat
      BY TimerNodes
    <3>. QED
      BY <3>1, SwapParts
  <2>. HIDE DEF q
  <2>2. \A j \in 1..Len(t.heap) : Ends(q)[j] = q.heap[j].expires
    BY <2>1 DEF Ends
  <2>3. \A j \in 1..Len(t.heap) : Ends(q)[j] =
          IF j = v THEN Ends(t)[u] ELSE IF j = u THEN Ends(t)[v] ELSE Ends(t)[j]
    BY <1>1, <2>1, <2>2
  <2>4. \A j \in 1..n : j \in 1..Len(t.heap)
    BY <1>2, <2>1
  <2>. QED
    BY <2>3, <2>4 DEF Swapped, q
<1>. QED
  BY <1>1, <1>2

LEMMA RearrangedSelf ==
  ASSUME NEW t \in Timers, Indexed(t), NEW n PROVE Rearranged(t, t, n)
BY DEF Rearranged

(* siftdown puts a node that is after its children in its place.           *)
LEMMA SiftedDown ==
  ASSUME NEW s \in Sifts, Indexed(s.t), SinkOrder(Ends(s.t), s.i, s.n)
  PROVE  LET r == siftdown[s]
         IN  /\ r \in Sifts /\ r.i >= s.i /\ (r.i = s.i => r = s)
             /\ Rearranged(s.t, r.t, s.n) /\ InOrder(Ends(r.t), s.n)
<1> DEFINE P == {x \in Sifts : /\ x.n = s.n /\ x.i >= s.i /\ (x.i = s.i => x = s)
                               /\ Rearranged(s.t, x.t, s.n) /\ SinkOrder(Ends(x.t), x.i, x.n)}
<1>1. s \in P
  BY SiftParts, RearrangedSelf
<1>2. ASSUME NEW x \in P \ DownStop PROVE DownNext[x] \in P
  <2> DEFINE c == LesserChild(x)
  <2>1. /\ x \in Sifts \ DownStop /\ x.n = s.n /\ x.i >= s.i
        /\ Rearranged(s.t, x.t, s.n) /\ SinkOrder(Ends(x.t), x.i, x.n)
    BY <1>2
  <2>2. /\ DownStep(x) \in Sifts /\ c \in 2..x.n /\ x.i < c /\ c \div 2 = x.i
        /\ x.i \in 1..Len(x.t.heap) /\ c \in 1..Len(x.t.heap)
        /\ x.t.heap[c].expires <= x.t.heap[x.i].expires
    BY <2>1, DownMoves
  <2>3. \A j \in 2..x.n : j \div 2 = x.i => x.t.heap[c].expires <= x.t.heap[j].expires
    <3>1. c <= x.n
      BY <2>2
    <3>. QED
      BY <2>1, <3>1, LesserChildIs
  <2>4. DownNext[x] = DownStep(x)
    BY <2>1 DEF DownNext
  <2>5. DownStep(x) = [t |-> SwapNode(x.t, x.i, c), i |-> c, n |-> x.n]
    BY DEF DownStep
  <2>. HIDE DEF c
  <2>6. x.t \in Timers /\ x.i \in 1..x.n /\ x.n \in Nat /\ x.n <= Len(x.t.heap) /\ s.i \in Nat
        /\ Len(x.t.heap) \in Nat
    BY <2>1, SiftParts, TimerNodes
  <2>7. Indexed(x.t)
    BY <2>1 DEF Rearranged
  <2>8. Rearranged(x.t, SwapNode(x.t, x.i, c), x.n)
    BY <2>2, <2>6, <2>7, SwapRearranges
  <2>9. Rearranged(s.t, SwapNode(x.t, x.i, c), s.n)
    BY <2>1, <2>8, RearrangedTwice
  <2>10. SinkOrder(Ends(SwapNode(x.t, x.i, c)), c, x.n)
    <3> DEFINE e == Ends(x.t)
               d == Ends(SwapNode(x.t, x.i, c))
    <3>1. /\ \A j \in 1..Len(x.t.heap) : e[j] = x.t.heap[j].expires /\ e[j] \in Int
          /\ Swapped(e, d, x.i, c, x.n)
      BY <2>2, <2>6, EndsAre
    <3>. HIDE DEF e, d
    <3>2. \A j \in 1..x.n : e[j] \in Int
      BY <2>6, <3>1
    <3>3. e[c] <= e[x.i] /\ \A j \in 2..x.n : j \div 2 = x.i => e[c] <= e[j]
      <4>1. e[c] = x.t.heap[c].expires /\ e[x.i] = x.t.heap[x.i].expires
        BY <2>2, <3>1
      <4>2. \A j \in 2..x.n : e[j] = x.t.heap[j].expires
        BY <2>6, <3>1
      <4>. QED
        BY <2>2, <2>3, <4>1, <4>2
    <3>4. SinkOrder(e, x.i, x.n)
      BY <2>1 DEF e
    <3>5. SinkOrder(d, c, x.n)
      BY <2>2, <2>6, <3>1, <3>2, <3>3, <3>4, SinkSwap
    <3>. QED
      BY <3>5 DEF d
  <2>11. c >= s.i /\ c # s.i
    BY <2>1, <2>2, <2>6
  <2>. QED
    BY <2>1, <2>2, <2>4, <2>5, <2>9, <2>10, <2>11
<1>. HIDE DEF P
<1>3. P \subseteq Sifts
  BY DEF P
<1>4. siftdown[s] \in P \cap DownStop
  BY <1>1, <1>2, <1>3, DownLoop, LoopKeeps
<1> DEFINE r == siftdown[s]
<1>. HIDE DEF r
<1>5. /\ r \in Sifts /\ r.n = s.n /\ r.i >= s.i /\ (r.i = s.i => r = s)
      /\ Rearranged(s.t, r.t, s.n) /\ SinkOrder(Ends(r.t), r.i, r.n) /\ r \in DownStop
  BY <1>4 DEF P, r
<1>6. InOrder(Ends(r.t), s.n)
  <2> DEFINE c == LesserChild(r)
             e == Ends(r.t)
  <2>1. /\ c \in Nat
        /\ c <= r.n => /\ c \in 2..r.n
                       /\ \A j \in 2..r.n : j \div 2 = r.i =>
                            r.t.heap[c].expires <= r.t.heap[j].expires
        /\ c > r.n => \A j \in 2..r.n : j \div 2 # r.i
    BY <1>5, LesserChildIs
  <2>2. c > r.n \/ r.t.heap[r.i].expires < r.t.heap[c].expires
    BY <1>5 DEF DownStop, Before
  <2>3. /\ r.n \in Nat /\ r.n <= Len(r.t.heap) /\ r.i \in 1..r.n /\ Len(r.t.heap) \in Nat
        /\ \A j \in 1..Len(r.t.heap) : e[j] = r.t.heap[j].expires /\ e[j] \in Int
    BY <1>5, SiftParts, TimerNodes, EndsAre
  <2>4. SinkOrder(e, r.i, r.n)
    BY <1>5
  <2>. HIDE DEF c, e
  <2>5. ASSUME NEW j \in 2..r.n PROVE e[j \div 2] <= e[j]
    <3>1. CASE j \div 2 # r.i
      BY <2>4, <3>1 DEF SinkOrder
    <3>2. CASE j \div 2 = r.i
      <4>1. c <= r.n
        BY <2>1, <2>3, <3>2
      <4>2. c \in 1..Len(r.t.heap) /\ j \in 1..Len(r.t.heap) /\ r.i \in 1..Len(r.t.heap)
        BY <2>1, <2>3, <4>1
      <4>3. e[c] <= e[j]
        BY <2>1, <2>3, <3>2, <4>1, <4>2
      <4>4. e[r.i] < e[c]
        BY <2>1, <2>2, <2>3, <4>1, <4>2
      <4>. QED
        BY <2>3, <3>2, <4>2, <4>3, <4>4
    <3>. QED
      BY <3>1, <3>2
  <2>. QED
    BY <1>5, <2>5 DEF InOrder, e
<1>. QED
  BY <1>5, <1>6 DEF r

(* It leaves one that is before its parent.                                *)
LEMMA LightStays ==
  ASSUME NEW s \in Sifts, s.i > 1, RiseOrder(Ends(s.t), s.i, s.n),
         s.t.heap[s.i].expires < s.t.heap[s.i \div 2].expires
  PROVE  siftdown[s] = s
<1> DEFINE c == LesserChild(s)
           e == Ends(s.t)
<1>1. c \in Nat /\ (c <= s.n => c \in 2..s.n /\ c \div 2 = s.i)
  BY LesserChildIs
<1>2. /\ s.n \in Nat /\ s.n <= Len(s.t.heap) /\ s.i \in 1..s.n /\ Len(s.t.heap) \in Nat
      /\ \A j \in 1..Len(s.t.heap) : e[j] = s.t.heap[j].expires /\ e[j] \in Int
  BY SiftParts, TimerNodes, EndsAre
<1>3. \A j \in 2..s.n : j \div 2 = s.i => e[s.i \div 2] <= e[j]
  BY DEF RiseOrder
<1>. HIDE DEF c, e
<1>4. c <= s.n => s.t.heap[s.i].expires < s.t.heap[c].expires
  <2>. SUFFICES ASSUME c <= s.n PROVE s.t.heap[s.i].expires < s.t.heap[c].expires
    OBVIOUS
  <2>1. c \in 1..Len(s.t.heap) /\ s.i \in 1..Len(s.t.heap) /\ s.i \div 2 \in 1..Len(s.t.heap)
    <3>1. s.i \in Nat /\ s.i >= 2
      BY <1>2
    <3>2. s.i \div 2 \in Nat /\ 1 <= s.i \div 2 /\ s.i \div 2 < s.i
      BY <3>1, Halves
    <3>. QED
      BY <1>1, <1>2, <3>2
  <2> DEFINE k == s.i \div 2
  <2>2. e[k] <= e[c] /\ k \in 1..Len(s.t.heap)
    BY <1>1, <1>3, <2>1
  <2>3. s.t.heap[s.i].expires < s.t.heap[k].expires
    OBVIOUS
  <2>. HIDE DEF k
  <2>4. /\ e[s.i] = s.t.heap[s.i].expires /\ e[s.i] \in Int
        /\ e[k] = s.t.heap[k].expires /\ e[k] \in Int
        /\ e[c] = s.t.heap[c].expires /\ e[c] \in Int
    BY <1>2, <2>1, <2>2
  <2>. QED
    BY <2>2, <2>3, <2>4
<1>5. s \in DownStop
  BY <1>1, <1>2, <1>4 DEF DownStop, Before, c
<1>. QED
  BY <1>5, DownLoop DEF Runs

(* siftup puts a node that is before its parent in its place.              *)
LEMMA SiftedUp ==
  ASSUME NEW s \in Sifts, Indexed(s.t), RiseOrder(Ends(s.t), s.i, s.n)
  PROVE  LET r == siftup[s]
         IN  r \in Sifts /\ Rearranged(s.t, r.t, s.n) /\ InOrder(Ends(r.t), s.n)
<1> DEFINE P == {x \in Sifts : /\ x.n = s.n /\ Rearranged(s.t, x.t, s.n)
                               /\ RiseOrder(Ends(x.t), x.i, x.n)}
<1>1. s \in P
  BY RearrangedSelf, SiftParts
<1>2. ASSUME NEW x \in P \ UpStop PROVE UpNext[x] \in P
  <2> DEFINE f == x.i \div 2
  <2>1. /\ x \in Sifts \ UpStop /\ x.n = s.n
        /\ Rearranged(s.t, x.t, s.n) /\ RiseOrder(Ends(x.t), x.i, x.n)
    BY <1>2
  <2>2. /\ UpStep(x) \in Sifts /\ x.i >= 2 /\ f \in 1..Len(x.t.heap) /\ f < x.i
        /\ x.t.heap[x.i].expires <= x.t.heap[f].expires
    BY <2>1, UpMoves
  <2>3. UpNext[x] = UpStep(x)
    BY <2>1 DEF UpNext
  <2>4. UpStep(x) = [t |-> SwapNode(x.t, f, x.i), i |-> f, n |-> x.n]
    BY DEF UpStep
  <2>5. /\ x.t \in Timers /\ x.i \in 1..x.n /\ x.n \in Nat /\ x.n <= Len(x.t.heap)
        /\ Len(x.t.heap) \in Nat
    BY <2>1, SiftParts, TimerNodes
  <2>6. Indexed(x.t)
    BY <2>1 DEF Rearranged
  <2> DEFINE e == Ends(x.t)
             d == Ends(SwapNode(x.t, f, x.i))
  <2>7. x.i \in 2..x.n /\ f \in 1..x.n /\ x.i \in 1..Len(x.t.heap)
    BY <2>2, <2>5
  <2>8. /\ \A j \in 1..Len(x.t.heap) : e[j] = x.t.heap[j].expires /\ e[j] \in Int
        /\ Swapped(e, d, f, x.i, x.n)
    BY <2>2, <2>5, <2>7, EndsAre
  <2>9. Rearranged(x.t, SwapNode(x.t, f, x.i), x.n)
    <3>. HIDE DEF f
    <3>. QED
      BY <2>2, <2>5, <2>6, <2>7, SwapRearranges
  <2>10. Rearranged(s.t, SwapNode(x.t, f, x.i), s.n)
    BY <2>1, <2>9, RearrangedTwice
  <2>11. RiseOrder(d, f, x.n)
    <3>1. \A j \in 1..x.n : e[j] \in Int
      BY <2>5, <2>8
    <3>2. e[x.i] <= e[f]
      BY <2>2, <2>7, <2>8
    <3>. HIDE DEF e, d
    <3>3. RiseOrder(e, x.i, x.n)
      BY <2>1 DEF e
    <3>. QED
      BY <2>5, <2>7, <2>8, <3>1, <3>2, <3>3, RiseSwap
  <2>. QED
    BY <2>1, <2>2, <2>3, <2>4, <2>10, <2>11
<1>. HIDE DEF P
<1>3. P \subseteq Sifts
  BY DEF P
<1>4. siftup[s] \in P \cap UpStop
  BY <1>1, <1>2, <1>3, UpLoop, LoopKeeps
<1> DEFINE r == siftup[s]
<1>. HIDE DEF r
<1>5. /\ r \in Sifts /\ r.n = s.n /\ Rearranged(s.t, r.t, s.n)
      /\ RiseOrder(Ends(r.t), r.i, r.n) /\ r \in UpStop
  BY <1>4 DEF P, r
<1>6. InOrder(Ends(r.t), s.n)
  <2> DEFINE e == Ends(r.t)
  <2>1. /\ r.n \in Nat /\ r.n <= Len(r.t.heap) /\ r.i \in 1..r.n /\ Len(r.t.heap) \in Nat
        /\ \A j \in 1..Len(r.t.heap) : e[j] = r.t.heap[j].expires /\ e[j] \in Int
    BY <1>5, SiftParts, TimerNodes, EndsAre
  <2>2. r.i = 1 \/ r.t.heap[r.i \div 2].expires < r.t.heap[r.i].expires
    BY <1>5 DEF UpStop, Before
  <2>3. RiseOrder(e, r.i, r.n)
    BY <1>5
  <2>. HIDE DEF e
  <2>4. ASSUME NEW j \in 2..r.n PROVE e[j \div 2] <= e[j]
    <3>1. CASE j # r.i
      BY <2>3, <3>1 DEF RiseOrder
    <3>2. CASE j = r.i
      <4>1. j \div 2 \in Nat /\ 1 <= j \div 2 /\ j \div 2 < j
        BY Halves
      <4> DEFINE k == j \div 2
      <4>. HIDE DEF k
      <4>2. k \in 1..Len(r.t.heap) /\ j \in 1..Len(r.t.heap)
        BY <2>1, <4>1 DEF k
      <4>3. r.t.heap[k].expires < r.t.heap[j].expires
        BY <2>2, <3>2 DEF k
      <4>4. e[k] <= e[j]
        BY <2>1, <4>2, <4>3
      <4>. QED
        BY <4>4 DEF k
    <3>. QED
      BY <3>1, <3>2
  <2>. QED
    BY <1>5, <2>4 DEF InOrder, e
<1>. QED
  BY <1>5, <1>6 DEF r

-----------------------------------------------------------------------------
(* The operations of the heap.                                             *)

(* In order but for the node at i, which may be anywhere.                  *)
LooseOrder(e, i, n) ==
  /\ \A j \in 2..n : j # i /\ j \div 2 # i => e[j \div 2] <= e[j]
  /\ i > 1 => \A j \in 2..n : j \div 2 = i => e[i \div 2] <= e[j]

NodesOf(t) == Among(t, Len(t.heap))

Sound(t) == t \in Timers /\ Indexed(t) /\ InOrder(Ends(t), Len(t.heap))

(* Only the entry of id is made or lost, the others move within the heap.  *)
OnlyRefOf(t, r, id) ==
  \A f \in Fds \ {id} : r.ref[f] # 0 <=> t.ref[f] # 0

(* Every entry is an old one, or a position of a node.                     *)
RefsWithin(t, r) ==
  \A f \in Fds : r.ref[f] \in {t.ref[f], 0, 1} \cup (1..Len(t.heap)) \cup (1..Len(r.heap))

LEMMA Settled ==
  ASSUME NEW t \in Timers, Indexed(t), NEW n \in Nat, n <= Len(t.heap), NEW i \in 1..n,
         LooseOrder(Ends(t), i, n)
  PROVE  Rearranged(t, Settle(t, i, n), n) /\ InOrder(Ends(Settle(t, i, n)), n)
<1> DEFINE s == [t |-> t, i |-> i, n |-> n]
           e == Ends(t)
<1>1. s \in Sifts /\ s.t = t /\ s.i = i /\ s.n = n
  BY DEF Sifts
<1>2. Settle(t, i, n) = IF siftdown[s].i > i THEN siftdown[s].t ELSE siftup[s].t
  BY DEF Settle
<1>3. Len(t.heap) \in Nat /\ \A j \in 1..Len(t.heap) : e[j] = t.heap[j].expires /\ e[j] \in Int
  BY EndsAre, TimerNodes
<1>4. i > 1 => i \div 2 \in 1..Len(t.heap) /\ i \div 2 # i
  <2>. SUFFICES ASSUME i > 1 PROVE i \div 2 \in 1..Len(t.heap) /\ i \div 2 # i
    OBVIOUS
  <2>1. i \in Nat /\ i >= 2
    OBVIOUS
  <2>2. i \div 2 \in Nat /\ 1 <= i \div 2 /\ i \div 2 < i
    BY <2>1, Halves
  <2> DEFINE k == i \div 2
  <2>. HIDE DEF k
  <2>3. k \in Nat /\ 1 <= k /\ k < i
    BY <2>2 DEF k
  <2>4. k \in 1..Len(t.heap) /\ k # i
    BY <1>3, <2>3
  <2>. QED
    BY <2>4 DEF k
<1>5. \A j \in 2..n : j \in 1..Len(t.heap)
  BY <1>3
<1>6. RiseOrder(e, i, n) => Rearranged(t, siftup[s].t, n) /\ InOrder(Ends(siftup[s].t), n)
  BY <1>1, SiftedUp
<1>. HIDE DEF s
<1>7. CASE i > 1 => e[i \div 2] <= e[i]
  <2>1. SinkOrder(e, i, n)
    BY <1>7 DEF LooseOrder, SinkOrder
  <2> DEFINE r == siftdown[s]
  <2>2. /\ r \in Sifts /\ r.i >= i /\ (r.i = i => r = s)
        /\ Rearranged(t, r.t, n) /\ InOrder(Ends(r.t), n)
    BY <1>1, <2>1, SiftedDown
  <2>. HIDE DEF r, e
  <2>3. CASE r.i > i
    BY <1>2, <2>2, <2>3 DEF r
  <2>4. CASE ~(r.i > i)
    <3>1. r.i = i
      BY <2>2, <2>4, SiftParts
    <3>2. InOrder(e, n)
      BY <1>1, <2>2, <3>1 DEF e
    <3>3. RiseOrder(e, i, n)
      <4>1. ASSUME i > 1, NEW j \in 2..n, j \div 2 = i PROVE e[i \div 2] <= e[j]
        BY <2>1, <4>1 DEF SinkOrder
      <4>. QED
        BY <3>2, <4>1 DEF InOrder, RiseOrder
    <3>. QED
      BY <1>2, <1>6, <2>4, <3>3 DEF r
  <2>. QED
    BY <2>3, <2>4
<1>8. CASE i > 1 /\ ~(e[i \div 2] <= e[i])
  <2>. HIDE DEF e
  <2>1. ASSUME NEW j \in 2..n, j # i, j \div 2 = i PROVE e[i] <= e[j]
    <3>1. e[i \div 2] <= e[j]
      BY <1>8, <2>1 DEF LooseOrder, e
    <3>2. e[i \div 2] \in Int /\ e[i] \in Int /\ e[j] \in Int
      BY <1>3, <1>4, <1>5, <1>8
    <3>. QED
      BY <1>8, <3>1, <3>2
  <2>2. RiseOrder(e, i, n)
    BY <1>8, <2>1 DEF LooseOrder, RiseOrder, e
  <2>3. t.heap[i].expires < t.heap[i \div 2].expires
    <3>1. i \in 1..Len(t.heap) /\ e[i \div 2] \in Int /\ e[i] \in Int
      BY <1>3, <1>4, <1>8
    <3>2. e[i] = t.heap[i].expires /\ e[i \div 2] = t.heap[i \div 2].expires
      BY <1>3, <1>4, <1>8, <3>1
    <3>. QED
      BY <1>8, <3>1, <3>2
  <2>4. siftdown[s] = s
    BY <1>1, <1>8, <2>2, <2>3, LightStays DEF e
  <2>. QED
    BY <1>1, <1>2, <1>6, <2>2, <2>4
<1>. QED
  BY <1>7, <1>8

LEMMA Loosened ==
  ASSUME NEW n \in Nat, NEW i \in 1..(n - 1), NEW e, NEW d, \A j \in 1..n : e[j] \in Int,
         Swapped(e, d, i, n, n), InOrder(e, n)
  PROVE  LooseOrder(d, i, n - 1)
<1> DEFINE p == [j \in 2..n |-> j \div 2]
<1>1. \A j \in 2..n : p[j] = j \div 2 /\ p[j] \in 1..n /\ p[j] < j
  BY Halves
<1>2. \A j \in 2..n : e[p[j]] <= e[j]
  BY <1>1 DEF InOrder
<1>. HIDE DEF p
<1>3. ASSUME NEW j \in 2..(n - 1), j # i, p[j] # i PROVE d[p[j]] <= d[j]
  <2>1. j \in 2..n /\ p[j] \in 1..n /\ p[j] # n /\ j # n
    BY <1>1
  <2>2. d[j] = e[j] /\ d[p[j]] = e[p[j]]
    BY <1>3, <2>1 DEF Swapped
  <2>. QED
    BY <1>2, <2>1, <2>2
<1>4. ASSUME i > 1, NEW j \in 2..(n - 1), p[j] = i PROVE d[p[i]] <= d[j]
  <2>1. j \in 2..n /\ i \in 2..n /\ p[i] \in 1..n /\ p[i] < i /\ j # n /\ i < j
    BY <1>1, <1>4
  <2>2. d[j] = e[j] /\ d[p[i]] = e[p[i]]
    BY <2>1 DEF Swapped
  <2>3. e[p[i]] <= e[i] /\ e[i] <= e[j]
    BY <1>2, <1>4, <2>1
  <2>4. e[p[i]] \in Int /\ e[i] \in Int /\ e[j] \in Int
    BY <2>1
  <2>. QED
    BY <2>2, <2>3, <2>4
<1>5. \A j \in 2..(n - 1) : p[j] = j \div 2
  BY <1>1
<1>6. i > 1 => p[i] = i \div 2
  BY <1>1
<1>. QED
  BY <1>3, <1>4, <1>5, <1>6 DEF LooseOrder

(* del: the node at i is gone, and its entry.                              *)
LEMMA Deleted ==
  ASSUME NEW t, Sound(t), NEW i \in 1..Len(t.heap)
  PROVE  LET r == del(t, i)
         IN  /\ Sound(r) /\ Len(r.heap) = Len(t.heap) - 1
             /\ NodesOf(r) = NodesOf(t) \ {t.heap[i]} /\ t.heap[i] \in NodesOf(t)
             /\ r.ref[t.heap[i].id] = 0 /\ OnlyRefOf(t, r, t.heap[i].id) /\ RefsWithin(t, r)
<1> DEFINE n == Len(t.heap)
           m == n - 1
           q == SwapNode(t, i, n)
           s == IF i < n THEN Settle(q, i, m) ELSE t
           r == del(t, i)
           a == t.heap[i].id
<1>1. t \in Timers /\ Indexed(t) /\ InOrder(Ends(t), n) /\ n \in Nat /\ i \in Nat /\ n >= 1
  BY TimerNodes DEF Sound
<1>2. r = [heap |-> Front(s.heap), ref |-> [s.ref EXCEPT ![Last(s.heap).id] = 0]]
  BY <1>1 DEF del
<1>3. m \in Nat /\ m + 1 = n /\ m <= n /\ (i < n => i \in 1..m /\ n \in 1..n /\ i # n)
  BY <1>1
<1>4. t.heap[i] \in Nodes /\ a \in Fds
  BY TimerNodes, <1>1
<1>5. /\ s \in Timers /\ Len(s.heap) = n /\ Indexed(s) /\ InOrder(Ends(s), m)
      /\ NodesOf(s) = NodesOf(t) /\ s.heap[n] = t.heap[i]
      /\ \A f \in Fds : /\ s.ref[f] # 0 <=> t.ref[f] # 0
                        /\ s.ref[f] = t.ref[f] \/ s.ref[f] \in 1..n
  <2>1. CASE i < n
    <3>1. Rearranged(t, q, n)
      BY <1>1, <1>3, <2>1, SwapRearranges
    <3>2. q \in Timers /\ Len(q.heap) = n /\ Indexed(q) /\ Among(q, n) = Among(t, n)
          /\ \A f \in Fds : /\ q.ref[f] # 0 <=> t.ref[f] # 0
                            /\ q.ref[f] = t.ref[f] \/ q.ref[f] \in 1..n
      BY <3>1 DEF Rearranged
    <3>3. q.heap[n] = t.heap[i]
      BY <1>1, <1>3, <2>1, SwapParts
    <3>4. \A j \in 1..n : Ends(t)[j] \in Int
      BY <1>1, EndsAre
    <3>5. Swapped(Ends(t), Ends(q), i, n, n)
      BY <1>1, <1>3, <2>1, EndsAre
    <3>6. LooseOrder(Ends(q), i, m)
      BY <1>1, <1>3, <2>1, <3>4, <3>5, Loosened
    <3>. HIDE DEF q
    <3>7. Rearranged(q, Settle(q, i, m), m) /\ InOrder(Ends(Settle(q, i, m)), m)
      BY <1>3, <2>1, <3>2, <3>6, Settled
    <3>8. s = Settle(q, i, m)
      BY <2>1
    <3>. HIDE DEF s, n, m
    <3>9. /\ s \in Timers /\ Len(s.heap) = n /\ Indexed(s) /\ InOrder(Ends(s), m)
          /\ Among(s, m) = Among(q, m) /\ s.heap[n] = q.heap[n]
          /\ \A f \in Fds : /\ s.ref[f] # 0 <=> q.ref[f] # 0
                            /\ s.ref[f] = q.ref[f] \/ s.ref[f] \in 1..n
      <4>1. n \in (m + 1)..n
        BY <1>1, <1>3
      <4>. QED
        BY <3>2, <3>7, <3>8, <4>1 DEF Rearranged
    <3>10. \A x : Among(x, n) = Among(x, m) \cup {x.heap[n]}
      <4>1. 1..n = (1..m) \cup {n}
        BY <1>1, <1>3
      <4>. QED
        BY <4>1 DEF Among
    <3>11. Among(s, n) = Among(q, n)
      BY <3>9, <3>10
    <3>12. NodesOf(s) = NodesOf(t)
      BY <3>2, <3>9, <3>11 DEF NodesOf, n
    <3>. QED
      BY <3>2, <3>3, <3>9, <3>12
  <2>2. CASE ~(i < n)
    <3>1. i = n /\ s = t
      BY <1>1, <2>2
    <3>2. InOrder(Ends(t), m)
      BY <1>1, <1>3 DEF InOrder
    <3>. QED
      BY <1>1, <3>1, <3>2
  <2>. QED
    BY <2>1, <2>2
<1>. HIDE DEF s, q
<1>6. Last(s.heap) = t.heap[i] /\ Last(s.heap).id = a
  BY <1>5 DEF Last
<1>7. s.heap \in Seq(Nodes) /\ s.ref \in [Fds -> Nat]
  BY <1>5, TimerNodes
<1>8. /\ Front(s.heap) \in Seq(Nodes) /\ Len(Front(s.heap)) = m
      /\ \A j \in 1..m : Front(s.heap)[j] = s.heap[j]
  <2>1. Front(s.heap) = SubSeq(s.heap, 1, n - 1)
    BY <1>5 DEF Front
  <2>. QED
    BY <1>1, <1>3, <1>5, <1>7, <2>1, SubSeqProperties
<1>9. r.heap = Front(s.heap) /\ r.ref = [s.ref EXCEPT ![a] = 0]
  BY <1>2, <1>6
<1>. HIDE DEF r, a, n, m
<1>10. r.ref \in [Fds -> Nat] /\ \A f \in Fds : r.ref[f] = IF f = a THEN 0 ELSE s.ref[f]
  BY <1>4, <1>7, <1>9
<1>11. r \in Timers /\ Len(r.heap) = m
  <2>1. r = [heap |-> r.heap, ref |-> r.ref]
    BY <1>2, <1>9
  <2>. QED
    BY <1>8, <1>9, <1>10, <2>1 DEF Timers
<1>12. \A j \in 1..m : j \in 1..n /\ j # n /\ s.heap[j].id \in Fds /\ s.heap[j].id # a
  <2>. SUFFICES ASSUME NEW j \in 1..m
                PROVE  j \in 1..n /\ j # n /\ s.heap[j].id \in Fds /\ s.heap[j].id # a
    OBVIOUS
  <2>1. j \in 1..n /\ n \in 1..n /\ j # n
    BY <1>1, <1>3
  <2>2. s.ref[s.heap[j].id] = j /\ s.ref[s.heap[n].id] = n
    BY <1>5, <2>1 DEF Indexed
  <2>3. s.heap[j].id \in Fds
    BY <1>5, <2>1, TimerNodes
  <2>. QED
    BY <1>5, <2>1, <2>2, <2>3 DEF a
<1>13. Indexed(r)
  <2>. SUFFICES ASSUME NEW j \in 1..m PROVE r.ref[r.heap[j].id] = j
    BY <1>11 DEF Indexed
  <2>. QED
    BY <1>5, <1>8, <1>9, <1>10, <1>12 DEF Indexed
<1>14. Ends(r) = [j \in 1..m |-> Ends(s)[j]]
  <2>1. \A j \in 1..m : r.heap[j].expires = Ends(s)[j]
    BY <1>5, <1>8, <1>9, <1>12, EndsAre
  <2>. QED
    BY <1>11, <2>1 DEF Ends
<1>15. InOrder(Ends(r), m)
  <2>. SUFFICES ASSUME NEW j \in 2..m PROVE Ends(r)[j \div 2] <= Ends(r)[j]
    BY DEF InOrder
  <2>1. j \div 2 \in 1..m /\ j \in 1..m
    <3>1. j \div 2 \in Nat /\ 1 <= j \div 2 /\ j \div 2 < j
      BY Halves
    <3> DEFINE k == j \div 2
    <3>. HIDE DEF k
    <3>2. k \in 1..m
      BY <1>3, <3>1 DEF k
    <3>. QED
      BY <1>3, <3>2 DEF k
  <2>2. Ends(s)[j \div 2] <= Ends(s)[j]
    BY <1>5 DEF InOrder
  <2>. QED
    BY <1>14, <2>1, <2>2
<1>16. NodesOf(r) = NodesOf(t) \ {t.heap[i]}
  <2>1. NodesOf(r) = {s.heap[j] : j \in 1..m}
    BY <1>8, <1>9, <1>11 DEF NodesOf, Among
  <2>2. NodesOf(s) = {s.heap[j] : j \in 1..n}
    BY <1>5 DEF NodesOf, Among
  <2>3. 1..n = (1..m) \cup {n}
    BY <1>1, <1>3
  <2>4. \A j \in 1..m : s.heap[j] # s.heap[n]
    BY <1>5, <1>12 DEF a
  <2>. QED
    BY <1>5, <2>1, <2>2, <2>3, <2>4
<1>17. t.heap[i] \in NodesOf(t)
  BY DEF NodesOf, Among
<1>18. r.ref[a] = 0 /\ OnlyRefOf(t, r, a) /\ RefsWithin(t, r)
  BY <1>4, <1>5, <1>10 DEF OnlyRefOf, RefsWithin, n
<1>. QED
  BY <1>3, <1>11, <1>13, <1>15, <1>16, <1>17, <1>18 DEF Sound, r, a, n, m

(* A node that becomes another one of the same descriptor.                 *)
Replaced(t, i, b) == [heap |-> [t.heap EXCEPT ![i] = b], ref |-> t.ref]

LEMMA Replacing ==
  ASSUME NEW t, Sound(t), NEW i \in 1..Len(t.heap), NEW b \in Nodes, b.id = t.heap[i].id
  PROVE  LET q == Replaced(t, i, b)
         IN  /\ q \in Timers /\ Indexed(q) /\ Len(q.heap) = Len(t.heap)
             /\ NodesOf(q) = (NodesOf(t) \ {t.heap[i]}) \cup {b}
             /\ \A j \in 1..Len(t.heap) : Ends(q)[j] = IF j = i THEN b.expires ELSE Ends(t)[j]
             /\ LooseOrder(Ends(q), i, Len(t.heap))
             /\ t.heap[i].expires <= b.expires => SinkOrder(Ends(q), i, Len(t.heap))
<1> DEFINE q == Replaced(t, i, b)
           n == Len(t.heap)
           p == [j \in 2..n |-> j \div 2]
           e == Ends(t)
           d == Ends(q)
<1>1. /\ t \in Timers /\ Indexed(t) /\ InOrder(e, n) /\ n \in Nat
      /\ t.heap \in Seq(Nodes) /\ t.ref \in [Fds -> Nat] /\ b.expires \in Int
      /\ \A j \in 1..n : e[j] = t.heap[j].expires /\ e[j] \in Int
  <2>1. t \in Timers /\ Indexed(t) /\ InOrder(e, n)
    BY DEF Sound
  <2>2. b.expires \in Int
    BY TimerAssumption DEF Nodes
  <2>. QED
    BY <2>1, <2>2, TimerNodes, EndsAre
<1>2. /\ q.heap \in Seq(Nodes) /\ Len(q.heap) = n
      /\ \A j \in 1..n : q.heap[j] = IF j = i THEN b ELSE t.heap[j]
  BY <1>1, ExceptSeq DEF Replaced
<1>3. q.ref = t.ref /\ q \in Timers
  BY <1>1, <1>2 DEF Replaced, Timers
<1>4. \A j \in 1..n : d[j] = IF j = i THEN b.expires ELSE e[j]
  BY <1>1, <1>2 DEF Ends
<1>5. \A j \in 2..n : p[j] = j \div 2 /\ p[j] \in 1..n /\ p[j] < j
  BY Halves
<1>6. \A j \in 2..n : e[p[j]] <= e[j]
  BY <1>1, <1>5 DEF InOrder
<1>7. i > 1 => i \in 2..n
  BY <1>1
<1>. HIDE DEF q, n, p, e, d
<1>8. ASSUME NEW j \in 2..n, j # i, p[j] # i PROVE d[p[j]] <= d[j]
  <2>1. j \in 1..n /\ p[j] \in 1..n /\ e[p[j]] <= e[j]
    BY <1>1, <1>5, <1>6
  <2>2. d[j] = e[j] /\ d[p[j]] = e[p[j]]
    BY <1>4, <1>8, <2>1
  <2>. QED
    BY <2>1, <2>2
<1>9. ASSUME i > 1, NEW j \in 2..n, p[j] = i PROVE d[p[i]] <= d[j]
  <2>1. p[i] \in 1..n /\ p[i] < i /\ i < j /\ i \in 2..n /\ j \in 1..n
    BY <1>1, <1>5, <1>7, <1>9
  <2>2. d[p[i]] = e[p[i]] /\ d[j] = e[j] /\ e[p[i]] <= e[i] /\ e[i] <= e[j]
    BY <1>4, <1>6, <1>9, <2>1
  <2>. QED
    BY <1>1, <2>1, <2>2
<1>10. LooseOrder(d, i, n)
  BY <1>5, <1>7, <1>8, <1>9 DEF LooseOrder
<1>11. ASSUME t.heap[i].expires <= b.expires PROVE SinkOrder(d, i, n)
  <2>1. ASSUME i > 1 PROVE d[p[i]] <= d[i]
    <3>1. i \in 2..n /\ p[i] \in 1..n /\ p[i] # i
      BY <1>5, <1>7, <2>1
    <3>2. d[p[i]] = e[p[i]] /\ e[p[i]] <= e[i] /\ e[i] = t.heap[i].expires /\ d[i] = b.expires
      BY <1>1, <1>4, <1>6, <3>1 DEF n
    <3>3. e[p[i]] \in Int /\ e[i] \in Int
      BY <1>1, <3>1
    <3>. QED
      BY <1>1, <1>11, <3>2, <3>3
  <2>2. \A j \in 2..n : j \div 2 # i => d[j \div 2] <= d[j]
    BY <1>5, <1>8, <2>1
  <2>. QED
    BY <1>10, <2>2 DEF LooseOrder, SinkOrder
<1>12. Indexed(q)
  BY <1>1, <1>2, <1>3 DEF Indexed, n
<1>13. NodesOf(q) = (NodesOf(t) \ {t.heap[i]}) \cup {b}
  <2>1. NodesOf(q) = {q.heap[j] : j \in 1..n} /\ NodesOf(t) = {t.heap[j] : j \in 1..n}
    BY <1>2 DEF NodesOf, Among, n
  <2>2. \A j \in 1..n : j # i => t.heap[j] # t.heap[i]
    BY <1>1 DEF Indexed, n
  <2>3. i \in 1..n
    BY DEF n
  <2>. QED
    BY <1>2, <2>1, <2>2, <2>3
<1>. QED
  BY <1>2, <1>3, <1>4, <1>10, <1>11, <1>12, <1>13 DEF q, n, e, d

LEMMA Resettled ==
  ASSUME NEW q \in Timers, NEW r, Rearranged(q, r, Len(q.heap)), InOrder(Ends(r), Len(q.heap))
  PROVE  /\ Sound(r) /\ Len(r.heap) = Len(q.heap) /\ NodesOf(r) = NodesOf(q) /\ RefsWithin(q, r)
         /\ \A f \in Fds : r.ref[f] # 0 <=> q.ref[f] # 0
BY DEF Rearranged, Sound, NodesOf, RefsWithin

(* What every call may do: x is the time of a node it wrote, if it did.    *)
Touched(t, r, x) ==
  /\ Sound(r) /\ RefsWithin(t, r)
  /\ \A b \in NodesOf(r) : b \in NodesOf(t) \/ b.expires = x

LEMMA Unchanged ==
  ASSUME NEW t, Sound(t), NEW x PROVE Touched(t, t, x)
BY DEF Touched, RefsWithin

(* add: a descriptor without an entry gets a node of its own.              *)
LEMMA Added ==
  ASSUME NEW t, Sound(t), NEW id \in Fds, NEW x \in 0..(MaxTime + TimeOut), NEW cb \in ConnObjects
  PROVE  LET r == add(t, id, x, cb)
         IN  /\ Touched(t, r, x)
             /\ t.ref[id] = 0 =>
                  /\ NodesOf(r) = NodesOf(t) \cup {[id |-> id, expires |-> x, cb |-> cb]}
                  /\ Len(r.heap) = Len(t.heap) + 1
                  /\ r.ref[id] # 0 /\ OnlyRefOf(t, r, id)
<1> DEFINE n == Len(t.heap)
           b == [id |-> id, expires |-> x, cb |-> cb]
           i == t.ref[id]
           r == add(t, id, x, cb)
<1>1. /\ t \in Timers /\ Indexed(t) /\ InOrder(Ends(t), n) /\ n \in Nat
      /\ t.heap \in Seq(Nodes) /\ t.ref \in [Fds -> Nat] /\ i \in Nat /\ b \in Nodes
      /\ \A j \in 1..n : /\ Ends(t)[j] = t.heap[j].expires /\ Ends(t)[j] \in Int
                         /\ t.heap[j].id \in Fds
  BY TimerNodes, EndsAre DEF Sound, Nodes
<1>2. CASE i = 0
  <2> DEFINE k == n + 1
             q == [heap |-> Append(t.heap, b), ref |-> [t.ref EXCEPT ![id] = k]]
             s == [t |-> q, i |-> k, n |-> k]
  <2>1. r = siftup[s].t
    BY <1>2 DEF add
  <2>2. k \in Nat \ {0} /\ 1..k = (1..n) \cup {k} /\ k \notin 1..n /\ k = n + 1
    BY <1>1
  <2>3. /\ q.heap \in Seq(Nodes) /\ Len(q.heap) = k /\ q.heap[k] = b
        /\ \A j \in 1..n : q.heap[j] = t.heap[j]
    BY <1>1, AppendProperties
  <2>4. q.ref \in [Fds -> Nat] /\ \A f \in Fds : q.ref[f] = IF f = id THEN k ELSE t.ref[f]
    BY <1>1, <2>2
  <2>5. q \in Timers
    BY <2>3, <2>4 DEF Timers
  <2>. HIDE DEF q, k, b
  <2>6. \A j \in 1..n : t.heap[j].id # id /\ t.ref[t.heap[j].id] = j
    BY <1>1, <1>2 DEF Indexed
  <2>7. Indexed(q)
    <3>. SUFFICES ASSUME NEW j \in 1..k PROVE q.ref[q.heap[j].id] = j
      BY <2>3 DEF Indexed
    <3>1. CASE j = k
      BY <2>3, <2>4, <3>1 DEF b
    <3>2. CASE j \in 1..n
      BY <1>1, <2>3, <2>4, <2>6, <3>2
    <3>. QED
      BY <2>2, <3>1, <3>2
  <2>8. NodesOf(q) = NodesOf(t) \cup {b}
    BY <2>2, <2>3 DEF NodesOf, Among
  <2>9. RiseOrder(Ends(q), k, k)
    <3>1. \A j \in 1..n : Ends(q)[j] = Ends(t)[j]
      BY <1>1, <2>2, <2>3, <2>5, EndsAre
    <3>2. \A j \in 2..k : j \div 2 \in Nat /\ 1 <= j \div 2 /\ j \div 2 < j
      BY <2>2, Halves
    <3>3. ASSUME NEW j \in 2..k, j # k PROVE Ends(q)[j \div 2] <= Ends(q)[j]
      <4> DEFINE h == j \div 2
      <4>1. h \in Nat /\ 1 <= h /\ h < j
        BY <3>2
      <4>2. Ends(t)[h] <= Ends(t)[j]
        BY <1>1, <2>2, <3>3 DEF InOrder
      <4>. HIDE DEF h
      <4>3. h \in 1..n /\ j \in 1..n
        BY <1>1, <2>2, <3>3, <4>1
      <4>4. Ends(q)[h] <= Ends(q)[j]
        BY <3>1, <4>2, <4>3
      <4>. QED
        BY <4>4 DEF h
    <3>4. \A j \in 2..k : j \div 2 # k
      <4>. SUFFICES ASSUME NEW j \in 2..k PROVE j \div 2 # k
        OBVIOUS
      <4> DEFINE h == j \div 2
      <4>1. h \in Nat /\ h < j
        BY <3>2
      <4>. HIDE DEF h
      <4>2. h # k
        BY <2>2, <4>1
      <4>. QED
        BY <4>2 DEF h
    <3>. QED
      BY <3>3, <3>4 DEF RiseOrder
  <2>10. s \in Sifts
    BY <2>2, <2>3, <2>5 DEF Sifts
  <2>11. Rearranged(q, r, k) /\ InOrder(Ends(r), k)
    <3>1. s.t = q /\ s.i = k /\ s.n = k
      OBVIOUS
    <3>. HIDE DEF s, r
    <3>. QED
      BY <2>1, <2>7, <2>9, <2>10, <3>1, SiftedUp
  <2>. HIDE DEF r
  <2>12. /\ Sound(r) /\ Len(r.heap) = k /\ NodesOf(r) = NodesOf(q) /\ RefsWithin(q, r)
         /\ \A f \in Fds : r.ref[f] # 0 <=> q.ref[f] # 0
    BY <2>3, <2>5, <2>11, Resettled
  <2>13. RefsWithin(t, r)
    BY <2>2, <2>3, <2>4, <2>12 DEF RefsWithin
  <2>14. NodesOf(r) = NodesOf(t) \cup {b} /\ b.expires = x
    BY <2>8, <2>12 DEF b
  <2>15. r.ref[id] # 0 /\ OnlyRefOf(t, r, id)
    BY <2>2, <2>4, <2>12 DEF OnlyRefOf
  <2>. QED
    BY <2>12, <2>13, <2>14, <2>15 DEF Touched, r, b, k
<1>3. CASE i > n
  <2>1. r = t /\ i # 0
    BY <1>1, <1>3 DEF add
  <2>. QED
    BY <2>1, Unchanged
<1>4. CASE i # 0 /\ ~(i > n)
  <2> DEFINE a == [id |-> t.heap[i].id, expires |-> x, cb |-> cb]
             q == Replaced(t, i, a)
  <2>1. i \in 1..n
    BY <1>1, <1>4
  <2>2. [t.heap EXCEPT ![i].expires = x, ![i].cb = cb] = [t.heap EXCEPT ![i] = a]
    <3>1. t.heap[i] = [id |-> t.heap[i].id, expires |-> t.heap[i].expires, cb |-> t.heap[i].cb]
      BY <1>1, <2>1, TimerNodes DEF Nodes
    <3> DEFINE c == [id |-> t.heap[i].id, expires |-> x, cb |-> t.heap[i].cb]
               h == [t.heap EXCEPT ![i] = c]
    <3>2. [t.heap[i] EXCEPT !.expires = x] = c
      BY <3>1
    <3>3. [c EXCEPT !.cb = cb] = a
      OBVIOUS
    <3>4. c \in Nodes
      BY <1>1, <2>1, TimerNodes DEF Nodes
    <3>. HIDE DEF a, c
    <3>5. h[i] = c
      BY <1>1, <2>1, <3>4, ExceptSeq
    <3>6. [t.heap EXCEPT ![i].expires = x] = h
      BY <3>2
    <3>7. [h EXCEPT ![i] = a] = [t.heap EXCEPT ![i] = a]
      OBVIOUS
    <3>. HIDE DEF h
    <3>8. [h EXCEPT ![i].cb = cb] = [h EXCEPT ![i] = a]
      BY <3>3, <3>5
    <3>. QED
      BY <3>6, <3>7, <3>8
  <2>3. r = Settle(q, i, n)
    BY <1>4, <2>2 DEF add, Replaced
  <2>4. a \in Nodes /\ a.id = t.heap[i].id /\ a.expires = x
    BY <1>1, <2>1 DEF Nodes
  <2>. HIDE DEF a
  <2>5. /\ q \in Timers /\ Indexed(q) /\ Len(q.heap) = n /\ LooseOrder(Ends(q), i, n)
        /\ NodesOf(q) = (NodesOf(t) \ {t.heap[i]}) \cup {a}
    BY <2>1, <2>4, Replacing
  <2>6. q.ref = t.ref
    BY DEF Replaced
  <2>. HIDE DEF q, r
  <2>7. Rearranged(q, r, n) /\ InOrder(Ends(r), n)
    BY <1>1, <2>1, <2>3, <2>5, Settled
  <2>8. Sound(r) /\ Len(r.heap) = n /\ NodesOf(r) = NodesOf(q) /\ RefsWithin(q, r)
    BY <2>5, <2>7, Resettled
  <2>9. Touched(t, r, x)
    BY <2>4, <2>5, <2>6, <2>8 DEF Touched, RefsWithin
  <2>. QED
    BY <1>4, <2>9 DEF r
<1>. QED
  BY <1>1, <1>2, <1>3, <1>4

(* update: the node that the index names gets the time, if there is one.   *)
LEMMA Updated ==
  ASSUME NEW t, Sound(t), NEW id \in Fds, NEW x \in 0..(MaxTime + TimeOut),
         \A b \in NodesOf(t) : b.expires <= x
  PROVE  LET r == update(t, id, x)
         IN  /\ Touched(t, r, x) /\ Len(r.heap) = Len(t.heap)
             /\ \A i \in 1..Len(t.heap) : t.heap[i].id = id =>
                  /\ NodesOf(r) = (NodesOf(t) \ {t.heap[i]})
                                 \cup {[id |-> id, expires |-> x, cb |-> t.heap[i].cb]}
                  /\ \A f \in Fds : r.ref[f] # 0 <=> t.ref[f] # 0
<1> DEFINE n == Len(t.heap)
           p == RefMade(t, id)
           i == p.ref[id]
           r == update(t, id, x)
<1>1. /\ t \in Timers /\ Indexed(t) /\ InOrder(Ends(t), n) /\ n \in Nat
      /\ t.heap \in Seq(Nodes) /\ t.ref \in [Fds -> Nat]
      /\ \A j \in 1..n : t.heap[j] \in Nodes /\ t.heap[j].id \in Fds
  BY TimerNodes DEF Sound
<1>2. /\ p \in Timers /\ p.heap = t.heap /\ i \in Nat
      /\ p.ref = [t.ref EXCEPT ![id] = IF t.ref[id] = 0 THEN 1 ELSE t.ref[id]]
      /\ p = [heap |-> p.heap, ref |-> p.ref]
  <2>1. CASE t.ref[id] # 0
    BY <1>1, <2>1, TimerNodes DEF RefMade
  <2>2. CASE t.ref[id] = 0
    <3>1. p = [heap |-> t.heap, ref |-> [t.ref EXCEPT ![id] = 1]]
      BY <1>1, <2>2, TimerNodes DEF RefMade
    <3>2. p.ref \in [Fds -> Nat]
      BY <1>1, <3>1
    <3>. QED
      BY <1>1, <2>2, <3>1, <3>2 DEF Timers
  <2>. QED
    BY <2>1, <2>2
<1>3. \A j \in 1..n : t.heap[j].id = id => t.ref[id] = j
  BY DEF Sound, Indexed
<1>. HIDE DEF p
<1>4. Sound(p) /\ NodesOf(p) = NodesOf(t) /\ Len(p.heap) = n
  <2>1. Ends(p) = Ends(t)
    BY <1>2 DEF Ends
  <2>2. Indexed(p)
    BY <1>1, <1>2, <1>3 DEF Indexed
  <2>3. NodesOf(p) = NodesOf(t)
    BY <1>2 DEF NodesOf, Among
  <2>. QED
    BY <1>1, <1>2, <2>1, <2>2, <2>3 DEF Sound
<1>5. RefsWithin(t, p) /\ (t.ref[id] # 0 => p.ref = t.ref)
  BY <1>1, <1>2 DEF RefsWithin
<1>6. CASE i > n
  <2>1. r = p
    BY <1>2, <1>6 DEF update, p
  <2>2. \A j \in 1..n : t.heap[j].id # id
    BY <1>1, <1>2, <1>3, <1>6
  <2>. QED
    BY <1>4, <1>5, <2>1, <2>2 DEF Touched
<1>7. CASE ~(i > n)
  <2> DEFINE b == [id |-> t.heap[i].id, expires |-> x, cb |-> t.heap[i].cb]
             q == Replaced(p, i, b)
             s == [t |-> q, i |-> i, n |-> n]
  <2>1. i \in 1..n
    BY <1>1, <1>2, <1>7
  <2>2. [p.heap EXCEPT ![i].expires = x] = [p.heap EXCEPT ![i] = b]
    <3>1. t.heap[i] = [id |-> t.heap[i].id, expires |-> t.heap[i].expires, cb |-> t.heap[i].cb]
      BY <1>1, <2>1, TimerNodes DEF Nodes
    <3>2. [t.heap[i] EXCEPT !.expires = x] = b
      BY <3>1
    <3>. HIDE DEF b
    <3>. QED
      BY <1>2, <3>2
  <2>3. r = siftdown[s].t
    BY <1>2, <1>7, <2>2 DEF update, p, Replaced
  <2>4. b \in Nodes /\ b.id = p.heap[i].id /\ b.expires = x /\ p.heap[i].expires <= x
    <3>1. t.heap[i] \in NodesOf(t)
      BY <2>1 DEF NodesOf, Among
    <3>. QED
      BY <1>1, <1>2, <2>1, <3>1 DEF Nodes
  <2>5. /\ q \in Timers /\ Indexed(q) /\ Len(q.heap) = n /\ SinkOrder(Ends(q), i, n)
        /\ NodesOf(q) = (NodesOf(t) \ {t.heap[i]}) \cup {b} /\ q.ref = p.ref
    <3>. HIDE DEF b
    <3>1. i \in 1..Len(p.heap)
      BY <1>4, <2>1
    <3>. HIDE DEF i
    <3>2. q.ref = p.ref
      BY DEF Replaced
    <3>3. /\ q \in Timers /\ Indexed(q) /\ Len(q.heap) = Len(p.heap)
          /\ NodesOf(q) = (NodesOf(p) \ {p.heap[i]}) \cup {b}
          /\ p.heap[i].expires <= b.expires => SinkOrder(Ends(q), i, Len(p.heap))
      BY <1>4, <2>4, <3>1, Replacing
    <3>. HIDE DEF q
    <3>. QED
      BY <1>2, <1>4, <2>4, <3>2, <3>3
  <2>6. s \in Sifts /\ s.t = q /\ s.i = i /\ s.n = n
    <3>. HIDE DEF q
    <3>. QED
      BY <1>1, <2>1, <2>5 DEF Sifts
  <2>7. Rearranged(q, r, n) /\ InOrder(Ends(r), n)
    <3>. HIDE DEF s, r, q
    <3>. QED
      BY <2>3, <2>5, <2>6, SiftedDown
  <2>. HIDE DEF b, q, s, r
  <2>8. /\ Sound(r) /\ Len(r.heap) = n /\ NodesOf(r) = NodesOf(q) /\ RefsWithin(q, r)
        /\ \A f \in Fds : r.ref[f] # 0 <=> q.ref[f] # 0
    BY <2>5, <2>7, Resettled
  <2>9. RefsWithin(t, r)
    BY <1>2, <1>5, <2>5, <2>8 DEF RefsWithin
  <2>10. Touched(t, r, x)
    BY <2>4, <2>5, <2>8, <2>9 DEF Touched
  <2>11. ASSUME NEW j \in 1..n, t.heap[j].id = id
         PROVE  /\ NodesOf(r) = (NodesOf(t) \ {t.heap[j]})
                               \cup {[id |-> id, expires |-> x, cb |-> t.heap[j].cb]}
                /\ \A f \in Fds : r.ref[f] # 0 <=> t.ref[f] # 0
    <3>1. t.ref[id] = j /\ j # 0
      BY <1>1, <1>3, <2>11
    <3>2. i = j /\ p.ref = t.ref
      BY <1>5, <3>1
    <3>3. b = [id |-> id, expires |-> x, cb |-> t.heap[j].cb]
      BY <2>11, <3>2 DEF b
    <3>4. NodesOf(r) = (NodesOf(t) \ {t.heap[i]}) \cup {b}
      BY <2>5, <2>8
    <3>. QED
      BY <2>5, <2>8, <3>2, <3>3, <3>4
  <2>. QED
    BY <2>8, <2>10, <2>11 DEF r
<1>. QED
  BY <1>6, <1>7

LEMMA ShorterTouches ==
  ASSUME NEW t, NEW r, Sound(r), RefsWithin(t, r), NodesOf(r) \subseteq NodesOf(t), NEW x
  PROVE  Touched(t, r, x)
BY DEF Touched

(* erase: a descriptor with a node loses it, and its entry.                *)
LEMMA Erased ==
  ASSUME NEW t, Sound(t), NEW id \in Fds
  PROVE  LET r == erase(t, id)
         IN  /\ Sound(r) /\ RefsWithin(t, r) /\ NodesOf(r) \subseteq NodesOf(t)
             /\ r = t \/ Len(r.heap) = Len(t.heap) - 1
             /\ \A i \in 1..Len(t.heap) : t.heap[i].id = id =>
                  /\ NodesOf(r) = NodesOf(t) \ {t.heap[i]} /\ Len(r.heap) = Len(t.heap) - 1
                  /\ r.ref[id] = 0 /\ OnlyRefOf(t, r, id)
<1> DEFINE n == Len(t.heap)
           i == t.ref[id]
           r == erase(t, id)
<1>1. t \in Timers /\ Indexed(t) /\ n \in Nat /\ i \in Nat /\ t.heap \in Seq(Nodes)
  BY TimerNodes DEF Sound
<1>2. \A j \in 1..n : t.heap[j].id = id => i = j /\ i # 0
  BY <1>1 DEF Indexed
<1>3. RefsWithin(t, t)
  BY DEF RefsWithin
<1>4. CASE ~(i \in 1..n)
  <2>1. t.heap # <<>> /\ i # 0 => i > n
    BY <1>1, <1>4
  <2>2. r = t
    BY <2>1 DEF erase, del
  <2>. QED
    BY <1>2, <1>3, <1>4, <2>2
<1>5. CASE i \in 1..n
  <2>1. r = del(t, i)
    BY <1>1, <1>5, EmptySeq DEF erase
  <2>2. /\ Sound(r) /\ Len(r.heap) = n - 1 /\ NodesOf(r) = NodesOf(t) \ {t.heap[i]}
        /\ RefsWithin(t, r)
        /\ r.ref[t.heap[i].id] = 0 /\ OnlyRefOf(t, r, t.heap[i].id)
    BY <1>5, <2>1, Deleted
  <2>. QED
    BY <1>2, <2>2
<1>. QED
  BY <1>4, <1>5

(* pop: the first node is gone.                                            *)
LEMMA Popped ==
  ASSUME NEW t, Sound(t)
  PROVE  LET r == pop(t)
         IN  /\ Sound(r) /\ RefsWithin(t, r) /\ NodesOf(r) \subseteq NodesOf(t)
             /\ \/ t.heap = <<>> /\ r = t
                \/ t.heap # <<>> /\ Len(r.heap) = Len(t.heap) - 1
<1>1. t \in Timers /\ Len(t.heap) \in Nat /\ t.heap \in Seq(Nodes)
  BY TimerNodes DEF Sound
<1>2. CASE t.heap = <<>>
  <2>1. pop(t) = t
    BY <1>2 DEF pop
  <2>2. RefsWithin(t, t)
    BY DEF RefsWithin
  <2>. QED
    BY <1>2, <2>1, <2>2
<1>3. CASE t.heap # <<>>
  <2>1. 1 \in 1..Len(t.heap)
    BY <1>1, <1>3, EmptySeq
  <2>2. pop(t) = del(t, 1)
    BY <1>3 DEF pop
  <2>. QED
    BY <1>3, <2>1, <2>2, Deleted
<1>. QED
  BY <1>2, <1>3

(* The first node is the one that expires first.                           *)
LEMMA FirstIsLeast ==
  ASSUME NEW t, Sound(t)
  PROVE  \A j \in 1..Len(t.heap) : t.heap[1].expires <= t.heap[j].expires
<1> DEFINE n == Len(t.heap)
           e == Ends(t)
           T == {j \in 1..n : ~(e[1] <= e[j])}
<1>1. /\ t \in Timers /\ InOrder(e, n) /\ n \in Nat
      /\ \A j \in 1..n : e[j] = t.heap[j].expires /\ e[j] \in Int
  BY TimerNodes, EndsAre DEF Sound
<1>2. ASSUME T # {} PROVE FALSE
  <2>. HIDE DEF n, e
  <2>1. T \subseteq Nat /\ T # {}
    BY <1>2
  <2>. HIDE DEF T
  <2>2. PICK j \in T : \A k \in T : j <= k
    BY <2>1, LeastOf
  <2>3. j \in 1..n /\ ~(e[1] <= e[j])
    BY <2>2 DEF T
  <2>4. j \in 2..n /\ 1 \in 1..n
    <3>1. j # 1
      BY <1>1, <2>3
    <3>. QED
      BY <1>1, <2>3, <3>1
  <2>5. e[j \div 2] <= e[j]
    BY <1>1, <2>4 DEF InOrder
  <2>6. j \div 2 \in Nat /\ 1 <= j \div 2 /\ j \div 2 < j
    BY <2>4, Halves
  <2> DEFINE k == j \div 2
  <2>. HIDE DEF k
  <2>7. k \in 1..n /\ k < j /\ e[k] <= e[j]
    BY <1>1, <2>4, <2>5, <2>6 DEF k
  <2>8. k \notin T
    BY <1>1, <2>2, <2>3, <2>7
  <2>9. e[1] <= e[k]
    BY <2>7, <2>8 DEF T
  <2>. QED
    BY <1>1, <2>3, <2>4, <2>7, <2>9
<1>. QED
  BY <1>1, <1>2

-----------------------------------------------------------------------------
(* tick: each of its rounds leaves a shorter heap, of whatever nodes.      *)

LEMMA SettleKeeps ==
  ASSUME NEW t \in Timers, NEW n \in Nat, n <= Len(t.heap), NEW i \in 1..n
  PROVE  Settle(t, i, n) \in Timers /\ Len(Settle(t, i, n).heap) = Len(t.heap)
<1> DEFINE s == [t |-> t, i |-> i, n |-> n]
           P == {x \in Sifts : Len(x.t.heap) = Len(t.heap)}
<1>1. s \in Sifts /\ s.t = t
  BY DEF Sifts
<1>2. ASSUME NEW x \in P \ DownStop PROVE DownNext[x] \in P
  <2>1. /\ x \in Sifts \ DownStop /\ DownStep(x) \in Sifts
        /\ x.i \in 1..Len(x.t.heap) /\ LesserChild(x) \in 1..Len(x.t.heap) /\ x.t \in Timers
    BY <1>2, DownMoves, SiftParts
  <2>2. DownNext[x] = DownStep(x) /\ DownStep(x).t = SwapNode(x.t, x.i, LesserChild(x))
    BY <2>1 DEF DownNext, DownStep
  <2>. QED
    BY <2>1, <2>2, SwapParts
<1>3. ASSUME NEW x \in P \ UpStop PROVE UpNext[x] \in P
  <2>1. /\ x \in Sifts \ UpStop /\ UpStep(x) \in Sifts /\ x.i \div 2 \in 1..Len(x.t.heap)
        /\ x.t \in Timers
    BY <1>3, UpMoves, SiftParts
  <2>2. x.i \in 1..Len(x.t.heap)
    BY <2>1, SiftParts, TimerNodes
  <2>3. UpNext[x] = UpStep(x) /\ UpStep(x).t = SwapNode(x.t, x.i \div 2, x.i)
    BY <2>1 DEF UpNext, UpStep
  <2>. QED
    BY <2>1, <2>2, <2>3, SwapParts
<1>4. s \in P /\ P \subseteq Sifts
  BY <1>1
<1>. HIDE DEF P
<1>5. siftdown[s] \in P
  BY <1>2, <1>4, DownLoop, LoopKeeps
<1>6. siftup[s] \in P
  BY <1>3, <1>4, UpLoop, LoopKeeps
<1>7. Settle(t, i, n) = IF siftdown[s].i > i THEN siftdown[s].t ELSE siftup[s].t
  BY DEF Settle
<1>8. \A x \in P : x.t \in Timers /\ Len(x.t.heap) = Len(t.heap)
  BY SiftParts DEF P
<1>. HIDE DEF s
<1>. QED
  BY <1>5, <1>6, <1>7, <1>8

LEMMA DelKeeps ==
  ASSUME NEW t \in Timers, NEW i \in Nat \ {0}
  PROVE  /\ del(t, i) \in Timers
         /\ i \in 1..Len(t.heap) => Len(del(t, i).heap) = Len(t.heap) - 1
         /\ i \notin 1..Len(t.heap) => del(t, i) = t
<1> DEFINE n == Len(t.heap)
           s == IF i < n THEN Settle(SwapNode(t, i, n), i, n - 1) ELSE t
<1>1. n \in Nat
  BY TimerNodes
<1>2. del(t, i) = IF i > n THEN t
                  ELSE [heap |-> Front(s.heap), ref |-> [s.ref EXCEPT ![Last(s.heap).id] = 0]]
  BY DEF del
<1>3. CASE i \notin 1..n
  BY <1>1, <1>2, <1>3
<1>4. CASE i \in 1..n
  <2>1. s \in Timers /\ Len(s.heap) = n
    <3>1. CASE i < n
      <4> DEFINE q == SwapNode(t, i, n)
      <4>1. n \in 1..Len(t.heap) /\ i \in 1..Len(t.heap)
        BY <1>1, <1>4
      <4>2. q \in Timers /\ Len(q.heap) = n
        BY <4>1, SwapParts
      <4>3. n - 1 \in Nat /\ n - 1 <= n /\ i \in 1..(n - 1)
        BY <1>1, <1>4, <3>1
      <4>4. s = Settle(q, i, n - 1)
        BY <3>1
      <4>. HIDE DEF q, n, s
      <4>. QED
        BY <4>2, <4>3, <4>4, SettleKeeps
    <3>2. CASE ~(i < n)
      BY <3>2
    <3>. QED
      BY <3>1, <3>2
  <2>. HIDE DEF s
  <2>2. s.heap \in Seq(Nodes) /\ s.ref \in [Fds -> Nat] /\ n - 1 \in Nat
    BY <1>1, <1>4, <2>1, TimerNodes
  <2>3. Front(s.heap) \in Seq(Nodes) /\ Len(Front(s.heap)) = n - 1
    <3>1. Front(s.heap) = SubSeq(s.heap, 1, n - 1)
      BY <2>1 DEF Front
    <3>. QED
      BY <1>1, <2>1, <2>2, <3>1, SubSeqProperties
  <2>4. [s.ref EXCEPT ![Last(s.heap).id] = 0] \in [Fds -> Nat]
    BY <2>2
  <2>. QED
    BY <1>1, <1>2, <1>4, <2>3, <2>4 DEF Timers
<1>. QED
  BY <1>3, <1>4

TickStop == {s \in Ticks : s.crashed \/ s.timer.heap = <<>> \/ ~Expired(s.timer.heap[1])}
TickStep(s) ==
  LET left == CloseUser(s, s.timer.heap[1].cb) IN [left EXCEPT !.timer = pop(left.timer)]
TickNext == [s \in Ticks |-> IF s \in TickStop THEN s ELSE TickStep(s)]
TickLeft == [s \in Ticks |-> Len(s.timer.heap)]

LEMMA TickParts ==
  ASSUME NEW s \in Ticks
  PROVE  /\ s.timer \in Timers /\ s.open \subseteq Fds /\ s.crashed \in BOOLEAN
         /\ s = [timer |-> s.timer, open |-> s.open, crashed |-> s.crashed]
BY DEF Ticks

LEMMA FirstCb ==
  ASSUME NEW t \in Timers, t.heap # <<>>
  PROVE  /\ 1 \in 1..Len(t.heap) /\ t.heap[1] \in Nodes /\ t.heap[1].cb \in ConnObjects
         /\ t.heap[1].cb[1] \in Fds
<1>1. t.heap \in Seq(Nodes) /\ Len(t.heap) \in Nat
  BY TimerNodes
<1>2. 1 \in 1..Len(t.heap)
  BY <1>1, EmptySeq
<1>. QED
  BY <1>2, TimerNodes DEF ConnObjects

(* A round: the connection is closed with its timer, unless it is gone.    *)
LEMMA TickRound ==
  ASSUME NEW s \in Ticks \ TickStop
  PROVE  LET c == s.timer.heap[1].cb
             e == IF Alive(s, c) THEN erase(s.timer, c[1]) ELSE s.timer
         IN  /\ TickStep(s) \in Ticks /\ TickStep(s).timer = pop(e)
             /\ TickStep(s).open = IF Alive(s, c) THEN s.open \ {c[1]} ELSE s.open
             /\ Len(TickStep(s).timer.heap) < Len(s.timer.heap)
             /\ s.timer.heap # <<>> /\ Expired(s.timer.heap[1])
<1> DEFINE t == s.timer
           c == t.heap[1].cb
           e == IF Alive(s, c) THEN erase(t, c[1]) ELSE t
           left == CloseUser(s, c)
<1>1. /\ s \in Ticks /\ ~s.crashed /\ t.heap # <<>> /\ Expired(t.heap[1])
      /\ t \in Timers /\ s.open \subseteq Fds
      /\ s = [timer |-> s.timer, open |-> s.open, crashed |-> s.crashed]
  BY TickParts DEF TickStop
<1>2. c \in ConnObjects /\ c[1] \in Fds /\ Len(t.heap) \in Nat
  BY <1>1, FirstCb, TimerNodes
<1>3. /\ left.timer = e /\ left.crashed \in BOOLEAN
      /\ left.open = IF Alive(s, c) THEN s.open \ {c[1]} ELSE s.open
      /\ left = [timer |-> left.timer, open |-> left.open, crashed |-> left.crashed]
  <2>1. CASE Alive(s, c)
    BY <1>1, <2>1, TickParts DEF CloseUser
  <2>2. CASE ~Alive(s, c)
    BY <1>1, <2>2 DEF CloseUser
  <2>. QED
    BY <2>1, <2>2
<1>4. TickStep(s) = [left EXCEPT !.timer = pop(left.timer)]
  BY DEF TickStep
<1>5. e \in Timers /\ Len(e.heap) \in Nat /\ Len(e.heap) <= Len(t.heap) /\ e.heap \in Seq(Nodes)
  <2>1. erase(t, c[1]) \in Timers /\ Len(erase(t, c[1]).heap) \in {Len(t.heap), Len(t.heap) - 1}
    <3>1. t.ref[c[1]] \in Nat
      BY <1>1, <1>2, TimerNodes
    <3>. QED
      BY <1>1, <1>2, <3>1, DelKeeps DEF erase
  <2>2. e \in Timers
    BY <1>1, <2>1
  <2>3. Len(e.heap) \in {Len(t.heap), Len(t.heap) - 1}
    BY <2>1
  <2>. HIDE DEF e, t
  <2>. QED
    BY <1>2, <2>2, <2>3, TimerNodes
<1>6. pop(e) \in Timers /\ Len(pop(e).heap) < Len(t.heap)
  <2>. HIDE DEF e
  <2>1. CASE e.heap = <<>>
    <3>1. Len(t.heap) > 0
      BY <1>1, <1>2, TimerNodes, EmptySeq
    <3>. QED
      BY <1>5, <2>1, <3>1, EmptySeq DEF pop
  <2>2. CASE e.heap # <<>>
    <3>1. 1 \in 1..Len(e.heap)
      BY <1>5, <2>2, EmptySeq
    <3>. QED
      BY <1>2, <1>5, <2>2, <3>1, DelKeeps DEF pop
  <2>. QED
    BY <2>1, <2>2
<1>. HIDE DEF left, e
<1>7. /\ TickStep(s) = [timer |-> pop(e), open |-> left.open, crashed |-> left.crashed]
  BY <1>3, <1>4
<1>8. TickStep(s) \in Ticks
  BY <1>1, <1>3, <1>6, <1>7 DEF Ticks
<1>. QED
  BY <1>1, <1>3, <1>6, <1>7, <1>8 DEF e

LEMMA TickLoop ==
  IsLoop(Ticks, TickStop, TickNext, TickLeft) /\ Runs(tick, Ticks, TickStop, TickNext)
<1> DEFINE Body(g) == [s \in Ticks |->
             IF s.crashed \/ s.timer.heap = <<>> \/ ~Expired(s.timer.heap[1]) THEN s
             ELSE LET left == CloseUser(s, s.timer.heap[1].cb)
                  IN  g[[left EXCEPT !.timer = pop(left.timer)]]]
<1>1. tick = CHOOSE g : g = Body(g)
  BY DEF tick
<1>2. IsLoop(Ticks, TickStop, TickNext, TickLeft)
  <2>1. \A s \in Ticks \ TickStop : TickNext[s] = TickStep(s)
    BY DEF TickNext
  <2>2. TickNext \in [Ticks -> Ticks]
    BY TickRound DEF TickNext
  <2>3. TickLeft \in [Ticks -> Nat]
    BY TickParts, TimerNodes DEF TickLeft
  <2>4. \A s \in Ticks \ TickStop : TickLeft[TickNext[s]] < TickLeft[s]
    <3>. SUFFICES ASSUME NEW s \in Ticks \ TickStop PROVE TickLeft[TickNext[s]] < TickLeft[s]
      OBVIOUS
    <3>1. Len(TickStep(s).timer.heap) < Len(s.timer.heap) /\ TickStep(s) \in Ticks
      BY TickRound
    <3>. QED
      BY <2>1, <3>1 DEF TickLeft
  <2>. QED
    BY <2>2, <2>3, <2>4 DEF IsLoop
<1>3. PICK g : g = [s \in Ticks |-> g[s]] /\ Runs(g, Ticks, TickStop, TickNext)
  BY <1>2, LoopDefined
<1>4. \A h : \A s \in Ticks : Body(h)[s] = IF s \in TickStop THEN s ELSE h[TickNext[s]]
  BY DEF TickStop, TickNext, TickStep
<1>5. \A h : Body(h) = [s \in Ticks |-> Body(h)[s]]
  OBVIOUS
<1>. HIDE DEF Body
<1>6. g = Body(g)
  <2>1. \A s \in Ticks : g[s] = Body(g)[s]
    BY <1>3, <1>4 DEF Runs
  <2>. QED
    BY <1>3, <1>5, <2>1
<1>7. tick = Body(tick)
  BY <1>1, <1>6
<1>. QED
  BY <1>2, <1>4, <1>7 DEF Runs

-----------------------------------------------------------------------------
(* The invariant.                                                          *)

(* A sound heap, whose entries no descriptor is enough to exceed.          *)
Good(t) == Sound(t) /\ \A f \in Fds : t.ref[f] <= Cardinality(Fds)

LEMMA HeapFits ==
  ASSUME NEW t, Sound(t)
  PROVE  Cardinality(Fds) \in Nat /\ Len(t.heap) \in Nat /\ Len(t.heap) <= Cardinality(Fds)
<1> DEFINE n == Len(t.heap)
           g == [j \in 1..n |-> t.heap[j].id]
<1>1. n \in Nat /\ \A j \in 1..n : t.heap[j].id \in Fds /\ t.ref[t.heap[j].id] = j
  BY TimerNodes DEF Sound, Indexed
<1>2. g \in Injection(1..n, Fds)
  BY <1>1, Fun_IsInj
<1>3. IsFiniteSet(Fds) /\ Cardinality(Fds) \in Nat
  BY TimerAssumption, FS_CardinalityType
<1>. HIDE DEF g
<1>4. Cardinality(1..n) <= Cardinality(Fds)
  BY <1>2, <1>3, FS_Injection
<1>5. Cardinality(1..n) = n
  BY <1>1, FS_Interval
<1>. QED
  BY <1>1, <1>3, <1>4, <1>5

LEMMA StaysGood ==
  ASSUME NEW t, Good(t), NEW r, Sound(r), RefsWithin(t, r)
  PROVE  Good(r)
<1>. SUFFICES ASSUME NEW f \in Fds PROVE r.ref[f] <= Cardinality(Fds)
  BY DEF Good
<1> DEFINE C == Cardinality(Fds)
<1>1. /\ C \in Nat /\ Len(t.heap) <= C /\ Len(r.heap) <= C
      /\ Len(t.heap) \in Nat /\ Len(r.heap) \in Nat
  BY HeapFits DEF Good
<1>2. IsFiniteSet(Fds) /\ Fds # {}
  BY TimerAssumption
<1>3. C # 0
  BY <1>2, FS_EmptySet
<1>. HIDE DEF C
<1>4. r.ref[f] \in {t.ref[f], 0, 1} \cup (1..Len(t.heap)) \cup (1..Len(r.heap)) /\ t.ref[f] <= C
  BY DEF RefsWithin, Good, C
<1>5. t.ref[f] \in Nat
  BY TimerNodes DEF Good, Sound
<1>. QED
  BY <1>1, <1>3, <1>4, <1>5 DEF C

LEMMA GoodTimer ==
  ASSUME Good(timer)
  PROVE  timer \in Timers /\ (\A f \in Fds : timer.ref[f] <= Cardinality(Fds)) /\ HeapShape
<1> DEFINE n == Len(timer.heap)
           e == Ends(timer)
<1>. USE DEF Good, Sound
<1>1. n \in Nat /\ DOMAIN timer.heap = 1..n /\ \A j \in 1..n : e[j] = timer.heap[j].expires
  BY TimerNodes, EndsAre, LenProperties
<1>2. \A j \in 2..n : j \in 1..n /\ j > 1 /\ j \div 2 \in 1..n
  <2>. SUFFICES ASSUME NEW j \in 2..n PROVE j \in 1..n /\ j > 1 /\ j \div 2 \in 1..n
    OBVIOUS
  <2>1. j \div 2 \in Nat /\ 1 <= j \div 2 /\ j \div 2 < j
    BY Halves
  <2> DEFINE k == j \div 2
  <2>. HIDE DEF k, n
  <2>2. k \in 1..n
    BY <1>1, <2>1 DEF k
  <2>. QED
    BY <1>1, <2>2 DEF k
<1>3. \A i \in 1..n : i > 1 => i \in 2..n
  BY <1>1
<1>. HIDE DEF n, e
<1>4. InOrder(e, n) <=>
        \A i \in 1..n : i > 1 => timer.heap[i \div 2].expires <= timer.heap[i].expires
  BY <1>1, <1>2, <1>3 DEF InOrder
<1>5. HeapShape <=> Indexed(timer) /\ InOrder(e, n)
  BY <1>1, <1>4 DEF HeapShape, Indexed, n
<1>. QED
  BY <1>5 DEF e, n

(* What tick leaves: nodes that were there, and fewer of them if it did    *)
(* anything at all; connections that it closed had expired.                *)
LEMMA Ticked ==
  ASSUME Good(timer), open \subseteq Fds
  PROVE  LET s == tick[[timer |-> timer, open |-> open, crashed |-> FALSE]]
         IN  /\ Good(s.timer) /\ NodesOf(s.timer) \subseteq NodesOf(timer)
             /\ s.open \subseteq open /\ s.crashed \in BOOLEAN
             /\ s.timer = timer => s.open = open
             /\ \A f \in open \ s.open : \E b \in NodesOf(timer) : b.cb[1] = f /\ Expired(b)
<1> DEFINE s0 == [timer |-> timer, open |-> open, crashed |-> FALSE]
           P == {x \in Ticks : /\ Good(x.timer) /\ NodesOf(x.timer) \subseteq NodesOf(timer)
                               /\ x.open \subseteq open
                               /\ x = s0 \/ Len(x.timer.heap) < Len(timer.heap)
                               /\ \A f \in open \ x.open :
                                    \E b \in NodesOf(timer) : b.cb[1] = f /\ Expired(b)}
<1>1. s0 \in P
  BY DEF Ticks, Good, Sound
<1>2. ASSUME NEW x \in P \ TickStop PROVE TickNext[x] \in P
  <2> DEFINE t == x.timer
             c == t.heap[1].cb
             e == IF Alive(x, c) THEN erase(t, c[1]) ELSE t
             y == TickStep(x)
  <2>1. /\ x \in Ticks \ TickStop /\ Good(t) /\ NodesOf(t) \subseteq NodesOf(timer)
        /\ x.open \subseteq open
        /\ x = s0 \/ Len(t.heap) < Len(timer.heap)
        /\ \A f \in open \ x.open : \E b \in NodesOf(timer) : b.cb[1] = f /\ Expired(b)
    BY <1>2
  <2>2. /\ y \in Ticks /\ y.timer = pop(e) /\ Len(y.timer.heap) < Len(t.heap)
        /\ y.open = IF Alive(x, c) THEN x.open \ {c[1]} ELSE x.open
        /\ t.heap # <<>> /\ Expired(t.heap[1])
    BY <2>1, TickRound
  <2>3. TickNext[x] = y
    BY <2>1 DEF TickNext
  <2>4. t \in Timers /\ Sound(t) /\ c[1] \in Fds /\ 1 \in 1..Len(t.heap)
    BY <2>1, <2>2, TickParts, FirstCb DEF Good
  <2>5. t.heap[1] \in NodesOf(timer) /\ t.heap[1].cb[1] = c[1]
    BY <2>1, <2>4 DEF NodesOf, Among
  <2>6. Good(e) /\ NodesOf(e) \subseteq NodesOf(t)
    <3>1. /\ Sound(erase(t, c[1])) /\ RefsWithin(t, erase(t, c[1]))
          /\ NodesOf(erase(t, c[1])) \subseteq NodesOf(t)
      BY <2>4, Erased
    <3>2. Good(erase(t, c[1]))
      BY <2>1, <3>1, StaysGood
    <3>. QED
      BY <2>1, <3>1, <3>2
  <2>7. Good(pop(e)) /\ NodesOf(pop(e)) \subseteq NodesOf(e)
    <3>. HIDE DEF e
    <3>1. Sound(pop(e)) /\ RefsWithin(e, pop(e)) /\ NodesOf(pop(e)) \subseteq NodesOf(e)
      BY <2>6, Popped DEF Good
    <3>. QED
      BY <2>6, <3>1, StaysGood
  <2>. HIDE DEF y, e, c
  <2>8. Len(y.timer.heap) < Len(timer.heap)
    <3>1. Len(t.heap) <= Len(timer.heap)
      <4>1. CASE x = s0
        BY <2>1, <2>4, <4>1, TimerNodes
      <4>2. CASE Len(t.heap) < Len(timer.heap)
        BY <4>2, <2>4, TimerNodes DEF Good, Sound
      <4>. QED
        BY <2>1, <4>1, <4>2
    <3>2. Len(y.timer.heap) \in Nat /\ Len(t.heap) \in Nat /\ Len(timer.heap) \in Nat
      BY <2>2, <2>4, TickParts, TimerNodes DEF Good, Sound
    <3>. QED
      BY <2>2, <3>1, <3>2
  <2>9. \A f \in open \ y.open : \E b \in NodesOf(timer) : b.cb[1] = f /\ Expired(b)
    BY <2>1, <2>2, <2>5
  <2>. QED
    BY <2>1, <2>2, <2>3, <2>6, <2>7, <2>8, <2>9
<1>3. P \subseteq Ticks
  OBVIOUS
<1>. HIDE DEF P
<1>4. tick[s0] \in P
  BY <1>1, <1>2, <1>3, TickLoop, LoopKeeps
<1> DEFINE s == tick[s0]
<1>. HIDE DEF s
<1>5. s \in P
  BY <1>4 DEF s
<1>6. /\ s \in Ticks /\ Good(s.timer) /\ NodesOf(s.timer) \subseteq NodesOf(timer)
      /\ s.open \subseteq open
      /\ s = s0 \/ Len(s.timer.heap) < Len(timer.heap)
      /\ \A f \in open \ s.open : \E b \in NodesOf(timer) : b.cb[1] = f /\ Expired(b)
  BY <1>5 DEF P
<1>7. s.timer = timer => s.open = open
  <2>1. Len(timer.heap) \in Nat
    BY TimerNodes DEF Good, Sound
  <2>. QED
    BY <1>6, <2>1
<1>8. s.crashed \in BOOLEAN
  BY <1>6, TickParts
<1>. QED
  BY <1>6, <1>7, <1>8 DEF s

(* The heap is the map from the open connections to their ends.            *)
NodeOf(f, act, g) == [id |-> f, expires |-> act[f] + TimeOut, cb |-> <<f, g[f]>>]

Matches(t, op, act, g) ==
  /\ \A f \in Fds : t.ref[f] # 0 <=> f \in op
  /\ Len(t.heap) = Cardinality(op)
  /\ \A f \in op : NodeOf(f, act, g) \in NodesOf(t)

LEMMA MatchErase ==
  ASSUME NEW t, Sound(t), NEW op, op \subseteq Fds, NEW act, NEW g, Matches(t, op, act, g),
         NEW f \in op
  PROVE  Matches(erase(t, f), op \ {f}, act, g)
<1> DEFINE r == erase(t, f)
<1>1. PICK i \in 1..Len(t.heap) : t.heap[i] = NodeOf(f, act, g)
  BY DEF Matches, NodesOf, Among
<1>2. t.heap[i].id = f
  BY <1>1 DEF NodeOf
<1>3. /\ NodesOf(r) = NodesOf(t) \ {t.heap[i]} /\ Len(r.heap) = Len(t.heap) - 1
      /\ r.ref[f] = 0 /\ OnlyRefOf(t, r, f)
  BY <1>2, Erased
<1>. HIDE DEF r
<1>4. IsFiniteSet(op)
  BY TimerAssumption, FS_Subset
<1>5. Cardinality(op \ {f}) = Cardinality(op) - 1
  BY <1>4, FS_RemoveElement
<1>6. \A h \in op \ {f} : NodeOf(h, act, g) \in NodesOf(r)
  BY <1>1, <1>3 DEF Matches, NodeOf
<1>7. \A h \in Fds : r.ref[h] # 0 <=> h \in op \ {f}
  BY <1>3 DEF Matches, OnlyRefOf
<1>. QED
  BY <1>3, <1>5, <1>6, <1>7 DEF Matches, r

LEMMA MatchUpdate ==
  ASSUME NEW t, Sound(t), NEW op, op \subseteq Fds, NEW act, NEW g, Matches(t, op, act, g),
         NEW f \in op, NEW x \in 0..(MaxTime + TimeOut), NEW now2, x = now2 + TimeOut,
         \A b \in NodesOf(t) : b.expires <= x, act \in [Fds -> Nat]
  PROVE  Matches(update(t, f, x), op, [act EXCEPT ![f] = now2], g)
<1> DEFINE r == update(t, f, x)
           act2 == [act EXCEPT ![f] = now2]
<1>1. PICK i \in 1..Len(t.heap) : t.heap[i] = NodeOf(f, act, g)
  BY DEF Matches, NodesOf, Among
<1>2. t.heap[i].id = f /\ t.heap[i].cb = <<f, g[f]>>
  BY <1>1 DEF NodeOf
<1>3. /\ Len(r.heap) = Len(t.heap)
      /\ NodesOf(r) = (NodesOf(t) \ {t.heap[i]})
                       \cup {[id |-> f, expires |-> x, cb |-> <<f, g[f]>>]}
      /\ \A h \in Fds : r.ref[h] # 0 <=> t.ref[h] # 0
  <2>1. f \in Fds
    OBVIOUS
  <2>2. /\ Len(r.heap) = Len(t.heap)
        /\ \A j \in 1..Len(t.heap) : t.heap[j].id = f =>
             /\ NodesOf(r) = (NodesOf(t) \ {t.heap[j]})
                            \cup {[id |-> f, expires |-> x, cb |-> t.heap[j].cb]}
             /\ \A h \in Fds : r.ref[h] # 0 <=> t.ref[h] # 0
    BY <2>1, Updated
  <2>. HIDE DEF r
  <2>. QED
    BY <1>2, <2>2
<1>. HIDE DEF r
<1>4. act2[f] = now2 /\ \A h \in op \ {f} : act2[h] = act[h]
  OBVIOUS
<1>. HIDE DEF act2
<1>5. NodeOf(f, act2, g) = [id |-> f, expires |-> x, cb |-> <<f, g[f]>>]
  BY <1>4 DEF NodeOf
<1>6. \A h \in op \ {f} : NodeOf(h, act2, g) = NodeOf(h, act, g) /\ NodeOf(h, act, g) # t.heap[i]
  BY <1>1, <1>4 DEF NodeOf
<1>7. \A h \in op : NodeOf(h, act2, g) \in NodesOf(r)
  BY <1>3, <1>5, <1>6 DEF Matches
<1>. QED
  BY <1>3, <1>7 DEF Matches, r, act2

LEMMA MatchAdd ==
  ASSUME NEW t, Sound(t), NEW op, op \subseteq Fds, NEW act \in [Fds -> Nat],
         NEW g \in [Fds -> Nat], Matches(t, op, act, g),
         NEW f \in Fds \ op, NEW x \in 0..(MaxTime + TimeOut), NEW now2, x = now2 + TimeOut,
         <<f, g[f] + 1>> \in ConnObjects
  PROVE  Matches(add(t, f, x, <<f, g[f] + 1>>), op \cup {f}, [act EXCEPT ![f] = now2],
                 [g EXCEPT ![f] = @ + 1])
<1> DEFINE r == add(t, f, x, <<f, g[f] + 1>>)
           act2 == [act EXCEPT ![f] = now2]
           g2 == [g EXCEPT ![f] = @ + 1]
<1>1. t.ref[f] = 0
  BY DEF Matches
<1>2. /\ NodesOf(r) = NodesOf(t) \cup {[id |-> f, expires |-> x, cb |-> <<f, g[f] + 1>>]}
      /\ Len(r.heap) = Len(t.heap) + 1 /\ r.ref[f] # 0 /\ OnlyRefOf(t, r, f)
  BY <1>1, Added
<1>. HIDE DEF r
<1>3. /\ act2[f] = now2 /\ \A h \in op : act2[h] = act[h] /\ h # f
      /\ g2[f] = g[f] + 1 /\ \A h \in op : g2[h] = g[h]
  OBVIOUS
<1>. HIDE DEF act2, g2
<1>4. NodeOf(f, act2, g2) = [id |-> f, expires |-> x, cb |-> <<f, g[f] + 1>>]
  BY <1>3 DEF NodeOf
<1>5. \A h \in op : NodeOf(h, act2, g2) = NodeOf(h, act, g)
  BY <1>3 DEF NodeOf
<1>6. IsFiniteSet(op)
  BY TimerAssumption, FS_Subset
<1>7. Cardinality(op \cup {f}) = Cardinality(op) + 1
  BY <1>6, FS_AddElement
<1>8. \A h \in Fds : r.ref[h] # 0 <=> h \in op \cup {f}
  BY <1>2 DEF Matches, OnlyRefOf
<1>9. \A h \in op \cup {f} : NodeOf(h, act2, g2) \in NodesOf(r)
  BY <1>2, <1>4, <1>5 DEF Matches
<1>. QED
  BY <1>2, <1>7, <1>8, <1>9 DEF Matches, r, act2, g2

(* While nothing has gone off there are no other nodes.                    *)
LEMMA OnlyMatches ==
  ASSUME NEW t, Sound(t), NEW op, NEW act, NEW g, Matches(t, op, act, g), NEW b \in NodesOf(t)
  PROVE  \E f \in op : b = NodeOf(f, act, g)
<1>1. PICK i \in 1..Len(t.heap) : b = t.heap[i]
  BY DEF NodesOf, Among
<1>2. t.heap[i].id \in Fds /\ t.ref[t.heap[i].id] = i /\ i # 0
  BY TimerNodes DEF Sound, Indexed
<1> DEFINE f == t.heap[i].id
<1>3. f \in op
  BY <1>2 DEF Matches
<1>4. PICK j \in 1..Len(t.heap) : t.heap[j] = NodeOf(f, act, g)
  BY <1>3 DEF Matches, NodesOf, Among
<1>5. t.heap[j].id = f
  BY <1>4 DEF NodeOf
<1>6. t.ref[t.heap[j].id] = j
  BY DEF Sound, Indexed
<1>7. i = j
  BY <1>2, <1>5, <1>6
<1>. QED
  BY <1>1, <1>3, <1>4, <1>7

TimerTypes ==
  /\ now \in 0..MaxTime /\ open \subseteq Fds /\ gen \in [Fds -> 0..MaxGen]
  /\ job \in [Fds -> 0..MaxGen] /\ active \in [Fds -> 0..MaxTime]
  /\ listening \in BOOLEAN /\ main \in {"run", "ticked", "timed", "sleep"}
  /\ timeMS \in -1..(MaxTime + TimeOut) /\ readAt \in 0..now /\ sleptAt \in 0..now
  /\ missed \in BOOLEAN
  /\ timedOut \in BOOLEAN /\ crashed \in BOOLEAN

(* The time-out that was worked out ends, from that reading of the clock   *)
(* on, before the time of every node that was counted with.                *)
Wakes ==
  main \in {"timed", "sleep"} /\ ~missed =>
    \A b \in NodesOf(timer) : Known(b) => timeMS >= 0 /\ readAt + timeMS <= b.expires

(* No node expires later than TimeOut from now: what update relies on,     *)
(* which only sifts down.                                                  *)
WithinTimeOut == \A b \in NodesOf(timer) : b.expires <= now + TimeOut

TimerInv ==
  /\ Good(timer) /\ TimerTypes /\ WithinTimeOut
  /\ ~timedOut => Matches(timer, open, active, gen)
  /\ Wakes

LEMMA TimerInvMeans == TimerInv => HeapSound /\ SleepsUntilFirstTimer
<1>. SUFFICES ASSUME TimerInv PROVE HeapSound /\ SleepsUntilFirstTimer
  OBVIOUS
<1>1. timer \in Timers /\ (\A f \in Fds : timer.ref[f] <= Cardinality(Fds)) /\ HeapShape
  BY GoodTimer DEF TimerInv
<1>2. DOMAIN timer.heap = 1..Len(timer.heap)
  BY <1>1, TimerNodes, LenProperties
<1>3. \A b : b \in NodesOf(timer) <=> \E i \in DOMAIN timer.heap : timer.heap[i] = b
  BY <1>2 DEF NodesOf, Among
<1>4. TimersMatch
  BY <1>3 DEF TimerInv, Matches, TimersMatch, NodeOf
<1>5. SleepsUntilFirstTimer
  <2>. SUFFICES ASSUME main = "sleep", ~missed, NEW i \in DOMAIN timer.heap,
                       Known(timer.heap[i])
                PROVE  Wake <= timer.heap[i].expires + (sleptAt - readAt)
    BY DEF SleepsUntilFirstTimer
  <2> DEFINE b == timer.heap[i]
  <2>1. timeMS >= 0 /\ readAt + timeMS <= b.expires
    BY <1>3 DEF TimerInv, Wakes, Known, loopVars
  <2>2. timeMS \in Int /\ readAt \in Int /\ sleptAt \in Int /\ b.expires \in Int
    <3>1. b \in Nodes /\ b.expires \in 0..(MaxTime + TimeOut)
      BY <1>1, <1>2, TimerNodes DEF Nodes
    <3>. QED
      BY <3>1, TimerAssumption DEF TimerInv, TimerTypes, loopVars
  <2>. HIDE DEF b
  <2>3. Wake <= b.expires + (sleptAt - readAt)
    BY <2>1, <2>2 DEF Wake
  <2>. QED
    BY <2>3 DEF b
<1>. QED
  BY <1>1, <1>4, <1>5 DEF HeapSound, TimerTypeOK, TimerInv, TimerTypes

LEMMA TimerInitInv == TimerInit => TimerInv
<1>. SUFFICES ASSUME TimerInit PROVE TimerInv
  OBVIOUS
<1>1. timer = [heap |-> <<>>, ref |-> [f \in Fds |-> 0]]
  BY DEF TimerInit
<1>2. <<>> \in Seq(Nodes) /\ Len(<<>>) = 0
  BY EmptySeq
<1>3. timer \in Timers /\ Len(timer.heap) = 0 /\ \A f \in Fds : timer.ref[f] = 0
  BY <1>1, <1>2 DEF Timers
<1>4. IsFiniteSet(Fds) /\ Cardinality(Fds) \in Nat /\ Cardinality({}) = 0
  BY TimerAssumption, FS_CardinalityType, FS_EmptySet
<1>5. NodesOf(timer) = {}
  BY <1>3 DEF NodesOf, Among
<1>6. Good(timer)
  BY <1>3, <1>4 DEF Good, Sound, Indexed, InOrder
<1>7. TimerTypes
  <2>1. 0 \in 0..MaxTime /\ 0 \in 0..MaxGen /\ -1 \in -1..(MaxTime + TimeOut) /\ 0 \in 0..0
    BY TimerAssumption
  <2>. QED
    BY <2>1 DEF TimerInit, TimerTypes
<1>8. Matches(timer, open, active, gen)
  BY <1>3, <1>4 DEF TimerInit, Matches
<1>. QED
  BY <1>5, <1>6, <1>7, <1>8 DEF TimerInv, WithinTimeOut, Wakes, Known, loopVars

(* What the calls of the handlers keep.                                    *)
LEMMA TouchKeeps ==
  ASSUME TimerInv, Touched(timer, timer', now + TimeOut), now' = now,
         UNCHANGED <<timeMS, readAt, missed>>, main' = main \/ main' = "run"
  PROVE  Good(timer)' /\ WithinTimeOut' /\ Wakes'
<1>1. Good(timer')
  BY StaysGood DEF TimerInv, Touched
<1>2. now \in Nat /\ TimeOut \in Nat /\ readAt \in Nat /\ readAt <= now
  BY TimerAssumption DEF TimerInv, TimerTypes, loopVars
<1>3. \A b \in NodesOf(timer') : b.expires <= now + TimeOut
  BY <1>2 DEF TimerInv, Touched, WithinTimeOut
<1>4. ASSUME NEW b \in NodesOf(timer'), Known(b)
      PROVE  b \in NodesOf(timer)
  BY <1>2, <1>4 DEF Touched, Known
<1>5. Wakes'
  BY <1>4 DEF TimerInv, Wakes, Known
<1>. QED
  BY <1>1, <1>3, <1>5 DEF WithinTimeOut

LEMMA TickInv == TimerInv /\ Tick => TimerInv'
<1>. SUFFICES ASSUME TimerInv, Tick PROVE TimerInv'
  OBVIOUS
<1> DEFINE s == tick[[timer |-> timer, open |-> open, crashed |-> FALSE]]
<1>1. /\ timer' = s.timer /\ open' = s.open /\ crashed' = s.crashed
      /\ timedOut' = (timedOut \/ timer # s.timer)
      /\ main' = "ticked" /\ timeMS' = -1 /\ readAt' = 0 /\ sleptAt' = 0 /\ missed' = FALSE
      /\ UNCHANGED <<now, gen, active, job, listening>>
  BY DEF Tick
<1>2. Good(timer) /\ TimerTypes /\ WithinTimeOut
  BY DEF TimerInv
<1>3. /\ Good(s.timer) /\ NodesOf(s.timer) \subseteq NodesOf(timer)
      /\ s.open \subseteq open /\ s.crashed \in BOOLEAN
      /\ s.timer = timer => s.open = open
  <2>1. open \subseteq Fds
    BY <1>2 DEF TimerTypes, loopVars
  <2>. QED
    BY <1>2, <2>1, Ticked
<1>. HIDE DEF s
<1>4. WithinTimeOut'
  BY <1>1, <1>2, <1>3 DEF WithinTimeOut
<1>5. TimerTypes'
  <2>1. -1 \in -1..(MaxTime + TimeOut) /\ 0 \in 0..now
    BY <1>2, TimerAssumption DEF TimerTypes, loopVars
  <2>. QED
    BY <1>1, <1>2, <1>3, <2>1 DEF TimerTypes, loopVars
<1>6. (~timedOut => Matches(timer, open, active, gen))'
  BY <1>1, <1>3 DEF TimerInv
<1>7. Wakes'
  BY <1>1 DEF Wakes
<1>. QED
  BY <1>1, <1>3, <1>4, <1>5, <1>6, <1>7 DEF TimerInv

LEMMA GetNextTickInv == TimerInv /\ GetNextTick => TimerInv'
<1>. SUFFICES ASSUME TimerInv, GetNextTick PROVE TimerInv'
  OBVIOUS
<1>1. /\ timeMS' = IF Left(timer) < 0 THEN -1 ELSE Left(timer)
      /\ missed' = (timer.heap # <<>> /\ Left(timer) < 0)
      /\ readAt' = now /\ main' = "timed"
      /\ UNCHANGED <<timer, now, gen, open, active, job, listening, sleptAt, timedOut, crashed>>
  BY DEF GetNextTick
<1>2. Good(timer) /\ TimerTypes /\ WithinTimeOut
  BY DEF TimerInv
<1>3. timer \in Timers /\ timer.heap \in Seq(Nodes) /\ Len(timer.heap) \in Nat
  BY <1>2, TimerNodes DEF Good, Sound
<1>4. /\ now \in 0..MaxTime /\ MaxTime \in Nat /\ TimeOut \in Nat
      /\ \A b \in NodesOf(timer) : b.expires \in 0..(MaxTime + TimeOut)
  <2>1. \A b \in NodesOf(timer) : b \in Nodes
    BY <1>3, TimerNodes DEF NodesOf, Among
  <2>. QED
    BY <1>2, <2>1, TimerAssumption DEF TimerTypes, Nodes
<1>5. timeMS' \in -1..(MaxTime + TimeOut)
  <2>1. CASE timer.heap = <<>>
    BY <1>1, <1>4, <2>1 DEF Left
  <2>2. CASE timer.heap # <<>>
    <3>1. timer.heap[1] \in NodesOf(timer)
      BY <1>3, <2>2, TimerNodes, EmptySeq DEF NodesOf, Among
    <3>. QED
      BY <1>1, <1>4, <2>2, <3>1 DEF Left
  <2>. QED
    BY <2>1, <2>2
<1>6. TimerTypes'
  BY <1>1, <1>2, <1>4, <1>5 DEF TimerTypes, loopVars
<1>7. ASSUME ~missed', NEW b \in NodesOf(timer)
      PROVE  timeMS' >= 0 /\ now + timeMS' <= b.expires
  <2>1. timer.heap # <<>>
    BY <1>7 DEF NodesOf, Among
  <2>2. timeMS' = Left(timer) /\ ~(Left(timer) < 0)
    BY <1>1, <1>7, <2>1
  <2>3. timer.heap[1].expires <= b.expires
    BY <1>2, <1>3, FirstIsLeast DEF Good, NodesOf, Among
  <2>4. timer.heap[1] \in NodesOf(timer)
    BY <1>3, <2>1, TimerNodes, EmptySeq DEF NodesOf, Among
  <2>5. Left(timer) = timer.heap[1].expires - now
    BY <2>1 DEF Left
  <2>. QED
    BY <1>4, <2>2, <2>3, <2>4, <2>5
<1>8. Wakes'
  BY <1>1, <1>7 DEF Wakes
<1>9. WithinTimeOut' /\ Good(timer)' /\ (~timedOut => Matches(timer, open, active, gen))'
  BY <1>1 DEF TimerInv, WithinTimeOut
<1>. QED
  BY <1>6, <1>8, <1>9 DEF TimerInv

LEMMA EpollWaitInv == TimerInv /\ EpollWait => TimerInv'
<1>. SUFFICES ASSUME TimerInv, EpollWait PROVE TimerInv'
  OBVIOUS
<1>1. /\ main = "timed" /\ sleptAt' = now /\ main' = "sleep"
      /\ UNCHANGED <<timer, now, gen, open, active, job, listening, timeMS, readAt, missed,
                     timedOut, crashed>>
  BY DEF EpollWait
<1>2. TimerTypes'
  BY <1>1, TimerAssumption DEF TimerInv, TimerTypes, loopVars
<1>3. Wakes'
  BY <1>1 DEF TimerInv, Wakes, Known
<1>. QED
  BY <1>1, <1>2, <1>3 DEF TimerInv, WithinTimeOut

LEMMA HangUpInv == ASSUME NEW f \in Fds PROVE TimerInv /\ HangUp(f) => TimerInv'
<1>. SUFFICES ASSUME TimerInv, HangUp(f) PROVE TimerInv'
  OBVIOUS
<1>1. /\ timer' = erase(timer, f) /\ open' = open \ {f} /\ f \in open /\ main' = "run"
      /\ UNCHANGED <<now, gen, active, job, listening, loopVars, timedOut, crashed>>
  BY DEF HangUp, DealClose, Armed
<1>2. Good(timer) /\ Sound(timer) /\ TimerTypes /\ open \subseteq Fds
  BY DEF TimerInv, Good, TimerTypes
<1>3. Touched(timer, timer', now + TimeOut)
  BY <1>1, <1>2, Erased, ShorterTouches
<1>4. (~timedOut => Matches(timer, open, active, gen))'
  BY <1>1, <1>2, MatchErase DEF TimerInv
<1>5. TimerTypes'
  BY <1>1, <1>2 DEF TimerTypes, loopVars
<1>. QED
  BY <1>1, <1>3, <1>4, <1>5, TouchKeeps DEF TimerInv, loopVars

LEMMA AcceptInv == TimerInv /\ Accept => TimerInv'
<1>. SUFFICES ASSUME TimerInv, Accept PROVE TimerInv'
  OBVIOUS
<1>1. /\ listening' = FALSE
      /\ UNCHANGED <<now, job, main, loopVars, timedOut, crashed>>
  BY DEF Accept
<1>2. Good(timer) /\ Sound(timer) /\ TimerTypes /\ open \subseteq Fds
  BY DEF TimerInv, Good, TimerTypes
<1>3. CASE UNCHANGED <<gen, open, timer, active>>
  <2>1. Touched(timer, timer', now + TimeOut)
    BY <1>2, <1>3, Unchanged
  <2>2. TimerTypes'
    BY <1>1, <1>2, <1>3 DEF TimerTypes, loopVars
  <2>3. (~timedOut => Matches(timer, open, active, gen))'
    BY <1>1, <1>3 DEF TimerInv
  <2>. QED
    BY <1>1, <2>1, <2>2, <2>3, TouchKeeps DEF TimerInv, loopVars
<1>4. ASSUME NEW f \in Fds \ open, gen[f] < MaxGen, gen' = [gen EXCEPT ![f] = @ + 1],
             open' = open \cup {f}, timer' = add(timer, f, now + TimeOut, <<f, gen[f] + 1>>),
             active' = [active EXCEPT ![f] = now]
      PROVE  TimerInv'
  <2>1. /\ now + TimeOut \in 0..(MaxTime + TimeOut) /\ now \in 0..MaxTime
        /\ gen[f] + 1 \in 1..MaxGen /\ gen[f] + 1 \in 0..MaxGen
    BY <1>2, <1>4, TimerAssumption DEF TimerTypes, loopVars
  <2>2. <<f, gen[f] + 1>> \in ConnObjects
    BY <2>1 DEF ConnObjects
  <2>3. Touched(timer, timer', now + TimeOut)
    BY <1>2, <1>4, <2>1, <2>2, Added
  <2>4. TimerTypes'
    BY <1>1, <1>2, <1>4, <2>1 DEF TimerTypes, loopVars
  <2>5. gen \in [Fds -> Nat] /\ active \in [Fds -> Nat]
    BY <1>2, TimerAssumption DEF TimerTypes, loopVars
  <2>6. (~timedOut => Matches(timer, open, active, gen))'
    <3>. SUFFICES ASSUME ~timedOut' PROVE Matches(timer', open', active', gen')
      OBVIOUS
    <3>1. Matches(timer, open, active, gen)
      BY <1>1 DEF TimerInv
    <3>. QED
      BY <1>2, <1>4, <2>1, <2>2, <2>5, <3>1, MatchAdd
  <2>. QED
    BY <1>1, <2>3, <2>4, <2>6, TouchKeeps DEF TimerInv, loopVars
<1>. QED
  BY <1>3, <1>4 DEF Accept

LEMMA HandleInv == ASSUME NEW f \in Fds PROVE TimerInv /\ Handle(f) => TimerInv'
<1>. SUFFICES ASSUME TimerInv, Handle(f) PROVE TimerInv'
  OBVIOUS
<1> DEFINE updated == update(timer, f, now + TimeOut)
           act2 == [active EXCEPT ![f] = now]
<1>1. /\ job' = [job EXCEPT ![f] = 0]
      /\ UNCHANGED <<now, gen, listening, main, loopVars, timedOut>>
  BY DEF Handle
<1>2. Good(timer) /\ Sound(timer) /\ TimerTypes /\ open \subseteq Fds
  BY DEF TimerInv, Good, TimerTypes
<1>3. \/ crashed' = TRUE /\ UNCHANGED <<timer, open, active>>
      \/ /\ f \in open /\ active' = act2 /\ crashed' = crashed
         /\ \/ timer' = updated /\ open' = open
            \/ timer' = erase(updated, f) /\ open' = open \ {f}
  BY DEF Handle
<1>4. /\ now + TimeOut \in 0..(MaxTime + TimeOut) /\ now \in 0..MaxTime
      /\ active \in [Fds -> Nat] /\ MaxGen \in Nat
  BY <1>2, TimerAssumption DEF TimerTypes, loopVars
<1>5. job' \in [Fds -> 0..MaxGen] /\ act2 \in [Fds -> 0..MaxTime]
  BY <1>1, <1>2, <1>4 DEF TimerTypes, loopVars
<1>. HIDE DEF act2
<1>6. TimerTypes'
  BY <1>1, <1>2, <1>3, <1>5 DEF TimerTypes, loopVars
<1>7. CASE crashed' = TRUE /\ UNCHANGED <<timer, open, active>>
  <2>1. Touched(timer, timer', now + TimeOut)
    BY <1>2, <1>7, Unchanged
  <2>2. (~timedOut => Matches(timer, open, active, gen))'
    BY <1>1, <1>7 DEF TimerInv
  <2>. QED
    BY <1>1, <1>6, <2>1, <2>2, TouchKeeps DEF TimerInv, loopVars
<1>8. CASE /\ f \in open /\ active' = act2
           /\ \/ timer' = updated /\ open' = open
              \/ timer' = erase(updated, f) /\ open' = open \ {f}
  <2>1. \A b \in NodesOf(timer) : b.expires <= now + TimeOut
    BY DEF TimerInv, WithinTimeOut
  <2>2. Touched(timer, updated, now + TimeOut)
    BY <1>2, <1>4, <2>1, Updated
  <2>3. ~timedOut => Matches(updated, open, act2, gen)
    BY <1>2, <1>4, <1>8, <2>1, MatchUpdate DEF TimerInv, act2
  <2>. HIDE DEF updated
  <2>4. Good(updated) /\ Sound(updated)
    BY <1>2, <2>2, StaysGood DEF Touched
  <2>5. CASE timer' = updated /\ open' = open
    <3>1. (~timedOut => Matches(timer, open, active, gen))'
      BY <1>1, <1>8, <2>3, <2>5
    <3>. QED
      BY <1>1, <1>6, <2>2, <2>5, <3>1, TouchKeeps DEF TimerInv, loopVars
  <2>6. CASE timer' = erase(updated, f) /\ open' = open \ {f}
    <3>1. Sound(timer') /\ RefsWithin(updated, timer') /\ NodesOf(timer') \subseteq NodesOf(updated)
      BY <2>4, <2>6, Erased
    <3>2. Good(timer')
      BY <2>4, <3>1, StaysGood
    <3>3. \A b \in NodesOf(timer') : b \in NodesOf(timer) \/ b.expires = now + TimeOut
      BY <2>2, <3>1 DEF Touched
    <3>4. now \in Nat /\ TimeOut \in Nat /\ readAt \in Nat /\ readAt <= now
      BY <1>2, TimerAssumption DEF TimerTypes, loopVars
    <3>5. WithinTimeOut'
      BY <1>1, <2>1, <3>3, <3>4 DEF WithinTimeOut
    <3>6. Wakes'
      <4>1. \A b \in NodesOf(timer') : Known(b) => b \in NodesOf(timer)
        BY <3>3, <3>4 DEF Known
      <4>. QED
        BY <1>1, <4>1 DEF TimerInv, Wakes, Known, loopVars
    <3>7. (~timedOut => Matches(timer, open, active, gen))'
      BY <1>1, <1>2, <1>8, <2>3, <2>4, <2>6, MatchErase
    <3>. QED
      BY <1>6, <3>2, <3>5, <3>6, <3>7 DEF TimerInv
  <2>. QED
    BY <1>8, <2>5, <2>6
<1>. QED
  BY <1>3, <1>7, <1>8

LEMMA AdvanceInv == TimerInv /\ Advance => TimerInv'
<1>. SUFFICES ASSUME TimerInv, Advance PROVE TimerInv'
  OBVIOUS
<1>1. /\ now < MaxTime /\ now' = now + 1
      /\ UNCHANGED <<timer, gen, open, active, job, listening, main, loopVars,
                     timedOut, crashed>>
  BY DEF Advance
<1>2. now \in Nat /\ TimeOut \in Nat /\ MaxTime \in Nat /\ sleptAt \in 0..now /\ readAt \in 0..now
  BY TimerAssumption DEF TimerInv, TimerTypes, loopVars
<1>3. Sound(timer) /\ \A j \in 1..Len(timer.heap) : timer.heap[j].expires \in Nat
  BY TimerNodes DEF TimerInv, Good, Sound
<1>4. \A b \in NodesOf(timer) : b.expires \in Nat /\ b.expires <= now + TimeOut
  BY <1>3 DEF TimerInv, WithinTimeOut, NodesOf, Among
<1>5. WithinTimeOut'
  BY <1>1, <1>2, <1>4 DEF WithinTimeOut
<1>6. TimerTypes'
  BY <1>1, <1>2 DEF TimerInv, TimerTypes, loopVars
<1>. QED
  BY <1>1, <1>5, <1>6 DEF TimerInv, Wakes, Known, loopVars

LEMMA TimerNextInv == TimerInv /\ [TimerNext]_timerVars => TimerInv'
<1>. SUFFICES ASSUME TimerInv, [TimerNext]_timerVars PROVE TimerInv'
  OBVIOUS
<1>1. ASSUME UNCHANGED <<timer, now, gen, open, active, loopVars, timedOut>>,
             main' = main \/ main' = "run", TimerTypes'
      PROVE  TimerInv'
  BY <1>1 DEF TimerInv, WithinTimeOut, Wakes, Known, loopVars
<1>2. CASE UNCHANGED timerVars
  <2>1. TimerTypes'
    BY <1>2 DEF TimerInv, TimerTypes, loopVars, timerVars
  <2>. QED
    BY <1>1, <1>2, <2>1 DEF timerVars, loopVars
<1>3. CASE WakeUp
  <2>1. TimerTypes'
    BY <1>3 DEF TimerInv, TimerTypes, loopVars, WakeUp
  <2>. QED
    BY <1>1, <1>3, <2>1 DEF WakeUp
<1>4. CASE DispatchListen
  <2>1. TimerTypes'
    BY <1>4 DEF TimerInv, TimerTypes, loopVars, DispatchListen
  <2>. QED
    BY <1>1, <1>4, <2>1 DEF DispatchListen
<1>5. ASSUME NEW f \in Fds, Dispatch(f) PROVE TimerInv'
  <2>1. TimerTypes'
    BY <1>5 DEF TimerInv, TimerTypes, loopVars, Dispatch
  <2>. QED
    BY <1>1, <1>5, <2>1 DEF Dispatch
<1>. QED
  BY <1>2, <1>3, <1>4, <1>5, GetNextTickInv, HangUpInv, AcceptInv, HandleInv,
     AdvanceInv, TickInv, EpollWaitInv
     DEF TimerNext

LEMMA TimerSafe == TimerSpec => []TimerInv
BY TimerInitInv, TimerNextInv, PTL DEF TimerSpec

(* heap_ stays a heap whose nodes ref_ finds, whatever the callers do, and *)
(* the map of the open connections until the first timer goes off.         *)
THEOREM HeapStaysSound == TimerSpec => []HeapSound
BY TimerSafe, TimerInvMeans, PTL

(* The event loop wakes for every timer it counted with, as late at most   *)
(* as it was late to sleep, unless the first one's time ended between      *)
(* tick's reading of the clock and GetNextTick's.                          *)
THEOREM SleepIsBounded == TimerSpec => []SleepsUntilFirstTimer
BY TimerSafe, TimerInvMeans, PTL

LEMMA OnlyIdleStep ==
  TimerInv /\ [TimerNext]_timerVars =>
    (main = "run" /\ main' = "ticked" /\ ~timedOut =>
       \A f \in open \ open' : now - active[f] >= TimeOut)
<1>. SUFFICES ASSUME TimerInv, [TimerNext]_timerVars, main = "run", main' = "ticked", ~timedOut,
                     NEW f \in open \ open'
              PROVE  now - active[f] >= TimeOut
  OBVIOUS
<1>1. Tick
  <2>1. main' # main
    OBVIOUS
  <2>. QED
    BY <2>1 DEF TimerNext, timerVars, GetNextTick, EpollWait, WakeUp, DispatchListen, Accept,
                Advance, Dispatch, HangUp, Handle
<1>2. /\ Good(timer) /\ Sound(timer) /\ open \subseteq Fds /\ Matches(timer, open, active, gen)
      /\ now \in Nat /\ active \in [Fds -> Nat] /\ TimeOut \in Nat
  BY TimerAssumption DEF TimerInv, TimerTypes, Good
<1>3. \A h \in open \ open' : \E b \in NodesOf(timer) : b.cb[1] = h /\ Expired(b)
  BY <1>1, <1>2, Ticked DEF Tick
<1>4. PICK b \in NodesOf(timer) : b.cb[1] = f /\ Expired(b)
  BY <1>3
<1>5. PICK h \in open : b = NodeOf(h, active, gen)
  BY <1>2, OnlyMatches
<1>6. h = f /\ active[f] + TimeOut <= now /\ active[f] \in Nat
  BY <1>2, <1>4, <1>5 DEF NodeOf, Expired
<1>. QED
  BY <1>2, <1>6

(* The first timers to go off close connections that were idle for TimeOut *)
(* and nobody else.                                                        *)
THEOREM OnlyIdleAreClosed == TimerSpec => ClosesOnlyIdle
<1>1. TimerInv /\ [TimerNext]_timerVars
        => [main = "run" /\ main' = "ticked" /\ ~timedOut =>
              \A f \in open \ open' : now - active[f] >= TimeOut]_timerVars
  BY OnlyIdleStep
<1>. QED
  BY <1>1, TimerSafe, PTL DEF TimerSpec, ClosesOnlyIdle
=============================================================================
