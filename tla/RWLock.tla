------------------------------- MODULE RWLock -------------------------------
(***************************************************************************)
(* The tracker's writer-preferring readers-writer lock,                    *)
(* tracker/src/lock/rwlock.h.  Every field is read and written under the   *)
(* lock's own mutex, which a thread gives up only inside wait(): so a      *)
(* constructor or destructor runs as one step up to its next wait(), and   *)
(* the mutex itself needs no variable.  A thread that was notified (or     *)
(* woke spuriously) has left its condition variable's wait set and will    *)
(* run the loop test again.                                                *)
(***************************************************************************)
EXTENDS Naturals, FiniteSets

CONSTANT Threads

ASSUME ThreadsAssumption == IsFiniteSet(Threads)

VARIABLES pc,           \* where each thread is in the RAII protocol
          reader,       \* RWlock::reader
          writeQuest,   \* RWlock::writeQuest
          writer,       \* RWlock::writer
          readCV,       \* threads asleep on readCV
          writeCV       \* threads asleep on writeCV

vars == <<pc, reader, writeQuest, writer, readCV, writeCV>>

At(place) == {t \in Threads : pc[t] = place}

Init ==
  /\ pc = [t \in Threads |-> "out"]
  /\ reader = 0 /\ writeQuest = 0 /\ writer = FALSE
  /\ readCV = {} /\ writeCV = {}

-----------------------------------------------------------------------------
(* The two loop tests, and the notifications of the destructors.           *)

ReaderWaitsOnWriterOnly == writer
ReaderMustWait == writeQuest > 0 \/ writer

WriterWaitsOnReadersOnly == reader > 0
WriterMustWait == reader > 0 \/ writer

NotifyOne(asleep, after) ==
  \/ asleep = {} /\ after = {}
  \/ \E t \in asleep : after = asleep \ {t}

NotifyNobody == UNCHANGED <<readCV, writeCV>>
NotifyWhenLastReaderLeaves ==
  /\ IF reader' = 0 THEN NotifyOne(writeCV, writeCV') ELSE UNCHANGED writeCV
  /\ UNCHANGED readCV

NotifyWritersOnly ==
  /\ NotifyOne(writeCV, writeCV')
  /\ UNCHANGED readCV
NotifyWhenWriterLeaves ==
  IF writeQuest > 0
  THEN NotifyOne(writeCV, writeCV') /\ UNCHANGED readCV
  ELSE readCV' = {} /\ UNCHANGED writeCV

-----------------------------------------------------------------------------
(* ReaderLockRAII.                                                         *)

ReaderSleeps(t) ==
  /\ ReaderMustWait
  /\ pc' = [pc EXCEPT ![t] = "rwait"]
  /\ readCV' = readCV \cup {t}
  /\ UNCHANGED <<reader, writeQuest, writer, writeCV>>

ReaderEnters(t) ==
  /\ ~ReaderMustWait
  /\ pc' = [pc EXCEPT ![t] = "read"]
  /\ reader' = reader + 1
  /\ UNCHANGED <<writeQuest, writer, readCV, writeCV>>

ReaderLock(t) == pc[t] = "out" /\ (ReaderSleeps(t) \/ ReaderEnters(t))

ReaderWakes(t) ==
  /\ pc[t] = "rwait" /\ t \notin readCV
  /\ ReaderSleeps(t) \/ ReaderEnters(t)

ReaderUnlock(t) ==
  /\ pc[t] = "read"
  /\ pc' = [pc EXCEPT ![t] = "out"]
  /\ reader' = reader - 1
  /\ NotifyWhenLastReaderLeaves
  /\ UNCHANGED <<writeQuest, writer>>

-----------------------------------------------------------------------------
(* WriterLockRAII.                                                         *)

WriterLock(t) ==
  /\ pc[t] = "out"
  /\ \/ /\ WriterMustWait
        /\ pc' = [pc EXCEPT ![t] = "wwait"]
        /\ writeQuest' = writeQuest + 1
        /\ writeCV' = writeCV \cup {t}
        /\ UNCHANGED writer
     \/ /\ ~WriterMustWait
        /\ pc' = [pc EXCEPT ![t] = "write"]
        /\ writer' = TRUE
        /\ UNCHANGED <<writeQuest, writeCV>>
  /\ UNCHANGED <<reader, readCV>>

WriterWakes(t) ==
  /\ pc[t] = "wwait" /\ t \notin writeCV
  /\ \/ /\ WriterMustWait
        /\ writeCV' = writeCV \cup {t}
        /\ UNCHANGED <<pc, writeQuest, writer>>
     \/ /\ ~WriterMustWait
        /\ pc' = [pc EXCEPT ![t] = "write"]
        /\ writeQuest' = writeQuest - 1
        /\ writer' = TRUE
        /\ UNCHANGED writeCV
  /\ UNCHANGED <<reader, readCV>>

WriterUnlock(t) ==
  /\ pc[t] = "write"
  /\ pc' = [pc EXCEPT ![t] = "out"]
  /\ writer' = FALSE
  /\ NotifyWhenWriterLeaves
  /\ UNCHANGED <<reader, writeQuest>>

-----------------------------------------------------------------------------
(* std::condition_variable may wake a waiter that nobody notified.         *)

SpuriousWakeup(t) ==
  /\ t \in readCV \cup writeCV
  /\ readCV' = readCV \ {t}
  /\ writeCV' = writeCV \ {t}
  /\ UNCHANGED <<pc, reader, writeQuest, writer>>

Step(t) ==
  \/ ReaderLock(t) \/ ReaderWakes(t) \/ ReaderUnlock(t)
  \/ WriterLock(t) \/ WriterWakes(t) \/ WriterUnlock(t)

Next == \E t \in Threads : Step(t) \/ SpuriousWakeup(t)

Spec == Init /\ [][Next]_vars

(* Scopes end and a woken thread gets its mutex back; nobody is obliged to *)
(* take the lock, and spurious wake-ups are not to be relied upon.         *)
Fairness ==
  \A t \in Threads :
    /\ WF_vars(ReaderUnlock(t)) /\ WF_vars(WriterUnlock(t))
    /\ WF_vars(ReaderWakes(t)) /\ WF_vars(WriterWakes(t))

FairSpec == Spec /\ Fairness

-----------------------------------------------------------------------------
(* Type correctness of the lock's fields and of the threads' places.       *)
TypeOK ==
  /\ pc \in [Threads -> {"out", "rwait", "read", "wwait", "write"}]
  /\ reader \in Nat /\ writeQuest \in Nat /\ writer \in BOOLEAN
  /\ readCV \in SUBSET At("rwait")
  /\ writeCV \in SUBSET At("wwait")

(* The three fields are exact: they count the threads inside a reader      *)
(* scope and the queued writers, and tell whether a writer is inside, so   *)
(* no path through a constructor and its destructor drops or repeats an    *)
(* increment.                                                              *)
CountersExact ==
  /\ reader = Cardinality(At("read"))
  /\ writeQuest = Cardinality(At("wwait"))
  /\ writer <=> At("write") # {}

(* Inside a writer scope a thread is alone: no reader and no second writer *)
(* reads the tracker's tables while they are being changed.                *)
Exclusion ==
  \A t, u \in Threads :
    pc[t] = "write" /\ pc[u] \in {"read", "write"} => t = u

(* No wake-up is lost.  A reader sleeps only while a writer is inside or   *)
(* queued; when the lock is free and writers are queued, one of them is    *)
(* already awake, although each destructor notifies a single writer.       *)
NoLostWakeup ==
  /\ readCV # {} => writer \/ writeQuest > 0
  /\ At("wwait") # {} /\ reader = 0 /\ ~writer => At("wwait") \ writeCV # {}

(* A queued writer is not overtaken: from the moment it queued, no reader  *)
(* enters before some writer has been inside (README: writer-preferring).  *)
WriterPriority ==
  [][At("wwait") # {} => At("read")' \subseteq At("read")]_vars

(* Every queue of writers makes progress: while writers wait, some writer  *)
(* gets in, whatever the readers do.                                       *)
WritersProgress == At("wwait") # {} ~> At("write") # {}

(* A reader is not forgotten: if from some time on no writer holds or      *)
(* wants the lock, every reader that sleeps is let in.                     *)
ReadersNotForgotten ==
  <>[](At("wwait") \cup At("write") = {}) => []<>(At("rwait") = {})

(* The notifications, of one writer or of all readers and never of both,   *)
(* leave neither kind of thread asleep for ever.                           *)
NobodyForgotten == WritersProgress /\ ReadersNotForgotten

(* The lock implements the abstract writer-preferring lock.                *)
Abstract == INSTANCE RWLockSpec WITH
  readers <- At("read"), writers <- At("write"), queued <- At("wwait")

RefinesRWLockSpec == Abstract!Spec
=============================================================================
