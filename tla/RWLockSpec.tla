----------------------------- MODULE RWLockSpec -----------------------------
(***************************************************************************)
(* What the tracker's readers-writer lock promises its callers: any number *)
(* of readers or one writer hold it, and once a writer has asked for it no *)
(* further reader is let in ("writer-preferring", README.md).  Nothing is  *)
(* said of counters, mutexes or condition variables.                       *)
(***************************************************************************)

CONSTANT Threads

VARIABLES readers,      \* threads inside a ReaderLockRAII scope
          writers,      \* threads inside a WriterLockRAII scope
          queued        \* threads that asked to write and are still waiting

vars == <<readers, writers, queued>>

Idle == Threads \ (readers \cup writers \cup queued)

Init == readers = {} /\ writers = {} /\ queued = {}

Read(t) ==
  /\ t \in Idle
  /\ writers = {} /\ queued = {}
  /\ readers' = readers \cup {t}
  /\ UNCHANGED <<writers, queued>>

Queue(t) ==
  /\ t \in Idle
  /\ queued' = queued \cup {t}
  /\ UNCHANGED <<readers, writers>>

Write(t) ==
  /\ t \in Idle \cup queued
  /\ readers = {} /\ writers = {}
  /\ writers' = {t}
  /\ queued' = queued \ {t}
  /\ UNCHANGED readers

Release(t) ==
  /\ t \in readers \cup writers
  /\ readers' = readers \ {t}
  /\ writers' = writers \ {t}
  /\ UNCHANGED queued

Next == \E t \in Threads : Read(t) \/ Queue(t) \/ Write(t) \/ Release(t)

Spec == Init /\ [][Next]_vars
=============================================================================
