------------------------------ MODULE MCRWLock ------------------------------
(* Three threads, each free to be a reader or a writer at every turn.      *)
EXTENDS RWLock

CONSTANTS t1, t2, t3

MCThreads == {t1, t2, t3}
=============================================================================
