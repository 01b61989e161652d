----------------------------- MODULE MCAsyncLog -----------------------------
(* Three threads, a queue for two lines that fills up, and a shutdown.     *)
EXTENDS AsyncLog

CONSTANTS t1, t2, t3

ThreeThreads == {t1, t2, t3}
=============================================================================
