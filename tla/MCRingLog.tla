----------------------------- MODULE MCRingLog -----------------------------
(***************************************************************************)
(* A ring of fewer entries than are written, so that entries that were     *)
(* freed are handed out again, also after a kill, and the free list may    *)
(* run out.                                                                *)
(***************************************************************************)
EXTENDS RingLog, TLC

CONSTANTS w1, w2

TwoWriters == {w1, w2}
WritersAlike == Permutations(TwoWriters)
=============================================================================
