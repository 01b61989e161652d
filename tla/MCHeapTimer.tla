---------------------------- MODULE MCHeapTimer ----------------------------
(* Three descriptors, each of which may be used again.                     *)
EXTENDS HeapTimer

CONSTANTS f1, f2, f3

ThreeFds == {f1, f2, f3}
TimerSymmetry == Permutations(ThreeFds)
=============================================================================
