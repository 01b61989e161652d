-------------------------- MODULE MCTrackerSession --------------------------
(***************************************************************************)
(* A node with two workers and two trackers, whose receive buffers of      *)
(* three bytes have to be moved and grown for two messages of two bytes    *)
(* and a third, wherever a read cuts them.  The answer of one tracker may  *)
(* come in pieces: the verb alone, which is enough for the node, and then  *)
(* five bytes, of which one stays, or four and one, which end the node.    *)
(***************************************************************************)
EXTENDS TrackerSession

CONSTANTS t1, t2

OneAnswerCut == [t \in {t1, t2} |-> IF t = t1 THEN {4} ELSE {}]
VerbsAndMarks == {"NEW", "CHG", "CRLF", "0"}
=============================================================================
