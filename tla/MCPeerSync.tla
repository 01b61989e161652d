----------------------------- MODULE MCPeerSync -----------------------------
(* Two workers serve the peer's events while operations come in.           *)
EXTENDS PeerSync

CONSTANTS w1, w2, o1, o2

TwoWorkers == {w1, w2}
TwoOperations == {o1, o2}
=============================================================================
