--------------------------- MODULE MCSqlConnPool ---------------------------
(* Three threads over two connections, so that the semaphore reaches 0.    *)
EXTENDS SqlConnPool

CONSTANTS u1, u2, u3, k1, k2

ThreeUsers == {u1, u2, u3}
TwoConns == {k1, k2}
=============================================================================
