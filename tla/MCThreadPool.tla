---------------------------- MODULE MCThreadPool ----------------------------
(* Three workers, three events and one SIGINT.                             *)
EXTENDS ThreadPool

CONSTANTS w1, w2, w3

ThreeWorkers == {w1, w2, w3}
=============================================================================
