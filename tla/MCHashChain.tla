----------------------------- MODULE MCHashChain -----------------------------
(* Model-checking instance of LedgerCallers: four appends, two of them in    *)
(* one process, so that a chain can fork, be out of order and be retried.    *)
EXTENDS LedgerCallers

CONSTANTS w1, w2, w3, w4

AllWriters == {w1, w2, w3, w4}
TwoProcesses == [w \in AllWriters |-> IF w \in {w1, w2} THEN "a" ELSE "b"]
OneRotation == {w4}
=============================================================================
