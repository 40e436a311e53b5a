--------------------------- MODULE MCErasureQueue ---------------------------
(* Small instances of ErasureQueue for TLC. *)
EXTENDS ErasureQueue, TLC

CONSTANTS p1, p2, q1, q2, c1, c2
=============================================================================
