---------------------------- MODULE MCSyncQueue ----------------------------
(* Small instances of SyncQueue for TLC. *)
EXTENDS SyncQueue, TLC

CONSTANTS i1, i2, w1, w2
=============================================================================
