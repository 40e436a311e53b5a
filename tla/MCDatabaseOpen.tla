--------------------------- MODULE MCDatabaseOpen ---------------------------
(* Two mounts of the App, the smoke test and one kill.                     *)
EXTENDS DatabaseOpen
=============================================================================
