---------------------------- MODULE MCFramePaths ----------------------------
(* One camera thread and the three buffers of the application; four frames   *)
(* and a second start of the engine on Android.                              *)
EXTENDS FramePaths

CONSTANT c1
=============================================================================
