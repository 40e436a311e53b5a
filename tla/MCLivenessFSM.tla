---------------------------- MODULE MCLivenessFSM ----------------------------
(* LivenessFSM with small thresholds, in ticks of about a second: 800 ms for *)
(* a blink and 1 s for a dropout become 1, the 2 s of the reset delay 2, the *)
(* 4 s timeout 4.  A smile's 600 ms become 2, so that sustaining it takes    *)
(* more than one frame after the first.                                      *)
EXTENDS LivenessFSM
=============================================================================
