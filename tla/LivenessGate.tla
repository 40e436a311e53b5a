----------------------------- MODULE LivenessGate -----------------------------
(***************************************************************************)
(* What the liveness state machine promises the frame pipeline, without    *)
(* times, metrics and challenges: which states may follow which when a     *)
(* frame is evaluated and when the application calls.  LivenessFSM         *)
(* implements it; EmbeddingSession builds on it.                           *)
(***************************************************************************)
VARIABLE gate

States == {"idle", "detected", "active", "pass", "fail"}

\* A pass comes only out of a challenge, from a frame with a face, and ends with
\* the first frame without one; a failure is left only for idle.
AfterFrame(s, face) ==
  CASE s = "fail" -> {"fail", "idle"}
    [] s \in {"idle", "detected"} -> IF face THEN {"detected", "fail"} ELSE {"idle"}
    [] s = "active" -> IF face THEN {"active", "pass", "fail"} ELSE {"active", "idle"}
    [] s = "pass" -> IF face THEN {"pass", "fail"} ELSE {"idle"}

Init == gate = "idle"

Frame == \E face \in BOOLEAN : gate' \in AfterFrame(gate, face)
StartChallenge == gate' = "active"
Reset == gate' = "idle"
ForcePass == gate' = "pass"

Next == Frame \/ StartChallenge \/ Reset \/ ForcePass

Spec == Init /\ [][Next]_gate
=============================================================================
