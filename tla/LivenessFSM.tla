----------------------------- MODULE LivenessFSM -----------------------------
(***************************************************************************)
(* The liveness state machine of cpp/landmarks: a face is detected, the    *)
(* application starts a challenge, and frames decide between pass, fail    *)
(* and going back to idle.  All times come from the frames and the calls:  *)
(* there is no timer.  Every operation runs under the plugin's fsmMutex_,  *)
(* so each is one action.                                                  *)
(*                                                                         *)
(* What EvaluateBlink, EvaluateSmile and EvaluateTurn compute from a metric*)
(* and its baseline is given as a sign: "void" (not a usable metric),      *)
(* "rest", "act" (eyes closed; mouth above the smile threshold; head turned*)
(* far enough) or, for eyes, "open" (recovered from the closure, whether   *)
(* above dynamicOpenEar or by recoveryDelta).                              *)
(***************************************************************************)
EXTENDS Integers

CONSTANTS
  blinkWindow, smileSustain,      \* LivenessThresholds, in ticks
  challengeTimeout, failResetDelay, faceDropoutTolerance,
  MaxTime                         \* bound: the last tick of the clock

ASSUME ThresholdsAssumption ==
  /\ {blinkWindow, smileSustain, challengeTimeout, failResetDelay,
      faceDropoutTolerance, MaxTime} \subseteq Nat
  /\ smileSustain > 0 /\ challengeTimeout > 0

VARIABLES
  now,      \* the clock when the last frame or call came
  fsm,      \* the members of class LivenessFSM
  hist      \* history only: the current attempt as an observer sees it

vars == <<now, fsm, hist>>

-----------------------------------------------------------------------------
States == {"idle", "detected", "active", "pass", "fail"}
Challenges == {"none", "blink", "smile", "turn"}
Signs == {"void", "rest", "act", "open"}
Time == 0 .. MaxTime

Reset(t) ==
  [state |-> "idle", challenge |-> "none", requiresVerification |-> FALSE,
   challengeSatisfied |-> FALSE, stateEnteredAt |-> t, challengeStartedAt |-> t,
   lastFaceSeenAt |-> t, hasLastFaceSeen |-> FALSE,
   baselineCaptured |-> FALSE,      \* of the challenge that is active
   blinkWasClosed |-> FALSE, blinkClosedAt |-> t, smileStartedAt |-> t]

\* Mutant: stateEnteredAt holds the end of the delay.
FailWithDeadline(f, t) ==
  [f EXCEPT !.state = "fail", !.requiresVerification = FALSE,
            !.stateEnteredAt = t + failResetDelay, !.challengeSatisfied = FALSE]

Fail(f, t) == [f EXCEPT !.state = "fail", !.requiresVerification = FALSE,
                        !.stateEnteredAt = t, !.challengeSatisfied = FALSE]

Pass(f) == [f EXCEPT !.state = "pass", !.challenge = "none",
                     !.requiresVerification = TRUE, !.challengeSatisfied = TRUE]

\* The attempt since the last StartChallenge or Reset: what was started, when
\* the gesture was last seen and since when it is seen with no return from it
\* between, when it passed, whether a frame failed a passive check, a caller
\* forced the pass, or the face was missing longer than is tolerated.
Never == -1
NoAttempt == [challenge |-> "none", lastAct |-> Never, actSince |-> Never,
              passedAt |-> Never, spoofed |-> FALSE, forced |-> FALSE, lost |-> FALSE]

Init ==
  /\ now = 0
  /\ fsm = Reset(0)
  /\ hist = NoAttempt

-----------------------------------------------------------------------------
(* Calls of the application.                                               *)

StartChallenge(c, t) ==
  /\ now' = t
  /\ fsm' = [Reset(t) EXCEPT !.state = "active", !.challenge = c,
                             !.hasLastFaceSeen = TRUE]
  /\ hist' = [NoAttempt EXCEPT !.challenge = c]

CallReset(t) ==
  /\ now' = t
  /\ fsm' = Reset(t)
  /\ hist' = NoAttempt

\* setLivenessState("LIVENESS_PASS"), from any state.
ForcePass ==
  /\ fsm' = Pass(fsm)
  /\ hist' = [hist EXCEPT !.forced = TRUE, !.lost = FALSE]
  /\ UNCHANGED now

-----------------------------------------------------------------------------
(* Update, for one frame at t.                                             *)

\* Mutant: after a failure the face still counts as detected.
FailedFrameResumes(t) ==
  /\ fsm.state = "fail"
  /\ fsm' = IF t - fsm.stateEnteredAt >= failResetDelay
            THEN [Reset(t) EXCEPT !.state = "detected"] ELSE fsm
  /\ hist' = IF fsm'.state = "detected" THEN NoAttempt ELSE hist

\* A failure is held for failResetDelay, whatever the frame shows.
FailedFrame(t) ==
  /\ fsm.state = "fail"
  /\ fsm' = IF t - fsm.stateEnteredAt >= failResetDelay THEN Reset(t) ELSE fsm
  /\ hist' = IF fsm'.state = "idle" THEN NoAttempt ELSE hist

\* The face was seen recently enough for a dropout to be a brief one.
Brief(t) == fsm.hasLastFaceSeen /\ t - fsm.lastFaceSeenAt <= faceDropoutTolerance

\* The observer's note of a frame without a face that changes nothing else.
Missed(t) ==
  hist' = [hist EXCEPT !.lost = \/ @ \/ fsm.state = "pass"
                                \/ t - fsm.lastFaceSeenAt > faceDropoutTolerance]

\* Mutant: every frame without a face is tolerated during a challenge.
NoFaceAlwaysTolerated(t) ==
  \/ /\ fsm.state \in {"idle", "active"}
     /\ UNCHANGED <<fsm, hist>>
  \/ /\ fsm.state \in {"detected", "pass"}
     /\ fsm' = Reset(t) /\ hist' = NoAttempt

\* Mutant: a pass survives a brief dropout, as a challenge does.
NoFaceSparesPass(t) ==
  \/ /\ fsm.state = "idle"
     /\ UNCHANGED <<fsm, hist>>
  \/ /\ fsm.state \in {"active", "pass"} /\ Brief(t)
     /\ Missed(t) /\ UNCHANGED fsm
  \/ /\ fsm.state = "detected" \/ (fsm.state \in {"active", "pass"} /\ ~Brief(t))
     /\ fsm' = Reset(t) /\ hist' = NoAttempt

\* No face: tolerated for a while during a challenge, otherwise back to idle.
NoFace(t) ==
  \/ /\ fsm.state = "idle"
     /\ UNCHANGED <<fsm, hist>>
  \/ /\ fsm.state = "active" /\ Brief(t)
     /\ Missed(t) /\ UNCHANGED fsm
  \/ /\ fsm.state \in {"detected", "pass"} \/ (fsm.state = "active" /\ ~Brief(t))
     /\ fsm' = Reset(t) /\ hist' = NoAttempt

Seen(t) == [fsm EXCEPT !.lastFaceSeenAt = t, !.hasLastFaceSeen = TRUE]

\* An anti-spoofing check fails: in every state but "fail" itself.
SpoofedFace(t) ==
  /\ fsm.state # "fail"
  /\ fsm' = Fail(Seen(t), t)
  /\ hist' = [hist EXCEPT !.spoofed = TRUE]

\* Nothing is evaluated outside a challenge; idle becomes detected.
FaceWithoutChallenge(t) ==
  /\ fsm.state \in {"idle", "detected", "pass"}
  /\ fsm' = IF fsm.state = "idle"
            THEN [Seen(t) EXCEPT !.state = "detected", !.stateEnteredAt = t]
            ELSE Seen(t)
  /\ UNCHANGED hist

ChallengeTimesOut(t) ==
  /\ fsm.state = "active"
  /\ t - fsm.challengeStartedAt >= challengeTimeout
  /\ fsm' = Fail(Seen(t), t)
  /\ UNCHANGED hist

InTime(t) ==
  /\ fsm.state = "active"
  /\ t - fsm.challengeStartedAt < challengeTimeout

\* The observer's note of an evaluated frame.
Note(s, t) ==
  hist' = [hist EXCEPT
    !.lastAct = IF s = "act" THEN t ELSE @,
    !.actSince = CASE s = (IF fsm.challenge = "blink" THEN "open" ELSE "rest") -> Never
                   [] s = "act" /\ @ = Never -> t
                   [] OTHER -> @,
    !.passedAt = IF fsm'.state = "pass" THEN t ELSE @]

\* The first usable metric becomes the baseline; an unusable one decides
\* nothing.  A yaw is always usable.
Undecided(s, t) ==
  /\ InTime(t)
  /\ s = "void" => fsm.challenge # "turn"
  /\ ~fsm.baselineCaptured \/ s = "void"
  /\ fsm' = [Seen(t) EXCEPT !.baselineCaptured = @ \/ s # "void"]
  /\ UNCHANGED hist

\* A metric on which EvaluateBlink and its siblings decide.
Decides(c, s, t) ==
  /\ fsm.challenge = c /\ InTime(t) /\ fsm.baselineCaptured
  /\ s \in (IF c = "blink" THEN {"rest", "act", "open"} ELSE {"rest", "act"})

\* Mutant: a closure that outlasts the window is not forgotten.
EvaluateBlinkLate(s, t) ==
  /\ Decides("blink", s, t)
  /\ \/ /\ ~fsm.blinkWasClosed /\ s = "act"
        /\ fsm' = [Seen(t) EXCEPT !.blinkWasClosed = TRUE, !.blinkClosedAt = t]
     \/ /\ ~fsm.blinkWasClosed /\ s # "act"
        /\ fsm' = Seen(t)
     \/ /\ fsm.blinkWasClosed
        /\ fsm' = IF s = "open" THEN Pass(Seen(t)) ELSE Seen(t)
  /\ Note(s, t)

\* Eyes close, and open again within the window; a closure that outlasts it is
\* forgotten, and the next frame with closed eyes begins another.
EvaluateBlink(s, t) ==
  /\ Decides("blink", s, t)
  /\ \/ /\ ~fsm.blinkWasClosed /\ s = "act"
        /\ fsm' = [Seen(t) EXCEPT !.blinkWasClosed = TRUE, !.blinkClosedAt = t]
     \/ /\ ~fsm.blinkWasClosed /\ s # "act"
        /\ fsm' = Seen(t)
     \/ /\ fsm.blinkWasClosed /\ t - fsm.blinkClosedAt > blinkWindow
        /\ fsm' = [Seen(t) EXCEPT !.blinkWasClosed = FALSE]
     \/ /\ fsm.blinkWasClosed /\ t - fsm.blinkClosedAt <= blinkWindow
        /\ fsm' = IF s = "open" THEN Pass(Seen(t)) ELSE Seen(t)
  /\ Note(s, t)

\* When the smile of a frame at t began; smileStartedAt = challengeStartedAt
\* stands for a smile that has not begun.
SmileBegan(t) == IF fsm.smileStartedAt = fsm.challengeStartedAt
                 THEN t ELSE fsm.smileStartedAt

\* The smile lasts for smileSustain; a frame without it starts it over.
EvaluateSmile(s, t) ==
  /\ Decides("smile", s, t)
  /\ LET smiling == [Seen(t) EXCEPT !.smileStartedAt = SmileBegan(t)] IN
     \/ s = "act" /\ t - SmileBegan(t) >= smileSustain /\ fsm' = Pass(smiling)
     \/ s = "act" /\ t - SmileBegan(t) < smileSustain /\ fsm' = smiling
     \/ s = "rest" /\ fsm' = [smiling EXCEPT !.smileStartedAt = fsm.challengeStartedAt]
  /\ Note(s, t)

EvaluateTurn(s, t) ==
  /\ Decides("turn", s, t)
  /\ fsm' = IF s = "act" THEN Pass(Seen(t)) ELSE Seen(t)
  /\ Note(s, t)

Update(t) ==
  /\ now' = t
  /\ \/ FailedFrame(t) \/ NoFace(t) \/ SpoofedFace(t)
     \/ FaceWithoutChallenge(t) \/ ChallengeTimesOut(t)
     \/ \E s \in Signs : \/ Undecided(s, t) \/ EvaluateBlink(s, t)
                         \/ EvaluateSmile(s, t) \/ EvaluateTurn(s, t)

-----------------------------------------------------------------------------
Next ==
  \/ \E t \in now .. MaxTime :
       \/ \E c \in Challenges \ {"none"} : StartChallenge(c, t)
       \/ CallReset(t)
       \/ Update(t)
  \/ ForcePass

Spec == Init /\ [][Next]_vars

-----------------------------------------------------------------------------
Members(n) ==
  [state : States, challenge : Challenges,
   requiresVerification : BOOLEAN, challengeSatisfied : BOOLEAN,
   stateEnteredAt : 0 .. n, challengeStartedAt : 0 .. n,
   lastFaceSeenAt : 0 .. n, hasLastFaceSeen : BOOLEAN,
   baselineCaptured : BOOLEAN, blinkWasClosed : BOOLEAN,
   blinkClosedAt : 0 .. n, smileStartedAt : 0 .. n]

Observed(n) ==
  [challenge : Challenges, lastAct : 0 .. n \cup {Never},
   actSince : 0 .. n \cup {Never}, passedAt : 0 .. n \cup {Never},
   spoofed : BOOLEAN, forced : BOOLEAN, lost : BOOLEAN]

\* No time lies ahead of the clock: every difference Update takes is of an
\* earlier time from a later one.
TypeOK ==
  /\ now \in Time
  /\ fsm \in Members(now)
  /\ hist \in Observed(now)

\* Verification is required (and the face embedded) only after a pass that a
\* caller forced or the attempt earned: no frame of the attempt failed a
\* passive check, and before the challenge timed out the eyes were closed at
\* most blinkWindow before they opened, or the mouth was seen to smile at
\* every frame of smileSustain, or the head was turned
\* (LivenessFSM.cpp:25, :203, :268, :300; Reset and StartChallenge forget
\* whatever an earlier attempt saw).  And the face is still the one that was
\* challenged: since the challenge began no frame came without it later than
\* faceDropoutTolerance after one with it, and none at all since the pass
\* (LivenessFSM.cpp:35-45).  A turn has the challenge's time and no window of its
\* own: the 2 s of cpp/landmarks/README.md:93 are turnWindow (LivenessFSM.h:45),
\* which no code reads.
PassIsEarned ==
  fsm.requiresVerification =>
    /\ fsm.state = "pass"
    /\ ~hist.lost
    /\ \/ hist.forced
       \/ /\ ~hist.spoofed
          /\ hist.passedAt - fsm.challengeStartedAt \in 0 .. challengeTimeout - 1
          /\ \/ /\ hist.challenge = "blink" /\ hist.lastAct # Never
                /\ hist.passedAt - hist.lastAct <= blinkWindow
             \/ /\ hist.challenge = "smile" /\ hist.actSince # Never
                /\ hist.passedAt - hist.actSince >= smileSustain
             \/ hist.challenge = "turn" /\ hist.lastAct = hist.passedAt

\* A challenge outlives challengeTimeout only for as long as the face may be
\* missing: frames without a face return before the timeout is looked at
\* (LivenessFSM.cpp:35-40, :69).
ChallengeEnds ==
  fsm.state = "active" =>
    now - fsm.challengeStartedAt < challengeTimeout + faceDropoutTolerance

\* What the frame pipeline relies on: whatever the times and the metrics, the
\* states follow one another as LivenessGate says; in particular a frame makes a
\* pass only of a challenge and a failure ends only in idle
\* (LivenessFSM.cpp:20-88).
Gate == INSTANCE LivenessGate WITH gate <- fsm.state
ImplementsGate == Gate!Spec
=============================================================================
