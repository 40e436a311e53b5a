-------------------------- MODULE LivenessFSMProofs --------------------------
(***************************************************************************)
(* For all thresholds and any length of time: the types, what a pass has   *)
(* behind it, and when a challenge is over.                                *)
(*                                                                         *)
(* The properties speak of a pass; what makes them inductive is what holds *)
(* while the challenge is active.  ActiveInv ties the times Update decides *)
(* on to what an observer of the frames has seen.                          *)
(***************************************************************************)
EXTENDS LivenessFSM, TLAPS

\* While a challenge is active its face was seen in time and recently, a
\* closure counted from blinkClosedAt was seen no earlier than that, and a smile
\* counted from smileStartedAt has been seen since then at the latest.
ActiveInv ==
  fsm.state = "active" =>
    /\ fsm.hasLastFaceSeen
    /\ fsm.challengeStartedAt <= fsm.lastFaceSeenAt
    /\ fsm.lastFaceSeenAt - fsm.challengeStartedAt < challengeTimeout
    /\ now - fsm.lastFaceSeenAt <= faceDropoutTolerance
    /\ ~hist.lost /\ ~hist.spoofed
    /\ hist.challenge = fsm.challenge
    /\ fsm.challenge = "blink" /\ fsm.blinkWasClosed
         => hist.lastAct # Never /\ fsm.blinkClosedAt <= hist.lastAct
    /\ fsm.challenge = "smile" /\ fsm.smileStartedAt # fsm.challengeStartedAt
         => hist.actSince # Never /\ hist.actSince <= fsm.smileStartedAt

Inv == TypeOK /\ ActiveInv /\ PassIsEarned

USE DEF Time, States, Challenges, Signs, Never

-----------------------------------------------------------------------------
(* What the record operators return.                                       *)

LEMMA LaterTypes ==
  ASSUME NEW n \in Nat, NEW m \in Nat, n <= m
  PROVE  Members(n) \subseteq Members(m) /\ Observed(n) \subseteq Observed(m)
<1>1. 0 .. n \subseteq 0 .. m
  OBVIOUS
<1>2. Members(n) \subseteq Members(m)
  BY <1>1 DEF Members
<1>3. Observed(n) \subseteq Observed(m)
  BY <1>1 DEF Observed
<1> QED BY <1>2, <1>3

LEMMA FieldTypes ==
  ASSUME NEW n \in Nat, NEW f \in Members(n), NEW h \in Observed(n)
  PROVE  /\ f.challengeStartedAt \in 0 .. n /\ f.lastFaceSeenAt \in 0 .. n
         /\ f.blinkClosedAt \in 0 .. n /\ f.smileStartedAt \in 0 .. n
         /\ f.challenge \in Challenges
         /\ h.lastAct \in 0 .. n \cup {-1} /\ h.actSince \in 0 .. n \cup {-1}
         /\ h.passedAt \in 0 .. n \cup {-1}
  BY DEF Members, Observed

LEMMA ResetFields ==
  ASSUME NEW n \in Nat, NEW t \in 0 .. n
  PROVE  /\ Reset(t) \in Members(n)
         /\ Reset(t).state = "idle" /\ Reset(t).requiresVerification = FALSE
         /\ Reset(t).challengeStartedAt = t /\ Reset(t).lastFaceSeenAt = t
         /\ Reset(t).smileStartedAt = t /\ Reset(t).blinkWasClosed = FALSE
  BY DEF Reset, Members

LEMMA NoAttemptFields ==
  ASSUME NEW n \in Nat, NEW c \in Challenges
  PROVE  /\ NoAttempt \in Observed(n)
         /\ [NoAttempt EXCEPT !.challenge = c] \in Observed(n)
         /\ [NoAttempt EXCEPT !.challenge = c].challenge = c
         /\ [NoAttempt EXCEPT !.challenge = c].lost = FALSE
         /\ [NoAttempt EXCEPT !.challenge = c].spoofed = FALSE
  BY DEF NoAttempt, Observed

\* g is f but for the fields that belong to one gesture.
SameAttempt(g, f) ==
  /\ g.state = f.state /\ g.challenge = f.challenge
  /\ g.requiresVerification = f.requiresVerification
  /\ g.challengeStartedAt = f.challengeStartedAt
  /\ g.lastFaceSeenAt = f.lastFaceSeenAt /\ g.hasLastFaceSeen = f.hasLastFaceSeen

LEMMA SeenFields ==
  ASSUME NEW n \in Nat, NEW t \in 0 .. n, fsm \in Members(n)
  PROVE  /\ Seen(t) \in Members(n)
         /\ Seen(t).state = fsm.state /\ Seen(t).challenge = fsm.challenge
         /\ Seen(t).requiresVerification = fsm.requiresVerification
         /\ Seen(t).challengeStartedAt = fsm.challengeStartedAt
         /\ Seen(t).lastFaceSeenAt = t /\ Seen(t).hasLastFaceSeen = TRUE
         /\ Seen(t).blinkWasClosed = fsm.blinkWasClosed
         /\ Seen(t).blinkClosedAt = fsm.blinkClosedAt
         /\ Seen(t).smileStartedAt = fsm.smileStartedAt
  BY DEF Seen, Members

LEMMA FailFields ==
  ASSUME NEW n \in Nat, NEW t \in 0 .. n, NEW f \in Members(n)
  PROVE  /\ Fail(f, t) \in Members(n)
         /\ Fail(f, t).state = "fail" /\ Fail(f, t).requiresVerification = FALSE
  BY DEF Fail, Members

LEMMA PassFields ==
  ASSUME NEW n \in Nat, NEW f \in Members(n)
  PROVE  /\ Pass(f) \in Members(n)
         /\ Pass(f).state = "pass"
         /\ Pass(f).challengeStartedAt = f.challengeStartedAt
  BY DEF Pass, Members

LEMMA ClosureFields ==
  ASSUME NEW n \in Nat, NEW t \in 0 .. n, NEW f \in Members(n)
  PROVE  LET g == [f EXCEPT !.blinkWasClosed = TRUE, !.blinkClosedAt = t] IN
         g \in Members(n) /\ SameAttempt(g, f) /\ g.blinkClosedAt = t
  BY DEF Members, SameAttempt

LEMMA ForgetFields ==
  ASSUME NEW n \in Nat, NEW f \in Members(n)
  PROVE  LET g == [f EXCEPT !.blinkWasClosed = FALSE] IN
         g \in Members(n) /\ SameAttempt(g, f) /\ g.blinkWasClosed = FALSE
  BY DEF Members, SameAttempt

LEMMA SmileFields ==
  ASSUME NEW n \in Nat, NEW t \in 0 .. n, NEW f \in Members(n)
  PROVE  LET g == [f EXCEPT !.smileStartedAt = t] IN
         g \in Members(n) /\ SameAttempt(g, f) /\ g.smileStartedAt = t
  BY DEF Members, SameAttempt

LEMMA BaselineFields ==
  ASSUME NEW n \in Nat, NEW b \in BOOLEAN, NEW f \in Members(n)
  PROVE  LET g == [f EXCEPT !.baselineCaptured = b] IN
         /\ g \in Members(n) /\ SameAttempt(g, f)
         /\ g.blinkWasClosed = f.blinkWasClosed /\ g.blinkClosedAt = f.blinkClosedAt
         /\ g.smileStartedAt = f.smileStartedAt
  BY DEF Members, SameAttempt

-----------------------------------------------------------------------------
(* Types and clock, in every frame or call at a later t.                   *)

LEMMA AtLater ==
  ASSUME TypeOK, NEW t \in now .. MaxTime
  PROVE  /\ now \in Nat /\ t \in Nat /\ t \in 0 .. t /\ now <= t /\ t \in Time
         /\ fsm \in Members(t) /\ hist \in Observed(t)
<1>1. now \in Nat /\ t \in Nat /\ t \in 0 .. t /\ now <= t /\ t \in Time
  BY ThresholdsAssumption DEF TypeOK
<1> QED BY <1>1, LaterTypes DEF TypeOK

\* A state without a challenge under way that requires no verification is good.
LEMMA QuietInv ==
  ASSUME TypeOK', fsm'.state # "active", fsm'.requiresVerification = FALSE
  PROVE  Inv'
  BY DEF Inv, ActiveInv, PassIsEarned

LEMMA InitInv == Init => Inv
<1> SUFFICES ASSUME Init PROVE Inv
  OBVIOUS
<1>1. 0 \in Nat /\ 0 \in 0 .. 0 /\ 0 \in Time
  BY ThresholdsAssumption
<1>2. TypeOK
  BY <1>1, ResetFields, NoAttemptFields DEF Init, TypeOK
<1> QED
  BY <1>1, <1>2, ResetFields DEF Init, Inv, ActiveInv, PassIsEarned

\* Going back to idle, from anywhere.
LEMMA ResetInv ==
  ASSUME TypeOK, NEW t \in now .. MaxTime, now' = t, fsm' = Reset(t), hist' = NoAttempt
  PROVE  Inv'
<1>1. TypeOK'
  BY AtLater, ResetFields, NoAttemptFields DEF TypeOK
<1> QED BY <1>1, QuietInv, AtLater, ResetFields

LEMMA FailInv ==
  ASSUME TypeOK, NEW t \in now .. MaxTime, now' = t, fsm' = Fail(Seen(t), t),
         hist' = hist \/ hist' = [hist EXCEPT !.spoofed = TRUE]
  PROVE  Inv'
<1>1. hist' \in Observed(t)
  <2>1. hist \in Observed(t)
    BY AtLater
  <2> QED BY <2>1 DEF Observed
<1>2. fsm' \in Members(t) /\ fsm'.state = "fail" /\ fsm'.requiresVerification = FALSE
  <2>1. t \in Nat /\ t \in 0 .. t /\ fsm \in Members(t)
    BY AtLater
  <2>2. Seen(t) \in Members(t)
    BY <2>1, SeenFields
  <2> QED BY <2>1, <2>2, FailFields
<1>3. TypeOK'
  BY <1>1, <1>2, AtLater DEF TypeOK
<1> QED BY <1>2, <1>3, QuietInv

\* A frame that changes nothing outside a challenge.
LEMMA StutterInv ==
  ASSUME Inv, NEW t \in now .. MaxTime, now' = t, UNCHANGED <<fsm, hist>>,
         fsm.state # "active"
  PROVE  Inv'
<1>1. TypeOK'
  BY AtLater DEF TypeOK, Inv
<1> QED BY <1>1 DEF Inv, ActiveInv, PassIsEarned

LEMMA FailedFrameInv ==
  ASSUME Inv, NEW t \in now .. MaxTime, now' = t, FailedFrame(t)
  PROVE  Inv'
<1>1. CASE fsm' = Reset(t)
  <2>1. fsm'.state = "idle"
    BY <1>1, AtLater, ResetFields DEF Inv
  <2> QED BY <1>1, <2>1, ResetInv DEF FailedFrame, Inv
<1>2. CASE fsm' = fsm
  BY <1>2, StutterInv DEF FailedFrame
<1> QED BY <1>1, <1>2 DEF FailedFrame

LEMMA NoFaceInv ==
  ASSUME Inv, NEW t \in now .. MaxTime, now' = t, NoFace(t)
  PROVE  Inv'
<1>1. CASE fsm.state = "idle" /\ UNCHANGED <<fsm, hist>>
  BY <1>1, StutterInv
<1>2. CASE fsm.state = "active" /\ Brief(t) /\ Missed(t) /\ UNCHANGED fsm
  <2>1. now' = t /\ fsm' = fsm /\ TypeOK /\ t - fsm.lastFaceSeenAt <= faceDropoutTolerance
    BY <1>2 DEF Brief, Inv
  <2>2. hist' = hist
    <3>1. hist.lost = FALSE /\ ~(t - fsm.lastFaceSeenAt > faceDropoutTolerance)
      <4>1. hist.lost = FALSE
        BY <1>2 DEF Inv, ActiveInv, TypeOK, Observed
      <4>2. fsm.lastFaceSeenAt \in Int /\ t \in Int
        BY <2>1, AtLater, FieldTypes
      <4> QED BY <2>1, <4>1, <4>2, ThresholdsAssumption
    <3>2. hist' = [hist EXCEPT !.lost = FALSE]
      BY <1>2, <3>1 DEF Missed
    <3> QED BY <3>1, <3>2, <2>1 DEF TypeOK, Observed
  <2>3. TypeOK'
    BY <2>1, <2>2, AtLater DEF TypeOK
  <2>4. ActiveInv'
    BY <2>1, <2>2 DEF Inv, ActiveInv
  <2> QED
    BY <2>1, <2>2, <2>3, <2>4 DEF Inv, PassIsEarned
<1>3. CASE fsm' = Reset(t) /\ hist' = NoAttempt
  BY <1>3, ResetInv DEF Inv
<1> QED BY <1>1, <1>2, <1>3 DEF NoFace

LEMMA StartChallengeInv ==
  ASSUME Inv, NEW t \in now .. MaxTime, NEW c \in Challenges \ {"none"},
         StartChallenge(c, t)
  PROVE  Inv'
<1> DEFINE f == Reset(t)
           g == [f EXCEPT !.state = "active", !.challenge = c, !.hasLastFaceSeen = TRUE]
<1>1. f \in Members(t) /\ f.requiresVerification = FALSE /\ f.challengeStartedAt = t
      /\ f.lastFaceSeenAt = t /\ f.smileStartedAt = t /\ f.blinkWasClosed = FALSE
  BY AtLater, ResetFields DEF Inv
<1>2. fsm' = g /\ now' = t /\ hist' = [NoAttempt EXCEPT !.challenge = c]
  BY DEF StartChallenge
<1> HIDE DEF f
<1>3. /\ g \in Members(t)
      /\ g.challenge = c /\ g.hasLastFaceSeen = TRUE
      /\ g.requiresVerification = FALSE /\ g.challengeStartedAt = t
      /\ g.lastFaceSeenAt = t /\ g.smileStartedAt = t /\ g.blinkWasClosed = FALSE
  BY <1>1 DEF Members
<1> HIDE DEF g
<1>4. t \in Nat /\ t \in Time
  BY AtLater DEF Inv
<1>5. TypeOK'
  BY <1>2, <1>3, <1>4, NoAttemptFields DEF TypeOK
<1>6. hist'.challenge = c /\ hist'.lost = FALSE /\ hist'.spoofed = FALSE
  BY <1>2, <1>4, NoAttemptFields
<1> QED
  BY <1>2, <1>3, <1>4, <1>5, <1>6, ThresholdsAssumption DEF Inv, ActiveInv, PassIsEarned

LEMMA ForcePassInv == ASSUME Inv, ForcePass PROVE Inv'
<1>1. fsm \in Members(now) /\ hist \in Observed(now) /\ now \in Nat /\ now \in Time
  BY ThresholdsAssumption DEF Inv, TypeOK
<1>2. now' = now /\ fsm' = Pass(fsm)
  BY DEF ForcePass
<1>3. hist' \in Observed(now) /\ hist'.forced = TRUE /\ hist'.lost = FALSE
  BY <1>1 DEF ForcePass, Observed
<1>4. fsm' \in Members(now) /\ fsm'.state = "pass"
  BY <1>1, <1>2, PassFields
<1>5. TypeOK'
  BY <1>1, <1>2, <1>3, <1>4 DEF TypeOK
<1> QED BY <1>3, <1>4, <1>5 DEF Inv, ActiveInv, PassIsEarned

LEMMA FaceWithoutChallengeInv ==
  ASSUME Inv, NEW t \in now .. MaxTime, now' = t, FaceWithoutChallenge(t)
  PROVE  Inv'
<1>1. t \in Nat /\ t \in 0 .. t /\ t \in Time /\ fsm \in Members(t)
      /\ hist \in Observed(t) /\ hist' = hist
  BY AtLater DEF Inv, FaceWithoutChallenge
<1>2. CASE fsm.state = "idle"
  <2>1. fsm' = [Seen(t) EXCEPT !.state = "detected", !.stateEnteredAt = t]
    BY <1>2 DEF FaceWithoutChallenge
  <2>2. Seen(t) \in Members(t) /\ Seen(t).requiresVerification = FALSE
    <3>1. fsm.requiresVerification = FALSE
      BY <1>1, <1>2 DEF Inv, PassIsEarned, Members
    <3> QED BY <1>1, <3>1, SeenFields
  <2>3. fsm' \in Members(t) /\ fsm'.state = "detected" /\ fsm'.requiresVerification = FALSE
    BY <1>1, <2>1, <2>2 DEF Members
  <2>4. TypeOK'
    BY <1>1, <2>3 DEF TypeOK
  <2> QED BY <2>3, <2>4, QuietInv
<1>3. CASE fsm.state # "idle"
  <2>1. fsm' = Seen(t) /\ fsm.state # "active"
    BY <1>3 DEF FaceWithoutChallenge
  <2>2. TypeOK'
    BY <1>1, <2>1, SeenFields DEF TypeOK
  <2>3. /\ fsm'.state = fsm.state
        /\ fsm'.requiresVerification = fsm.requiresVerification
        /\ fsm'.challengeStartedAt = fsm.challengeStartedAt
    BY <1>1, <2>1, SeenFields
  <2> QED BY <1>1, <2>1, <2>2, <2>3 DEF Inv, ActiveInv, PassIsEarned
<1> QED BY <1>2, <1>3

-----------------------------------------------------------------------------
(* Frames of a face during a challenge, in time.                           *)

\* Inside a challenge no verification is required and the attempt is sound.
LEMMA DuringChallenge ==
  ASSUME Inv, NEW t \in now .. MaxTime, now' = t, InTime(t)
  PROVE  /\ t \in Nat /\ t \in 0 .. t /\ t \in Time
         /\ fsm \in Members(t) /\ hist \in Observed(t)
         /\ fsm.requiresVerification = FALSE
         /\ hist.challenge = fsm.challenge /\ hist.lost = FALSE /\ hist.spoofed = FALSE
         /\ fsm.challengeStartedAt \in 0 .. t
         /\ t - fsm.challengeStartedAt < challengeTimeout
<1>1. /\ t \in Nat /\ t \in 0 .. t /\ t \in Time
      /\ fsm \in Members(t) /\ hist \in Observed(t)
  BY AtLater DEF Inv
<1>2. fsm.requiresVerification = FALSE
  BY <1>1 DEF InTime, Inv, PassIsEarned, Members
<1>3. hist.challenge = fsm.challenge /\ hist.lost = FALSE /\ hist.spoofed = FALSE
  BY <1>1 DEF InTime, Inv, ActiveInv, Observed
<1>4. fsm.challengeStartedAt \in 0 .. t
  BY <1>1, FieldTypes
<1> QED BY <1>1, <1>2, <1>3, <1>4 DEF InTime

\* The challenge goes on: what is left to show concerns its gesture only.
LEMMA GoesOnInv ==
  ASSUME Inv, NEW t \in now .. MaxTime, now' = t, InTime(t),
         fsm' \in Members(t), SameAttempt(fsm', Seen(t)), hist' \in Observed(t),
         hist'.challenge = hist.challenge, hist'.lost = hist.lost,
         hist'.spoofed = hist.spoofed,
         fsm.challenge = "blink" /\ fsm'.blinkWasClosed
           => hist'.lastAct # -1 /\ fsm'.blinkClosedAt <= hist'.lastAct,
         fsm.challenge = "smile" /\ fsm'.smileStartedAt # fsm.challengeStartedAt
           => hist'.actSince # -1 /\ hist'.actSince <= fsm'.smileStartedAt
  PROVE  Inv'
<1>1. TypeOK'
  BY DuringChallenge DEF TypeOK
<1>2. /\ fsm'.challenge = fsm.challenge /\ fsm'.requiresVerification = FALSE
      /\ fsm'.challengeStartedAt = fsm.challengeStartedAt
      /\ fsm'.lastFaceSeenAt = t /\ fsm'.hasLastFaceSeen = TRUE
  BY DuringChallenge, SeenFields DEF SameAttempt
<1>3. ActiveInv'
  <2>1. hist'.lost = FALSE /\ hist'.spoofed = FALSE /\ hist'.challenge = fsm'.challenge
    BY <1>2, DuringChallenge
  <2>2. /\ fsm'.challengeStartedAt <= fsm'.lastFaceSeenAt
        /\ fsm'.lastFaceSeenAt - fsm'.challengeStartedAt < challengeTimeout
        /\ now' - fsm'.lastFaceSeenAt <= faceDropoutTolerance
    <3>1. /\ t \in Nat /\ fsm.challengeStartedAt \in 0 .. t
          /\ t - fsm.challengeStartedAt < challengeTimeout
      BY DuringChallenge
    <3> QED BY <1>2, <3>1, ThresholdsAssumption
  <2> QED BY <1>2, <2>1, <2>2 DEF ActiveInv
<1> QED BY <1>1, <1>2, <1>3 DEF Inv, PassIsEarned

\* The challenge passes: what is left to show is the gesture.
LEMMA PassesInv ==
  ASSUME Inv, NEW t \in now .. MaxTime, now' = t, InTime(t),
         NEW f \in Members(t), f.challengeStartedAt = fsm.challengeStartedAt,
         fsm' = Pass(f), hist' \in Observed(t),
         hist'.challenge = hist.challenge, hist'.lost = hist.lost,
         hist'.spoofed = hist.spoofed, hist'.passedAt = t,
         \/ fsm.challenge = "blink" /\ hist'.lastAct # -1 /\ t - hist'.lastAct <= blinkWindow
         \/ fsm.challenge = "smile" /\ hist'.actSince # -1 /\ t - hist'.actSince >= smileSustain
         \/ fsm.challenge = "turn" /\ hist'.lastAct = t
  PROVE  Inv'
<1>1. fsm' \in Members(t) /\ fsm'.state = "pass"
      /\ fsm'.challengeStartedAt = fsm.challengeStartedAt
  BY DuringChallenge, PassFields
<1>2. TypeOK'
  BY <1>1, DuringChallenge DEF TypeOK
<1>3. t - fsm.challengeStartedAt \in 0 .. challengeTimeout - 1
  <2>1. /\ t \in Nat /\ fsm.challengeStartedAt \in 0 .. t
        /\ t - fsm.challengeStartedAt < challengeTimeout
    BY DuringChallenge
  <2>2. challengeTimeout \in Nat
    BY ThresholdsAssumption
  <2> QED BY <2>1, <2>2
<1>4. PassIsEarned'
  BY <1>1, <1>3, DuringChallenge DEF PassIsEarned
<1> QED BY <1>1, <1>2, <1>4, DuringChallenge DEF Inv, ActiveInv

LEMMA UndecidedInv ==
  ASSUME Inv, NEW t \in now .. MaxTime, NEW s \in Signs, now' = t, Undecided(s, t)
  PROVE  Inv'
<1>1. InTime(t) /\ hist' = hist
  BY DEF Undecided
<1>2. Seen(t) \in Members(t) /\ Seen(t).blinkWasClosed = fsm.blinkWasClosed
      /\ Seen(t).blinkClosedAt = fsm.blinkClosedAt
      /\ Seen(t).smileStartedAt = fsm.smileStartedAt
  BY <1>1, DuringChallenge, SeenFields
<1>3. PICK b \in BOOLEAN : fsm' = [Seen(t) EXCEPT !.baselineCaptured = b]
  <2>1. fsm' = [Seen(t) EXCEPT !.baselineCaptured =
                  Seen(t).baselineCaptured \/ s # "void"]
    BY DEF Undecided
  <2> QED BY <2>1
<1>4. /\ fsm' \in Members(t) /\ SameAttempt(fsm', Seen(t))
      /\ fsm'.blinkWasClosed = fsm.blinkWasClosed
      /\ fsm'.blinkClosedAt = fsm.blinkClosedAt
      /\ fsm'.smileStartedAt = fsm.smileStartedAt
  <2>1. t \in Nat
    BY <1>1, DuringChallenge
  <2>2. /\ fsm' \in Members(t) /\ SameAttempt(fsm', Seen(t))
        /\ fsm'.blinkWasClosed = Seen(t).blinkWasClosed
        /\ fsm'.blinkClosedAt = Seen(t).blinkClosedAt
        /\ fsm'.smileStartedAt = Seen(t).smileStartedAt
    BY <1>2, <1>3, <2>1, BaselineFields
  <2> QED BY <1>2, <2>2
<1>5. /\ fsm.challenge = "blink" /\ fsm.blinkWasClosed
           => hist.lastAct # -1 /\ fsm.blinkClosedAt <= hist.lastAct
      /\ fsm.challenge = "smile" /\ fsm.smileStartedAt # fsm.challengeStartedAt
           => hist.actSince # -1 /\ hist.actSince <= fsm.smileStartedAt
  BY <1>1 DEF InTime, Inv, ActiveInv
<1> QED BY <1>1, <1>4, <1>5, GoesOnInv, DuringChallenge

\* The history an evaluated frame leaves.
LEMMA NoteFields ==
  ASSUME NEW t \in Nat, NEW s \in Signs, hist \in Observed(t), Note(s, t)
  PROVE  /\ hist' \in Observed(t)
         /\ hist'.challenge = hist.challenge /\ hist'.spoofed = hist.spoofed
         /\ hist'.lost = hist.lost
         /\ s = "act" => hist'.lastAct = t
         /\ s # "act" => hist'.lastAct = hist.lastAct
         /\ fsm'.state = "pass" => hist'.passedAt = t
         /\ s = "act" /\ fsm.challenge # "blink"
              => hist'.actSince = IF hist.actSince = -1 THEN t ELSE hist.actSince
<1> DEFINE since == CASE s = (IF fsm.challenge = "blink" THEN "open" ELSE "rest") -> -1
                     [] s = "act" /\ hist.actSince = -1 -> t
                     [] OTHER -> hist.actSince
           act == IF s = "act" THEN t ELSE hist.lastAct
           at == IF fsm'.state = "pass" THEN t ELSE hist.passedAt
           H == 0 .. t \cup {-1}
<1>1. hist.lastAct \in H /\ hist.actSince \in H /\ hist.passedAt \in H /\ t \in H
  BY DEF Observed
<1>2. hist' = [hist EXCEPT !.lastAct = act, !.actSince = since, !.passedAt = at]
  BY DEF Note
<1>3. since \in H
  <2>1. CASE s = (IF fsm.challenge = "blink" THEN "open" ELSE "rest")
    BY <2>1
  <2>2. CASE s # (IF fsm.challenge = "blink" THEN "open" ELSE "rest")
    BY <1>1, <2>2
  <2> QED BY <2>1, <2>2
<1>4. act \in H /\ at \in H
  BY <1>1
<1>5. s = "act" /\ fsm.challenge # "blink"
        => since = IF hist.actSince = -1 THEN t ELSE hist.actSince
  OBVIOUS
<1>6. /\ s = "act" => act = t
      /\ s # "act" => act = hist.lastAct
      /\ fsm'.state = "pass" => at = t
  OBVIOUS
<1> HIDE DEF since, act, at
<1>7. hist' \in Observed(t)
  BY <1>2, <1>3, <1>4 DEF Observed
<1>8. /\ hist'.challenge = hist.challenge /\ hist'.spoofed = hist.spoofed
      /\ hist'.lost = hist.lost
      /\ hist'.lastAct = act /\ hist'.actSince = since /\ hist'.passedAt = at
  BY <1>2 DEF Observed
<1> QED BY <1>5, <1>6, <1>7, <1>8

LEMMA EvaluateBlinkInv ==
  ASSUME Inv, NEW t \in now .. MaxTime, NEW s \in Signs, now' = t, EvaluateBlink(s, t)
  PROVE  Inv'
<1>1. InTime(t) /\ fsm.challenge = "blink" /\ Note(s, t)
  BY DEF EvaluateBlink, Decides
<1>2. t \in Nat /\ t \in 0 .. t /\ fsm \in Members(t) /\ hist \in Observed(t)
  BY <1>1, DuringChallenge
<1>3. /\ hist' \in Observed(t)
      /\ hist'.challenge = hist.challenge /\ hist'.spoofed = hist.spoofed
      /\ hist'.lost = hist.lost
      /\ s = "act" => hist'.lastAct = t
      /\ s # "act" => hist'.lastAct = hist.lastAct
      /\ fsm'.state = "pass" => hist'.passedAt = t
  BY <1>1, <1>2, NoteFields
<1>4. /\ Seen(t) \in Members(t) /\ Seen(t).blinkWasClosed = fsm.blinkWasClosed
      /\ Seen(t).blinkClosedAt = fsm.blinkClosedAt
      /\ Seen(t).challengeStartedAt = fsm.challengeStartedAt
      /\ fsm.blinkClosedAt \in 0 .. t
      /\ hist.lastAct \in 0 .. t \cup {-1} /\ hist'.lastAct \in 0 .. t \cup {-1}
  BY <1>2, <1>3, SeenFields, FieldTypes
<1>5. fsm.blinkWasClosed => hist.lastAct # -1 /\ fsm.blinkClosedAt <= hist.lastAct
  BY <1>1 DEF InTime, Inv, ActiveInv
<1>6. CASE fsm' = [Seen(t) EXCEPT !.blinkWasClosed = TRUE, !.blinkClosedAt = t] /\ s = "act"
  <2>1. fsm' \in Members(t) /\ SameAttempt(fsm', Seen(t)) /\ fsm'.blinkClosedAt = t
    BY <1>2, <1>4, <1>6, ClosureFields
  <2> QED BY <1>1, <1>2, <1>3, <1>6, <2>1, GoesOnInv
<1>7. CASE fsm' = [Seen(t) EXCEPT !.blinkWasClosed = FALSE]
  <2>1. fsm' \in Members(t) /\ SameAttempt(fsm', Seen(t)) /\ fsm'.blinkWasClosed = FALSE
    BY <1>2, <1>4, <1>7, ForgetFields
  <2> QED BY <1>1, <1>3, <2>1, GoesOnInv
<1>8. CASE fsm' = Seen(t)
  <2>1. fsm'.blinkWasClosed => hist'.lastAct # -1 /\ fsm'.blinkClosedAt <= hist'.lastAct
    BY <1>2, <1>3, <1>4, <1>5, <1>8
  <2> QED BY <1>1, <1>3, <1>4, <1>8, <2>1, GoesOnInv DEF SameAttempt
<1>9. CASE /\ fsm.blinkWasClosed /\ t - fsm.blinkClosedAt <= blinkWindow
           /\ s = "open" /\ fsm' = Pass(Seen(t))
  <2>1. hist'.lastAct # -1 /\ t - hist'.lastAct <= blinkWindow
    BY <1>2, <1>3, <1>4, <1>5, <1>9, ThresholdsAssumption
  <2>2. fsm'.state = "pass"
    BY <1>2, <1>4, <1>9, PassFields
  <2> QED BY <1>1, <1>3, <1>4, <1>9, <2>1, <2>2, PassesInv
<1> QED BY <1>6, <1>7, <1>8, <1>9 DEF EvaluateBlink

LEMMA EvaluateSmileInv ==
  ASSUME Inv, NEW t \in now .. MaxTime, NEW s \in Signs, now' = t, EvaluateSmile(s, t)
  PROVE  Inv'
<1> DEFINE began == SmileBegan(t)
           smiling == [Seen(t) EXCEPT !.smileStartedAt = began]
<1>1. InTime(t) /\ fsm.challenge = "smile" /\ Note(s, t)
  BY DEF EvaluateSmile, Decides
<1>2. t \in Nat /\ t \in 0 .. t /\ fsm \in Members(t) /\ hist \in Observed(t)
      /\ fsm.challengeStartedAt \in 0 .. t
  BY <1>1, DuringChallenge
<1>3. /\ hist' \in Observed(t)
      /\ hist'.challenge = hist.challenge /\ hist'.spoofed = hist.spoofed
      /\ hist'.lost = hist.lost
      /\ fsm'.state = "pass" => hist'.passedAt = t
      /\ s = "act" => hist'.actSince = IF hist.actSince = -1 THEN t ELSE hist.actSince
  BY <1>1, <1>2, NoteFields
<1>4. /\ Seen(t) \in Members(t) /\ Seen(t).challengeStartedAt = fsm.challengeStartedAt
      /\ fsm.smileStartedAt \in 0 .. t /\ hist.actSince \in 0 .. t \cup {-1}
  BY <1>2, SeenFields, FieldTypes
<1>5. fsm.smileStartedAt # fsm.challengeStartedAt
        => hist.actSince # -1 /\ hist.actSince <= fsm.smileStartedAt
  BY <1>1 DEF InTime, Inv, ActiveInv
<1>6. began \in 0 .. t /\ (s = "act" => hist'.actSince # -1 /\ hist'.actSince <= began)
  BY <1>2, <1>3, <1>4, <1>5 DEF SmileBegan
<1> HIDE DEF began
<1>7. /\ smiling \in Members(t) /\ SameAttempt(smiling, Seen(t))
      /\ smiling.smileStartedAt = began
      /\ smiling.challengeStartedAt = fsm.challengeStartedAt
  <2>1. smiling \in Members(t) /\ SameAttempt(smiling, Seen(t))
        /\ smiling.smileStartedAt = began
    BY <1>2, <1>4, <1>6, SmileFields
  <2> QED BY <1>4, <2>1 DEF SameAttempt
<1> HIDE DEF smiling
<1>8. CASE s = "act" /\ t - began >= smileSustain /\ fsm' = Pass(smiling)
  <2>1. hist'.actSince # -1 /\ t - hist'.actSince >= smileSustain
    <3>1. hist'.actSince \in 0 .. t
      BY <1>2, <1>3, <1>4, <1>8
    <3> QED BY <1>2, <1>6, <1>8, <3>1, ThresholdsAssumption
  <2>2. fsm'.state = "pass"
    BY <1>2, <1>7, <1>8, PassFields
  <2> QED BY <1>1, <1>3, <1>7, <1>8, <2>1, <2>2, PassesInv
<1>9. CASE s = "act" /\ fsm' = smiling
  BY <1>1, <1>3, <1>6, <1>7, <1>9, GoesOnInv
<1>10. CASE s = "rest" /\ fsm' = [smiling EXCEPT !.smileStartedAt = fsm.challengeStartedAt]
  <2>1. fsm' \in Members(t) /\ SameAttempt(fsm', smiling)
        /\ fsm'.smileStartedAt = fsm.challengeStartedAt
    BY <1>2, <1>7, <1>10, SmileFields
  <2>2. SameAttempt(fsm', Seen(t))
    BY <1>7, <2>1 DEF SameAttempt
  <2> QED BY <1>1, <1>3, <2>1, <2>2, GoesOnInv
<1> QED BY <1>8, <1>9, <1>10 DEF EvaluateSmile, began, smiling

LEMMA EvaluateTurnInv ==
  ASSUME Inv, NEW t \in now .. MaxTime, NEW s \in Signs, now' = t, EvaluateTurn(s, t)
  PROVE  Inv'
<1>1. InTime(t) /\ fsm.challenge = "turn" /\ Note(s, t)
  BY DEF EvaluateTurn, Decides
<1>2. t \in Nat /\ t \in 0 .. t /\ fsm \in Members(t) /\ hist \in Observed(t)
  BY <1>1, DuringChallenge
<1>3. /\ hist' \in Observed(t)
      /\ hist'.challenge = hist.challenge /\ hist'.spoofed = hist.spoofed
      /\ hist'.lost = hist.lost
      /\ s = "act" => hist'.lastAct = t
      /\ fsm'.state = "pass" => hist'.passedAt = t
  BY <1>1, <1>2, NoteFields
<1>4. Seen(t) \in Members(t) /\ Seen(t).challengeStartedAt = fsm.challengeStartedAt
  BY <1>2, SeenFields
<1>5. CASE s = "act" /\ fsm' = Pass(Seen(t))
  <2>1. fsm'.state = "pass"
    BY <1>2, <1>4, <1>5, PassFields
  <2> QED BY <1>1, <1>3, <1>4, <1>5, <2>1, PassesInv
<1>6. CASE fsm' = Seen(t)
  BY <1>1, <1>3, <1>4, <1>6, GoesOnInv DEF SameAttempt
<1> QED BY <1>5, <1>6 DEF EvaluateTurn

-----------------------------------------------------------------------------
LEMMA UpdateInv ==
  ASSUME Inv, NEW t \in now .. MaxTime, Update(t)
  PROVE  Inv'
<1>1. now' = t
  BY DEF Update
<1>2. CASE FailedFrame(t)
  BY <1>1, <1>2, FailedFrameInv
<1>3. CASE NoFace(t)
  BY <1>1, <1>3, NoFaceInv
<1>4. CASE SpoofedFace(t)
  BY <1>1, <1>4, FailInv DEF SpoofedFace, Inv
<1>5. CASE FaceWithoutChallenge(t)
  BY <1>1, <1>5, FaceWithoutChallengeInv
<1>6. CASE ChallengeTimesOut(t)
  BY <1>1, <1>6, FailInv DEF ChallengeTimesOut, Inv
<1>7. ASSUME NEW s \in Signs,
             \/ Undecided(s, t) \/ EvaluateBlink(s, t)
             \/ EvaluateSmile(s, t) \/ EvaluateTurn(s, t)
      PROVE  Inv'
  BY <1>1, <1>7, UndecidedInv, EvaluateBlinkInv, EvaluateSmileInv, EvaluateTurnInv
<1> QED BY <1>2, <1>3, <1>4, <1>5, <1>6, <1>7 DEF Update

LEMMA NextInv == Inv /\ [Next]_vars => Inv'
<1> SUFFICES ASSUME Inv, [Next]_vars PROVE Inv'
  OBVIOUS
<1>1. ASSUME NEW t \in now .. MaxTime, NEW c \in Challenges \ {"none"},
             StartChallenge(c, t)
      PROVE  Inv'
  BY <1>1, StartChallengeInv
<1>2. ASSUME NEW t \in now .. MaxTime, CallReset(t) PROVE Inv'
  BY <1>2, ResetInv DEF CallReset, Inv
<1>3. ASSUME NEW t \in now .. MaxTime, Update(t) PROVE Inv'
  BY <1>3, UpdateInv
<1>4. CASE ForcePass
  BY <1>4, ForcePassInv
<1>5. CASE UNCHANGED vars
  BY <1>5 DEF vars, Inv, TypeOK, ActiveInv, PassIsEarned
<1> QED BY <1>1, <1>2, <1>3, <1>4, <1>5 DEF Next

THEOREM Invariance == Spec => []Inv
  BY InitInv, NextInv, PTL DEF Spec

\* Every variable keeps its type and no stored time lies ahead of the clock
\* (LivenessFSM.cpp:25-140), so no difference Update takes is negative.
THEOREM TypeCorrect == Spec => []TypeOK
<1>1. Inv => TypeOK
  BY DEF Inv
<1> QED BY <1>1, Invariance, PTL

\* Verification is required only after a pass that a caller forced or that the
\* attempt earned by its gesture, in time, and of a face that was not lost since
\* (LivenessFSM.cpp:35-45, :203-314).
THEOREM PassesAreEarned == Spec => []PassIsEarned
<1>1. Inv => PassIsEarned
  BY DEF Inv
<1> QED BY <1>1, Invariance, PTL

\* A challenge is over after challengeTimeout and one tolerated dropout at the
\* latest (LivenessFSM.cpp:35-40, :69).
THEOREM ChallengesEnd == Spec => []ChallengeEnds
<1>1. Inv => ChallengeEnds
  <2> SUFFICES ASSUME Inv, fsm.state = "active"
               PROVE  now - fsm.challengeStartedAt < challengeTimeout + faceDropoutTolerance
    BY DEF ChallengeEnds
  <2>1. now \in Nat /\ fsm \in Members(now) /\ hist \in Observed(now)
    BY ThresholdsAssumption DEF Inv, TypeOK
  <2>2. fsm.challengeStartedAt \in Nat /\ fsm.lastFaceSeenAt \in Nat
    BY <2>1, FieldTypes
  <2>3. /\ fsm.lastFaceSeenAt - fsm.challengeStartedAt < challengeTimeout
        /\ now - fsm.lastFaceSeenAt <= faceDropoutTolerance
    BY DEF Inv, ActiveInv
  <2> QED BY <2>1, <2>2, <2>3, ThresholdsAssumption
<1> QED BY <1>1, Invariance, PTL

-----------------------------------------------------------------------------
(* The refinement of LivenessGate: where a frame or a call leaves the state.*)

\* A step that is a frame's, with a face or without one.
FrameTo(face) == fsm'.state \in Gate!AfterFrame(fsm.state, face)

LEMMA FailedFrameGate ==
  ASSUME TypeOK, NEW t \in now .. MaxTime, FailedFrame(t)
  PROVE  FrameTo(TRUE)
<1>1. t \in Nat /\ t \in 0 .. t
  BY ThresholdsAssumption DEF TypeOK
<1>2. fsm'.state \in {"fail", "idle"}
  BY <1>1, ResetFields DEF FailedFrame
<1> QED BY <1>2 DEF FailedFrame, FrameTo, Gate!AfterFrame

LEMMA NoFaceGate ==
  ASSUME TypeOK, NEW t \in now .. MaxTime, NoFace(t)
  PROVE  FrameTo(FALSE)
<1>1. t \in Nat /\ t \in 0 .. t
  BY ThresholdsAssumption DEF TypeOK
<1>2. Reset(t).state = "idle"
  BY <1>1, ResetFields
<1>3. CASE fsm.state = "idle" /\ UNCHANGED fsm
  BY <1>3 DEF FrameTo, Gate!AfterFrame
<1>4. CASE fsm.state = "active" /\ UNCHANGED fsm
  BY <1>4 DEF FrameTo, Gate!AfterFrame
<1>5. CASE fsm.state \in {"detected", "pass", "active"} /\ fsm' = Reset(t)
  <2>1. fsm'.state = "idle"
    BY <1>2, <1>5
  <2> QED BY <2>1, <1>5 DEF FrameTo, Gate!AfterFrame
<1>6. \/ fsm.state = "idle" /\ UNCHANGED fsm
      \/ fsm.state = "active" /\ UNCHANGED fsm
      \/ fsm.state \in {"detected", "pass", "active"} /\ fsm' = Reset(t)
  BY DEF NoFace
<1> QED BY <1>3, <1>4, <1>5, <1>6

\* With a face: it is seen, a failed check or the timeout fails it, and only the
\* gesture of an active challenge passes it.
LEMMA SpoofedFaceGate ==
  ASSUME TypeOK, NEW t \in now .. MaxTime, SpoofedFace(t)
  PROVE  FrameTo(TRUE)
<1>1. fsm \in Members(t) /\ t \in Nat /\ t \in 0 .. t
  BY AtLater
<1>2. Fail(Seen(t), t).state = "fail"
  BY <1>1, SeenFields, FailFields
<1>3. fsm' = Fail(Seen(t), t) /\ fsm.state # "fail"
  BY DEF SpoofedFace
<1>4. fsm.state \in {"idle", "detected", "active", "pass"} /\ fsm'.state = "fail"
  BY <1>1, <1>2, <1>3 DEF Members
<1> QED BY <1>4 DEF FrameTo, Gate!AfterFrame

LEMMA FaceWithoutChallengeGate ==
  ASSUME TypeOK, NEW t \in now .. MaxTime, FaceWithoutChallenge(t)
  PROVE  FrameTo(TRUE)
<1>1. fsm \in Members(t) /\ t \in Nat /\ t \in 0 .. t
  BY AtLater
<1>2. Seen(t).state = fsm.state /\ Seen(t) \in Members(t)
  BY <1>1, SeenFields
<1>3. [Seen(t) EXCEPT !.state = "detected", !.stateEnteredAt = t].state = "detected"
  BY <1>2 DEF Members
<1>4. \/ fsm.state = "idle" /\ fsm'.state = "detected"
      \/ fsm.state \in {"detected", "pass"} /\ fsm'.state = fsm.state
  BY <1>2, <1>3 DEF FaceWithoutChallenge
<1> QED BY <1>4 DEF FrameTo, Gate!AfterFrame

LEMMA ChallengeGate ==
  ASSUME fsm.state = "active", fsm'.state \in {"active", "pass", "fail"}
  PROVE  FrameTo(TRUE)
BY DEF FrameTo, Gate!AfterFrame

LEMMA TimesOutGate ==
  ASSUME TypeOK, NEW t \in now .. MaxTime, ChallengeTimesOut(t)
  PROVE  FrameTo(TRUE)
<1>1. fsm.state = "active" /\ fsm'.state = "fail"
  BY AtLater, SeenFields, FailFields DEF ChallengeTimesOut
<1> QED BY <1>1, ChallengeGate

LEMMA EvaluatedGate ==
  ASSUME TypeOK, NEW t \in now .. MaxTime, NEW s \in Signs,
         Undecided(s, t) \/ EvaluateBlink(s, t) \/ EvaluateSmile(s, t) \/ EvaluateTurn(s, t)
  PROVE  FrameTo(TRUE)
<1>1. fsm \in Members(t) /\ t \in Nat /\ t \in 0 .. t
  BY AtLater
<1>2. Seen(t) \in Members(t) /\ Seen(t).state = fsm.state
  BY <1>1, SeenFields
<1>3. fsm.state = "active"
  BY DEF Undecided, EvaluateBlink, EvaluateSmile, EvaluateTurn, Decides, InTime
<1>4. ASSUME Undecided(s, t) PROVE fsm'.state = "active"
  BY <1>2, <1>3, <1>4 DEF Undecided, Members
<1>5. ASSUME EvaluateBlink(s, t) PROVE fsm'.state \in {"active", "pass"}
  <2>1. CASE fsm' = [Seen(t) EXCEPT !.blinkWasClosed = TRUE, !.blinkClosedAt = t]
    <3>1. SameAttempt(fsm', Seen(t))
      BY <1>1, <1>2, <2>1, ClosureFields
    <3> QED BY <1>2, <1>3, <3>1 DEF SameAttempt
  <2>2. CASE fsm' = [Seen(t) EXCEPT !.blinkWasClosed = FALSE]
    <3>1. SameAttempt(fsm', Seen(t))
      BY <1>1, <1>2, <2>2, ForgetFields
    <3> QED BY <1>2, <1>3, <3>1 DEF SameAttempt
  <2>3. CASE fsm' = Seen(t)
    BY <1>2, <1>3, <2>3
  <2>4. CASE fsm' = Pass(Seen(t))
    BY <1>1, <1>2, <2>4, PassFields
  <2> QED BY <1>5, <2>1, <2>2, <2>3, <2>4 DEF EvaluateBlink
<1>6. ASSUME EvaluateSmile(s, t) PROVE fsm'.state \in {"active", "pass"}
  <2> DEFINE smiling == [Seen(t) EXCEPT !.smileStartedAt = SmileBegan(t)]
  <2>1. SmileBegan(t) \in 0 .. t /\ fsm.challengeStartedAt \in 0 .. t
    BY <1>1 DEF SmileBegan, Members
  <2>2. smiling \in Members(t) /\ smiling.state = "active"
    BY <1>1, <1>2, <1>3, <2>1, SmileFields DEF SameAttempt
  <2>3. [smiling EXCEPT !.smileStartedAt = fsm.challengeStartedAt].state = "active"
    BY <1>1, <2>1, <2>2, SmileFields DEF SameAttempt
  <2>4. Pass(smiling).state = "pass"
    BY <1>1, <2>2, PassFields
  <2>5. fsm' \in {smiling, Pass(smiling),
                  [smiling EXCEPT !.smileStartedAt = fsm.challengeStartedAt]}
    BY <1>6 DEF EvaluateSmile
  <2> QED BY <2>2, <2>3, <2>4, <2>5
<1>7. ASSUME EvaluateTurn(s, t) PROVE fsm'.state \in {"active", "pass"}
  BY <1>1, <1>2, <1>3, <1>7, PassFields DEF EvaluateTurn
<1> QED BY <1>3, <1>4, <1>5, <1>6, <1>7, ChallengeGate

LEMMA UpdateGate ==
  ASSUME TypeOK, NEW t \in now .. MaxTime, Update(t)
  PROVE  Gate!Frame
<1>1. FrameTo(TRUE) \/ FrameTo(FALSE)
  BY FailedFrameGate, NoFaceGate, SpoofedFaceGate, FaceWithoutChallengeGate,
     TimesOutGate, EvaluatedGate DEF Update
<1> QED BY <1>1 DEF FrameTo, Gate!Frame

LEMMA NextGate == TypeOK /\ [Next]_vars => [Gate!Next]_(fsm.state)
<1> SUFFICES ASSUME TypeOK, [Next]_vars PROVE [Gate!Next]_(fsm.state)
  OBVIOUS
<1>1. ASSUME NEW t \in now .. MaxTime, NEW c \in Challenges \ {"none"},
             StartChallenge(c, t)
      PROVE  Gate!StartChallenge
  BY <1>1 DEF StartChallenge, Reset, Gate!StartChallenge
<1>2. ASSUME NEW t \in now .. MaxTime, CallReset(t) PROVE Gate!Reset
  BY <1>2 DEF CallReset, Reset, Gate!Reset
<1>3. ASSUME NEW t \in now .. MaxTime, Update(t) PROVE Gate!Frame
  BY <1>3, UpdateGate
<1>4. ASSUME ForcePass PROVE Gate!ForcePass
  BY <1>4, PassFields DEF ForcePass, Gate!ForcePass, TypeOK
<1>5. CASE UNCHANGED vars
  BY <1>5 DEF vars
<1> QED BY <1>1, <1>2, <1>3, <1>4, <1>5 DEF Next, Gate!Next

\* The state machine keeps what LivenessGate promises the frame pipeline: its
\* states follow one another as the gate says, whatever thresholds, times and
\* metrics (LivenessFSM.cpp:20-144).
THEOREM GateRefined == Spec => ImplementsGate
<1>1. Init => Gate!Init
  BY DEF Init, Reset, Gate!Init
<1> QED BY <1>1, NextGate, TypeCorrect, PTL DEF Spec, ImplementsGate, Gate!Spec
=============================================================================
