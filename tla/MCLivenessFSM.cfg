SPECIFICATION Spec
CONSTANTS
  blinkWindow = 1
  smileSustain = 2
  challengeTimeout = 4
  failResetDelay = 2
  faceDropoutTolerance = 1
  MaxTime = 8
INVARIANTS TypeOK PassIsEarned ChallengeEnds
PROPERTY ImplementsGate
CHECK_DEADLOCK TRUE
