SPECIFICATION Spec
CONSTANTS
  MaxMounts = 2
  MaxKills = 1
  MaxFrames = 1
  None = None
INVARIANTS
  TypeOK
  KeyFits
  DatabaseFollowsTheApp
  RetryWhileOwed
