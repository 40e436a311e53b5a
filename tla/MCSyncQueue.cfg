SPECIFICATION FairSpec
CONSTANTS
  i1 = i1
  i2 = i2
  w1 = w1
  w2 = w2
  NoItem = NoItem
  Items = {i1, i2}
  Workers = {w1, w2}
  MAX_RETRIES = 2
  MaxForeign = 1
INVARIANTS
  TypeOK
  ClaimsHold
  TwiceOnlyIfUnmarked
  OnlyKnownLosses
PROPERTY
  WorkersReturn
