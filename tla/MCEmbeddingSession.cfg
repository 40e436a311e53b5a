SPECIFICATION Spec
CONSTANTS
  Nobody = Nobody
  MaxPresses = 2
INVARIANTS
  TypeOK
  NothingFromBefore
  EmbeddedAfterPass
