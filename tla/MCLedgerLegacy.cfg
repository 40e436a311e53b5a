SPECIFICATION Spec
CONSTANTS
  p1 = p1
  c1 = c1
  c2 = c2
  e1 = e1
  Nobody = Nobody
  People = {p1}
  Erasures = {e1}
  Calls = {c1}
  LegacyRows <- OneLegacy
  MaxCounter = 2
  MaxTime = 0
PROPERTY
  ErasureKeepsChainVerifiable
