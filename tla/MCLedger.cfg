SPECIFICATION FairSpec
CONSTANTS
  p1 = p1
  c1 = c1
  c2 = c2
  e1 = e1
  Nobody = Nobody
  People = {p1}
  Erasures = {e1}
  Calls = {c1, c2}
  LegacyRows <- OneLegacy
  MaxCounter = 3
  MaxTime = 1
INVARIANTS
  TypeOK
  ChainLinked
  BrokenOnlyByKnownHazard
  ErasedUnnamed
  AuditIsExact
PROPERTIES
  AppendOnly
  CallsSettle
CONSTRAINT OneCause
