SPECIFICATION FairSpec
CONSTANTS
  p1 = p1
  p2 = p2
  q1 = q1
  q2 = q2
  c1 = c1
  c2 = c2
  Nobody = Nobody
  People = {p1}
  Requests = {q1, q2}
  Calls = {c1, c2}
  MaxEnrolments = 2
  MaxKills = 1
INVARIANTS
  TypeOK
  NothingForgotten
  OnceUnlessRetried
PROPERTY
  ReceiptsAreUploaded
CHECK_DEADLOCK FALSE
