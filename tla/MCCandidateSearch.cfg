SPECIFICATION SearchSpec
CONSTANTS
  p1 = p1
  p2 = p2
  t1 = t1
  t2 = t2
  Idle = Idle
  People = {p1, p2}
  Tasks = {t1, t2}
  Items = {}
  Faces <- Live
  Face <- Enrolled
  LSH_HYPERPLANES <- Planes
  Rejected = Rejected
  MaxRows = 0
SYMMETRY Symmetry
INVARIANTS
  SearchTypeOK
  RejectsForACause
  AnswersAreWhole
CONSTRAINT Bounded
