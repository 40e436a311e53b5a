SPECIFICATION Spec
CONSTANTS
  p1 = p1
  p2 = p2
  t1 = t1
  t2 = t2
  i1 = i1
  Idle = Idle
  People = {p1, p2}
  Tasks = {t1, t2}
  Items = {i1}
  Faces <- Embedded
  Face <- Enrolled
  LSH_HYPERPLANES <- Planes
  Rejected = Rejected
  MaxRows = 1
SYMMETRY Symmetry
INVARIANTS
  NoLeakedTransaction
  ReportedIsCommitted
  StoresAgree
PROPERTY
  EnrolledIsThere
