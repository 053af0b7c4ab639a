SPECIFICATION Spec
CONSTANTS
  p1 = p1
  p2 = p2
  p3 = p3
  s1 = s1
  s2 = s2
  Procs = {p1, p2, p3}
  Sessions = {s1, s2}
  SessionOf <- MCSessionOf
  t1 = t1
  Tasks = {t1}
  Runs = {r1, r2}
  None = None
  MaxMeddling = 2
  UpdateStatuses = {"active", "done"}
  SpawnRequests <- MCWriters
SYMMETRY RunSymmetry
CHECK_DEADLOCK FALSE
INVARIANTS
  TypeOK
  OneLiveWriter
  RunsAnswerToLauncher
  LoopsBlockRelease
  HeldSpawnKeepsTaskActive
PROPERTIES
  RowsOnlyGrow
