\* Two tasks and two runs of a session, the dashboard, and the archive script.
SPECIFICATION Spec
CONSTANTS
  t1 = t1
  t2 = t2
  r1 = r1
  r2 = r2
  None = None
  Sessions = {"s1"}
  Tasks <- MCTasks
  Runs <- MCRuns
  Statuses = {"active", "waiting", "done", "cancelled"}
  MaxEvents = 3
  MaxLimit = 2
SYMMETRY MCSymmetry
INVARIANTS
  NoEventMissed
  EventsTellStatus
PROPERTIES
  RowsSurvive
CHECK_DEADLOCK FALSE
