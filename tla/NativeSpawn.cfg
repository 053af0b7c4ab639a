\* One session, three runs; two may be on record at a time.  The full toolset, since what
\* an agent may not call then it may not call with the narrow one either.
SPECIFICATION Spec
CONSTANTS
  Sessions = {s1}
  Runs = {r1, r2, r3}
  Requests <- MCRequests
  None = None
  Keep = 2
  MaxDeaths = 1
  MaxText = 9
  DeepMaxTurns = 300
  FullToolset = TRUE
  ReportMax = 5
  Extra = 5
  IndexMax = 2
  Reserve = 1
  MoreNote = 1
  Header = 2
  Frame = 2
  Notice = 2
  Separator = 1
  CutNote = 1
  Footer = 2
SYMMETRY RunSymmetry
CHECK_DEADLOCK FALSE
INVARIANTS
  LineageIsTrue
  WorkersAreLeaves
  ReadOnlyHolds
  RecordedUnlessCrossed
  TreeHidesNothing
  ResultFits
