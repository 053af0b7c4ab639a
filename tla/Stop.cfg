\* Two sweepers, a poll and a stop meet on one session, which may come back once.
SPECIFICATION FairSpec
CONSTANTS
  p1 = p1
  p2 = p2
  None = None
  Callers <- MCCallers
  Mortal = {p1}
  PollCap = 1
  SweepCap = 2
  RunCaps <- MCRunCaps
  RepeatCap = 3
  MaxTurns = 3
  Comebacks = 1
  RosterFails = FALSE
INVARIANTS
  TypeOK
  SaidIsOver
PROPERTIES
  RunawayEnds
CHECK_DEADLOCK FALSE
