\* One supervisor stops a session, and the roster cannot always be read.
SPECIFICATION Spec
CONSTANTS
  p1 = p1
  p2 = p2
  None = None
  Callers <- MCStop
  Mortal = {}
  PollCap = 1
  SweepCap = 2
  RunCaps <- MCRunCaps
  RepeatCap = 3
  MaxTurns = 3
  Comebacks = 1
  RosterFails = TRUE
PROPERTY GoneWhenSaid
CHECK_DEADLOCK FALSE
