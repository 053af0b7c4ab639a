\* A wait, a watch and a poll of one session that may be given work again.
SPECIFICATION Spec
CONSTANTS
  w = w
  v = v
  p = p
  None = None
  Waits = {w}
  Watches = {v}
  Polls = {p}
  MaxUnknown = 1
  MaxEpisodes = 1
  MaxTurns = 2
INVARIANTS
  LinesWhole
  AnswersFitTheReads
PROPERTIES
  CallsAnswered
CHECK_DEADLOCK FALSE
