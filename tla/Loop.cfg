\* A verified loop with a server that crashes in the middle of a poll.
SPECIFICATION FairSpec
CONSTANTS
  p1 = p1
  p2 = p2
  p3 = p3
  s1 = s1
  s2 = s2
  Procs = {p1, p2, p3}
  SessionOf <- MCSessionOf
  Mortal = {p1}
  Runs = {r1, r2, r3, r4}
  Texts = {"", "t1"}
  Plans <- MCPlans
  MaxIters = 2
  LiveWords = {"working"}
  None = None
INVARIANTS
  PassIsEarned
  NoStrayAgent
PROPERTIES
  KeepsContract
  LoopSettles
CHECK_DEADLOCK FALSE
