\* The statement that the turns a guard counts are the model's turns.
SPECIFICATION SessionSpec
CONSTANTS
  r1 = r1
  r2 = r2
  a = a
  b = b
  None = None
  Readers = {}
  Calls <- MCCalls
  Past = 2
  MaxEntries = 8
  MaxWalks = 1
  CacheMax = 1
  DigestKeep = 2
  CallsKeep = 3
INVARIANTS
  TurnsAreResponses
CHECK_DEADLOCK FALSE
