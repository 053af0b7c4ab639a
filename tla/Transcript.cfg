\* Two threads summarise one transcript of two calls and up to three more entries while it grows.
SPECIFICATION SessionSpec
CONSTANTS
  r1 = r1
  r2 = r2
  a = a
  b = b
  None = None
  Readers <- MCReaders
  Calls <- MCCalls
  Past = 2
  MaxEntries = 8
  MaxWalks = 2
  CacheMax = 1
  DigestKeep = 2
  CallsKeep = 3
SYMMETRY MCSymmetry
INVARIANTS
  SummaryIsFresh
  EndIsProven
  StatsCountOnce
  SummaryShowsTail
CHECK_DEADLOCK FALSE
