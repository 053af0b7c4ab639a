\* Two callers of one run, one of which may be killed in the middle of a call.
SPECIFICATION FairSpec
CONSTANTS
  Clients = {c1, c2}
  Mortal = {c2}
INVARIANTS
  TypeOK
  RecordIsEarned
PROPERTIES
  EndIsNoticed
  StopEndsRun
CHECK_DEADLOCK FALSE
