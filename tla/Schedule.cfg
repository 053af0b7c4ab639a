\* Up to four tasks, with and without estimates, on one slot or two.
SPECIFICATION Spec
CONSTANTS
  Keys = {1, 2, 3, 4}
  Estimates = {0, 2}
  Blocks <- MCBlocks
  Actuals <- MCActuals
  Pools = {0, 2}
  Fallback = 3
  MaxItems = 4
INVARIANTS
  SearchDecides
  PlanHolds
  EtaIsBounded
CHECK_DEADLOCK FALSE
