SPECIFICATION Spec
CONSTANTS
  n1 = n1
  n2 = n2
  n3 = n3
  n4 = n4
  Nexuses <- MCAssigned
  Assigned <- MCAssigned
  Vals = {0, 1}
  Initial = 0
  Register = FALSE
  Starts = {0, 1}
  InitFast = TRUE
  Disconnects = TRUE
  MaxTime = 2
  MaxDelta = 1
  TimeMod = 16
  NULL = NULL
CHECK_DEADLOCK FALSE
SYMMETRY Symmetry
INVARIANTS
    TransactionsScheduled FastPathAssertions
