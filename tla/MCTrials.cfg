SPECIFICATION TrialsSpec
CONSTANTS
  Known <- MCKnown
  Default = "moveL"
  Comparisons <- MCComparisons
  TrialApp <- MCPickTrial
  Items <- MCItems
  NoItem = "no item"
  MaxId = 11
  Capacity = 2
  Client = "client"
  Callers = {"client"}
  Disturbances = 2
  NoError = "none"
  Errors = {"failed"}
  Failed = "failed"
CHECK_DEADLOCK FALSE
INVARIANTS RowsAreTrue TrialsStartAlike LiveVersionRestored
