SPECIFICATION TrialsSpec
CONSTANTS
  Known <- MCKnown
  Default = "moveL"
  Comparisons <- MCPlanners
  TrialApp <- MCBinPicking
  Items <- MCBinItems
  NoItem = "no item"
  MaxId = 10
  Capacity = 4
  Client = "client"
  Callers = {"client"}
  Disturbances = 0
  NoError = "none"
  Errors = {"failed"}
  Failed = "failed"
CHECK_DEADLOCK FALSE
INVARIANTS EachVersionIsRun
