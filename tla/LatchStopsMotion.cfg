SPECIFICATION ControlSpec
CONSTANTS
  c1 = c1
  c2 = c2
  Callers <- MCCallers
  Items <- MCItems
  NoItem = NoItem
  Keys <- MCKeys
  NoKey = "unkeyed"
  Capacity = 2
  MaxId = 3
  NoError = "none"
  Errors <- MCErrors
  Refused = "refused"
  Failed = "failed"
  Stopped = "stopped"
  Families <- MCFamilies
  BootFamily = "ideal"
  PlanCycles = 2
  SettleCycles = 0
  StopCycles = 2
INVARIANT LatchStopsMotion
