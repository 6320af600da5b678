SPECIFICATION ServiceFairSpec
CONSTANTS
  c1 = c1
  Callers <- MCCallers
  Writers <- MCWriters
  Worker = "worker"
  Ticker = "ticker"
  Work = "work"
  Receipt = "receipt"
  Items <- MCItems
  NoItem = "no item"
  Keys = {}
  NoKey = "unkeyed"
  Capacity = 2
  MaxId = 3
  NoError = "none"
  Errors <- MCErrors
  Refused = "failed"
  Failed = "failed"
INVARIANTS SettledMeansOver RestReadsSettled
PROPERTIES IdleIsShown
