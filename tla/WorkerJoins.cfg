SPECIFICATION BusFairSpec
CONSTANTS
  i1 = i1
  i2 = i2
  k1 = k1
  Items <- MCItems
  NoItem = NoItem
  Keys <- MCKeys
  NoKey = NoKey
  Capacity = 2
  MaxId = 4
PROPERTY WorkerJoins
CHECK_DEADLOCK FALSE
