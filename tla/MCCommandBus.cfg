SPECIFICATION BusFairSpec
CONSTANTS
  i1 = i1
  i2 = i2
  k1 = k1
  Items <- MCItems
  NoItem = NoItem
  Keys <- MCKeys
  NoKey = NoKey
  Capacity = 3
  MaxId = 5
INVARIANTS PendingAreTheNewest PendingKeysDistinct AppliedNeverCoversPending
PROPERTIES EveryIdEnds ImplementsLedger
CHECK_DEADLOCK FALSE
