SPECIFICATION WorldFairSpec
CONSTANTS
  Nodes <- MCNodes
  Families <- MCFamilies
  Drivers <- MCDrivers
  Makes <- MCMakes
  Configures <- MCConfigures
  Flaky <- MCFlaky
  Worlds <- MCWorlds
  Grippers <- MCGrippers
  NoScene = "none"
  Caps <- MCCaps
  BuiltIn <- MCBuiltIn
  Default <- MCDefault
  Physical = {"mujoco"}
  Jobs <- MCJobs
  Attempts = 2
  MaxPolls = 1
  MaxJobs = 2
CHECK_DEADLOCK FALSE
INVARIANTS GripIsTrue RestShowsTheScene OneWorld ReadersAreCurrent
PROPERTIES EveryCommandEnds LineKeepsFeeding
