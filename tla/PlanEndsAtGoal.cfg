SPECIFICATION MotionSpec
CONSTANTS
  PlanCycles = 4
  SettleCycles = 0
  StopCycles = 3
  Joints <- MCJoints
  Others <- MCOthers
  Up = "z"
  Lo <- MCLo
  Hi <- MCHi
  Tolerance <- MCTolerance
  VelMax <- MCVelMax
  AccMax <- MCSlow
  MaxDuration = 150
  MaxIters = 8
  MaxStep = 6
  LineSteps = 31
  LeadIn = 2
  Clearance = 6
  Obstacles <- MCObstacles
  Fine = 1000
  BlendRounds = 16
  Home <- MCHome
  Goals <- MCLongLine
  NamedMotions <- MCNothing
  Jogs <- MCNothing
  JogSpeed = 2
  MaxMoves = 1
CHECK_DEADLOCK FALSE
INVARIANTS PlanEndsAtGoal
