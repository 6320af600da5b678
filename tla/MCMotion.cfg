SPECIFICATION MotionSpec
CONSTANTS
  PlanCycles = 4
  SettleCycles = 1
  StopCycles = 3
  Joints <- MCJoints
  Others <- MCOthers
  Up = "z"
  Lo <- MCLo
  Hi <- MCHi
  Tolerance <- MCTolerance
  VelMax <- MCVelMax
  AccMax <- MCAccMax
  MaxDuration = 150
  MaxIters = 8
  MaxStep = 6
  LineSteps = 3
  LeadIn = 2
  Clearance = 6
  Obstacles <- MCObstacles
  Fine = 1000
  BlendRounds = 16
  Home <- MCHome
  Goals <- MCGoals
  NamedMotions <- MCNamedMotions
  Jogs <- MCJogs
  JogSpeed = 2
  MaxMoves = 1
CHECK_DEADLOCK FALSE
INVARIANTS GoalOrReason StopsWithinRamp ReturnsAtRest
  RouteKeepsItsPromise AxesArriveTogether
PROPERTIES EnvelopeHolds
