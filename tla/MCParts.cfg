SPECIFICATION PartsSpec
CONSTANTS
  c1 = c1
  c2 = c2
  s1 = s1
  f1 = f1
  f2 = f2
  b1 = b1
  Clients <- MCClients
  Sessions <- MCSessions
  Files <- MCFiles
  Texts <- MCTexts
  Shipped <- MCShipped
  Library = Library
  Absent = Absent
  Partial = Partial
  Capacity = 1
  PublicMode = FALSE
  MaxWrites = 2
  MaxCrashes = 1
  Names <- MCNames
  Literals <- MCLiterals
  Tokens <- MCTokens
  MaxTokens = 8
  Channels = 1
  MaxOps = 5
  MaxStack = 3
  Fuel = 9
  Inputs <- MCInputs
  Workspace <- MCWorkspace
  AxisOrder <- MCAxisOrder
  Lengths <- MCLengths
  Drivers = {"mujoco"}
  Named = {"mujoco", "ur"}
  Bodies <- MCBodies
  Within <- MCWithin
  Places = {"left", "right"}
  Shapes <- MCShapes
  Verbs <- MCVerbs
  Spoken <- MCSpoken
  MaxEntries = 2
  Speed = 2
  BeltEnd = 24
  Clutter = {6}
  Jitter = {1, 2}
  Cameras <- MCCameras
  MaxPending = 4
  Window = 3
  Gate = 3
  MinSpan = 2
  Smoothing = 4
  MaxTravel = 8
  Approaches = {2, 4}
  FirstLead = 2
  Attempts = 2
  SightTimeout = 2
  GraspReach = 1
  Scale = 10
  MaxTime = 18
  MaxSwaps = 1
SYMMETRY Interchangeable
INVARIANTS NoTornDocument SavedIsThere  CompiledMeansSource RefusedForLimitsOnly EnginesAgree StoredDocumentsDeploy ComposedAsDescribed RendezvousIsTrue
CHECK_DEADLOCK FALSE
