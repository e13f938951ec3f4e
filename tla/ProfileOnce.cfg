SPECIFICATION Spec
CONSTANTS
  CtxHandles = {c1, c2}
  NumSegments = 2
  SegmentSize = 3
  MaxContexts = 3
  MaxBuffers = 3
  Threads = {t1, t2}
  Runs = {r1, r2}
  KernelOf <- MCKernelOf
  NumSelections = 2
  EmptySelections = {}
  MaxImpls = 1
  MaxStarts = 2
  HaltHandles = {c1, c2}
  MaxHaltContexts = 3
  GraphTiles <- MCGraphTiles
  CoreHangThreshold = 3
  GraphHangThreshold = 2
  Binaries = {"p1", "p2", "a1", "a2", "x1", "x2", "e1"}
  TypeOf <- MCTypeOf
  PlioOf <- MCPlioOf
  Incomplete = {"x2"}
  PluginOrders <- MCOrders
  InfoHandles = {c1, c2}
  InContexts = {"p1", "a1", "a2", "e1"}
  MaxLoads = 4
  MaxInfoContexts = 3
  AM = {0}
  AIM = {1}
  ASM = {0}
  CuOf <- OnePort
  Stall = {"int"}
  Flow = {"tx"}
  NumUserASM = 1
  MaxTime = 2
  MaxWaiting = 2
  NumCols = 2
  NumRows = 3
  MaxFaults = 1
  TileLists <- MCTileLists
  ColShifts = {0, 1}
  ProfileSettings <- MCProfileSettings
  NumMonitorPorts = 3
  MaxProfileFaults = 1
INVARIANTS
  CountersOnce
CHECK_DEADLOCK FALSE
