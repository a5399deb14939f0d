SPECIFICATION FairAloneSpec
CONSTANTS
  MaxPendingControls = 1
  MaxResponseBytes = 2
  SidecarGeneration = boot
  Absent = Absent
  Actions = {"hello", "left_click"}
  Controls = {"pause"}
  Frames <- EveryFrame
  ChunkBytes = {1, 2}
  MaxCalls = 2
  MaxChunks = 3
  MaxTransientHops = 3
  AxMatchTolerance = 1
  MaxClients = 4
  MaxTopLevels = 4
  MaxAbove = 3
  MaxFrameDepth = 2
  MaxExtent = 8
  CoordinateLimit = 7
  MaxEdge = 8
  MaxArea = 32
  MaxPortalScale = 4
  Grid = 16
INVARIANTS
  EachCallIsAnsweredOnce
  TheNewsComesLast
PROPERTIES
  EveryCallIsAnswered
CHECK_DEADLOCK FALSE
