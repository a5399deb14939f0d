SPECIFICATION FairAloneSpec
CONSTANTS
  MaxPendingControls = 1
  MaxResponseBytes = 1
  SidecarGeneration = boot
  Absent = Absent
  Actions = {"left_click"}
  Controls = {"pause"}
  Frames <- GoodFrames
  ChunkBytes = {1}
  MaxCalls = 2
  MaxChunks = 2
  MaxTransientHops = 3
  AxMatchTolerance = 1
  MaxClients = 4
  MaxTopLevels = 4
  MaxAbove = 3
  MaxFrameDepth = 2
  MaxExtent = 8
  CoordinateLimit = 7
  MaxEdge = 8
  MaxArea = 32
  MaxPortalScale = 4
  Grid = 16
PROPERTIES
  TheOwnerIsTold
CHECK_DEADLOCK FALSE
