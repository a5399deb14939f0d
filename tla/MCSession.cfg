SPECIFICATION FairSessionSpec
CONSTANTS
  SidecarGeneration = boot
  Absent = Absent
  PressLimit = 1
  MaxPendingControls = 2
  MaxCalls = 3
  Actions = {"left_click", "screenshot", "select_target"}
  ClientControls = {"pause", "resume"}
  Buttons = {"operator_stop"}
  Requests <- CallRequests
INVARIANTS
  
  SequencesAreNeverStale
PROPERTIES
  CallsAreAnswered
  
CHECK_DEADLOCK FALSE
