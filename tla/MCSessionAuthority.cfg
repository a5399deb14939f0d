SPECIFICATION SessionSpec
CONSTANTS
  SidecarGeneration = boot
  Absent = Absent
  PressLimit = 3
  MaxPendingControls = 2
  MaxCalls = 3
  Actions = {"select_target"}
  ClientControls = {"pause"}
  Buttons = {"operator_stop"}
  Requests <- CallRequests
INVARIANTS
  TheLibraryCatchesUp
CHECK_DEADLOCK FALSE
