SPECIFICATION ListeningSpec
CONSTANTS
  SidecarGeneration = boot
  Absent = Absent
  PressLimit = 2
  MaxLines = 3
  Actions = {"select_target", "press", "screenshot"}
  ParentControls = {"pause", "release"}
  Buttons = {"operator_stop"}
  Requests <- LineRequests
INVARIANTS
  NothingInheritedPastARelease
PROPERTIES
  ControlsAreAnswered
  EveryLineIsAnswered
CHECK_DEADLOCK FALSE
