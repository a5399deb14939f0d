SPECIFICATION Spec
CONSTANTS
  SidecarGeneration = boot
  Absent = Absent
  MaxGeneration = 4
  MaxAdmissions = 2
  MaxSeq = 2
  Actions = {"left_click", "scroll", "press", "screenshot", "observe_start"}
  Requests <- ClientRequests
INVARIANTS
  NothingPassesABarrier
  LateInputIsNamed
  ReceiptsAdmitWhatLanded
  CancelledIsTruthful
  MutationsAtMostOnce
PROPERTY KeepsThePromise
CHECK_DEADLOCK FALSE
