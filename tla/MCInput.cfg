SPECIFICATION InputSpec
SYMMETRY Alike
VIEW Followed
CONSTANTS
  None = None
  Windows = {"mail"}
  Places = {left, right}
  Sizes = {small, large}
  Fronts = {"mail", "other", "popup"}
  Unlisted = {"popup"}
  Endings = {"quits"}
  MaxNow = 2
  MaxScenes = 2
  MaxWhims = 1
  SilenceLimit = 1
  QueueDepth = 1
  Mishaps = {"no_buffer", "unreadable", "fault"}
  MaxObservations = 2
  TTL = 2
  MaxRequests = 3
  Absent = Absent
  Slots = {left, right}
  Pids = {small, large}
  Items = {"ctrl", "shift"}
  Codes = {37, 50}
  Layouts <- MissingKey
  InputSequences <- ChordOrPaste
  MaxHeld = 2
  MaxJournals = 3
  PidsComeBack = FALSE
  Copied = {"image"}
  MaxStarts = 2
  MaxTrouble = 1
  MaxChanges = 1
INVARIANTS
  HeldIsWrittenDown
  AStartReleasesTheDead
  SilenceMeansUpOnOneLayout
  PasteIsUndone
  PictureIsOfItsTime
  ClicksLandWhereTheyWereAimed
  EvidenceFollowsTheInput
CHECK_DEADLOCK FALSE
