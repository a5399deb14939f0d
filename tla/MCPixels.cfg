SPECIFICATION PixelSpec
CONSTANTS
  None = None
  Nothing = Nothing
  MaxRequests = 3
  MaxStarts = 4
  MaxTroubles = 3
  a = a
  b = b
  small = small
  large = large
  Pieces <- MCPieces
  Sizes <- MCSizes
  Retries = 1
  MaxPaints = 3
  MaxChanges = 2
  MaxLooks = 3
  Target = target
  Others = {other}
  Popups = {popup}
  Itself = badge
  NoWindow = none
  Spots = {left, right}
  MaxRaises = 1
  MaxAbove = 2
  MaxMoves = 3
SYMMETRY MCSymmetry
INVARIANTS
  AStopThatWasReadAsksAgain
  NoInputPastABarrier
  FramesAreOfTheirStamp
  NothingServedFromBeforeAChange
  TheBadgeIsSeen
PROPERTY
  MenusStayOver
CHECK_DEADLOCK FALSE
