SPECIFICATION ClipboardSpec
SYMMETRY Alike
CONSTANTS
  None = None
  Compux = Compux
  Apps = {a, b}
  Copyable = {"long", "huge"}
  Pasted = {"ours", "brief"}
  Parts <- MCParts
  MaxParts = 2
  MaxTransfers = 1
  MaxUses = 4
  MaxCopies = 1
INVARIANTS
  AnswersAreWhole
  ReadsAreWhole
CHECK_DEADLOCK FALSE
