SPECIFICATION Spec
CONSTANTS
  Flows = {f1, f2}
  Rows = {1, 2}
  Tocs = {}
  Ids = {"code"}
  Discs <- PSX
  BDConsole = FALSE
  MaxSwaps = 2
  MaxReboots = 0
  MaxFlows = 3
  MaxStarts = 0
  MaxEnds = 0
  None = None
SYMMETRY Interchangeable
INVARIANTS
  NoPhantomCard
CHECK_DEADLOCK FALSE
