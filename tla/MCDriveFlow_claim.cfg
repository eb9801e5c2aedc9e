SPECIFICATION Spec
CONSTANTS
  Flows = {f1, f2}
  Rows = {1, 2}
  Tocs = {"listing"}
  Ids = {"title"}
  Discs <- Xbox360
  BDConsole = FALSE
  MaxSwaps = 1
  MaxReboots = 0
  MaxFlows = 3
  MaxStarts = 0
  MaxEnds = 0
  None = None
SYMMETRY Interchangeable
INVARIANTS
  ClaimExclusive
CHECK_DEADLOCK FALSE
