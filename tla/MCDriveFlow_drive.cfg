SPECIFICATION Spec
CONSTANTS
  Flows = {f1, f2}
  Rows = {1, 2}
  Tocs = {"listing"}
  Ids = {"title"}
  Discs <- Xbox360
  BDConsole = TRUE
  MaxSwaps = 1
  MaxReboots = 0
  MaxFlows = 3
  MaxStarts = 1
  MaxEnds = 0
  None = None
SYMMETRY Interchangeable
INVARIANTS
  TypeOK
  RippingShown
  OneRowPerDisc
CHECK_DEADLOCK FALSE
