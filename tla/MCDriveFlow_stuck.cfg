SPECIFICATION Spec
CONSTANTS
  Flows = {f1}
  Rows = {1}
  Tocs = {}
  Ids = {"code"}
  Discs <- PSX
  BDConsole = FALSE
  MaxSwaps = 1
  MaxReboots = 0
  MaxFlows = 2
  MaxStarts = 1
  MaxEnds = 1
  None = None
INVARIANTS
  EjectSettles
CHECK_DEADLOCK FALSE
