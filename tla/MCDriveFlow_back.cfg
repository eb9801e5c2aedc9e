SPECIFICATION FairSpec
CONSTANTS
  Flows = {f1, f2}
  Rows = {1}
  Tocs = {}
  Ids = {"code"}
  Discs <- PSX
  BDConsole = FALSE
  MaxSwaps = 2
  MaxReboots = 1
  MaxFlows = 2
  MaxStarts = 1
  MaxEnds = 1
  None = None
INVARIANTS
  BusyIsReal
  ChecksHold
PROPERTIES
  DriveComesBack
CHECK_DEADLOCK FALSE
