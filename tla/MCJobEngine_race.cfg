SPECIFICATION Spec
CONSTANTS
  Rips = {1, 2}
  Discs = {1, 2}
  Drives = {"d1"}
  Workers = {w1}
  Users = {u1, u2}
  KindOf <- MonoAndSplit
  DiscOf <- SameDisc
  DriveOf <- OneDrive
  VideoDiscs = {1}
  EncodeLimit = 1
  SpoolCap = 0
  QueueCap = 1
  MaxCrashes = 0
  MaxRetries = 0
  NoWorker = NoWorker
SYMMETRY Interchangeable
INVARIANTS
  QueuedOnce
CHECK_DEADLOCK FALSE
