SPECIFICATION Spec
CONSTANTS
  Rips = {1}
  Discs = {1}
  Drives = {"d1"}
  Workers = {w1, w2}
  Users = {u1}
  KindOf <- OneJob
  DiscOf <- SameDisc
  DriveOf <- OneDrive
  VideoDiscs = {1}
  EncodeLimit = 2
  SpoolCap = 0
  QueueCap = 1
  MaxCrashes = 0
  MaxRetries = 1
  NoWorker = NoWorker
INVARIANTS
  OwnsWhatItRuns
CHECK_DEADLOCK FALSE
