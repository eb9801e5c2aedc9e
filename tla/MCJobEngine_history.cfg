SPECIFICATION Spec
CONSTANTS
  Rips = {1}
  Discs = {1}
  Drives = {"d1"}
  Workers = {w1}
  Users = {u1}
  KindOf <- OneJob
  DiscOf <- SameDisc
  DriveOf <- OneDrive
  VideoDiscs = {1}
  EncodeLimit = 1
  SpoolCap = 0
  QueueCap = 1
  MaxCrashes = 0
  MaxRetries = 0
  NoWorker = NoWorker
PROPERTIES
  HistoryKeepsActive
CHECK_DEADLOCK FALSE
