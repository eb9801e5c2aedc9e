SPECIFICATION FairSpec
CONSTANTS
  Rips = {1, 2}
  Discs = {1}
  Drives = {"d1"}
  Workers = {w1}
  Users = {u1}
  KindOf <- SplitAndScan
  DiscOf <- SameDisc
  DriveOf <- OneDrive
  VideoDiscs = {1}
  EncodeLimit = 1
  SpoolCap = 1
  QueueCap = 1
  MaxCrashes = 1
  MaxRetries = 1
  NoWorker = NoWorker
PROPERTIES
  RipsSettle
  EncsSettle
CHECK_DEADLOCK FALSE
