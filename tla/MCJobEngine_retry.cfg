SPECIFICATION Spec
CONSTANTS
  Rips = {1}
  Discs = {1}
  Drives = {"d1"}
  Workers = {w1, w2}
  Users = {u1, u2}
  KindOf <- OneJob
  DiscOf <- SameDisc
  DriveOf <- OneDrive
  VideoDiscs = {1}
  EncodeLimit = 2
  SpoolCap = 0
  QueueCap = 1
  MaxCrashes = 1
  MaxRetries = 2
  NoWorker = NoWorker
SYMMETRY Interchangeable
INVARIANTS
  TypeOK
  SpoolHeld
  EncoderHasInput
  NoStrandedJob
  SoleEncoder
  RippingIsReal
  Custody
PROPERTIES
  OutcomesLast
  KeepsLedger
CHECK_DEADLOCK FALSE
