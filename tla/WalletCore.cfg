SPECIFICATION MCSpec
CONSTANTS
  NULL = NULL
  Pages = {p1, p2}
  Devices = {d}
  ActivationDeadline = 2
  ExpiresAt = 2
  Lease = 1
  MaxTime = 2
  MaxIds = 3
  MaxFaults = 2
INVARIANTS
  KeysFollowRecords
  LocalRevocationIsConfirmed
PROPERTIES
  RecordsMoveForward
  ImportsAreResolved
