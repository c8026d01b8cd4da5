SPECIFICATION MCSpec
CONSTANTS
  NULL = NULL
  Flows = {f1, f2}
  Logins <- MCLogins
  TimeoutAfter = 1
  ChallengeTtl = 2
  SessionTtl = 1
  MaxTime = 2
  MaxFaults = 1
INVARIANTS
  CancelledLoginsHaveNoSession
  LoginsSubmitTheirOwnProof
PROPERTIES
  EveryLoginEnds
  StaleSessionsDisappear
