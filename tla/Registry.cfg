SPECIFICATION MCSpec
CONSTANTS
  c1 = c1  c2 = c2  d1 = d1  d2 = d2  a1 = a1  a2 = a2  g1 = g1  g2 = g2
  o1 = o1  o2 = o2  o3 = o3  o4 = o4
  p2 = p2  p3 = p3  p4 = p4  s3 = s3  s4 = s4
  NULL = NULL
  Callers <- MCTwoCallers
  Geneses <- MCGeneses
  Devices <- MCDevices
  Auths <- MCAuths
  ValidFrom <- MCValidFrom
  Deadline <- MCDeadline
  ExpiresAt <- MCExpiresAt
  OperationIds <- MCOperationIds
  Requests <- MCRequests
  ClockSkew = 0
  RevocationAge = 1
  RequestLifetime = 1
  ActivationWindow = 2
  AuthorizationLifetime = 2
  MaxTime = 2
SYMMETRY Symmetry
INVARIANTS RowsMatchEvents AnswersAreTrue LedgerIsSound ReservationHolds
PROPERTIES ImplementsLifecycle EffectiveStateMovesForward
