SPECIFICATION MCFairSpec
CONSTANTS
  e1 = e1  e2 = e2  k1 = k1  k2 = k2
  w1 = w1  w2 = w2  d1 = d1  d2 = d2  a1 = a1
  NULL = NULL
  Events <- MCEvents
  Created <- MCCreated
  Kicks <- MCKicks
  MaxCrashes = 1
  MaxDoubts = 1
  Consumers <- MCConsumers
  Devices <- MCDevices
  Auths <- MCAuths
  DeviceLog <- MCLedger
  Revoked = TRUE
  MaxFailures = 1
INVARIANTS PendingIsCovered SentOnceUnlessInDoubt RowMatchesEvents NothingIsStranded
PROPERTIES CommittedIsPublished VisitedIsPublished ProjectionMovesForward ProjectionConverges
