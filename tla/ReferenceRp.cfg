SPECIFICATION MCSpec
CONSTANTS
  NULL = NULL
  root = root
  device = device
  Clients = {c1, c2}
  Signers = {root, device}
  Subject <- MCSubject
  Devices = {device}
  Requests <- MCRequests
  GrantExpiresAt = 2
  ChallengeTtl = 1
  SessionTtl = 1
  Skew = 0
  MaxLifetime = 1
  MaxOutstanding = 1
  MaxTotal = 2
  MaxTime = 2
  MaxIssued = 2
  MaxReceipts = 5
  Nothing = Nothing
  Notes = {1, 2}
  Existing = {1}
  Private = {1}
  Actions = {"note.create", "note.edit", "note.delete", "note.like",
             "profile.set-name"}
  Runs = {f1, f2}
  MaxVersion = 3
  MaxRoutes = 2
INVARIANTS
  ChallengeStartsOneSession
  ServiceSessionsEnd
  RevokedSignersHaveNoEffect
  ServiceStoreIsBounded
  NothingIsLost
  TheChainGoesOn
  PageIsConsistent
SYMMETRY Symmetry
