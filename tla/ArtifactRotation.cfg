SPECIFICATION MCSpec
CONSTANTS
  c1 = c1  c2 = c2  e1 = e1  e2 = e2  e3 = e3  i1 = i1  i2 = i2
  NULL = NULL
  Callers <- MCCallers
  Events <- MCEvents
  Invocations <- MCInvocations
  MaxTime = 1
  MaxPublications = 2
  MaxTree = 12
  ShardCount = 3
  BatchSize = 2
  MaxGrowth = 1
  MaxRotations = 1
  MaxLifetime = 1
  Operators <- MCInvocations
  Manifests = {"complete", "incomplete"}
  Complete = {"complete"}
  SigningKeys = {"checkpoint", "registry"}
  RegistryKeys = {"registry"}
  KeysetMaxAge = 0
  AuditMaxAge = 0
  AuditSkew = 0
SYMMETRY Symmetry
PROPERTY ArtifactsAreKept
