\* One attestation, observations all over the simplex and beside it.
CONSTANTS
  alice = alice
  bob = bob
  h1 = h1
  h2 = h2
  NoAccount = NoAccount
  NoHash = NoHash
  Users <- OneUser
  Precision = 30
  Tolerance = 1
  AlphaScale = 4
  MaxU64 = 63
  Gazes <- SomeGazes
  Seeds <- SomeSeeds
  Factors <- SomeFactors
  Alphas = {0, 1, 4}
  AuditHashes = {h1, h2}
  RiskScores = {0, 1}
  MaxRisk = 0
  MaxClock = 1
SYMMETRY HashSymmetry
SPECIFICATION AgtSpec
CHECK_DEADLOCK FALSE
INVARIANTS
  WeightsOnSimplex
  HashesCurrent
  
  AuditsCounted
PROPERTIES
  ChainFollowsClient
  FirstAuditFinal
  ImplementsLifecycle
