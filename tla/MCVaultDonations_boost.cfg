\* One property, refuted: a donor who has the 1.5x and gives again loses it.
CONSTANTS
  alice = alice
  bob = bob
  joe = joe
  moe = moe
  h1 = h1
  NoAccount = NoAccount
  NoHash = NoHash
  Users <- OneUser
  Precision = 6
  Tolerance = 0
  AlphaScale = 1
  MaxU64 = 301
  Gazes <- Centre
  Seeds <- Centre
  Factors <- Centre
  Alphas = {0}
  AuditHashes = {h1}
  RiskScores = {0}
  MaxRisk = 0
  MaxClock = 2
  Agents <- NoAgents
  Lamports = {1}
  Usdcs = {101}
  PythPrices <- SomePrices
  LamportsPerSol = 1
  UsdcDecimals = 0
  JtxUnit = 1
  JtxPriceUsdc = 8
  MinNftThreshold = 8
  AuditFreshness = 1
  MaxDonations = 2
SPECIFICATION Spec
CHECK_DEADLOCK FALSE
PROPERTIES
  BoostedDonorKeepsBoost
