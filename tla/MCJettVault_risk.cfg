\* One user, risk scores on both sides of the bound for minting.
CONSTANTS
  alice = alice
  bob = bob
  founder = founder
  joe = joe
  h1 = h1
  other = other
  JTX = JTX
  NoAccount = NoAccount
  NoHash = NoHash
  NoAction = NoAction
  Users <- OneUser
  Precision = 6
  Tolerance = 0
  AlphaScale = 1
  MaxU64 = 6
  Gazes <- Centre
  Seeds <- Centre
  Factors <- Centre
  Alphas = {0}
  AuditHashes = {h1}
  RiskScores = {0, 1}
  MaxRisk = 1
  MaxClock = 1
  Required <- RequiredJtx
  Duration <- OneTick
  BasicMintCap = 1
  MaxU32 = 1
  Period = 1
  BaseAmounts = {6}
  Wallets <- OneOfEach
  Mints <- TwoMints
  Signers <- TwoKeys
  MaxMintRisk = 0
SPECIFICATION OneListSpec
CHECK_DEADLOCK FALSE
PROPERTY
  MintNeedsLowRisk
