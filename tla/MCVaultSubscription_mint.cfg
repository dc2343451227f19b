\* One user, a long enough life for periods, terms and upgrades to interleave.
CONSTANTS
  alice = alice
  other = other
  JTX = JTX
  NoAccount = NoAccount
  Users <- OneUser
  Mints <- TwoMints
  Required <- RequiredJtx
  Duration <- LongTerms
  BasicMintCap = 2
  MaxU32 = 3
  MaxU64 = 4
  Period = 2
  BaseAmounts = {0, 1}
  Wallets <- MixedWallets
  MaxClock = 6
SPECIFICATION FairSpec
CHECK_DEADLOCK FALSE
INVARIANTS
  StakeMatchesTier
  TierNeedsStake
PROPERTIES
  MintNeedsPosition
  PeriodNotCutShort
  StakeReturned
  ImplementsLock
