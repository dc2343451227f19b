\* One property, refuted: an expired position can be upgraded.
CONSTANTS
  alice = alice
  other = other
  JTX = JTX
  NoAccount = NoAccount
  Users <- OneUser
  Mints <- TwoMints
  Required <- RequiredJtx
  Duration <- LongTerms
  BasicMintCap = 2
  MaxU32 = 3
  MaxU64 = 4
  Period = 2
  BaseAmounts = {0, 1}
  Wallets <- MixedWallets
  MaxClock = 6
SPECIFICATION Spec
CHECK_DEADLOCK FALSE
PROPERTIES
  OnlyActiveUpgraded
