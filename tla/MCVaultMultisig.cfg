\* Every list of three signers out of four wallets, repeated keys included.
CONSTANTS
  founder = founder
  joe = joe
  backup = backup
  stranger = stranger
  NoAction = NoAction
  Signers <- FourWallets
SPECIFICATION MultisigSpec
INVARIANTS
  OneApprovalPerKey
  PendingMatchesApprovals
PROPERTIES
  MigrateApprovalsGenuine
  NoSingleSigner
