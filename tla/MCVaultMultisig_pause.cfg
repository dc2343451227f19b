\* One property, refuted: an approval of another action counts for a pause.
CONSTANTS
  founder = founder
  joe = joe
  backup = backup
  stranger = stranger
  NoAction = NoAction
  Signers <- FourWallets
SPECIFICATION MultisigSpec
PROPERTIES
  PauseAgreedByTwo
