\* One user, two handshake ids that may expire, be closed and opened again.
CONSTANTS
  alice = alice
  bob = bob
  id1 = id1
  id2 = id2
  NoAccount = NoAccount
  Users <- OneUser
  HandshakeIds <- TwoIds
  HandshakeTtl = 2
  EntropyCap = 1
  RateScale = 1
  MaxU64 = 5
  Durations = {1}
  Difficulties = {1}
  Entropies = {0, 1, 2}
  Rates = {1, 2}
  Amounts = {0, 2}
  MaxClock = 4
  MaxHandshakes = 3
SYMMETRY IdSymmetry
SPECIFICATION Spec
CHECK_DEADLOCK FALSE
INVARIANTS
  TypeOK
  CompleteIffBothProofs
  ProofsWithinLifetime
  FinalizedMatchesRecord
  CountMatchesRecords
PROPERTIES
  EarnedOnlyByCertificate
  CertificatePermanent
  ReopenedNeverFinalizes
  ImplementsCredit
