\* Two users, either of whom may be the authority, one id each, a configuration
\* that can be tightened or loosened between the two proofs, and fairness of the
\* clock and of closing; no symmetry, since a liveness property is among those.
CONSTANTS
  alice = alice
  bob = bob
  id1 = id1
  id2 = id2
  NoAccount = NoAccount
  Users <- TwoUsers
  HandshakeIds <- OneId
  HandshakeTtl = 2
  EntropyCap = 1
  RateScale = 2
  MaxU64 = 4
  Durations = {0, 1}
  Difficulties = {1, 2}
  Entropies = {0, 1, 2}
  Rates = {1}
  Amounts = {1}
  MaxClock = 2
  MaxHandshakes = 2
SPECIFICATION FairSpec
CHECK_DEADLOCK FALSE
INVARIANTS
  TotalsMatchRecords
  SupplyBacked
PROPERTIES
  RentReclaimed
