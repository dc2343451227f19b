------------------------ MODULE VaultDonationsProofs ------------------------
(***************************************************************************)
(* Theorems about VaultDonations, for every set of donors and agents, every*)
(* amount, price and exponent, and every state of the attestations the     *)
(* receipts depend on: the boost is earned, a receipt promises no more than*)
(* was given, it takes a fresh audit, and the totals of the vault and the  *)
(* agents' ledgers are the sums of what was donated or declared.           *)
(***************************************************************************)
EXTENDS VaultDonations, VaultAgtProofs, SumLemmas

-----------------------------------------------------------------------------
(* Every step is a step of VaultAgt or leaves its state alone, so that what*)
(* VaultAgtProofs shows of AgtSpec holds here.                             *)

LEMMA FundStepsLeaveAgtAlone == [Next]_vars => [AgtNext]_agtVars
BY DEF Next, Donating, DonateSol, DonateJtx, DonateUsdcAgent, LinkAttestation,
       MintDonorNft, vars

LEMMA AttestationsSound == Spec => []AgtSound
<1>1. Init => AgtInit
  BY DEF Init
<1> QED
  BY <1>1, FundStepsLeaveAgtAlone, AlwaysSound, PTL DEF Spec, AgtSpec

-----------------------------------------------------------------------------
(* What the handlers write into a Donor account. *)

FundTypeOK ==
  /\ vault \in Vault /\ lamports \in Nat /\ jtx_stats \in JtxVaultStats
  /\ donor \in [Users -> Donor \cup {NoAccount}]
  /\ acquisition \in [Agents -> [Users -> U64 \cup {NoAccount}]]
  /\ ledger \in [Agents -> AgentLedger \cup {NoAccount}]
  /\ receipt \in [Users -> DonorReceipt \cup {NoAccount}]

LEMMA FirstDonor ==
  ASSUME FundTypeOK, NEW u \in Users
  PROVE  /\ DonorOf(u) \in Donor
         /\ donor[u] # NoAccount => DonorOf(u) = donor[u]
         /\ donor[u] = NoAccount => DonorOf(u).amount_lamports = 0 /\ ~DonorOf(u).nft_minted
BY AgtAssumption DEF FundTypeOK, DonorOf, Donor, U64, DefaultBps, ReferredBps

LEMMA DonatedWrites ==
  ASSUME NEW d \in Donor, NEW amount \in Nat, NEW r \in BOOLEAN,
         FitsU64(d.amount_lamports + amount)
  PROVE  /\ Donated(d, amount, r) \in Donor
         /\ Donated(d, amount, r).amount_lamports = d.amount_lamports + amount
         /\ Donated(d, amount, r).optx_multiplier_bps = DefaultBps
         /\ Donated(d, amount, r).nft_minted = d.nft_minted
<1>1. d.amount_lamports \in Nat
  BY AgtAssumption DEF Donor, U64
<1> QED
  BY <1>1 DEF Donated, Donor, FitsU64, DefaultBps, ReferredBps

LEMMA LinkedWrites ==
  ASSUME NEW d \in Donor
  PROVE  /\ Linked(d) \in Donor
         /\ Linked(d).amount_lamports = d.amount_lamports
         /\ Linked(d).nft_minted = d.nft_minted
         /\ Linked(d).attested = TRUE /\ Linked(d).referred = d.referred
         /\ Linked(d).optx_multiplier_bps = ReferredBps => d.referred = TRUE
<1> DEFINE bps == IF d.referred THEN ReferredBps ELSE DefaultBps
<1>1. /\ d.amount_lamports \in U64 /\ d.nft_minted \in BOOLEAN /\ d.referred \in BOOLEAN
      /\ d = [amount_lamports |-> d.amount_lamports, attested |-> d.attested,
             nft_minted |-> d.nft_minted, referred |-> d.referred,
             optx_multiplier_bps |-> d.optx_multiplier_bps]
  BY DEF Donor
<1>2. bps \in {DefaultBps, ReferredBps} /\ (bps = ReferredBps => d.referred = TRUE)
  BY <1>1 DEF DefaultBps, ReferredBps
<1>3. Linked(d) = [d EXCEPT !.attested = TRUE, !.optx_multiplier_bps = bps]
  BY DEF Linked
<1> HIDE DEF bps
<1>4. Linked(d) = [amount_lamports |-> d.amount_lamports, attested |-> TRUE,
                   nft_minted |-> d.nft_minted, referred |-> d.referred,
                   optx_multiplier_bps |-> bps]
  BY <1>1, <1>3
<1> QED
  BY <1>1, <1>2, <1>4 DEF Donor

LEMMA MintedWrites ==
  ASSUME NEW d \in Donor
  PROVE  LET m == [d EXCEPT !.nft_minted = TRUE] IN
         /\ m \in Donor
         /\ m.nft_minted
         /\ m.amount_lamports = d.amount_lamports
         /\ m.attested = d.attested /\ m.referred = d.referred
         /\ m.optx_multiplier_bps = d.optx_multiplier_bps
BY DEF Donor

-----------------------------------------------------------------------------
(* What a receipt promises. *)

LEMMA Multiply ==
  ASSUME NEW a \in Nat, NEW b \in Nat, NEW c \in Nat, a <= b
  PROVE  a * c \in Nat /\ a * c <= b * c
OBVIOUS

LEMMA CastBelow ==
  ASSUME NEW n \in Nat
  PROVE  AsU64(n) \in U64 /\ AsU64(n) \in Nat /\ AsU64(n) <= n
BY AgtAssumption DEF AsU64, U64

LEMMA ValueBelow ==
  ASSUME NEW amount \in Nat, NEW price \in Nat
  PROVE  /\ ValueUsdc(amount, price) \in U64 /\ ValueUsdc(amount, price) \in Nat
         /\ ValueUsdc(amount, price) * LamportsPerSol <= amount * price
<1> DEFINE q == (amount * price) \div LamportsPerSol
<1>1. amount * price \in Nat /\ LamportsPerSol \in Nat \ {0}
  BY DonationsAssumption
<1>2. q \in Nat /\ LamportsPerSol * q <= amount * price
  BY <1>1, DivBounds
<1>3. AsU64(q) \in U64 /\ AsU64(q) \in Nat /\ AsU64(q) <= q
  BY <1>2, CastBelow
<1>4. AsU64(q) * LamportsPerSol <= q * LamportsPerSol
  <2> HIDE DEF q
  <2> QED
    BY <1>1, <1>2, <1>3, Multiply
<1>5. AsU64(q) * LamportsPerSol <= amount * price
  <2> HIDE DEF q
  <2> DEFINE p == amount * price
             k == AsU64(q)
  <2>1. p \in Nat /\ LamportsPerSol * q <= p /\ k \in Nat /\ k * LamportsPerSol <= q * LamportsPerSol
    BY <1>1, <1>2, <1>3, <1>4
  <2> HIDE DEF p, k
  <2>2. k * LamportsPerSol <= p
    BY <1>1, <1>2, <2>1
  <2> QED
    BY <2>2 DEF p, k
<1> QED
  BY <1>3, <1>5 DEF ValueUsdc

LEMMA JtxBelow ==
  ASSUME NEW value \in Nat
  PROVE  /\ JtxFor(value) \in U64 /\ JtxFor(value) \in Nat
         /\ JtxFor(value) * JtxPriceUsdc <= value * JtxUnit
<1> DEFINE q == (value * JtxUnit) \div JtxPriceUsdc
<1>1. value * JtxUnit \in Nat /\ JtxPriceUsdc \in Nat \ {0}
  BY DonationsAssumption
<1>2. q \in Nat /\ JtxPriceUsdc * q <= value * JtxUnit
  BY <1>1, DivBounds
<1>3. AsU64(q) \in U64 /\ AsU64(q) \in Nat /\ AsU64(q) <= q
  BY <1>2, CastBelow
<1>4. AsU64(q) * JtxPriceUsdc <= value * JtxUnit
  <2> HIDE DEF q
  <2> DEFINE p == value * JtxUnit
             k == AsU64(q)
  <2>1. p \in Nat /\ JtxPriceUsdc * q <= p /\ k \in Nat /\ k * JtxPriceUsdc <= q * JtxPriceUsdc
    BY <1>1, <1>2, <1>3, Multiply
  <2> HIDE DEF p, k
  <2>2. k * JtxPriceUsdc <= p
    BY <1>1, <1>2, <2>1
  <2> QED
    BY <2>2 DEF p, k
<1> QED
  BY <1>3, <1>4 DEF JtxFor

(* The multiplier applies once, after two divisions that round down. *)
LEMMA EntitledBelow ==
  ASSUME NEW amount \in Nat, NEW price \in Nat, NEW bps \in Nat,
         FitsU64(JtxFor(ValueUsdc(amount, price)) * bps)
  PROVE  /\ Entitled(ValueUsdc(amount, price), bps) \in U64
         /\ Entitled(ValueUsdc(amount, price), bps) * JtxPriceUsdc * LamportsPerSol * 100
              <= amount * price * JtxUnit * bps
<1> DEFINE v == ValueUsdc(amount, price)
           j == JtxFor(v)
           e == (j * bps) \div 100
<1>1. LamportsPerSol \in Nat /\ JtxPriceUsdc \in Nat /\ JtxUnit \in Nat /\ MaxU64 \in Nat
  BY DonationsAssumption, AgtAssumption
<1>2. v \in Nat /\ v * LamportsPerSol <= amount * price
  BY ValueBelow
<1>3. j \in Nat /\ j * JtxPriceUsdc <= v * JtxUnit
  <2> HIDE DEF v
  <2> QED
    BY <1>2, JtxBelow
<1>4. Entitled(v, bps) = e /\ FitsU64(j * bps)
  BY DEF Entitled
<1> HIDE DEF v, j
<1>5. j * bps \in Nat /\ e \in Nat /\ 100 * e <= j * bps
  BY <1>3, DivBounds
<1>6. e \in U64
  BY <1>1, <1>4, <1>5 DEF FitsU64, U64
<1> HIDE DEF e
<1>7. e * 100 <= j * bps
  BY <1>5
<1>8. (e * 100) * (JtxPriceUsdc * LamportsPerSol) <= (j * bps) * (JtxPriceUsdc * LamportsPerSol)
  BY <1>1, <1>5, <1>7, Multiply
<1>9. (j * JtxPriceUsdc) * (bps * LamportsPerSol) <= (v * JtxUnit) * (bps * LamportsPerSol)
  BY <1>1, <1>2, <1>3, Multiply
<1>10. (v * LamportsPerSol) * (JtxUnit * bps) <= (amount * price) * (JtxUnit * bps)
  BY <1>1, <1>2, Multiply
<1>11. (j * bps) * (JtxPriceUsdc * LamportsPerSol) = (j * JtxPriceUsdc) * (bps * LamportsPerSol)
  BY <1>1, <1>3
<1>12. (v * JtxUnit) * (bps * LamportsPerSol) = (v * LamportsPerSol) * (JtxUnit * bps)
  BY <1>1, <1>2
<1>13. (e * 100) * (JtxPriceUsdc * LamportsPerSol) = e * JtxPriceUsdc * LamportsPerSol * 100
  BY <1>1, <1>5
<1>14. (amount * price) * (JtxUnit * bps) = amount * price * JtxUnit * bps
  BY <1>1
<1>15. /\ (e * 100) * (JtxPriceUsdc * LamportsPerSol) \in Int
       /\ (j * bps) * (JtxPriceUsdc * LamportsPerSol) \in Int
       /\ (v * JtxUnit) * (bps * LamportsPerSol) \in Int
       /\ (amount * price) * (JtxUnit * bps) \in Int
  BY <1>1, <1>2, <1>3, <1>5
<1>16. (e * 100) * (JtxPriceUsdc * LamportsPerSol) <= (amount * price) * (JtxUnit * bps)
  <2> DEFINE x1 == (e * 100) * (JtxPriceUsdc * LamportsPerSol)
             x2 == (j * bps) * (JtxPriceUsdc * LamportsPerSol)
             x3 == (v * JtxUnit) * (bps * LamportsPerSol)
             x4 == (amount * price) * (JtxUnit * bps)
  <2>1. x1 <= x2 /\ x2 <= x3 /\ x3 <= x4 /\ x1 \in Int /\ x2 \in Int /\ x3 \in Int /\ x4 \in Int
    BY <1>8, <1>9, <1>10, <1>11, <1>12, <1>15
  <2> HIDE DEF x1, x2, x3, x4
  <2>2. x1 <= x4
    BY <2>1
  <2> QED
    BY <2>2 DEF x1, x4
<1> QED
  BY <1>4, <1>6, <1>13, <1>14, <1>16 DEF v

LEMMA ReceiptMinted ==
  ASSUME AgtTypeOK, FundTypeOK, NEW u \in Users, NEW pyth \in PythPrices, MintDonorNft(u, pyth)
  PROVE  \E r \in DonorReceipt :
           /\ receipt' = [receipt EXCEPT ![u] = r]
           /\ r.donation_lamports = donor[u].amount_lamports
           /\ r.donation_value_usdc >= MinNftThreshold
           /\ r.jtx_entitled * JtxPriceUsdc * LamportsPerSol * 100
                <= r.donation_lamports * r.sol_price_usdc * JtxUnit * r.multiplier_bps
<1> DEFINE amount == donor[u].amount_lamports
           bps == donor[u].optx_multiplier_bps
           price == ScalePythToUsdc(pyth)
           value == ValueUsdc(amount, price)
           jtx == Entitled(value, bps)
           r == [donation_lamports |-> amount, donation_value_usdc |-> value,
                 sol_price_usdc |-> price, jtx_entitled |-> jtx,
                 multiplier_bps |-> bps, minted_at |-> clock]
<1>1. /\ donor[u] # NoAccount /\ FitsU64(price) /\ value >= MinNftThreshold
      /\ FitsU64(JtxFor(value) * bps)
      /\ receipt' = [receipt EXCEPT ![u] = r]
  BY DEF MintDonorNft
<1>2. donor[u] \in Donor
  BY <1>1 DEF FundTypeOK
<1>3. amount \in U64 /\ bps \in {DefaultBps, ReferredBps}
  BY <1>2 DEF Donor
<1>4. amount \in Nat /\ bps \in Nat /\ price \in U64 /\ price \in Nat
  BY <1>1, <1>3, AgtAssumption DEF U64, FitsU64, DefaultBps, ReferredBps
<1> HIDE DEF amount, bps, price
<1>5. value \in U64
  BY <1>4, ValueBelow
<1>6. /\ jtx \in U64
      /\ jtx * JtxPriceUsdc * LamportsPerSol * 100 <= amount * price * JtxUnit * bps
  BY <1>1, <1>4, EntitledBelow
<1>7. clock \in Nat
  BY DEF AgtTypeOK
<1> HIDE DEF value, jtx
<1>8. r \in DonorReceipt
  BY <1>3, <1>4, <1>5, <1>6, <1>7 DEF DonorReceipt
<1>9. /\ r.donation_lamports = amount /\ r.donation_value_usdc = value
      /\ r.sol_price_usdc = price /\ r.jtx_entitled = jtx /\ r.multiplier_bps = bps
  OBVIOUS
<1> HIDE DEF r
<1>10. r.jtx_entitled * JtxPriceUsdc * LamportsPerSol * 100
         <= r.donation_lamports * r.sol_price_usdc * JtxUnit * r.multiplier_bps
  BY <1>6, <1>9
<1> QED
  BY <1>1, <1>8, <1>9, <1>10 DEF amount

-----------------------------------------------------------------------------
(* What a step does to one donor and one receipt: nothing, or one of three *)
(* things.                                                                 *)

Gave(d, e) ==
  /\ e.optx_multiplier_bps = DefaultBps
  /\ d # NoAccount => e.amount_lamports >= d.amount_lamports /\ e.nft_minted = d.nft_minted
  /\ d = NoAccount => e.nft_minted = FALSE

GotLinked(d, e) ==
  /\ d # NoAccount
  /\ e.amount_lamports = d.amount_lamports /\ e.nft_minted = d.nft_minted
  /\ e.optx_multiplier_bps = ReferredBps => e.attested = TRUE /\ e.referred = TRUE

LEMMA DonorTypes ==
  FundTypeOK => \A u \in Users : donor[u] # NoAccount =>
    /\ donor[u] \in Donor /\ donor[u].amount_lamports \in Nat
    /\ donor[u].nft_minted \in BOOLEAN
BY AgtAssumption DEF FundTypeOK, Donor, U64

LEMMA CountersType ==
  ASSUME NEW v \in Vault, NEW stats \in JtxVaultStats, NEW n \in Nat
  PROVE  /\ FitsU64(v.raised_lamports + n) => Raised(v, n) \in Vault
         /\ [v EXCEPT !.donor_count = @ + 1] \in Vault
         /\ FitsU64(v.raised_usdc + n) =>
              [v EXCEPT !.raised_usdc = @ + n, !.agent_count = @ + 1] \in Vault
         /\ FitsU64(stats.total_jtx_raised + n) =>
              [stats EXCEPT !.total_jtx_raised = @ + n, !.jtx_donor_count = @ + 1]
                \in JtxVaultStats
<1>1. v.donor_count + 1 \in Nat /\ v.agent_count + 1 \in Nat /\ stats.jtx_donor_count + 1 \in Nat
  BY DEF Vault, JtxVaultStats
<1> QED
  BY <1>1 DEF Vault, JtxVaultStats, Raised, FitsU64

LEMMA SolDonation ==
  ASSUME FundTypeOK, NEW u \in Users, NEW amount \in Lamports, NEW r \in BOOLEAN,
         DonateSol(u, amount, r)
  PROVE  FundTypeOK' /\ \E e \in Donor : Gave(donor[u], e) /\ donor' = [donor EXCEPT ![u] = e]
<1> DEFINE e == Donated(DonorOf(u), amount, r)
<1>1. amount \in Nat
  BY DonationsAssumption
<1>2. /\ FitsU64(DonorOf(u).amount_lamports + amount) /\ FitsU64(vault.raised_lamports + amount)
      /\ lamports' = lamports + amount /\ donor' = [donor EXCEPT ![u] = e]
      /\ vault' = Raised(vault, amount)
      /\ UNCHANGED <<jtx_stats, acquisition, ledger, receipt>>
  BY DEF DonateSol
<1>3. DonorOf(u) \in Donor /\ DonorOf(u).amount_lamports \in Nat
  BY FirstDonor, AgtAssumption DEF Donor, U64
<1>4. /\ e \in Donor /\ e.amount_lamports = DonorOf(u).amount_lamports + amount
      /\ e.optx_multiplier_bps = DefaultBps /\ e.nft_minted = DonorOf(u).nft_minted
  BY <1>1, <1>2, <1>3, DonatedWrites
<1>5. Raised(vault, amount) \in Vault
  BY <1>1, <1>2, CountersType DEF FundTypeOK
<1> HIDE DEF e
<1>6. Gave(donor[u], e)
  <2>1. CASE donor[u] # NoAccount
    BY <1>1, <1>3, <1>4, <2>1, FirstDonor DEF Gave
  <2>2. CASE donor[u] = NoAccount
    <3>1. DonorOf(u).nft_minted \in BOOLEAN
      BY <1>3 DEF Donor
    <3> QED
      BY <1>4, <2>2, <3>1, FirstDonor DEF Gave
  <2> QED
    BY <2>1, <2>2
<1>7. FundTypeOK'
  BY <1>1, <1>2, <1>4, <1>5 DEF FundTypeOK
<1> QED
  BY <1>2, <1>4, <1>6, <1>7

LEMMA JtxDonation ==
  ASSUME FundTypeOK, NEW u \in Users, NEW amount \in Lamports, NEW r \in BOOLEAN,
         DonateJtx(u, amount, r)
  PROVE  FundTypeOK' /\ \E e \in Donor : Gave(donor[u], e) /\ donor' = [donor EXCEPT ![u] = e]
<1> DEFINE e == Donated(DonorOf(u), 0, r)
           stats == [jtx_stats EXCEPT !.total_jtx_raised = @ + amount, !.jtx_donor_count = @ + 1]
           v == [vault EXCEPT !.donor_count = @ + 1]
<1>1. amount \in Nat
  BY DonationsAssumption
<1>2. /\ FitsU64(jtx_stats.total_jtx_raised + amount)
      /\ donor' = [donor EXCEPT ![u] = e] /\ jtx_stats' = stats /\ vault' = v
      /\ UNCHANGED <<lamports, acquisition, ledger, receipt>>
  BY DEF DonateJtx
<1>3. DonorOf(u) \in Donor /\ DonorOf(u).amount_lamports \in Nat /\ DonorOf(u).amount_lamports \in U64
  BY FirstDonor, AgtAssumption DEF Donor, U64
<1>4. /\ e \in Donor /\ e.amount_lamports = DonorOf(u).amount_lamports + 0
      /\ e.optx_multiplier_bps = DefaultBps /\ e.nft_minted = DonorOf(u).nft_minted
  <2>1. DonorOf(u).amount_lamports + 0 = DonorOf(u).amount_lamports
    BY <1>3
  <2>2. FitsU64(DonorOf(u).amount_lamports + 0)
    BY <1>3, <2>1 DEF FitsU64
  <2> QED
    BY <1>3, <2>2, DonatedWrites
<1>5. stats \in JtxVaultStats /\ v \in Vault
  BY <1>1, <1>2, CountersType DEF FundTypeOK
<1> HIDE DEF e, stats, v
<1>6. Gave(donor[u], e)
  <2>1. CASE donor[u] # NoAccount
    BY <1>3, <1>4, <2>1, FirstDonor DEF Gave
  <2>2. CASE donor[u] = NoAccount
    <3>1. DonorOf(u).nft_minted \in BOOLEAN
      BY <1>3 DEF Donor
    <3> QED
      BY <1>4, <2>2, <3>1, FirstDonor DEF Gave
  <2> QED
    BY <2>1, <2>2
<1>7. FundTypeOK'
  BY <1>2, <1>4, <1>5 DEF FundTypeOK
<1> QED
  BY <1>2, <1>4, <1>6, <1>7

LEMMA UsdcDeclared ==
  ASSUME FundTypeOK, NEW a \in Agents, NEW u \in Users, NEW amount \in Usdcs,
         DonateUsdcAgent(a, u, amount)
  PROVE  FundTypeOK'
<1> DEFINE l == [total_usdc_paid |-> LedgerOf(a).total_usdc_paid + amount,
                 users_acquired |-> LedgerOf(a).users_acquired + 1]
           v == [vault EXCEPT !.raised_usdc = @ + amount, !.agent_count = @ + 1]
<1>1. amount \in Nat
  BY DonationsAssumption
<1>2. /\ FitsU64(LedgerOf(a).total_usdc_paid + amount) /\ FitsU64(vault.raised_usdc + amount)
      /\ acquisition' = [acquisition EXCEPT ![a][u] = amount]
      /\ ledger' = [ledger EXCEPT ![a] = l] /\ vault' = v
      /\ UNCHANGED <<lamports, donor, jtx_stats, receipt>>
  BY DEF DonateUsdcAgent
<1>3. LedgerOf(a) \in AgentLedger
  BY AgtAssumption DEF LedgerOf, AgentLedger, FundTypeOK, U64
<1>4. LedgerOf(a).total_usdc_paid \in Nat /\ LedgerOf(a).users_acquired \in Nat
  BY <1>3, AgtAssumption DEF AgentLedger, U64
<1>5. l \in AgentLedger
  BY <1>1, <1>2, <1>4 DEF AgentLedger, FitsU64
<1>6. v \in Vault
  BY <1>1, <1>2, CountersType DEF FundTypeOK
<1>7. amount \in U64
  BY <1>1, <1>2, <1>4, AgtAssumption DEF FitsU64, U64
<1> HIDE DEF l, v
<1>8. acquisition' \in [Agents -> [Users -> U64 \cup {NoAccount}]]
  BY <1>2, <1>7 DEF FundTypeOK
<1> QED
  BY <1>2, <1>5, <1>6, <1>8 DEF FundTypeOK

LEMMA Linking ==
  ASSUME FundTypeOK, NEW u \in Users, LinkAttestation(u)
  PROVE  FundTypeOK' /\ \E e \in Donor : GotLinked(donor[u], e) /\ donor' = [donor EXCEPT ![u] = e]
<1>1. /\ donor[u] # NoAccount /\ donor' = [donor EXCEPT ![u] = Linked(donor[u])]
      /\ UNCHANGED <<vault, lamports, jtx_stats, acquisition, ledger, receipt>>
  BY DEF LinkAttestation, FundTypeOK
<1>2. donor[u] \in Donor
  BY <1>1 DEF FundTypeOK
<1>3. Linked(donor[u]) \in Donor /\ GotLinked(donor[u], Linked(donor[u]))
  BY <1>1, <1>2, LinkedWrites DEF GotLinked
<1>4. FundTypeOK'
  BY <1>1, <1>3 DEF FundTypeOK
<1> QED
  BY <1>1, <1>3, <1>4

LEMMA Minting ==
  ASSUME AgtTypeOK, FundTypeOK, NEW u \in Users, NEW pyth \in PythPrices, MintDonorNft(u, pyth)
  PROVE  /\ FundTypeOK'
         /\ donor[u] # NoAccount /\ receipt[u] = NoAccount
         /\ donor' = [donor EXCEPT ![u] = [donor[u] EXCEPT !.nft_minted = TRUE]]
<1>1. /\ donor[u] # NoAccount /\ receipt[u] = NoAccount
      /\ donor' = [donor EXCEPT ![u] = [donor[u] EXCEPT !.nft_minted = TRUE]]
      /\ UNCHANGED <<vault, lamports, jtx_stats, acquisition, ledger>>
  BY DEF MintDonorNft, FundTypeOK
<1>2. [donor[u] EXCEPT !.nft_minted = TRUE] \in Donor
  BY <1>1, MintedWrites DEF FundTypeOK
<1>3. PICK r \in DonorReceipt : receipt' = [receipt EXCEPT ![u] = r]
  BY ReceiptMinted
<1> QED
  BY <1>1, <1>2, <1>3 DEF FundTypeOK

LEMMA FundTypeStep == AgtTypeOK /\ FundTypeOK /\ [Next]_vars => FundTypeOK'
<1> SUFFICES ASSUME AgtTypeOK, FundTypeOK, [Next]_vars PROVE FundTypeOK'
  OBVIOUS
<1>1. ASSUME NEW u \in Users, Donating(u) PROVE FundTypeOK'
  BY <1>1, SolDonation, JtxDonation, UsdcDeclared, Linking, Minting DEF Donating
<1>2. ASSUME UNCHANGED fundVars PROVE FundTypeOK'
  BY <1>2 DEF fundVars, FundTypeOK
<1> QED
  BY <1>1, <1>2 DEF Next, vars

(* The accounts and totals of the fundraising always have their types: no  *)
(* sum of donations overflows its u64 unnoticed, no receipt its fields.    *)
THEOREM DonationsTypeCorrect == Spec => []TypeOK
<1>1. Init => FundTypeOK
  BY AgtAssumption DEF Init, FundTypeOK, Vault, JtxVaultStats, U64
<1>2. AgtSound => AgtTypeOK
  BY DEF AgtSound
<1>3. AgtTypeOK /\ FundTypeOK => TypeOK
  BY DEF TypeOK, FundTypeOK
<1> QED
  BY <1>1, <1>2, <1>3, FundTypeStep, AttestationsSound, PTL DEF Spec

LEMMA FundsTyped == Spec => [](AgtTypeOK /\ FundTypeOK)
<1>1. TypeOK => AgtTypeOK /\ FundTypeOK
  BY DEF TypeOK, FundTypeOK
<1> QED
  BY <1>1, DonationsTypeCorrect, PTL

-----------------------------------------------------------------------------
(* The boost and the receipts. *)

Boost(d) ==
  d # NoAccount /\ d.optx_multiplier_bps = ReferredBps => d.attested /\ d.referred

Backed(r, d) ==
  IF r = NoAccount
  THEN d # NoAccount => ~d.nft_minted
  ELSE /\ d # NoAccount /\ d.nft_minted
       /\ r.donation_lamports <= d.amount_lamports
       /\ r.donation_value_usdc >= MinNftThreshold
       /\ r.jtx_entitled * JtxPriceUsdc * LamportsPerSol * 100
            <= r.donation_lamports * r.sol_price_usdc * JtxUnit * r.multiplier_bps

FundInv == BoostEarned /\ ReceiptBacked

LEMMA FundInvPointwise ==
  FundInv <=> \A u \in Users : Boost(donor[u]) /\ Backed(receipt[u], donor[u])
BY DEF FundInv, BoostEarned, ReceiptBacked, Donors, Boost, Backed

LEMMA FundInvPointwisePrime ==
  FundInv' <=> \A u \in Users : Boost(donor'[u]) /\ Backed(receipt'[u], donor'[u])
BY DEF FundInv, BoostEarned, ReceiptBacked, Donors, Boost, Backed

(* One donor changes, the receipts do not.                                 *)
LEMMA DonorChanged ==
  ASSUME FundTypeOK, FundInv, NEW u \in Users, NEW e \in Donor,
         donor' = [donor EXCEPT ![u] = e], receipt' = receipt,
         Gave(donor[u], e) \/ GotLinked(donor[u], e)
  PROVE  FundInv'
<1>1. \A v \in Users : Boost(donor[v]) /\ Backed(receipt[v], donor[v])
  BY FundInvPointwise
<1>2. \A v \in Users : donor'[v] = IF v = u THEN e ELSE donor[v]
  BY DEF FundTypeOK
<1>3. Boost(e)
  BY DEF Gave, GotLinked, Boost, DefaultBps, ReferredBps
<1>4. Backed(receipt[u], e)
  <2>1. /\ e # NoAccount /\ e.amount_lamports \in Nat
    BY NoFundAccountAssumption, AgtAssumption DEF Donor, U64
  <2>2. CASE receipt[u] = NoAccount
    BY <1>1, <2>2 DEF Gave, GotLinked, Backed
  <2>3. CASE receipt[u] # NoAccount
    <3>1. donor[u] # NoAccount /\ e.nft_minted = donor[u].nft_minted
      BY <1>1, <2>3 DEF Gave, GotLinked, Backed
    <3>2. donor[u].amount_lamports \in Nat /\ e.amount_lamports >= donor[u].amount_lamports
      BY <3>1, <2>1, DonorTypes DEF Gave, GotLinked
    <3>3. receipt[u].donation_lamports \in Nat
      BY <2>3, AgtAssumption DEF FundTypeOK, DonorReceipt, U64
    <3>4. receipt[u].donation_lamports <= e.amount_lamports
      <4>1. receipt[u].donation_lamports <= donor[u].amount_lamports
        BY <1>1, <2>3 DEF Backed
      <4> QED
        BY <2>1, <3>2, <3>3, <4>1
    <3> QED
      BY <1>1, <2>1, <2>3, <3>1, <3>4 DEF Backed
  <2> QED
    BY <2>2, <2>3
<1> QED
  BY <1>1, <1>2, <1>3, <1>4, FundInvPointwisePrime

LEMMA FundInvStep == AgtTypeOK /\ FundTypeOK /\ FundInv /\ [Next]_vars => FundInv'
<1> SUFFICES ASSUME AgtTypeOK, FundTypeOK, FundInv, [Next]_vars PROVE FundInv'
  OBVIOUS
<1>0. \A v \in Users : Boost(donor[v]) /\ Backed(receipt[v], donor[v])
  BY FundInvPointwise
<1>1. ASSUME NEW u \in Users, NEW amount \in Lamports, NEW r \in BOOLEAN,
             DonateSol(u, amount, r)
      PROVE  FundInv'
  <2>1. receipt' = receipt
    BY <1>1 DEF DonateSol
  <2> QED
    BY <1>1, <2>1, SolDonation, DonorChanged
<1>2. ASSUME NEW u \in Users, NEW amount \in Lamports, NEW r \in BOOLEAN,
             DonateJtx(u, amount, r)
      PROVE  FundInv'
  <2>1. receipt' = receipt
    BY <1>2 DEF DonateJtx
  <2> QED
    BY <1>2, <2>1, JtxDonation, DonorChanged
<1>3. ASSUME UNCHANGED <<donor, receipt>> PROVE FundInv'
  BY <1>0, <1>3, FundInvPointwisePrime
<1>4. ASSUME NEW u \in Users, LinkAttestation(u) PROVE FundInv'
  <2>1. receipt' = receipt
    BY <1>4 DEF LinkAttestation
  <2> QED
    BY <1>4, <2>1, Linking, DonorChanged
<1>5. ASSUME NEW u \in Users, NEW pyth \in PythPrices, MintDonorNft(u, pyth)
      PROVE  FundInv'
  <2> DEFINE e == [donor[u] EXCEPT !.nft_minted = TRUE]
  <2>1. PICK r \in DonorReceipt :
           /\ receipt' = [receipt EXCEPT ![u] = r]
           /\ r.donation_lamports = donor[u].amount_lamports
           /\ r.donation_value_usdc >= MinNftThreshold
           /\ r.jtx_entitled * JtxPriceUsdc * LamportsPerSol * 100
                <= r.donation_lamports * r.sol_price_usdc * JtxUnit * r.multiplier_bps
    BY <1>5, ReceiptMinted
  <2>2. donor[u] # NoAccount /\ donor' = [donor EXCEPT ![u] = e]
    BY <1>5, Minting
  <2>3. donor[u] \in Donor
    BY <2>2 DEF FundTypeOK
  <2>4. /\ e \in Donor /\ e.nft_minted = TRUE
        /\ e.amount_lamports = donor[u].amount_lamports
        /\ e.attested = donor[u].attested /\ e.referred = donor[u].referred
        /\ e.optx_multiplier_bps = donor[u].optx_multiplier_bps
    BY <2>3 DEF Donor
  <2> HIDE DEF e
  <2>5. e # NoAccount /\ r # NoAccount /\ e.amount_lamports \in Nat
    BY <2>4, NoFundAccountAssumption, AgtAssumption DEF Donor, U64
  <2>6. Boost(e)
    BY <1>0, <2>2, <2>4 DEF Boost
  <2>7. Backed(r, e)
    BY <2>1, <2>4, <2>5 DEF Backed
  <2>8. \A v \in Users : /\ donor'[v] = IF v = u THEN e ELSE donor[v]
                         /\ receipt'[v] = IF v = u THEN r ELSE receipt[v]
    BY <2>1, <2>2 DEF FundTypeOK
  <2> QED
    BY <1>0, <2>6, <2>7, <2>8, FundInvPointwisePrime
<1> QED
  BY <1>1, <1>2, <1>3, <1>4, <1>5
     DEF Next, Donating, DonateUsdcAgent, vars, fundVars

LEMMA FundInvariant == Spec => []FundInv
<1>1. Init => FundInv
  BY DEF Init, FundInv, BoostEarned, ReceiptBacked, Donors
<1> QED
  BY <1>1, FundInvStep, FundsTyped, PTL DEF Spec

(* Nobody has the multiplier who did not attest and name a referrer, in    *)
(* whichever order donations and links come (donate_sol, link_attestation).*)
THEOREM BoostsAreEarned == Spec => []BoostEarned
<1>1. FundInv => BoostEarned
  BY DEF FundInv
<1> QED
  BY <1>1, FundInvariant, PTL

(* For every price and exponent, whatever the casts cut off, the JTX a     *)
(* receipt promises is worth no more than what its donor gave, times the   *)
(* multiplier (mint_donor_nft).                                            *)
THEOREM ReceiptsAreBacked == Spec => []ReceiptBacked
<1>1. FundInv => ReceiptBacked
  BY DEF FundInv
<1> QED
  BY <1>1, FundInvariant, PTL

(* A receipt is minted once, against a valid attestation audited a short   *)
(* while ago, and never changes (mint_donor_nft).                          *)
THEOREM ReceiptsNeedFreshAudits == Spec => ReceiptNeedsFreshAudit
<1>1. AgtTypeOK /\ FundTypeOK /\ [Next]_vars =>
        [\A u \in Users : receipt'[u] # receipt[u] =>
           /\ receipt[u] = NoAccount
           /\ agt[u] # NoAccount /\ agt[u].is_valid
           /\ audit[u] # NoAccount /\ clock <= audit[u].audited_at + AuditFreshness]_vars
  <2> SUFFICES ASSUME AgtTypeOK, FundTypeOK, Next,
                      NEW u \in Users, receipt'[u] # receipt[u]
               PROVE  /\ receipt[u] = NoAccount
                      /\ agt[u] # NoAccount /\ agt[u].is_valid
                      /\ audit[u] # NoAccount /\ clock <= audit[u].audited_at + AuditFreshness
    OBVIOUS
  <2>1. PICK v \in Users, pyth \in PythPrices : MintDonorNft(v, pyth)
    BY DEF Next, Donating, DonateSol, DonateJtx, DonateUsdcAgent, LinkAttestation, fundVars
  <2>2. v = u
    <3>1. PICK r : receipt' = [receipt EXCEPT ![v] = r]
      BY <2>1, ReceiptMinted
    <3> QED
      BY <3>1 DEF FundTypeOK
  <2>3. /\ receipt[u] = NoAccount /\ agt[u] # NoAccount /\ agt[u].is_valid
        /\ audit[u] # NoAccount /\ clock - audit[u].audited_at <= AuditFreshness
    BY <2>1, <2>2 DEF MintDonorNft, Valid, FreshAudit
  <2>4. audit[u].audited_at \in Nat /\ clock \in Nat /\ AuditFreshness \in Nat
    BY <2>3, DonationsAssumption DEF AgtTypeOK, AaronAuditAccount
  <2> QED
    BY <2>3, <2>4
<1> QED
  BY <1>1, FundsTyped, PTL DEF Spec, ReceiptNeedsFreshAudit

-----------------------------------------------------------------------------
(* The SOL.  A donation adds its amount to the sum over the donors, whether*)
(* the donor is new or not; no other step changes what a donor gave.       *)

Given == [u \in Donors |-> donor[u].amount_lamports]

LEMMA GivenIsNat ==
  FundTypeOK => IsFiniteSet(Donors) /\ Given \in [Donors -> Nat]
<1> SUFFICES ASSUME FundTypeOK PROVE IsFiniteSet(Donors) /\ Given \in [Donors -> Nat]
  OBVIOUS
<1>1. Donors \subseteq Users
  BY DEF Donors
<1>2. \A u \in Donors : donor[u].amount_lamports \in Nat
  BY DonorTypes DEF Donors
<1> QED
  BY <1>1, <1>2, AgtUsersFinite, FS_Subset DEF Given

LEMMA GivenGrows ==
  ASSUME FundTypeOK, FundTypeOK', NEW u \in Users, NEW e \in Donor, NEW n \in Nat,
         donor' = [donor EXCEPT ![u] = e],
         e.amount_lamports = DonorOf(u).amount_lamports + n
  PROVE  SumFunction(Given') = SumFunction(Given) + n
<1>1. IsFiniteSet(Donors) /\ Given \in [Donors -> Nat]
  BY GivenIsNat
<1>2. Given' \in [Donors' -> Nat]
  <2>1. \A v \in Donors' : donor'[v].amount_lamports \in Nat
    BY AgtAssumption DEF FundTypeOK, Donors, Donor, U64
  <2> QED
    BY <2>1 DEF Given
<1>3. /\ donor'[u] = e /\ \A v \in Users \ {u} : donor'[v] = donor[v]
      /\ e # NoAccount /\ e.amount_lamports \in Nat
  BY NoFundAccountAssumption, AgtAssumption DEF FundTypeOK, Donor, U64
<1>4. u \in Donors' /\ Given'[u] = e.amount_lamports
  BY <1>3 DEF Donors, Given
<1>5. \A v \in Donors \ {u} : v \in Donors' /\ Given'[v] = Given[v]
  BY <1>3 DEF Donors, Given
<1>6. CASE donor[u] = NoAccount
  <2>1. u \notin Donors /\ Donors' = Donors \cup {u}
    BY <1>3, <1>6 DEF Donors
  <2>2. Given'[u] = n
    BY <1>4, <1>6, FirstDonor
  <2>3. \A v \in Donors : Given'[v] = Given[v]
    BY <1>5, <2>1
  <2>4. SumFunction(Given') = SumFunction(Given) + Given'[u]
    BY <1>1, <1>2, <1>4, <2>1, <2>3, SumOfMore
  <2> QED
    BY <2>2, <2>4
<1>7. CASE donor[u] # NoAccount
  <2>1. u \in Donors /\ Donors' = Donors
    BY <1>3, <1>7 DEF Donors
  <2>2. Given'[u] = Given[u] + n
    BY <1>4, <1>7, <2>1, FirstDonor DEF Given
  <2>3. SumFunction(Given') + Given[u] = SumFunction(Given) + Given'[u]
    BY <1>1, <1>2, <1>5, <2>1, SumOfChange
  <2>4. /\ Given[u] \in Nat /\ SumFunction(Given) \in Nat /\ SumFunction(Given') \in Nat
    BY <1>1, <1>2, <2>1, SumIsNat
  <2> QED
    BY <2>2, <2>3, <2>4
<1> QED
  BY <1>6, <1>7

LEMMA HeldAfter ==
  ASSUME FundTypeOK, DonationsHeld, NEW n \in Nat,
         SumFunction(Given') = SumFunction(Given) + n,
         lamports' = lamports + n, vault'.raised_lamports = vault.raised_lamports + n
  PROVE  DonationsHeld'
BY DEF DonationsHeld, Given

LEMMA HeldStep ==
  AgtTypeOK /\ FundTypeOK /\ FundTypeOK' /\ DonationsHeld /\ [Next]_vars => DonationsHeld'
<1> SUFFICES ASSUME AgtTypeOK, FundTypeOK, FundTypeOK', DonationsHeld, [Next]_vars
             PROVE  DonationsHeld'
  OBVIOUS
<1>0. /\ lamports \in Nat /\ vault.raised_lamports \in Nat
      /\ \A m \in Nat : m + 0 = m
  BY AgtAssumption DEF FundTypeOK, Vault, U64
<1>s. SumFunction(Given) \in Nat
  BY GivenIsNat, SumIsNat
<1>1. ASSUME NEW u \in Users, NEW amount \in Lamports, NEW r \in BOOLEAN,
             DonateSol(u, amount, r)
      PROVE  DonationsHeld'
  <2> DEFINE e == Donated(DonorOf(u), amount, r)
  <2>1. /\ FitsU64(DonorOf(u).amount_lamports + amount)
        /\ lamports' = lamports + amount /\ donor' = [donor EXCEPT ![u] = e]
        /\ vault' = Raised(vault, amount)
    BY <1>1 DEF DonateSol
  <2>2. amount \in Nat
    BY DonationsAssumption
  <2>3. e \in Donor /\ e.amount_lamports = DonorOf(u).amount_lamports + amount
    BY <2>1, <2>2, FirstDonor, DonatedWrites
  <2>4. vault'.raised_lamports = vault.raised_lamports + amount
    BY <2>1 DEF FundTypeOK, Vault, Raised
  <2> HIDE DEF e
  <2> QED
    BY <2>1, <2>2, <2>3, <2>4, GivenGrows, HeldAfter
<1>2. ASSUME NEW u \in Users, NEW e \in Donor, donor' = [donor EXCEPT ![u] = e],
             e.amount_lamports = DonorOf(u).amount_lamports,
             vault'.raised_lamports = vault.raised_lamports, lamports' = lamports
      PROVE  DonationsHeld'
  <2>1. DonorOf(u).amount_lamports \in Nat
    BY FirstDonor, AgtAssumption DEF Donor, U64
  <2>2. /\ e.amount_lamports = DonorOf(u).amount_lamports + 0 /\ lamports' = lamports + 0
        /\ vault'.raised_lamports = vault.raised_lamports + 0
    BY <1>0, <1>2, <2>1
  <2>3. SumFunction(Given') = SumFunction(Given) + 0
    BY <1>2, <2>2, GivenGrows
  <2> QED
    BY <2>2, <2>3, HeldAfter
<1>3. ASSUME NEW u \in Users, NEW amount \in Lamports, NEW r \in BOOLEAN,
             DonateJtx(u, amount, r)
      PROVE  DonationsHeld'
  <2> DEFINE e == Donated(DonorOf(u), 0, r)
  <2>1. /\ donor' = [donor EXCEPT ![u] = e] /\ lamports' = lamports
        /\ vault' = [vault EXCEPT !.donor_count = @ + 1]
    BY <1>3 DEF DonateJtx
  <2>2. DonorOf(u) \in Donor /\ DonorOf(u).amount_lamports \in U64 /\ DonorOf(u).amount_lamports \in Nat
    BY FirstDonor, AgtAssumption DEF Donor, U64
  <2>3. FitsU64(DonorOf(u).amount_lamports + 0)
    BY <1>0, <2>2 DEF FitsU64
  <2>4. e \in Donor /\ e.amount_lamports = DonorOf(u).amount_lamports
    BY <1>0, <2>2, <2>3, DonatedWrites
  <2>5. vault'.raised_lamports = vault.raised_lamports
    BY <2>1 DEF FundTypeOK, Vault
  <2> HIDE DEF e
  <2> QED
    BY <1>2, <2>1, <2>4, <2>5
<1>4. ASSUME NEW u \in Users, LinkAttestation(u) PROVE DonationsHeld'
  <2>1. /\ donor[u] # NoAccount /\ donor' = [donor EXCEPT ![u] = Linked(donor[u])]
        /\ UNCHANGED <<vault, lamports>>
    BY <1>4 DEF LinkAttestation, FundTypeOK
  <2>2. donor[u] \in Donor /\ DonorOf(u) = donor[u]
    BY <2>1, FirstDonor DEF FundTypeOK
  <2>3. Linked(donor[u]) \in Donor /\ Linked(donor[u]).amount_lamports = DonorOf(u).amount_lamports
    BY <2>2, LinkedWrites
  <2> QED
    BY <1>2, <2>1, <2>3
<1>5. ASSUME NEW u \in Users, NEW pyth \in PythPrices, MintDonorNft(u, pyth)
      PROVE  DonationsHeld'
  <2> DEFINE e == [donor[u] EXCEPT !.nft_minted = TRUE]
  <2>1. donor[u] # NoAccount /\ donor' = [donor EXCEPT ![u] = e]
    BY <1>5, Minting
  <2>2. donor[u] \in Donor /\ DonorOf(u) = donor[u]
    BY <2>1, FirstDonor DEF FundTypeOK
  <2>3. e \in Donor /\ e.amount_lamports = DonorOf(u).amount_lamports
    BY <2>2 DEF Donor
  <2>4. UNCHANGED <<vault, lamports>>
    BY <1>5 DEF MintDonorNft
  <2> HIDE DEF e
  <2> QED
    BY <1>2, <2>1, <2>3, <2>4
<1>6. ASSUME UNCHANGED <<lamports, donor>>, vault'.raised_lamports = vault.raised_lamports
      PROVE  DonationsHeld'
  BY <1>6 DEF DonationsHeld, Donors
<1>7. ASSUME NEW a \in Agents, NEW u \in Users, NEW amount \in Usdcs,
             DonateUsdcAgent(a, u, amount)
      PROVE  DonationsHeld'
  <2>1. /\ UNCHANGED <<lamports, donor>>
        /\ vault' = [vault EXCEPT !.raised_usdc = @ + amount, !.agent_count = @ + 1]
    BY <1>7 DEF DonateUsdcAgent
  <2>2. vault'.raised_lamports = vault.raised_lamports
    BY <2>1 DEF FundTypeOK, Vault
  <2> QED
    BY <1>6, <2>1, <2>2
<1>8. ASSUME UNCHANGED fundVars PROVE DonationsHeld'
  BY <1>6, <1>8 DEF fundVars
<1> QED
  BY <1>1, <1>3, <1>4, <1>5, <1>7, <1>8 DEF Next, Donating, vars

LEMMA HeldAtFirst == Init => DonationsHeld
<1> SUFFICES ASSUME Init PROVE DonationsHeld
  OBVIOUS
<1>1. Donors = {} /\ vault.raised_lamports = 0 /\ lamports = 0
  BY DEF Init, Donors
<1>2. Given \in [{} -> Nat]
  BY <1>1 DEF Given
<1>3. SumFunction(Given) = 0
  BY <1>2, EmptySum
<1> QED
  BY <1>1, <1>3 DEF DonationsHeld, Given

-----------------------------------------------------------------------------
(* The USDC.  A payment adds one acquisition of one agent, whose ledger and*)
(* the vault count it; no other step touches either.                       *)

Spent(a) == [u \in Acquired(a) |-> acquisition[a][u]]

Acquisitions == [a \in Agents |-> Cardinality(Acquired(a))]

LedgerTotal(a) == IF ledger[a] = NoAccount THEN 0 ELSE ledger[a].total_usdc_paid

LedgerTotals == [a \in Agents |-> LedgerTotal(a)]

(* What one agent's ledger has to show.                                    *)
AgentBalanced(a) ==
  IF ledger[a] = NoAccount THEN Acquired(a) = {}
  ELSE /\ ledger[a].users_acquired = Cardinality(Acquired(a))
       /\ ledger[a].total_usdc_paid = SumFunction(Spent(a))

LEMMA Balanced ==
  UsdcRecordsAgree <=> /\ \A a \in Agents : AgentBalanced(a)
                    /\ vault.agent_count = SumFunction(Acquisitions)
                    /\ vault.raised_usdc = SumFunction(LedgerTotals)
BY DEF UsdcRecordsAgree, AgentBalanced, Spent, Acquisitions, LedgerTotals, LedgerTotal

LEMMA BalancedPrime ==
  UsdcRecordsAgree' <=> /\ \A a \in Agents : AgentBalanced(a)'
                     /\ vault'.agent_count = SumFunction(Acquisitions')
                     /\ vault'.raised_usdc = SumFunction(LedgerTotals')
BY DEF UsdcRecordsAgree, AgentBalanced, Spent, Acquisitions, LedgerTotals, LedgerTotal

LEMMA SpentIsNat ==
  ASSUME FundTypeOK, NEW a \in Agents
  PROVE  /\ IsFiniteSet(Acquired(a)) /\ Cardinality(Acquired(a)) \in Nat
         /\ Spent(a) \in [Acquired(a) -> Nat]
         /\ LedgerTotal(a) \in Nat
<1>1. IsFiniteSet(Acquired(a))
  <2>1. Acquired(a) \subseteq Users
    BY DEF Acquired
  <2> QED
    BY <2>1, AgtUsersFinite, FS_Subset
<1>2. \A u \in Acquired(a) : acquisition[a][u] \in Nat
  BY AgtAssumption DEF FundTypeOK, Acquired, U64
<1>3. LedgerTotal(a) \in Nat
  BY AgtAssumption DEF FundTypeOK, LedgerTotal, AgentLedger, U64
<1> QED
  BY <1>1, <1>2, <1>3, FS_CardinalityType DEF Spent

LEMMA SpentIsNatPrime ==
  ASSUME FundTypeOK', NEW a \in Agents
  PROVE  /\ Cardinality(Acquired(a)') \in Nat /\ Spent(a)' \in [Acquired(a)' -> Nat]
         /\ LedgerTotal(a)' \in Nat
<1>1. IsFiniteSet(Acquired(a)')
  <2>1. Acquired(a)' \subseteq Users
    BY DEF Acquired
  <2> QED
    BY <2>1, AgtUsersFinite, FS_Subset
<1>2. \A u \in Acquired(a)' : acquisition'[a][u] \in Nat
  BY AgtAssumption DEF FundTypeOK, Acquired, U64
<1>3. LedgerTotal(a)' \in Nat
  BY AgtAssumption DEF FundTypeOK, LedgerTotal, AgentLedger, U64
<1> QED
  BY <1>1, <1>2, <1>3, FS_CardinalityType DEF Spent

LEMMA PaymentWrites ==
  ASSUME FundTypeOK, NEW a \in Agents, NEW u \in Users, NEW amount \in Usdcs,
         DonateUsdcAgent(a, u, amount)
  PROVE  /\ amount \in Nat /\ amount # NoAccount /\ acquisition[a][u] = NoAccount
         /\ acquisition'[a][u] = amount
         /\ \A v \in Users \ {u} : acquisition'[a][v] = acquisition[a][v]
         /\ \A b \in Agents \ {a} : acquisition'[b] = acquisition[b] /\ ledger'[b] = ledger[b]
         /\ ledger'[a] # NoAccount
         /\ ledger'[a].total_usdc_paid = LedgerOf(a).total_usdc_paid + amount
         /\ ledger'[a].users_acquired = LedgerOf(a).users_acquired + 1
         /\ vault'.raised_usdc = vault.raised_usdc + amount
         /\ vault'.agent_count = vault.agent_count + 1
<1> DEFINE l == [total_usdc_paid |-> LedgerOf(a).total_usdc_paid + amount,
                 users_acquired |-> LedgerOf(a).users_acquired + 1]
<1>1. /\ acquisition[a][u] = NoAccount
      /\ FitsU64(LedgerOf(a).total_usdc_paid + amount)
      /\ acquisition' = [acquisition EXCEPT ![a][u] = amount]
      /\ ledger' = [ledger EXCEPT ![a] = l]
      /\ vault' = [vault EXCEPT !.raised_usdc = @ + amount, !.agent_count = @ + 1]
  BY DEF DonateUsdcAgent, NotAcquired
<1>2. amount \in Nat /\ amount # NoAccount
  BY DonationsAssumption, NoFundAccountAssumption
<1>3. LedgerOf(a).users_acquired \in Nat
  BY AgtAssumption DEF LedgerOf, AgentLedger, FundTypeOK, U64
<1>4. l \in AgentLedger
  BY <1>1, <1>3 DEF AgentLedger, FitsU64
<1>5. /\ l # NoAccount /\ l.total_usdc_paid = LedgerOf(a).total_usdc_paid + amount
      /\ l.users_acquired = LedgerOf(a).users_acquired + 1
  BY <1>4, NoFundAccountAssumption
<1> HIDE DEF l
<1>6. /\ acquisition'[a][u] = amount
      /\ \A v \in Users \ {u} : acquisition'[a][v] = acquisition[a][v]
      /\ \A b \in Agents \ {a} : acquisition'[b] = acquisition[b]
  BY <1>1 DEF FundTypeOK
<1>7. ledger'[a] = l /\ \A b \in Agents \ {a} : ledger'[b] = ledger[b]
  BY <1>1 DEF FundTypeOK
<1>8. /\ vault'.raised_usdc = vault.raised_usdc + amount
      /\ vault'.agent_count = vault.agent_count + 1
  BY <1>1 DEF FundTypeOK, Vault
<1> QED
  BY <1>1, <1>2, <1>5, <1>6, <1>7, <1>8

(* The paying agent acquires one user more, for that amount more.          *)
LEMMA PaymentCounted ==
  ASSUME FundTypeOK, FundTypeOK', NEW a \in Agents, NEW u \in Users, NEW amount \in Usdcs,
         DonateUsdcAgent(a, u, amount), AgentBalanced(a)
  PROVE  /\ AgentBalanced(a)'
         /\ Cardinality(Acquired(a)') = Cardinality(Acquired(a)) + 1
         /\ LedgerTotal(a)' = LedgerTotal(a) + amount
<1>1. /\ IsFiniteSet(Acquired(a)) /\ Cardinality(Acquired(a)) \in Nat
      /\ Spent(a) \in [Acquired(a) -> Nat]
  BY SpentIsNat
<1>2. Spent(a)' \in [Acquired(a)' -> Nat]
  BY SpentIsNatPrime
<1>3. /\ amount \in Nat /\ amount # NoAccount /\ acquisition[a][u] = NoAccount
      /\ acquisition'[a][u] = amount
      /\ \A v \in Users \ {u} : acquisition'[a][v] = acquisition[a][v]
      /\ ledger'[a] # NoAccount
      /\ ledger'[a].total_usdc_paid = LedgerOf(a).total_usdc_paid + amount
      /\ ledger'[a].users_acquired = LedgerOf(a).users_acquired + 1
  BY PaymentWrites
<1>4. /\ u \notin Acquired(a) /\ u \in Acquired(a)' /\ Acquired(a)' = Acquired(a) \cup {u}
      /\ Spent(a)'[u] = amount
      /\ \A v \in Acquired(a) : Spent(a)'[v] = Spent(a)[v]
  BY <1>3 DEF Acquired, Spent
<1>5. Cardinality(Acquired(a)') = Cardinality(Acquired(a)) + 1
  BY <1>1, <1>4, FS_AddElement
<1>6. SumFunction(Spent(a)') = SumFunction(Spent(a)) + amount
  <2>1. SumFunction(Spent(a)') = SumFunction(Spent(a)) + Spent(a)'[u]
    BY <1>1, <1>2, <1>4, SumOfMore
  <2> QED
    BY <1>4, <2>1
<1>7. /\ LedgerOf(a).users_acquired = Cardinality(Acquired(a))
      /\ LedgerOf(a).total_usdc_paid = SumFunction(Spent(a))
      /\ LedgerOf(a).total_usdc_paid = LedgerTotal(a)
  <2>1. CASE ledger[a] = NoAccount
    <3>1. Acquired(a) = {}
      BY <2>1 DEF AgentBalanced
    <3>2. Cardinality(Acquired(a)) = 0 /\ SumFunction(Spent(a)) = 0
      BY <1>1, <3>1, FS_EmptySet, EmptySum
    <3> QED
      BY <2>1, <3>2 DEF LedgerOf, LedgerTotal
  <2>2. CASE ledger[a] # NoAccount
    BY <2>2 DEF AgentBalanced, LedgerOf, LedgerTotal
  <2> QED
    BY <2>1, <2>2
<1>8. AgentBalanced(a)'
  BY <1>3, <1>5, <1>6, <1>7 DEF AgentBalanced
<1>9. LedgerTotal(a)' = LedgerTotal(a) + amount
  BY <1>3, <1>7 DEF LedgerTotal
<1> QED
  BY <1>5, <1>8, <1>9

LEMMA PaymentBalanced ==
  ASSUME FundTypeOK, FundTypeOK', UsdcRecordsAgree,
         NEW a \in Agents, NEW u \in Users, NEW amount \in Usdcs,
         DonateUsdcAgent(a, u, amount)
  PROVE  UsdcRecordsAgree'
<1>1. /\ \A b \in Agents : AgentBalanced(b)
      /\ vault.agent_count = SumFunction(Acquisitions)
      /\ vault.raised_usdc = SumFunction(LedgerTotals)
  BY Balanced
<1>2. /\ AgentBalanced(a)'
      /\ Cardinality(Acquired(a)') = Cardinality(Acquired(a)) + 1
      /\ LedgerTotal(a)' = LedgerTotal(a) + amount
  BY <1>1, PaymentCounted
<1>3. /\ amount \in Nat
      /\ \A b \in Agents \ {a} : acquisition'[b] = acquisition[b] /\ ledger'[b] = ledger[b]
      /\ vault'.raised_usdc = vault.raised_usdc + amount
      /\ vault'.agent_count = vault.agent_count + 1
  BY PaymentWrites
<1>4. \A b \in Agents \ {a} :
        /\ Acquired(b)' = Acquired(b) /\ Spent(b)' = Spent(b) /\ LedgerTotal(b)' = LedgerTotal(b)
        /\ AgentBalanced(b)' <=> AgentBalanced(b)
  BY <1>3 DEF Acquired, Spent, LedgerTotal, AgentBalanced
<1>5. \A b \in Agents : AgentBalanced(b)'
  BY <1>1, <1>2, <1>4
<1>6. \A b \in Agents :
        /\ Cardinality(Acquired(b)) \in Nat /\ LedgerTotal(b) \in Nat
        /\ Cardinality(Acquired(b)') \in Nat /\ LedgerTotal(b)' \in Nat
  BY SpentIsNat, SpentIsNatPrime
<1>7. /\ Acquisitions \in [Agents -> Nat] /\ LedgerTotals \in [Agents -> Nat]
      /\ Acquisitions' \in [Agents -> Nat] /\ LedgerTotals' \in [Agents -> Nat]
  BY <1>6 DEF Acquisitions, LedgerTotals
<1>8. /\ \A b \in Agents \ {a} : Acquisitions'[b] = Acquisitions[b] /\ LedgerTotals'[b] = LedgerTotals[b]
      /\ Acquisitions'[a] = Acquisitions[a] + 1 /\ LedgerTotals'[a] = LedgerTotals[a] + amount
  BY <1>2, <1>4 DEF Acquisitions, LedgerTotals
<1>9. /\ SumFunction(Acquisitions') + Acquisitions[a] = SumFunction(Acquisitions) + Acquisitions'[a]
      /\ SumFunction(LedgerTotals') + LedgerTotals[a] = SumFunction(LedgerTotals) + LedgerTotals'[a]
  BY <1>7, <1>8, AgentsFinite, SumOfChange
<1>10. /\ SumFunction(Acquisitions) \in Nat /\ SumFunction(LedgerTotals) \in Nat
       /\ SumFunction(Acquisitions') \in Nat /\ SumFunction(LedgerTotals') \in Nat
       /\ Acquisitions[a] \in Nat /\ LedgerTotals[a] \in Nat
  BY <1>7, AgentsFinite, SumIsNat
<1>11. /\ SumFunction(Acquisitions') = SumFunction(Acquisitions) + 1
       /\ SumFunction(LedgerTotals') = SumFunction(LedgerTotals) + amount
  BY <1>3, <1>8, <1>9, <1>10
<1> QED
  BY <1>1, <1>3, <1>5, <1>11, BalancedPrime

LEMMA AccountedStep ==
  AgtTypeOK /\ FundTypeOK /\ FundTypeOK' /\ UsdcRecordsAgree /\ [Next]_vars => UsdcRecordsAgree'
<1> SUFFICES ASSUME AgtTypeOK, FundTypeOK, FundTypeOK', UsdcRecordsAgree, [Next]_vars
             PROVE  UsdcRecordsAgree'
  OBVIOUS
<1>1. ASSUME UNCHANGED <<acquisition, ledger>>,
             vault'.raised_usdc = vault.raised_usdc, vault'.agent_count = vault.agent_count
      PROVE  UsdcRecordsAgree'
  BY <1>1 DEF UsdcRecordsAgree, Acquired
<1>2. ASSUME NEW u \in Users, NEW amount \in Lamports, NEW r \in BOOLEAN,
             DonateSol(u, amount, r) \/ DonateJtx(u, amount, r)
      PROVE  UsdcRecordsAgree'
  BY <1>1, <1>2 DEF DonateSol, DonateJtx, FundTypeOK, Vault, Raised
<1>3. ASSUME NEW u \in Users, LinkAttestation(u) PROVE UsdcRecordsAgree'
  BY <1>1, <1>3 DEF LinkAttestation
<1>4. ASSUME NEW u \in Users, NEW pyth \in PythPrices, MintDonorNft(u, pyth)
      PROVE  UsdcRecordsAgree'
  BY <1>1, <1>4 DEF MintDonorNft
<1>5. ASSUME UNCHANGED fundVars PROVE UsdcRecordsAgree'
  BY <1>1, <1>5 DEF fundVars
<1> QED
  BY <1>2, <1>3, <1>4, <1>5, PaymentBalanced DEF Next, Donating, vars

LEMMA AccountedAtFirst == Init => UsdcRecordsAgree
<1> SUFFICES ASSUME Init PROVE UsdcRecordsAgree
  OBVIOUS
<1>1. /\ \A a \in Agents : ledger[a] = NoAccount /\ Acquired(a) = {}
      /\ vault.agent_count = 0 /\ vault.raised_usdc = 0
  BY DEF Init, Acquired
<1>2. /\ Acquisitions = [a \in Agents |-> 0] /\ LedgerTotals = [a \in Agents |-> 0]
  BY <1>1, FS_EmptySet DEF Acquisitions, LedgerTotals, LedgerTotal
<1>3. SumFunction(Acquisitions) = 0 /\ SumFunction(LedgerTotals) = 0
  BY <1>2, AgentsFinite, SumOfZeros
<1>4. \A a \in Agents : AgentBalanced(a)
  BY <1>1 DEF AgentBalanced
<1> QED
  BY <1>1, <1>3, <1>4, Balanced

(* However donations interleave, the SOL the vault holds, the total it     *)
(* shows and the sum of what its donors gave are one number (donate_sol).  *)
THEOREM DonationsAreHeld == Spec => []DonationsHeld
<1>1. AgtTypeOK /\ FundTypeOK /\ (AgtTypeOK /\ FundTypeOK)' /\ DonationsHeld /\ [Next]_vars
        => DonationsHeld'
  BY HeldStep
<1> QED
  BY <1>1, HeldAtFirst, FundsTyped, PTL DEF Spec

(* Each agent's ledger counts and sums its acquisitions, and the vault the *)
(* ledgers: no declared amount is lost or entered twice (donate_usdc_agent)*)
THEOREM UsdcRecordsAddUp == Spec => []UsdcRecordsAgree
<1>1. AgtTypeOK /\ FundTypeOK /\ (AgtTypeOK /\ FundTypeOK)' /\ UsdcRecordsAgree /\ [Next]_vars
        => UsdcRecordsAgree'
  BY AccountedStep
<1> QED
  BY <1>1, AccountedAtFirst, FundsTyped, PTL DEF Spec
=============================================================================
