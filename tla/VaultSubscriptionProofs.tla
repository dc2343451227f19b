----------------------- MODULE VaultSubscriptionProofs -----------------------
(***************************************************************************)
(* Theorems about VaultSubscription, for every set of users, every price   *)
(* and term of the tiers, every cap, period and width.                     *)
(***************************************************************************)
EXTENDS VaultSubscription, TLAPS

USE DEF Tiers

-----------------------------------------------------------------------------
(* The records the instructions write are well typed. *)

LEMMA ExpiryType ==
  ASSUME clock \in Nat, NEW tier \in Tiers
  PROVE  /\ ExpiryOf(tier) \in Nat /\ Required[tier] \in Nat
         /\ tier # 3 => Duration[tier] \in Nat /\ ExpiryOf(tier) = clock + Duration[tier]
         /\ tier = 3 => ExpiryOf(tier) = 0
<1>1. CASE tier = 3
  BY <1>1, TierAssumption DEF ExpiryOf, LifetimeNeverExpires
<1>2. CASE tier # 3
  <2>1. tier \in 1 .. 2
    BY <1>2
  <2> QED
    BY <1>2, <2>1, TierAssumption DEF ExpiryOf
<1> QED
  BY <1>1, <1>2

LEMMA SubscriptionWrites ==
  ASSUME clock \in Nat, NEW s \in Subscription, NEW tier \in Tiers
  PROVE  /\ ResetSubscription(s, tier) \in Subscription
         /\ WithoutTier(s) \in Subscription
<1>1. ASSUME NEW t \in 0 .. 3, NEW c \in 0 .. MaxU32, NEW p \in Nat
      PROVE  /\ [s EXCEPT !.tier = t, !.mint_count = c, !.period_start = p] \in Subscription
             /\ [s EXCEPT !.tier = t, !.mint_count = c] \in Subscription
  BY DEF Subscription
<1>2. 0 \in 0 .. MaxU32 /\ tier \in 0 .. 3 /\ 0 \in 0 .. 3
  BY BoundsAssumption
<1> QED
  BY <1>1, <1>2 DEF ResetSubscription, WithoutTier

LEMMA CountType ==
  ASSUME NEW s \in Subscription, clock \in Nat
  PROVE  CountInPeriod(s) \in 0 .. MaxU32 /\ StartOfPeriod(s) \in Nat
BY BoundsAssumption DEF Subscription, CountInPeriod, StartOfPeriod

LEMMA MintedType ==
  ASSUME clock \in Nat, NEW s \in Subscription, NEW n \in Nat,
         s.tier \in {1, 2}, CountInPeriod(s) < MintCap(s.tier), FitsU64(s.optx_minted + n)
  PROVE  /\ Minted(s, n) \in Subscription
         /\ Minted(s, n).tier = s.tier
         /\ Minted(s, n).optx_minted = s.optx_minted + n
         /\ Minted(s, n).mint_count = CountInPeriod(s) + 1
<1>1. /\ CountInPeriod(s) + 1 \in 0 .. MaxU32
      /\ s.optx_minted + n \in 0 .. MaxU64
  BY CountType, BoundsAssumption DEF MintCap, FitsU64, Subscription
<1>2. StartOfPeriod(s) \in Nat
  BY CountType
<1> QED
  BY <1>1, <1>2 DEF Minted, Subscription

LEMMA UpgradedType ==
  ASSUME clock \in Nat, NEW s \in Stake, NEW tier \in Tiers
  PROVE  /\ Upgraded(s, tier) \in Stake
         /\ Upgraded(s, tier).tier = tier
         /\ Upgraded(s, tier).amount = Required[tier]
         /\ Upgraded(s, tier).expires_at = ExpiryOf(tier)
         /\ Upgraded(s, tier).staked_at = s.staked_at
<1>1. Required[tier] \in Nat /\ ExpiryOf(tier) \in Nat
  BY ExpiryType
<1> QED
  BY <1>1 DEF Upgraded, Stake

-----------------------------------------------------------------------------
(* Type correctness. *)

(* What a transfer leaves in an account of either side. *)
LEMMA Balances ==
  ASSUME NEW b \in [Mints -> Nat], NEW m \in Mints, NEW n \in Nat
  PROVE  /\ Credited(b, m, n) \in [Mints -> Nat]
         /\ b[m] >= n => Debited(b, m, n) \in [Mints -> Nat]
BY DEF Credited, Debited

LEMMA TypeStep ==
  ASSUME TypeOK, [Next]_vars
  PROVE  TypeOK'
<1>1. ASSUME NEW u \in Users, Attesting(u) PROVE TypeOK'
  <2>1. CASE CreateAgtAttestation(u)
    <3>1. [is_valid |-> TRUE, audited |-> FALSE] \in Agt
      BY DEF Agt
    <3>2. [Unsubscribed EXCEPT !.period_start = clock] \in Subscription
      BY BoundsAssumption DEF TypeOK, Subscription, Unsubscribed
    <3> QED
      BY <2>1, <3>1, <3>2 DEF TypeOK, CreateAgtAttestation
  <2>2. CASE AaronAudit(u)
    BY <2>2 DEF TypeOK, AaronAudit, Valid, Agt
  <2>3. CASE RevokeAttestation(u)
    BY <2>3 DEF TypeOK, RevokeAttestation, Valid, Agt
  <2> QED
    BY <1>1, <2>1, <2>2, <2>3 DEF Attesting
<1>2. ASSUME NEW u \in Users, NEW tier \in Tiers, NEW m \in Mints, StakeForTier(u, tier, m) PROVE TypeOK'
  <2>1. ResetSubscription(subscription[u], tier) \in Subscription
    BY SubscriptionWrites DEF TypeOK
  <2>2. [tier |-> tier, amount |-> Required[tier],
         staked_at |-> clock, expires_at |-> ExpiryOf(tier)] \in Stake
    BY ExpiryType DEF TypeOK, Stake
  <2>3. /\ Debited(user_jtx_ata[u], m, Required[tier]) \in [Mints -> Nat]
        /\ Credited(stake_vault_ata, m, Required[tier]) \in [Mints -> Nat]
    BY <1>2, ExpiryType, Balances DEF TypeOK, StakeForTier
  <2> QED
    BY <1>2, <2>1, <2>2, <2>3 DEF TypeOK, StakeForTier
<1>3. ASSUME NEW u \in Users, NEW m \in Mints, Unstake(u, m) PROVE TypeOK'
  <2>1. stake[u] \in Stake
    BY <1>3 DEF TypeOK, Unstake
  <2>2. WithoutTier(subscription[u]) \in Subscription
    BY SubscriptionWrites DEF TypeOK
  <2>3. /\ Credited(user_jtx_ata[u], m, stake[u].amount) \in [Mints -> Nat]
        /\ Debited(stake_vault_ata, m, stake[u].amount) \in [Mints -> Nat]
    <3>1. stake[u].amount \in Nat /\ stake_vault_ata[m] >= stake[u].amount
      BY <1>3, <2>1 DEF Unstake, Stake
    <3> QED
      BY <3>1, Balances DEF TypeOK
  <2> QED
    BY <1>3, <2>2, <2>3 DEF TypeOK, Unstake
<1>4. ASSUME NEW u \in Users, NEW tier \in Tiers, NEW m \in Mints, RestakeUpgrade(u, tier, m) PROVE TypeOK'
  <2>1. stake[u] \in Stake
    BY <1>4 DEF TypeOK, RestakeUpgrade
  <2>2. /\ ResetSubscription(subscription[u], tier) \in Subscription
        /\ Upgraded(stake[u], tier) \in Stake
    BY <2>1, SubscriptionWrites, UpgradedType DEF TypeOK
  <2>3. Delta(u, tier) \in Nat
    BY <2>1, ExpiryType DEF TypeOK, Delta, Stake
  <2>4. /\ Debited(user_jtx_ata[u], m, Delta(u, tier)) \in [Mints -> Nat]
        /\ Credited(stake_vault_ata, m, Delta(u, tier)) \in [Mints -> Nat]
    BY <1>4, <2>3, Balances DEF TypeOK, RestakeUpgrade
  <2> QED
    BY <1>4, <2>2, <2>4 DEF TypeOK, RestakeUpgrade
<1>5. ASSUME NEW u \in Users, NEW n \in BaseAmounts, MintOptx(u, n) PROVE TypeOK'
  <2>1. n \in Nat
    BY BoundsAssumption
  <2>2. Minted(subscription[u], n) \in Subscription
    BY <1>5, <2>1, MintedType DEF TypeOK, MintOptx
  <2> QED
    BY <1>5, <2>2 DEF TypeOK, MintOptx
<1>6. ASSUME NEW batch \in SUBSET Users, MigrateV2Thresholds(batch) PROVE TypeOK'
  <2>1. \A u \in Users : WithoutTier(subscription[u]) \in Subscription
    BY SubscriptionWrites DEF TypeOK
  <2> QED
    BY <1>6, <2>1 DEF TypeOK, MigrateV2Thresholds
<1>7. ASSUME NEW p \in BOOLEAN, SetPaused(p) PROVE TypeOK'
  BY <1>7 DEF TypeOK, SetPaused
<1>8. CASE Tick
  BY <1>8 DEF TypeOK, Tick
<1>9. CASE UNCHANGED vars
  BY <1>9 DEF TypeOK, vars
<1> QED
  BY <1>1, <1>2, <1>3, <1>4, <1>5, <1>6, <1>7, <1>8, <1>9
     DEF Next, Governance, Staking, Withdrawing

LEMMA InitTypeOK ==
  ASSUME Init
  PROVE  TypeOK
<1>1. Unsubscribed \in Subscription
  BY BoundsAssumption DEF Subscription, Unsubscribed
<1>2. user_jtx_ata \in [Users -> [Mints -> Nat]]
  BY BoundsAssumption DEF Init
<1>3. clock \in Nat /\ paused \in BOOLEAN /\ stake_vault_ata \in [Mints -> Nat]
  BY DEF Init
<1>4. /\ agt \in [Users -> Agt \cup {NoAccount}]
      /\ stake \in [Users -> Stake \cup {NoAccount}]
      /\ subscription \in [Users -> Subscription]
  BY <1>1 DEF Init
<1> QED
  BY <1>2, <1>3, <1>4 DEF TypeOK

(* Every account holds what its struct can hold, and no token balance is   *)
(* overdrawn.                                                              *)
THEOREM TypeCorrect == Spec => []TypeOK
<1>1. Init => TypeOK
  BY InitTypeOK
<1>2. TypeOK /\ [Next]_vars => TypeOK'
  BY TypeStep
<1> QED
  BY <1>1, <1>2, PTL DEF Spec

-----------------------------------------------------------------------------
(* Stakes and tiers.  What no single property says and all of them need:   *)
(* whoever has no attestation has never minted.                            *)

NothingWithoutAgt ==
  \A u \in Users : agt[u] = NoAccount =>
    subscription[u].tier = 0 /\ subscription[u].optx_minted = 0

SubscriptionInv == TypeOK /\ StakeMatchesTier /\ TierNeedsStake /\ NothingWithoutAgt

LEMMA SubscriptionUpdates ==
  ASSUME NEW s \in Subscription, NEW tier \in Tiers, clock \in Nat
  PROVE  /\ ResetSubscription(s, tier).tier = tier
         /\ ResetSubscription(s, tier).optx_minted = s.optx_minted
         /\ WithoutTier(s).tier = 0
         /\ WithoutTier(s).optx_minted = s.optx_minted
         /\ [Unsubscribed EXCEPT !.period_start = clock].tier = 0
         /\ [Unsubscribed EXCEPT !.period_start = clock].optx_minted = 0
BY DEF Subscription, ResetSubscription, WithoutTier, Unsubscribed

(* A new position and an upgraded one record the price of their tier and   *)
(* its whole term.                                                         *)
LEMMA NewPosition ==
  ASSUME clock \in Nat, NEW tier \in Tiers, NEW s \in Stake,
         s.tier = tier, s.amount = Required[tier], s.expires_at = ExpiryOf(tier),
         s.staked_at <= clock
  PROVE  RecordsItsPrice(s, clock)
BY ExpiryType DEF RecordsItsPrice, Stake, LifetimeNeverExpires

LEMMA OldPosition ==
  ASSUME NEW s \in Stake, NEW now \in Nat, NEW later \in Nat, now <= later,
         RecordsItsPrice(s, now)
  PROVE  RecordsItsPrice(s, later)
<1>1. CASE s.tier = 3
  BY <1>1 DEF RecordsItsPrice, Stake
<1>2. CASE s.tier # 3
  <2>1. s.tier \in 1 .. 2
    BY <1>2 DEF Stake
  <2>2. Duration[s.tier] \in Nat
    BY <2>1, TierAssumption
  <2> QED
    BY <1>2, <2>2 DEF RecordsItsPrice, Stake
<1> QED
  BY <1>1, <1>2

(* The clock never goes back. *)
LEMMA ClockForward ==
  ASSUME TypeOK, [Next]_vars
  PROVE  clock' \in Nat /\ clock <= clock'
BY DEF TypeOK, Next, vars, Governance, Staking, Withdrawing, Attesting, SetPaused, MigrateV2Thresholds,
       Unstake, StakeForTier, RestakeUpgrade, CreateAgtAttestation, AaronAudit,
       RevokeAttestation, MintOptx, Tick

LEMMA StakeMatchesTierStep ==
  ASSUME TypeOK, StakeMatchesTier, [Next]_vars
  PROVE  StakeMatchesTier'
<1>1. TypeOK' /\ clock' \in Nat /\ clock <= clock'
  BY TypeStep, ClockForward
<1> SUFFICES ASSUME NEW v \in Users, stake'[v] # NoAccount
             PROVE  RecordsItsPrice(stake'[v], clock')
  BY DEF StakeMatchesTier, Staked
<1>2. stake'[v] \in Stake
  BY <1>1 DEF TypeOK
<1>3. ASSUME stake'[v] = stake[v] PROVE RecordsItsPrice(stake'[v], clock')
  <2>1. RecordsItsPrice(stake'[v], clock)
    BY <1>3 DEF StakeMatchesTier, Staked
  <2>2. clock \in Nat
    BY DEF TypeOK
  <2> QED
    BY <1>1, <1>2, <2>1, <2>2, OldPosition
<1>4. ASSUME NEW u \in Users, NEW tier \in Tiers, NEW m \in Mints, StakeForTier(u, tier, m)
      PROVE  RecordsItsPrice(stake'[v], clock')
  <2>1. CASE u = v
    <3>1. /\ stake'[v] = [tier |-> tier, amount |-> Required[tier],
                          staked_at |-> clock, expires_at |-> ExpiryOf(tier)]
          /\ clock' = clock /\ clock \in Nat
      BY <1>4, <2>1 DEF StakeForTier, TypeOK
    <3> DEFINE s == stake'[v]
    <3>2. /\ s.tier = tier /\ s.amount = Required[tier]
          /\ s.expires_at = ExpiryOf(tier) /\ s.staked_at <= clock
      BY <3>1
    <3> QED
      BY <1>2, <3>1, <3>2, NewPosition
  <2>2. CASE u # v
    BY <1>3, <1>4, <2>2 DEF StakeForTier, TypeOK
  <2> QED
    BY <2>1, <2>2
<1>5. ASSUME NEW u \in Users, NEW tier \in Tiers, NEW m \in Mints, RestakeUpgrade(u, tier, m)
      PROVE  RecordsItsPrice(stake'[v], clock')
  <2>1. CASE u = v
    <3>1. /\ stake'[v] = Upgraded(stake[v], tier) /\ stake[v] \in Stake
          /\ clock' = clock /\ clock \in Nat
      BY <1>5, <2>1 DEF RestakeUpgrade, TypeOK
    <3>2. stake[v].staked_at <= clock
      BY <1>5, <2>1 DEF RestakeUpgrade, StakeMatchesTier, Staked, RecordsItsPrice
    <3> DEFINE s == stake'[v]
    <3>3. /\ s.tier = tier /\ s.amount = Required[tier]
          /\ s.expires_at = ExpiryOf(tier) /\ s.staked_at <= clock
      BY <3>1, <3>2, UpgradedType
    <3> QED
      BY <1>2, <3>1, <3>3, NewPosition
  <2>2. CASE u # v
    BY <1>3, <1>5, <2>2 DEF RestakeUpgrade, TypeOK
  <2> QED
    BY <2>1, <2>2
<1>6. ASSUME NEW u \in Users, NEW m \in Mints, Unstake(u, m) PROVE RecordsItsPrice(stake'[v], clock')
  <2>1. stake'[v] = stake[v]
    BY <1>6 DEF Unstake, TypeOK
  <2> QED
    BY <1>3, <2>1
<1>7. CASE UNCHANGED stake
  BY <1>3, <1>7
<1> QED
  BY <1>4, <1>5, <1>6, <1>7
     DEF Next, vars, Governance, Staking, Withdrawing, Attesting, SetPaused, MigrateV2Thresholds,
         CreateAgtAttestation, AaronAudit, RevokeAttestation, MintOptx, Tick

(* Whoever has a tier after a step has the stake of that tier. *)
LEMMA TierNeedsStakeStep ==
  ASSUME SubscriptionInv, [Next]_vars
  PROVE  TierNeedsStake'
<1>1. TypeOK /\ TypeOK'
  BY TypeStep DEF SubscriptionInv
<1> SUFFICES ASSUME NEW v \in Users, subscription'[v].tier # 0
             PROVE  stake'[v] # NoAccount /\ stake'[v].tier = subscription'[v].tier
  BY DEF TierNeedsStake
<1>2. clock \in Nat /\ subscription[v] \in Subscription
  BY <1>1 DEF TypeOK
<1>3. ASSUME stake'[v] = stake[v], subscription'[v].tier = subscription[v].tier
      PROVE  stake'[v] # NoAccount /\ stake'[v].tier = subscription'[v].tier
  BY <1>3 DEF SubscriptionInv, TierNeedsStake
<1>4. ASSUME NEW u \in Users, NEW tier \in Tiers, NEW m \in Mints, StakeForTier(u, tier, m)
      PROVE  stake'[v] # NoAccount /\ stake'[v].tier = subscription'[v].tier
  <2>1. CASE u = v
    <3>1. stake'[v].tier = tier /\ stake'[v] \in Stake \cup {NoAccount}
      BY <1>1, <1>4, <2>1 DEF StakeForTier, TypeOK
    <3>2. subscription'[v].tier = tier
      BY <1>1, <1>2, <1>4, <2>1, SubscriptionUpdates DEF StakeForTier, TypeOK
    <3>3. stake'[v] # NoAccount
      <4>1. stake'[v] = [tier |-> tier, amount |-> Required[tier],
                         staked_at |-> clock, expires_at |-> ExpiryOf(tier)]
        BY <1>1, <1>4, <2>1 DEF StakeForTier, TypeOK
      <4>2. stake'[v] \in Stake
        BY <1>2, <4>1, ExpiryType DEF Stake
      <4> QED
        BY <4>2, NoAccountAssumption
    <3> QED
      BY <3>1, <3>2, <3>3
  <2>2. CASE u # v
    BY <1>1, <1>3, <1>4, <2>2 DEF StakeForTier, TypeOK
  <2> QED
    BY <2>1, <2>2
<1>5. ASSUME NEW u \in Users, NEW tier \in Tiers, NEW m \in Mints, RestakeUpgrade(u, tier, m)
      PROVE  stake'[v] # NoAccount /\ stake'[v].tier = subscription'[v].tier
  <2>1. CASE u = v
    <3>1. stake'[v] = Upgraded(stake[v], tier) /\ stake[v] \in Stake
      BY <1>1, <1>5, <2>1 DEF RestakeUpgrade, TypeOK
    <3>2. stake'[v] \in Stake /\ stake'[v].tier = tier
      BY <1>2, <3>1, UpgradedType
    <3>3. subscription'[v].tier = tier
      BY <1>1, <1>2, <1>5, <2>1, SubscriptionUpdates DEF RestakeUpgrade, TypeOK
    <3> QED
      BY <3>2, <3>3, NoAccountAssumption
  <2>2. CASE u # v
    BY <1>1, <1>3, <1>5, <2>2 DEF RestakeUpgrade, TypeOK
  <2> QED
    BY <2>1, <2>2
<1>6. ASSUME NEW u \in Users, NEW m \in Mints, Unstake(u, m)
      PROVE  stake'[v] # NoAccount /\ stake'[v].tier = subscription'[v].tier
  <2>1. CASE u = v
    BY <1>1, <1>2, <1>6, <2>1, SubscriptionUpdates DEF Unstake, TypeOK
  <2>2. CASE u # v
    BY <1>1, <1>3, <1>6, <2>2 DEF Unstake, TypeOK
  <2> QED
    BY <2>1, <2>2
<1>7. ASSUME NEW u \in Users, CreateAgtAttestation(u)
      PROVE  stake'[v] # NoAccount /\ stake'[v].tier = subscription'[v].tier
  <2>1. CASE u = v
    BY <1>1, <1>2, <1>7, <2>1, SubscriptionUpdates DEF CreateAgtAttestation, TypeOK
  <2>2. CASE u # v
    BY <1>1, <1>3, <1>7, <2>2 DEF CreateAgtAttestation, TypeOK
  <2> QED
    BY <2>1, <2>2
<1>8. ASSUME NEW u \in Users, NEW n \in BaseAmounts, MintOptx(u, n)
      PROVE  stake'[v] # NoAccount /\ stake'[v].tier = subscription'[v].tier
  <2>1. subscription'[v].tier = subscription[v].tier
    <3>1. CASE u = v
      BY <1>1, <1>2, <1>8, <3>1, MintedType, BoundsAssumption DEF MintOptx, TypeOK
    <3>2. CASE u # v
      BY <1>1, <1>8, <3>2 DEF MintOptx, TypeOK
    <3> QED
      BY <3>1, <3>2
  <2> QED
    BY <1>3, <1>8, <2>1 DEF MintOptx
<1>9. ASSUME NEW batch \in SUBSET Users, MigrateV2Thresholds(batch)
      PROVE  stake'[v] # NoAccount /\ stake'[v].tier = subscription'[v].tier
  BY <1>1, <1>2, <1>3, <1>9, SubscriptionUpdates DEF MigrateV2Thresholds, TypeOK
<1>10. CASE UNCHANGED <<stake, subscription>>
  BY <1>3, <1>10
<1> QED
  BY <1>4, <1>5, <1>6, <1>7, <1>8, <1>9, <1>10
     DEF Next, vars, Governance, Staking, Withdrawing, Attesting, SetPaused, AaronAudit,
         RevokeAttestation, Tick

(* A user without an attestation has not had one, and nothing was written  *)
(* to its subscription.                                                    *)
LEMMA NothingWithoutAgtStep ==
  ASSUME SubscriptionInv, [Next]_vars
  PROVE  NothingWithoutAgt'
<1>1. TypeOK /\ TypeOK'
  BY TypeStep DEF SubscriptionInv
<1> SUFFICES ASSUME NEW v \in Users, agt'[v] = NoAccount
             PROVE  subscription'[v].tier = 0 /\ subscription'[v].optx_minted = 0
  BY DEF NothingWithoutAgt
<1>2. ASSUME agt[v] = NoAccount, subscription'[v] = subscription[v]
      PROVE  subscription'[v].tier = 0 /\ subscription'[v].optx_minted = 0
  BY <1>2 DEF SubscriptionInv, NothingWithoutAgt
<1>3. ASSUME NEW u \in Users, Attesting(u)
      PROVE  subscription'[v].tier = 0 /\ subscription'[v].optx_minted = 0
  <2>1. agt' \in [Users -> Agt \cup {NoAccount}] /\ agt \in [Users -> Agt \cup {NoAccount}]
    BY <1>1 DEF TypeOK
  <2>2. CASE CreateAgtAttestation(u)
    <3>1. [is_valid |-> TRUE, audited |-> FALSE] \in Agt
      BY DEF Agt
    <3>2. u # v /\ agt[v] = NoAccount /\ subscription'[v] = subscription[v]
      BY <1>1, <2>1, <2>2, <3>1, NoAccountAssumption DEF CreateAgtAttestation, TypeOK
    <3> QED
      BY <1>2, <3>2
  <2>3. CASE AaronAudit(u) \/ RevokeAttestation(u)
    <3>1. /\ agt[u] # NoAccount /\ agt[u] \in Agt
          /\ subscription' = subscription
      BY <2>1, <2>3 DEF AaronAudit, RevokeAttestation, Valid
    <3>2. /\ [agt[u] EXCEPT !.audited = TRUE] \in Agt
          /\ [agt[u] EXCEPT !.is_valid = FALSE] \in Agt
      BY <3>1 DEF Agt
    <3>3. u # v /\ agt[v] = NoAccount
      BY <2>1, <2>3, <3>1, <3>2, NoAccountAssumption DEF AaronAudit, RevokeAttestation
    <3> QED
      BY <1>2, <3>1, <3>3
  <2> QED
    BY <1>3, <2>2, <2>3 DEF Attesting
<1>4. ASSUME NEW u \in Users, Staking(u)
      PROVE  subscription'[v].tier = 0 /\ subscription'[v].optx_minted = 0
  BY <1>1, <1>2, <1>4
     DEF Staking, Withdrawing, Unstake, StakeForTier, RestakeUpgrade, Valid, TypeOK
<1>5. ASSUME NEW u \in Users, NEW n \in BaseAmounts, MintOptx(u, n)
      PROVE  subscription'[v].tier = 0 /\ subscription'[v].optx_minted = 0
  BY <1>1, <1>2, <1>5 DEF MintOptx, MayMint, Valid, TypeOK
<1>6. ASSUME NEW batch \in SUBSET Users, MigrateV2Thresholds(batch)
      PROVE  subscription'[v].tier = 0 /\ subscription'[v].optx_minted = 0
  BY <1>1, <1>2, <1>6 DEF MigrateV2Thresholds, TypeOK
<1>7. CASE UNCHANGED <<agt, subscription>>
  BY <1>2, <1>7
<1> QED
  BY <1>3, <1>4, <1>5, <1>6, <1>7 DEF Next, vars, Governance, SetPaused, Tick

(* The inductive invariant: types, positions, tiers, and nothing without an*)
(* attestation.                                                            *)
THEOREM SubscriptionSound == Spec => []SubscriptionInv
<1>1. Init => SubscriptionInv
  <2> SUFFICES ASSUME Init PROVE SubscriptionInv
    OBVIOUS
  <2>1. TypeOK
    BY InitTypeOK
  <2>2. \A u \in Users : /\ stake[u] = NoAccount
                         /\ subscription[u].tier = 0 /\ subscription[u].optx_minted = 0
    BY DEF Init, Unsubscribed
  <2> QED
    BY <2>1, <2>2 DEF SubscriptionInv, StakeMatchesTier, Staked, TierNeedsStake, NothingWithoutAgt
<1>2. SubscriptionInv /\ [Next]_vars => SubscriptionInv'
  BY TypeStep, StakeMatchesTierStep, TierNeedsStakeStep, NothingWithoutAgtStep
     DEF SubscriptionInv
<1> QED
  BY <1>1, <1>2, PTL DEF Spec

(* Every open position records exactly the price of its tier, in units of  *)
(* whatever was paid, and at least its term.                               *)
THEOREM PositionsRecordTheirPrice == Spec => []StakeMatchesTier
BY SubscriptionSound, PTL DEF SubscriptionInv

(* No sequence of stakes, upgrades, revocations, migrations and unstakes   *)
(* leaves a tier without its stake.                                        *)
THEOREM NoTierWithoutStake == Spec => []TierNeedsStake
BY SubscriptionSound, PTL DEF SubscriptionInv

-----------------------------------------------------------------------------
(* Mints. *)

MintHeld(u) ==
  subscription'[u].optx_minted # subscription[u].optx_minted =>
    /\ Valid(u) /\ agt[u].audited
    /\ stake[u] # NoAccount
    /\ stake[u].amount = Required[subscription[u].tier]

LEMMA MintHeldStep ==
  ASSUME SubscriptionInv, [Next]_vars, NEW v \in Users
  PROVE  MintHeld(v)
<1>1. TypeOK
  BY DEF SubscriptionInv
<1>2. clock \in Nat /\ subscription[v] \in Subscription
  BY <1>1 DEF TypeOK
<1>3. ASSUME subscription'[v].optx_minted = subscription[v].optx_minted PROVE MintHeld(v)
  BY <1>3 DEF MintHeld
<1>4. ASSUME NEW u \in Users, NEW n \in BaseAmounts, MintOptx(u, n) PROVE MintHeld(v)
  <2>1. CASE u = v
    <3>1. stake[v] # NoAccount /\ stake[v].tier = subscription[v].tier
      BY <1>2, <1>4, <2>1 DEF MintOptx, SubscriptionInv, TierNeedsStake, Subscription
    <3>2. stake[v].amount = Required[stake[v].tier]
      BY <3>1 DEF SubscriptionInv, StakeMatchesTier, Staked, RecordsItsPrice
    <3> QED
      BY <1>4, <2>1, <3>1, <3>2 DEF MintHeld, MintOptx, MayMint
  <2>2. CASE u # v
    BY <1>1, <1>3, <1>4, <2>2 DEF MintOptx, MayMint, TypeOK
  <2> QED
    BY <2>1, <2>2
<1>5. ASSUME NEW u \in Users, Staking(u) PROVE MintHeld(v)
  <2>1. ASSUME NEW m \in Mints, Unstake(u, m) PROVE MintHeld(v)
    BY <1>1, <1>2, <1>3, <2>1, SubscriptionUpdates DEF Unstake, TypeOK
  <2>2. ASSUME NEW tier \in Tiers, NEW m \in Mints, StakeForTier(u, tier, m) \/ RestakeUpgrade(u, tier, m)
        PROVE  MintHeld(v)
    <3>1. subscription' = [subscription EXCEPT ![u] = ResetSubscription(subscription[u], tier)]
      BY <2>2 DEF StakeForTier, RestakeUpgrade
    <3> QED
      BY <1>1, <1>2, <1>3, <3>1, SubscriptionUpdates DEF TypeOK
  <2> QED
    BY <1>5, <2>1, <2>2 DEF Staking, Withdrawing
<1>6. ASSUME NEW u \in Users, CreateAgtAttestation(u) PROVE MintHeld(v)
  BY <1>1, <1>2, <1>3, <1>6, SubscriptionUpdates
     DEF CreateAgtAttestation, SubscriptionInv, NothingWithoutAgt, TypeOK
<1>7. ASSUME NEW batch \in SUBSET Users, MigrateV2Thresholds(batch) PROVE MintHeld(v)
  BY <1>1, <1>2, <1>3, <1>7, SubscriptionUpdates DEF MigrateV2Thresholds, TypeOK
<1>8. CASE UNCHANGED subscription
  BY <1>3, <1>8
<1> QED
  BY <1>4, <1>5, <1>6, <1>7, <1>8
     DEF Next, vars, Governance, Attesting, SetPaused, AaronAudit, RevokeAttestation, Tick

(* mint_optx never looks at the stake, and still no OPTX is minted unless  *)
(* the minter has a position open at that moment, of the price of the tier *)
(* the cap is taken from; in which mint it was paid, nothing says.         *)
THEOREM MintsNeedPositions == Spec => MintNeedsPosition
<1>1. SubscriptionInv /\ [Next]_vars => [\A u \in Users : MintHeld(u)]_vars
  BY MintHeldStep
<1>2. Spec => [][\A u \in Users : MintHeld(u)]_vars
  BY <1>1, SubscriptionSound, PTL DEF Spec
<1> QED
  BY <1>2 DEF MintNeedsPosition, MintHeld

-----------------------------------------------------------------------------
(* Periods and caps.  That the count stays below the cap of the tier after *)
(* the tier changed is what has to be carried along.                       *)

WithinCap ==
  \A u \in Users : subscription[u].tier = 1 => subscription[u].mint_count <= BasicMintCap

PeriodKept(u) ==
  LET s == subscription[u] IN
  /\ subscription'[u].optx_minted # s.optx_minted /\ clock < s.period_start + Period =>
       /\ subscription'[u].mint_count = s.mint_count + 1
       /\ subscription'[u].period_start = s.period_start
  /\ subscription'[u].mint_count < s.mint_count =>
       \/ clock >= s.period_start + Period
       \/ stake'[u] # stake[u]
       \/ subscription'[u].tier = 0
  /\ subscription'[u].tier = 1 => subscription'[u].mint_count <= BasicMintCap

(* What the other instructions make of the count.                          *)
LEMMA CountUpdates ==
  ASSUME NEW s \in Subscription, NEW tier \in Tiers, clock \in Nat
  PROVE  /\ ResetSubscription(s, tier).mint_count = 0
         /\ WithoutTier(s).mint_count = 0
         /\ [Unsubscribed EXCEPT !.period_start = clock].mint_count = 0
BY DEF Subscription, ResetSubscription, WithoutTier, Unsubscribed

LEMMA MintKeepsPeriod ==
  ASSUME clock \in Nat, NEW s \in Subscription, NEW n \in Nat,
         s.tier \in {1, 2}, CountInPeriod(s) < MintCap(s.tier), FitsU64(s.optx_minted + n)
  PROVE  LET m == Minted(s, n) IN
         /\ clock < s.period_start + Period =>
              m.mint_count = s.mint_count + 1 /\ m.period_start = s.period_start
         /\ m.mint_count < s.mint_count => clock >= s.period_start + Period
         /\ m.tier = 1 => m.mint_count <= BasicMintCap
<1>1. s.mint_count \in Nat /\ s.period_start \in Nat /\ Period \in Nat /\ BasicMintCap \in Nat
  BY BoundsAssumption DEF Subscription
<1>2. /\ Minted(s, n).tier = s.tier
      /\ Minted(s, n).mint_count = CountInPeriod(s) + 1
      /\ Minted(s, n).period_start = StartOfPeriod(s)
  BY MintedType DEF Minted, Subscription
<1>3. CASE PeriodOver(s)
  <2>1. clock >= s.period_start + Period /\ CountInPeriod(s) = 0
    BY <1>1, <1>3 DEF PeriodOver, CountInPeriod
  <2> QED
    BY <1>1, <1>2, <2>1 DEF MintCap
<1>4. CASE ~PeriodOver(s)
  <2>1. CountInPeriod(s) = s.mint_count /\ StartOfPeriod(s) = s.period_start
    BY <1>4 DEF CountInPeriod, StartOfPeriod
  <2> QED
    BY <1>1, <1>2, <2>1 DEF MintCap
<1> QED
  BY <1>3, <1>4

LEMMA PeriodStep ==
  ASSUME SubscriptionInv, WithinCap, [Next]_vars, NEW v \in Users
  PROVE  PeriodKept(v)
<1>1. TypeOK
  BY DEF SubscriptionInv
<1>2. /\ clock \in Nat /\ subscription[v] \in Subscription
      /\ subscription[v].mint_count \in Nat /\ BasicMintCap \in Nat /\ 1 \in Tiers
  BY <1>1, BoundsAssumption DEF TypeOK, Subscription
<1>3. ASSUME subscription'[v] = subscription[v] PROVE PeriodKept(v)
  BY <1>2, <1>3 DEF PeriodKept, WithinCap
<1>4. ASSUME subscription'[v].optx_minted = subscription[v].optx_minted,
             subscription'[v].tier = 0
      PROVE  PeriodKept(v)
  BY <1>4 DEF PeriodKept
<1>5. ASSUME NEW u \in Users, NEW n \in BaseAmounts, MintOptx(u, n) PROVE PeriodKept(v)
  <2>1. CASE u = v
    <3>1. n \in Nat
      BY BoundsAssumption
    <3>2. subscription'[v] = Minted(subscription[v], n)
      BY <1>1, <1>5, <2>1 DEF MintOptx, TypeOK
    <3>3. /\ subscription[v].tier \in {1, 2}
          /\ CountInPeriod(subscription[v]) < MintCap(subscription[v].tier)
          /\ FitsU64(subscription[v].optx_minted + n)
      BY <1>5, <2>1 DEF MintOptx
    <3> QED
      BY <1>2, <3>1, <3>2, <3>3, MintKeepsPeriod DEF PeriodKept
  <2>2. CASE u # v
    BY <1>1, <1>3, <1>5, <2>2 DEF MintOptx, TypeOK
  <2> QED
    BY <2>1, <2>2
<1>6. ASSUME NEW u \in Users, NEW tier \in Tiers, NEW m \in Mints, StakeForTier(u, tier, m) \/ RestakeUpgrade(u, tier, m)
      PROVE  PeriodKept(v)
  <2>1. CASE u = v
    <3>1. subscription'[v] = ResetSubscription(subscription[v], tier)
      BY <1>1, <1>6, <2>1 DEF StakeForTier, RestakeUpgrade, TypeOK
    <3>2. subscription'[v].mint_count = 0
          /\ subscription'[v].optx_minted = subscription[v].optx_minted
      BY <1>2, <3>1, CountUpdates, SubscriptionUpdates
    <3>3. stake'[v] # stake[v]
      <4>1. CASE StakeForTier(v, tier, m)
        BY <1>1, <4>1, ExpiryType, NoAccountAssumption DEF StakeForTier, TypeOK, Stake
      <4>2. CASE RestakeUpgrade(v, tier, m)
        <5>1. stake[v] \in Stake /\ stake'[v] = Upgraded(stake[v], tier) /\ tier > stake[v].tier
          BY <1>1, <4>2 DEF RestakeUpgrade, TypeOK
        <5>2. stake'[v].tier = tier /\ stake[v].tier \in Tiers
          BY <1>2, <5>1, UpgradedType DEF Stake
        <5> QED
          BY <5>1, <5>2
      <4> QED
        BY <1>6, <2>1, <4>1, <4>2
    <3> QED
      BY <1>2, <3>2, <3>3 DEF PeriodKept
  <2>2. CASE u # v
    BY <1>1, <1>3, <1>6, <2>2 DEF StakeForTier, RestakeUpgrade, TypeOK
  <2> QED
    BY <2>1, <2>2
<1>7. ASSUME NEW u \in Users, NEW m \in Mints, Unstake(u, m) PROVE PeriodKept(v)
  BY <1>1, <1>2, <1>3, <1>4, <1>7, SubscriptionUpdates DEF Unstake, TypeOK
<1>8. ASSUME NEW u \in Users, CreateAgtAttestation(u) PROVE PeriodKept(v)
  BY <1>1, <1>2, <1>3, <1>4, <1>8, SubscriptionUpdates
     DEF CreateAgtAttestation, SubscriptionInv, NothingWithoutAgt, TypeOK
<1>9. ASSUME NEW batch \in SUBSET Users, MigrateV2Thresholds(batch) PROVE PeriodKept(v)
  BY <1>1, <1>2, <1>3, <1>4, <1>9, SubscriptionUpdates DEF MigrateV2Thresholds, TypeOK
<1>10. CASE UNCHANGED subscription
  BY <1>3, <1>10
<1> QED
  BY <1>5, <1>6, <1>7, <1>8, <1>9, <1>10
     DEF Next, vars, Governance, Staking, Withdrawing, Attesting, SetPaused, AaronAudit, RevokeAttestation, Tick

(* A mint before the end of the period counts in it, nothing but the end of*)
(* the period or a new tier takes the count down, and no sequence of mints,*)
(* upgrades and migrations exceeds the cap of the basic tier (mint_optx).  *)
THEOREM PeriodsAreKept == Spec => PeriodNotCutShort
<1>1. Init => WithinCap
  <2>1. Unsubscribed.tier = 0
    BY DEF Unsubscribed
  <2> QED
    BY <2>1 DEF Init, WithinCap
<1>2. SubscriptionInv /\ WithinCap /\ [Next]_vars => WithinCap'
  BY PeriodStep DEF WithinCap, PeriodKept
<1>3. SubscriptionInv /\ WithinCap /\ [Next]_vars => [\A u \in Users : PeriodKept(u)]_vars
  BY PeriodStep
<1>4. Spec => [][\A u \in Users : PeriodKept(u)]_vars
  BY <1>1, <1>2, <1>3, SubscriptionSound, PTL DEF Spec
<1> QED
  BY <1>4 DEF PeriodNotCutShort, PeriodKept

-----------------------------------------------------------------------------
(* The stake subsystem implements TokenLock: an initial state maps to one, *)
(* and a step to a lock, a release, a tick or a stutter.                   *)

LockedOf(u) == IF stake[u] = NoAccount THEN 0 ELSE stake[u].amount
DateOf(u) ==
  IF stake[u] = NoAccount THEN 0
  ELSE IF stake[u].tier = 3 THEN NoAccount ELSE stake[u].expires_at

locked == [u \in Users |-> LockedOf(u)]
date == [u \in Users |-> DateOf(u)]

LEMMA TickRefines ==
  ASSUME Tick
  PROVE  Lock!Next
BY DEF Tick, Lock!Next, Lock!Tick

LEMMA UnstakeRefines ==
  ASSUME SubscriptionInv, NEW u \in Users, NEW m \in Mints, Unstake(u, m)
  PROVE  Lock!Next
<1>1. /\ stake \in [Users -> Stake \cup {NoAccount}] /\ user_jtx_ata \in [Users -> [Mints -> Nat]]
      /\ stake[u] # NoAccount /\ stake[u] \in Stake /\ clock \in Nat
  BY DEF SubscriptionInv, TypeOK, Unstake
<1>2. stake[u].tier # 3 /\ clock >= stake[u].expires_at
  BY <1>1 DEF Unstake, Matured, SubscriptionInv, StakeMatchesTier, Staked, RecordsItsPrice
<1>3. LockedOf(u) = stake[u].amount /\ DateOf(u) = stake[u].expires_at
  BY <1>1, <1>2 DEF LockedOf, DateOf
<1>4. DateOf(u) # NoAccount /\ clock >= DateOf(u)
  BY <1>1, <1>2, <1>3, NoAccountAssumption DEF Stake
<1>5. /\ user_jtx_ata' = [user_jtx_ata EXCEPT ![u] = Lock!Plus(user_jtx_ata[u], m, LockedOf(u))]
      /\ stake_vault_ata' = Lock!Minus(stake_vault_ata, m, LockedOf(u))
      /\ stake_vault_ata[m] >= LockedOf(u)
      /\ stake' = [stake EXCEPT ![u] = NoAccount]
      /\ clock' = clock
  BY <1>3 DEF Unstake, Debited, Credited, Lock!Plus, Lock!Minus
<1>6. /\ locked' = [locked EXCEPT ![u] = 0]
      /\ date' = [date EXCEPT ![u] = 0]
  BY <1>1, <1>5 DEF locked, date, LockedOf, DateOf
<1>7. locked[u] = LockedOf(u) /\ date[u] = DateOf(u)
  BY DEF locked, date
<1> QED
  BY <1>4, <1>5, <1>6, <1>7 DEF Lock!Next, Lock!Release, locked, date, LockedOf, DateOf

(* What it takes for a step to be a lock. *)
LEMMA LockRefines ==
  ASSUME NEW u \in Users, NEW m \in Mints, NEW d, NEW e,
         d \in Nat, d > 0, user_jtx_ata \in [Users -> [Mints -> Nat]],
         d <= user_jtx_ata[u][m],
         user_jtx_ata' = [user_jtx_ata EXCEPT ![u] = Debited(user_jtx_ata[u], m, d)],
         stake_vault_ata' = Credited(stake_vault_ata, m, d),
         locked[u] \in Nat, locked' = [locked EXCEPT ![u] = locked[u] + d],
         date[u] # NoAccount, date' = [date EXCEPT ![u] = e],
         e = NoAccount \/ (date[u] <= e /\ clock <= e), clock # NoAccount,
         clock' = clock
  PROVE  Lock!Next
<1>1. d \in 1 .. user_jtx_ata[u][m]
  OBVIOUS
<1>2. date'[u] = e
  BY DEF date
<1>3. /\ user_jtx_ata' = [user_jtx_ata EXCEPT ![u] = Lock!Minus(user_jtx_ata[u], m, d)]
      /\ stake_vault_ata' = Lock!Plus(stake_vault_ata, m, d)
      /\ date' = [date EXCEPT ![u] = date'[u]]
  BY <1>2 DEF Debited, Credited, Lock!Plus, Lock!Minus
<1>4. Lock!NotEarlier(date[u], date'[u]) /\ Lock!NotEarlier(clock, date'[u])
  BY <1>2 DEF Lock!NotEarlier
<1>5. Lock!Lock(u, m, d)
  BY <1>3, <1>4 DEF Lock!Lock, locked, date, LockedOf, DateOf
<1> QED
  BY <1>1, <1>5 DEF Lock!Next

LEMMA StakeRefines ==
  ASSUME SubscriptionInv, NEW u \in Users, NEW tier \in Tiers, NEW m \in Mints, StakeForTier(u, tier, m)
  PROVE  Lock!Next
<1> DEFINE s == [tier |-> tier, amount |-> Required[tier],
                 staked_at |-> clock, expires_at |-> ExpiryOf(tier)]
           d == Required[tier]
           e == IF tier = 3 THEN NoAccount ELSE ExpiryOf(tier)
<1>1. /\ stake \in [Users -> Stake \cup {NoAccount}] /\ user_jtx_ata \in [Users -> [Mints -> Nat]]
      /\ clock \in Nat /\ stake[u] = NoAccount
      /\ stake' = [stake EXCEPT ![u] = s] /\ clock' = clock
  BY DEF SubscriptionInv, TypeOK, StakeForTier
<1>2. d \in Nat /\ d > 0
  BY TierAssumption
<1>3. s \in Stake /\ s # NoAccount
  BY <1>1, ExpiryType, NoAccountAssumption DEF Stake
<1>4. locked[u] = 0 /\ date[u] = 0
  BY <1>1 DEF locked, date, LockedOf, DateOf
<1>5. /\ locked' = [locked EXCEPT ![u] = d]
      /\ date' = [date EXCEPT ![u] = e]
  BY <1>1, <1>3 DEF locked, date, LockedOf, DateOf
<1>6. e = NoAccount \/ (0 <= e /\ clock <= e)
  BY <1>1, ExpiryType
<1>7. /\ d <= user_jtx_ata[u][m]
      /\ user_jtx_ata' = [user_jtx_ata EXCEPT ![u] = Debited(user_jtx_ata[u], m, d)]
      /\ stake_vault_ata' = Credited(stake_vault_ata, m, d)
  BY <1>1, <1>2 DEF StakeForTier
<1>8. 0 # NoAccount /\ clock # NoAccount
  BY <1>1, NoAccountAssumption
<1>9. locked[u] + d = d /\ locked[u] \in Nat
  BY <1>2, <1>4
<1> HIDE DEF d, e, s
<1>10. locked' = [locked EXCEPT ![u] = locked[u] + d]
  BY <1>5, <1>9
<1>11. e = NoAccount \/ (date[u] <= e /\ clock <= e)
  BY <1>4, <1>6
<1>12. date[u] # NoAccount
  BY <1>4, <1>8
<1> QED
  BY <1>1, <1>2, <1>5, <1>7, <1>8, <1>9, <1>10, <1>11, <1>12, LockRefines

LEMMA UpgradeRefines ==
  ASSUME SubscriptionInv, NEW u \in Users, NEW tier \in Tiers, NEW m \in Mints, RestakeUpgrade(u, tier, m)
  PROVE  Lock!Next
<1> DEFINE s == Upgraded(stake[u], tier)
           d == Required[tier] - Required[stake[u].tier]
           e == IF tier = 3 THEN NoAccount ELSE ExpiryOf(tier)
<1>1. /\ stake \in [Users -> Stake \cup {NoAccount}] /\ user_jtx_ata \in [Users -> [Mints -> Nat]]
      /\ clock \in Nat /\ stake[u] # NoAccount /\ stake[u] \in Stake
      /\ stake' = [stake EXCEPT ![u] = s] /\ clock' = clock /\ tier > stake[u].tier
  BY DEF SubscriptionInv, TypeOK, RestakeUpgrade
<1>2. /\ s \in Stake /\ s # NoAccount /\ s.tier = tier /\ s.amount = Required[tier]
      /\ s.expires_at = ExpiryOf(tier)
  BY <1>1, UpgradedType, NoAccountAssumption
<1>3. RecordsItsPrice(stake[u], clock) /\ stake[u].tier \in 1 .. 2
  BY <1>1 DEF SubscriptionInv, StakeMatchesTier, Staked, Stake
<1>4. /\ d \in Nat /\ d > 0 /\ Required[stake[u].tier] \in Nat /\ Required[tier] \in Nat
  BY <1>1, <1>3, TierAssumption
<1>5. stake[u].amount = Required[stake[u].tier] /\ Delta(u, tier) = d
  BY <1>3, <1>4 DEF RecordsItsPrice, Delta
<1>6. /\ locked[u] = Required[stake[u].tier]
      /\ date[u] = stake[u].expires_at /\ date[u] \in Nat
  BY <1>1, <1>3, <1>5 DEF locked, date, LockedOf, DateOf, Stake
<1>7. /\ locked' = [locked EXCEPT ![u] = Required[tier]]
      /\ date' = [date EXCEPT ![u] = e]
  <2> HIDE DEF s
  <2> QED
    BY <1>1, <1>2 DEF locked, date, LockedOf, DateOf
<1>8. e = NoAccount \/ (date[u] <= e /\ clock <= e)
  <2>1. CASE tier = 3
    BY <2>1
  <2>2. CASE tier = 2
    <3>1. /\ ExpiryOf(tier) = clock + Duration[2]
          /\ stake[u].expires_at <= clock + Duration[stake[u].tier]
          /\ Duration[1] <= Duration[2] /\ Duration[1] \in Nat /\ Duration[2] \in Nat
      BY <1>1, <1>3, <2>2, ExpiryType, TierAssumption DEF RecordsItsPrice
    <3>2. stake[u].tier = 1
      BY <1>1, <1>3, <2>2
    <3> QED
      BY <1>1, <1>6, <2>2, <3>1, <3>2
  <2> QED
    BY <1>1, <1>3, <2>1, <2>2
<1>9. /\ d <= user_jtx_ata[u][m]
      /\ user_jtx_ata' = [user_jtx_ata EXCEPT ![u] = Debited(user_jtx_ata[u], m, d)]
      /\ stake_vault_ata' = Credited(stake_vault_ata, m, d)
  BY <1>1, <1>4, <1>5 DEF RestakeUpgrade
<1>10. date[u] # NoAccount /\ clock # NoAccount
  BY <1>1, <1>6, NoAccountAssumption
<1>11. locked[u] + d = Required[tier] /\ locked[u] \in Nat
  BY <1>4, <1>6
<1> HIDE DEF d, e, s
<1>12. locked' = [locked EXCEPT ![u] = locked[u] + d]
  BY <1>7, <1>11
<1> QED
  BY <1>1, <1>4, <1>7, <1>8, <1>9, <1>10, <1>11, <1>12, LockRefines

LEMMA LockInit ==
  ASSUME Init
  PROVE  Lock!Init
BY BoundsAssumption DEF Init, Lock!Init

LEMMA LockStep ==
  ASSUME SubscriptionInv, [Next]_vars
  PROVE  Lock!Next \/ UNCHANGED Lock!vars
<1>1. ASSUME NEW u \in Users, Staking(u) PROVE Lock!Next
  BY <1>1, UnstakeRefines, StakeRefines, UpgradeRefines DEF Staking, Withdrawing
<1>2. CASE Tick
  BY <1>2, TickRefines
<1>3. CASE UNCHANGED <<clock, user_jtx_ata, stake_vault_ata, stake>>
  BY <1>3 DEF Lock!vars
<1> QED
  BY <1>1, <1>2, <1>3
     DEF Next, vars, Governance, Attesting, SetPaused, MigrateV2Thresholds,
         CreateAgtAttestation, AaronAudit, RevokeAttestation, MintOptx

(* Staking implements the lock of units: they leave a user's account for a *)
(* pool only against that user's lock, come back in full, on the date or   *)
(* later, to that user, and from a lifetime lock never.  The pool they come*)
(* from may be another mint's than the one they went to.                   *)
THEOREM LockImplemented == Spec => ImplementsLock
<1>1. Init => Lock!Init
  BY LockInit
<1>2. SubscriptionInv /\ [Next]_vars => [Lock!Next]_(Lock!vars)
  BY LockStep
<1> QED
  BY <1>1, <1>2, SubscriptionSound, PTL DEF Spec, ImplementsLock, Lock!Spec

=============================================================================
