--------------------------- MODULE JettVaultProofs ---------------------------
(***************************************************************************)
(* Theorems about JettVault, the parts of the vault put together, for every*)
(* set of users and signers, every list of three keys, every state the     *)
(* upgrade may have found and every observation and term.                  *)
(***************************************************************************)
EXTENDS JettVault, VaultAgtProofs, SumLemmas

USE DEF Sub!Tiers

-----------------------------------------------------------------------------
(* What the instructions of the stake write. *)

LEMMA SameFinite == \A A : Sub!IsFiniteSet(A) <=> IsFiniteSet(A)
BY DEF Sub!IsFiniteSet, IsFiniteSet

LEMMA TierBounds ==
  /\ Required \in [1 .. 3 -> Nat \ {0}] /\ Duration \in [1 .. 2 -> Nat \ {0}]
  /\ BasicMintCap \in Nat /\ MaxU32 \in Nat /\ MaxU64 \in Nat /\ BasicMintCap <= MaxU32
  /\ Period \in Nat /\ BaseAmounts \subseteq Nat /\ Wallets \subseteq [Mints -> Nat]
  /\ IsFiniteSet(Mints)
BY JettAssumption, SameFinite DEF Sub!MintsAssumption, Sub!TierAssumption, Sub!BoundsAssumption

LEMMA ExpiryIsNat ==
  ASSUME clock \in Nat, NEW tier \in 1 .. 3
  PROVE  Sub!ExpiryOf(tier) \in Nat /\ Required[tier] \in Nat
<1>1. CASE tier = 3
  BY <1>1, TierBounds DEF Sub!ExpiryOf, Sub!LifetimeNeverExpires
<1>2. CASE tier # 3
  <2>1. tier \in 1 .. 2
    BY <1>2
  <2> QED
    BY <1>2, <2>1, TierBounds DEF Sub!ExpiryOf
<1> QED
  BY <1>1, <1>2

LEMMA ResetWrites ==
  ASSUME clock \in Nat, NEW s \in Sub!Subscription, NEW tier \in 1 .. 3
  PROVE  /\ Sub!ResetSubscription(s, tier) \in Sub!Subscription
         /\ Sub!ResetSubscription(s, tier).tier = tier
         /\ Sub!ResetSubscription(s, tier).optx_minted = s.optx_minted
         /\ Sub!WithoutTier(s) \in Sub!Subscription
         /\ Sub!WithoutTier(s).tier = 0
         /\ Sub!WithoutTier(s).optx_minted = s.optx_minted
<1>1. ASSUME NEW t \in 0 .. 3, NEW c \in 0 .. MaxU32, NEW p \in Nat
      PROVE  /\ [s EXCEPT !.tier = t, !.mint_count = c, !.period_start = p] \in Sub!Subscription
             /\ [s EXCEPT !.tier = t, !.mint_count = c] \in Sub!Subscription
  BY DEF Sub!Subscription
<1>2. 0 \in 0 .. MaxU32 /\ tier \in 0 .. 3 /\ 0 \in 0 .. 3
  BY TierBounds
<1>3. Sub!ResetSubscription(s, tier) \in Sub!Subscription /\ Sub!WithoutTier(s) \in Sub!Subscription
  BY <1>1, <1>2 DEF Sub!ResetSubscription, Sub!WithoutTier
<1> QED
  BY <1>3 DEF Sub!Subscription, Sub!ResetSubscription, Sub!WithoutTier

LEMMA FreshSubscription ==
  ASSUME NEW start \in Nat, NEW t \in 0 .. 3
  PROVE  /\ [Sub!Unsubscribed EXCEPT !.period_start = start] \in Sub!Subscription
         /\ [Sub!Unsubscribed EXCEPT !.period_start = start].tier = 0
         /\ [Sub!Unsubscribed EXCEPT !.period_start = start].optx_minted = 0
         /\ [Sub!Unsubscribed EXCEPT !.tier = t] \in Sub!Subscription
         /\ [Sub!Unsubscribed EXCEPT !.tier = t].tier = t
<1>1. 0 \in 0 .. MaxU32 /\ 0 \in 0 .. MaxU64 /\ 0 \in 0 .. 3
  BY TierBounds
<1> QED
  BY <1>1 DEF Sub!Subscription, Sub!Unsubscribed

LEMMA MintWrites ==
  ASSUME clock \in Nat, NEW s \in Sub!Subscription, NEW n \in Nat,
         s.tier \in {1, 2}, Sub!CountInPeriod(s) < Sub!MintCap(s.tier),
         Sub!FitsU64(s.optx_minted + n)
  PROVE  Sub!Minted(s, n) \in Sub!Subscription /\ Sub!Minted(s, n).tier = s.tier
<1>1. Sub!CountInPeriod(s) \in 0 .. MaxU32 /\ Sub!StartOfPeriod(s) \in Nat
  BY TierBounds DEF Sub!Subscription, Sub!CountInPeriod, Sub!StartOfPeriod
<1>2. Sub!CountInPeriod(s) + 1 \in 0 .. MaxU32 /\ s.optx_minted + n \in 0 .. MaxU64
  BY <1>1, TierBounds DEF Sub!MintCap, Sub!FitsU64, Sub!Subscription
<1> QED
  BY <1>1, <1>2 DEF Sub!Minted, Sub!Subscription

(* What a transfer leaves in an account of either side. *)
LEMMA Balances ==
  ASSUME NEW b \in [Mints -> Nat], NEW m \in Mints, NEW n \in Nat
  PROVE  /\ Sub!Credited(b, m, n) \in [Mints -> Nat]
         /\ b[m] >= n => Sub!Debited(b, m, n) \in [Mints -> Nat]
BY DEF Sub!Credited, Sub!Debited

LEMMA PositionWrites ==
  ASSUME clock \in Nat, NEW tier \in 1 .. 3
  PROVE  /\ [tier |-> tier, amount |-> Required[tier], staked_at |-> clock,
             expires_at |-> Sub!ExpiryOf(tier)] \in Sub!Stake
         /\ \A s \in Sub!Stake : /\ Sub!Upgraded(s, tier) \in Sub!Stake
                                 /\ Sub!Upgraded(s, tier).tier = tier
<1>1. Required[tier] \in Nat /\ Sub!ExpiryOf(tier) \in Nat
  BY ExpiryIsNat
<1> QED
  BY <1>1 DEF Sub!Upgraded, Sub!Stake

-----------------------------------------------------------------------------
(* Attestations: every step is one of VaultAgt, and no account is closed.  *)

LEMMA AttestationSteps ==
  ASSUME paused \in BOOLEAN, [Next]_vars
  PROVE  [AgtNext]_agtVars
<1> USE DEF agtVars
<1>1. ASSUME NEW u \in Users, Attesting(u) PROVE AgtNext
  BY <1>1 DEF Attesting, Create, Learn, FirstAudit, Reaudit, Revoke, AgtNext, Observing, Auditing
<1>2. ASSUME NEW u \in Users, Subscribing(u) PROVE UNCHANGED agtVars
  BY <1>2 DEF Subscribing
<1>3. ASSUME NEW s \in Signers, Voting(s) PROVE [AgtNext]_agtVars
  <2>1. ASSUME NEW p \in BOOLEAN, Pause(s, p) PROVE [AgtNext]_agtVars
    <3>1. paused' \in BOOLEAN
      BY <2>1 DEF Pause, Multisig!SetPaused
    <3>2. SetPaused(paused')
      BY <2>1 DEF Pause, SetPaused
    <3> QED
      BY <3>1, <3>2 DEF AgtNext
  <2>2. ASSUME Approve(s) PROVE UNCHANGED agtVars
    BY <2>2 DEF Approve
  <2>3. ASSUME NEW batch \in SUBSET Users, Migrate(s, batch) PROVE UNCHANGED agtVars
    BY <2>3 DEF Migrate
  <2> QED
    BY <1>3, <2>1, <2>2, <2>3 DEF Voting
<1> QED
  BY <1>1, <1>2, <1>3 DEF Next, AgtNext, vars

LEMMA ViewPresent ==
  ASSUME AgtSound, NEW u \in Users
  PROVE  /\ AgtView[u] # NoAccount <=> agt[u] # NoAccount
         /\ agt[u] # NoAccount => AgtView[u] \in [is_valid : BOOLEAN, audited : BOOLEAN]
<1>1. CASE agt[u] = NoAccount
  BY <1>1 DEF AgtView
<1>2. CASE agt[u] # NoAccount
  <2> DEFINE stamped == agt[u].aaron_audit_hash # NoHash
  <2>1. agt[u].is_valid \in BOOLEAN
    BY <1>2 DEF AgtSound, AgtTypeOK, AgtAttestation
  <2>2. AgtView[u] = [is_valid |-> agt[u].is_valid, audited |-> stamped]
    BY <1>2 DEF AgtView
  <2>3. stamped \in BOOLEAN
    OBVIOUS
  <2> HIDE DEF stamped
  <2>4. AgtView[u] \in [is_valid : BOOLEAN, audited : BOOLEAN]
    BY <2>1, <2>2, <2>3
  <2> QED
    BY <1>2, <2>4, NoViewAssumption
<1> QED
  BY <1>1, <1>2

LEMMA NeverClosed ==
  ASSUME AgtSound, [AgtNext]_agtVars, NEW u \in Users, agt[u] # NoAccount
  PROVE  agt'[u] # NoAccount
<1>1. AgtSound' /\ [Lifecycle!Next]_(Lifecycle!vars)
  BY SoundStep, LifecycleStep
<1>2. AgtView[u] # NoAccount
  BY ViewPresent
<1>3. AgtView \in [Users -> [is_valid : BOOLEAN, audited : BOOLEAN] \cup {NoAccount}]
  <2>1. \A v \in Users : AgtView[v] \in [is_valid : BOOLEAN, audited : BOOLEAN] \cup {NoAccount}
    <3> TAKE v \in Users
    <3>1. CASE agt[v] = NoAccount
      BY <3>1 DEF AgtView
    <3>2. CASE agt[v] # NoAccount
      BY <3>2, ViewPresent
    <3> QED
      BY <3>1, <3>2
  <2>2. AgtView = [v \in Users |-> AgtView[v]]
    BY DEF AgtView
  <2> QED
    BY <2>1, <2>2
<1>4. ASSUME NEW v \in Users, NEW x \in [is_valid : BOOLEAN, audited : BOOLEAN],
             AgtView' = [AgtView EXCEPT ![v] = x]
      PROVE  AgtView'[u] # NoAccount
  BY <1>2, <1>3, <1>4, NoViewAssumption
<1>5. ASSUME NEW v \in Users, Lifecycle!Make(v) \/ Lifecycle!Audit(v) \/ Lifecycle!Revoke(v)
      PROVE  AgtView'[u] # NoAccount
  <2>1. [is_valid |-> TRUE, audited |-> FALSE] \in [is_valid : BOOLEAN, audited : BOOLEAN]
    OBVIOUS
  <2>2. [is_valid |-> TRUE, audited |-> TRUE] \in [is_valid : BOOLEAN, audited : BOOLEAN]
    OBVIOUS
  <2>3. ASSUME Lifecycle!Revoke(v)
        PROVE  [is_valid |-> FALSE, audited |-> AgtView[v].audited]
                 \in [is_valid : BOOLEAN, audited : BOOLEAN]
    BY <1>3, <2>3 DEF Lifecycle!Revoke, Lifecycle!Unrevoked
  <2> QED
    BY <1>4, <1>5, <2>1, <2>2, <2>3 DEF Lifecycle!Make, Lifecycle!Audit, Lifecycle!Revoke
<1>6. AgtView'[u] # NoAccount
  BY <1>1, <1>2, <1>5 DEF Lifecycle!Next, Lifecycle!Switch, Lifecycle!vars
<1> QED
  BY <1>6 DEF AgtView

-----------------------------------------------------------------------------
(* The multisig: approvals sit in the first slot of their key, so that two *)
(* of them are two keys.                                                   *)

OwnSlots ==
  \A i \in approved, j \in 1 .. 3 : multisig_signers[j] = multisig_signers[i] => i <= j

VoteInv == Multisig!MultisigTypeOK /\ OwnSlots

LEMMA FirstSlot ==
  ASSUME NEW s \in Signers, Multisig!MultisigTypeOK, Multisig!IsSigner(s)
  PROVE  /\ Multisig!SlotOf(s) \in 1 .. 3 /\ multisig_signers[Multisig!SlotOf(s)] = s
         /\ \A j \in 1 .. 3 : multisig_signers[j] = s => Multisig!SlotOf(s) <= j
<1>1. \E i \in 1 .. 3 : /\ multisig_signers[i] = s
                        /\ \A j \in 1 .. 3 : multisig_signers[j] = s => i <= j
  <2>1. CASE multisig_signers[1] = s
    BY <2>1
  <2>2. CASE multisig_signers[1] # s /\ multisig_signers[2] = s
    BY <2>2
  <2>3. CASE multisig_signers[1] # s /\ multisig_signers[2] # s /\ multisig_signers[3] = s
    BY <2>3
  <2> QED
    BY <2>1, <2>2, <2>3 DEF Multisig!IsSigner, Multisig!Slots
<1> QED
  BY <1>1 DEF Multisig!SlotOf, Multisig!Slots

LEMMA SameCount == \A A : Multisig!Cardinality(A) = Cardinality(A)
BY DEF Multisig!Cardinality, Cardinality

LEMMA EnoughAreTwo ==
  ASSUME NEW A, Multisig!Enough(A), A \subseteq 1 .. 3
  PROVE  \E i, j \in A : i # j
<1>1. A # {}
  BY FS_EmptySet, SameCount DEF Multisig!Enough, Multisig!Threshold
<1>2. ASSUME NEW i \in A, A = {i} PROVE FALSE
  <2>1. Cardinality(A) = 1
    BY <1>2, FS_Singleton, Zenon
  <2> QED
    BY <2>1, SameCount DEF Multisig!Enough, Multisig!Threshold
<1> QED
  BY <1>1, <1>2

LEMMA VoteStep ==
  ASSUME VoteInv, [Next]_vars
  PROVE  VoteInv'
<1> USE DEF VoteInv, OwnSlots, Multisig!MultisigTypeOK, Multisig!Slots, Multisig!Actions
<1>1. ASSUME NEW s \in Signers, NEW p \in BOOLEAN, Multisig!SetPaused(s, p) PROVE VoteInv'
  <2>1. /\ Multisig!SlotOf(s) \in 1 .. 3 /\ multisig_signers[Multisig!SlotOf(s)] = s
        /\ \A j \in 1 .. 3 : multisig_signers[j] = s => Multisig!SlotOf(s) <= j
    BY <1>1, FirstSlot DEF Multisig!SetPaused
  <2> QED
    BY <1>1, <2>1 DEF Multisig!SetPaused, Multisig!ApprovalsSpent, Multisig!PauseAction
<1>2. ASSUME NEW s \in Signers, Multisig!ApproveMigrate(s) PROVE VoteInv'
  <2>1. /\ Multisig!SlotOf(s) \in 1 .. 3 /\ multisig_signers[Multisig!SlotOf(s)] = s
        /\ \A j \in 1 .. 3 : multisig_signers[j] = s => Multisig!SlotOf(s) <= j
    BY <1>2, FirstSlot DEF Multisig!ApproveMigrate
  <2> QED
    BY <1>2, <2>1 DEF Multisig!ApproveMigrate, Multisig!MigrateApprovals
<1>3. ASSUME NEW s \in Signers, Multisig!ExecuteMigrate(s) PROVE VoteInv'
  BY <1>3 DEF Multisig!ExecuteMigrate, Multisig!ApprovalsSpent
<1>4. ASSUME UNCHANGED <<multisig_signers, approved, pending_action, paused>> PROVE VoteInv'
  BY <1>4
<1>5. ASSUME NEW u \in Users, Attesting(u) PROVE UNCHANGED <<voteVars, paused>>
  BY <1>5 DEF Attesting, Create, Learn, FirstAudit, Reaudit, Revoke, voteVars,
     CreateAgtAttestation, UpdateAgtWeights, AaronAudit, RefreshAaronAudit, RevokeAttestation
<1>6. ASSUME NEW u \in Users, Subscribing(u) PROVE UNCHANGED <<voteVars, paused>>
  BY <1>6 DEF Subscribing, voteVars, agtVars
<1>7. CASE Tick /\ UNCHANGED <<subVars, voteVars>>
  BY <1>4, <1>7 DEF Tick, voteVars
<1>8. CASE UNCHANGED vars
  BY <1>4, <1>8 DEF vars, agtVars, voteVars
<1> QED
  BY <1>1, <1>2, <1>3, <1>4, <1>5, <1>6, <1>7, <1>8
     DEF Next, Voting, Pause, Approve, Migrate, voteVars

-----------------------------------------------------------------------------
(* What a step does to the tier and the stake of one user. *)

SubTypeOK ==
  /\ subscription \in [Users -> Sub!Subscription]
  /\ stake \in [Users -> Sub!Stake \cup {NoAccount}]
  /\ user_jtx_ata \in [Users -> [Mints -> Nat]] /\ stake_vault_ata \in [Mints -> Nat]

Same(v) == subscription'[v] = subscription[v] /\ stake'[v] = stake[v]

Opened(v) ==
  /\ agt[v] = NoAccount /\ subscription'[v].tier = 0 /\ subscription'[v].optx_minted = 0
  /\ stake'[v] = stake[v] /\ ~paused

Held(v) ==
  /\ agt[v] # NoAccount /\ ~paused
  /\ stake'[v] # NoAccount /\ stake'[v].tier = subscription'[v].tier
  /\ subscription'[v].tier # 0

TakenBack(v) ==
  /\ stake[v] # NoAccount /\ stake'[v] = NoAccount /\ subscription'[v].tier = 0
  /\ subscription'[v].optx_minted = subscription[v].optx_minted

MintedFor(v) ==
  /\ agt[v] # NoAccount /\ ~paused
  /\ subscription'[v].tier = subscription[v].tier /\ stake'[v] = stake[v]

Migrated(v) ==
  /\ \E s \in Signers : Multisig!ExecuteMigrate(s)
  /\ subscription'[v].tier = 0 /\ stake'[v] = stake[v]
  /\ subscription'[v].optx_minted = subscription[v].optx_minted

Effect(v) ==
  Same(v) \/ Opened(v) \/ Held(v) \/ TakenBack(v) \/ MintedFor(v) \/ Migrated(v)

Effects == SubTypeOK' /\ \A v \in Users : Effect(v)

LEMMA NothingMoved ==
  ASSUME SubTypeOK, UNCHANGED subVars
  PROVE  Effects
BY DEF SubTypeOK, subVars, Effects, Effect, Same

LEMMA OneChanged ==
  ASSUME SubTypeOK, NEW u \in Users, NEW s \in Sub!Subscription,
         NEW p \in Sub!Stake \cup {NoAccount},
         subscription' = [subscription EXCEPT ![u] = s], stake' = [stake EXCEPT ![u] = p]
  PROVE  /\ subscription' \in [Users -> Sub!Subscription]
         /\ stake' \in [Users -> Sub!Stake \cup {NoAccount}]
         /\ subscription'[u] = s /\ stake'[u] = p
         /\ \A v \in Users \ {u} : Same(v)
BY DEF SubTypeOK, Same

LEMMA AttestingEffects ==
  ASSUME AgtSound, SubTypeOK, NEW u \in Users, Attesting(u)
  PROVE  Effects
<1>1. CASE Create(u)
  <2> DEFINE s == [Sub!Unsubscribed EXCEPT !.period_start = clock]
  <2>1. /\ ~paused /\ AgtView[u] = NoAccount
        /\ subscription' = [subscription EXCEPT ![u] = s]
        /\ UNCHANGED <<stake, user_jtx_ata, stake_vault_ata>>
    BY <1>1 DEF Create, Sub!CreateAgtAttestation
  <2>2. s \in Sub!Subscription /\ s.tier = 0 /\ s.optx_minted = 0
    <3>1. clock \in Nat /\ 0 \in 0 .. 3
      BY DEF AgtSound, AgtTypeOK
    <3> QED
      BY <3>1, FreshSubscription
  <2> HIDE DEF s
  <2>3. stake' = [stake EXCEPT ![u] = stake[u]] /\ stake[u] \in Sub!Stake \cup {NoAccount}
    BY <2>1 DEF SubTypeOK
  <2>4. Opened(u)
    BY <2>1, <2>2, <2>3, OneChanged, ViewPresent DEF Opened
  <2> QED
    BY <2>1, <2>2, <2>3, <2>4, OneChanged DEF Effects, Effect, SubTypeOK
<1>2. CASE ~Create(u)
  <2>1. UNCHANGED subVars
    BY <1>2 DEF Attesting, Learn, FirstAudit, Reaudit, Revoke, Sub!AaronAudit,
       Sub!RevokeAttestation, subVars
  <2> QED
    BY <2>1, NothingMoved
<1> QED
  BY <1>1, <1>2

LEMMA StakingEffects ==
  ASSUME AgtSound, SubTypeOK, NEW u \in Users, Subscribing(u)
  PROVE  Effects
<1>0. clock \in Nat
  BY DEF AgtSound, AgtTypeOK
<1>1. ASSUME NEW tier \in 1 .. 3, NEW m \in Mints, Sub!StakeForTier(u, tier, m) PROVE Effects
  <2> DEFINE s == Sub!ResetSubscription(subscription[u], tier)
             p == [tier |-> tier, amount |-> Required[tier], staked_at |-> clock,
                   expires_at |-> Sub!ExpiryOf(tier)]
  <2>1. /\ ~paused /\ AgtView[u] # NoAccount /\ user_jtx_ata[u][m] >= Required[tier]
        /\ user_jtx_ata' =
             [user_jtx_ata EXCEPT ![u] = Sub!Debited(user_jtx_ata[u], m, Required[tier])]
        /\ stake_vault_ata' = Sub!Credited(stake_vault_ata, m, Required[tier])
        /\ stake' = [stake EXCEPT ![u] = p]
        /\ subscription' = [subscription EXCEPT ![u] = s]
    BY <1>1 DEF Sub!StakeForTier, Sub!Valid, SubTypeOK
  <2>2. p \in Sub!Stake /\ p.tier = tier /\ Required[tier] \in Nat
    BY <1>0, PositionWrites, ExpiryIsNat
  <2>3. s \in Sub!Subscription /\ s.tier = tier
    BY <1>0, ResetWrites DEF SubTypeOK
  <2>4. p # NoAccount
    BY <2>2, JettAssumption DEF Sub!NoAccountAssumption
  <2> HIDE DEF s, p
  <2>5. Held(u)
    <3>1. subscription'[u] = s /\ stake'[u] = p
      BY <2>1, <2>2, <2>3, OneChanged
    <3>2. agt[u] # NoAccount /\ tier # 0
      BY <2>1, ViewPresent
    <3> QED
      BY <2>1, <2>2, <2>3, <2>4, <3>1, <3>2 DEF Held
  <2>6. user_jtx_ata' \in [Users -> [Mints -> Nat]] /\ stake_vault_ata' \in [Mints -> Nat]
    BY <2>1, <2>2, Balances DEF SubTypeOK
  <2> QED
    BY <2>1, <2>2, <2>3, <2>5, <2>6, OneChanged DEF Effects, Effect, SubTypeOK
<1>2. ASSUME NEW tier \in 1 .. 3, NEW m \in Mints, Sub!RestakeUpgrade(u, tier, m) PROVE Effects
  <2> DEFINE s == Sub!ResetSubscription(subscription[u], tier)
             p == Sub!Upgraded(stake[u], tier)
             d == Sub!Delta(u, tier)
  <2>1. /\ ~paused /\ AgtView[u] # NoAccount /\ stake[u] # NoAccount /\ user_jtx_ata[u][m] >= d
        /\ user_jtx_ata' = [user_jtx_ata EXCEPT ![u] = Sub!Debited(user_jtx_ata[u], m, d)]
        /\ stake_vault_ata' = Sub!Credited(stake_vault_ata, m, d)
        /\ stake' = [stake EXCEPT ![u] = p]
        /\ subscription' = [subscription EXCEPT ![u] = s]
    BY <1>2 DEF Sub!RestakeUpgrade, SubTypeOK
  <2>2. stake[u] \in Sub!Stake /\ stake[u].amount \in Nat
    BY <2>1 DEF SubTypeOK, Sub!Stake
  <2>3. p \in Sub!Stake /\ p.tier = tier /\ Required[tier] \in Nat
    BY <1>0, <2>2, PositionWrites, ExpiryIsNat
  <2>4. s \in Sub!Subscription /\ s.tier = tier
    BY <1>0, ResetWrites DEF SubTypeOK
  <2>5. p # NoAccount
    BY <2>3, JettAssumption DEF Sub!NoAccountAssumption
  <2>6. d \in Nat
    BY <2>2, <2>3 DEF Sub!Delta
  <2> HIDE DEF s, p, d
  <2>7. Held(u)
    <3>1. subscription'[u] = s /\ stake'[u] = p
      BY <2>1, <2>3, <2>4, OneChanged
    <3>2. agt[u] # NoAccount /\ tier # 0
      BY <2>1, ViewPresent
    <3> QED
      BY <2>1, <2>3, <2>4, <2>5, <3>1, <3>2 DEF Held
  <2>8. user_jtx_ata' \in [Users -> [Mints -> Nat]] /\ stake_vault_ata' \in [Mints -> Nat]
    BY <2>1, <2>6, Balances DEF SubTypeOK
  <2> QED
    BY <2>1, <2>3, <2>4, <2>7, <2>8, OneChanged DEF Effects, Effect, SubTypeOK
<1>3. ASSUME NEW m \in Mints, Sub!Unstake(u, m) PROVE Effects
  <2> DEFINE s == Sub!WithoutTier(subscription[u])
             n == stake[u].amount
  <2>1. /\ stake[u] # NoAccount /\ stake_vault_ata[m] >= n
        /\ stake_vault_ata' = Sub!Debited(stake_vault_ata, m, n)
        /\ user_jtx_ata' = [user_jtx_ata EXCEPT ![u] = Sub!Credited(user_jtx_ata[u], m, n)]
        /\ stake' = [stake EXCEPT ![u] = NoAccount]
        /\ subscription' = [subscription EXCEPT ![u] = s]
    BY <1>3 DEF Sub!Unstake, SubTypeOK
  <2>2. n \in Nat
    BY <2>1 DEF SubTypeOK, Sub!Stake
  <2>3. s \in Sub!Subscription /\ s.tier = 0 /\ s.optx_minted = subscription[u].optx_minted
    <3>1. subscription[u] \in Sub!Subscription /\ 1 \in 1 .. 3
      BY DEF SubTypeOK
    <3> QED
      BY <1>0, <3>1, ResetWrites
  <2> HIDE DEF s, n
  <2>4. TakenBack(u)
    BY <2>1, <2>3, OneChanged DEF TakenBack
  <2>5. user_jtx_ata' \in [Users -> [Mints -> Nat]] /\ stake_vault_ata' \in [Mints -> Nat]
    BY <2>1, <2>2, Balances DEF SubTypeOK
  <2> QED
    BY <2>1, <2>3, <2>4, <2>5, OneChanged DEF Effects, Effect, SubTypeOK
<1>4. ASSUME NEW n \in BaseAmounts, Sub!MintOptx(u, n) PROVE Effects
  <2> DEFINE s == Sub!Minted(subscription[u], n)
  <2>1. /\ ~paused /\ AgtView[u] # NoAccount
        /\ subscription[u].tier \in {1, 2}
        /\ Sub!CountInPeriod(subscription[u]) < Sub!MintCap(subscription[u].tier)
        /\ Sub!FitsU64(subscription[u].optx_minted + n)
        /\ subscription' = [subscription EXCEPT ![u] = s]
        /\ UNCHANGED <<stake, user_jtx_ata, stake_vault_ata>>
    BY <1>4 DEF Sub!MintOptx, Sub!MayMint, Sub!Valid, SubTypeOK
  <2>2. s \in Sub!Subscription /\ s.tier = subscription[u].tier
    <3>1. n \in Nat /\ subscription[u] \in Sub!Subscription
      BY TierBounds DEF SubTypeOK
    <3> QED
      BY <1>0, <2>1, <3>1, MintWrites
  <2> HIDE DEF s
  <2>3. stake' = [stake EXCEPT ![u] = stake[u]] /\ stake[u] \in Sub!Stake \cup {NoAccount}
    BY <2>1 DEF SubTypeOK
  <2>4. MintedFor(u)
    BY <2>1, <2>2, <2>3, OneChanged, ViewPresent DEF MintedFor
  <2> QED
    BY <2>1, <2>2, <2>3, <2>4, OneChanged DEF Effects, Effect, SubTypeOK
<1> QED
  BY <1>1, <1>2, <1>3, <1>4 DEF Subscribing, Sub!Staking, Sub!Withdrawing

LEMMA MigrationEffects ==
  ASSUME AgtSound, SubTypeOK, NEW signer \in Signers, NEW batch \in SUBSET Users,
         Migrate(signer, batch)
  PROVE  Effects
<1>1. clock \in Nat /\ 1 \in 1 .. 3
  BY DEF AgtSound, AgtTypeOK
<1>2. \A v \in Users : /\ subscription[v] \in Sub!Subscription
                       /\ Sub!WithoutTier(subscription[v]) \in Sub!Subscription
                       /\ Sub!WithoutTier(subscription[v]).tier = 0
                       /\ Sub!WithoutTier(subscription[v]).optx_minted = subscription[v].optx_minted
  BY <1>1, ResetWrites DEF SubTypeOK
<1>3. /\ Multisig!ExecuteMigrate(signer)
      /\ subscription' =
           [v \in Users |-> IF v \in batch /\ subscription[v].tier # 0
                            THEN Sub!WithoutTier(subscription[v]) ELSE subscription[v]]
      /\ UNCHANGED <<stake, user_jtx_ata, stake_vault_ata>>
  BY DEF Migrate, Sub!MigrateV2Thresholds
<1>4. SubTypeOK'
  BY <1>2, <1>3 DEF SubTypeOK
<1>5. ASSUME NEW v \in Users PROVE Migrated(v) \/ Same(v)
  BY <1>2, <1>3 DEF Migrated, Same
<1> QED
  BY <1>4, <1>5 DEF Effects, Effect

LEMMA StepEffects ==
  ASSUME AgtSound, SubTypeOK, [Next]_vars
  PROVE  Effects
<1>1. ASSUME NEW s \in Signers, Voting(s) PROVE Effects
  <2>1. ASSUME NEW batch \in SUBSET Users, Migrate(s, batch) PROVE Effects
    BY <2>1, MigrationEffects
  <2>2. ASSUME NEW p \in BOOLEAN, Pause(s, p) \/ Approve(s) PROVE UNCHANGED subVars
    BY <2>2 DEF Pause, Approve, subVars
  <2> QED
    BY <1>1, <2>1, <2>2, NothingMoved DEF Voting
<1>2. ASSUME UNCHANGED subVars PROVE Effects
  BY <1>2, NothingMoved
<1> QED
  BY <1>1, <1>2, AttestingEffects, StakingEffects DEF Next, vars

-----------------------------------------------------------------------------
(* The inductive invariant.  What the properties need beyond the types:    *)
(* approvals are where their keys are first listed, and an attestation that*)
(* is yet to be created has no tier to lose.                               *)

NothingWithoutAgt == \A u \in Users : agt[u] = NoAccount => subscription[u].tier = 0

JettInv == AgtSound /\ SubTypeOK /\ VoteInv /\ NothingWithoutAgt

LEMMA InitInv == Init => JettInv
<1> SUFFICES ASSUME Init PROVE JettInv
  OBVIOUS
<1>1. PICK gaze \in Gazes, seed \in Seeds, phi \in Factors :
        /\ NearSimplex(gaze)
        /\ agt = [u \in Users |-> IF subscription[u].tier = 0 THEN NoAccount
                                  ELSE NewAttestation(u, gaze, seed, phi)]
  BY DEF Init
<1>2. \A u \in Users : Sound(u, NewAttestation(u, gaze, seed, phi))
  BY <1>1, NewSound
<1>3. \A u \in Users : /\ NewAttestation(u, gaze, seed, phi) \in AgtAttestation
                       /\ NewAttestation(u, gaze, seed, phi) # NoAccount
  BY <1>2, NoAgtAssumption DEF Sound
<1>4. agt \in [Users -> AgtAttestation \cup {NoAccount}]
  BY <1>1, <1>3
<1>5. \A u \in Attested : Sound(u, agt[u])
  BY <1>1, <1>2 DEF Attested
<1>6. total_agt_attestations \in Nat
  <2>1. IsFiniteSet(Attested)
    BY AgtUsersFinite, FS_Subset DEF Attested
  <2> QED
    BY <2>1, FS_CardinalityType DEF Init
<1>7. AgtSound
  BY <1>4, <1>5, <1>6 DEF AgtSound, AgtTypeOK, Init, Multisig!MultisigInit
<1>8. SubTypeOK
  <2>1. \A t \in LegacyTiers : [Sub!Unsubscribed EXCEPT !.tier = t] \in Sub!Subscription
    <3>1. 0 \in Nat /\ LegacyTiers \subseteq 0 .. 3
      BY DEF LegacyTiers
    <3> QED
      BY <3>1, FreshSubscription
  <2>2. subscription \in [Users -> Sub!Subscription]
    BY <2>1 DEF Init
  <2>3. user_jtx_ata \in [Users -> [Mints -> Nat]] /\ stake_vault_ata \in [Mints -> Nat]
    BY TierBounds DEF Init
  <2> QED
    BY <2>2, <2>3 DEF Init, SubTypeOK
<1>9. VoteInv
  BY DEF Init, VoteInv, OwnSlots, Multisig!MultisigInit, Multisig!MultisigTypeOK, Multisig!Slots
<1>10. NothingWithoutAgt
  BY <1>1, <1>3 DEF NothingWithoutAgt
<1> QED
  BY <1>7, <1>8, <1>9, <1>10 DEF JettInv

LEMMA InvStep == JettInv /\ [Next]_vars => JettInv'
<1> SUFFICES ASSUME JettInv, [Next]_vars PROVE JettInv'
  OBVIOUS
<1>1. AgtSound /\ SubTypeOK /\ VoteInv /\ NothingWithoutAgt
  BY DEF JettInv
<1>2. [AgtNext]_agtVars
  BY <1>1, AttestationSteps DEF AgtSound, AgtTypeOK
<1>3. AgtSound' /\ VoteInv' /\ Effects
  BY <1>1, <1>2, SoundStep, VoteStep, StepEffects
<1>4. ASSUME NEW v \in Users, agt'[v] = NoAccount PROVE subscription'[v].tier = 0
  <2>1. agt[v] = NoAccount /\ subscription[v].tier = 0
    BY <1>1, <1>2, <1>4, NeverClosed DEF NothingWithoutAgt
  <2>2. Effect(v)
    BY <1>3 DEF Effects
  <2> QED
    BY <2>1, <2>2 DEF Effect, Same, Opened, Held, TakenBack, MintedFor, Migrated
<1> QED
  BY <1>3, <1>4 DEF JettInv, Effects, NothingWithoutAgt

LEMMA AlwaysInv == Spec => []JettInv
BY InitInv, InvStep, PTL DEF Spec

-----------------------------------------------------------------------------
(* Every account of the vault holds what its struct can hold, through every*)
(* interleaving of attestations, stakes and votes, also when it starts with*)
(* tiers nobody has a position for.                                        *)
THEOREM JettTypeCorrect == Spec => []JettTypeOK
<1>1. JettInv => JettTypeOK
  <2> SUFFICES ASSUME JettInv PROVE JettTypeOK
    OBVIOUS
  <2>1. AgtSound /\ AgtTypeOK /\ SubTypeOK /\ Multisig!MultisigTypeOK
    BY DEF JettInv, AgtSound, VoteInv
  <2>2. AgtView \in [Users -> Sub!Agt \cup {NoAccount}]
    <3>1. \A v \in Users : AgtView[v] \in Sub!Agt \cup {NoAccount}
      BY <2>1, ViewPresent DEF AgtView, Sub!Agt
    <3>2. AgtView = [v \in Users |-> AgtView[v]]
      BY DEF AgtView
    <3> QED
      BY <3>1, <3>2
  <2>3. Sub!TypeOK
    BY <2>1, <2>2 DEF Sub!TypeOK, SubTypeOK, AgtTypeOK
  <2> QED
    BY <2>1, <2>3 DEF JettTypeOK
<1> QED
  BY <1>1, AlwaysInv, PTL

(* The tiers of the honor system only die out: whatever is staked,         *)
(* upgraded, revoked or migrated, nobody comes into a tier without a       *)
(* position of that tier, in whatever mint it was paid (set_subscription,  *)
(* stake_for_tier, restake_upgrade, unstake).                              *)
THEOREM UnheldTiersDieOut == Spec => NoNewUnheldTier
<1>1. JettInv /\ [Next]_vars => [\A u \in Users : Unheld(u)' => Unheld(u)]_vars
  <2> SUFFICES ASSUME JettInv, [Next]_vars, NEW u \in Users, Unheld(u)' PROVE Unheld(u)
    OBVIOUS
  <2>1. Effect(u)
    BY StepEffects DEF JettInv, Effects
  <2> QED
    BY <2>1 DEF Effect, Same, Opened, Held, TakenBack, MintedFor, Migrated, Unheld
<1> QED
  BY <1>1, AlwaysInv, PTL DEF Spec, NoNewUnheldTier

(* A tier goes with the stake, or by a migration that two different keys   *)
(* approved and that spends their approvals (unstake,                      *)
(* approve_migrate_action, migrate_v2_thresholds).                         *)
THEOREM TiersLostByVoteOnly == Spec => TierLostByVoteOnly
<1>1. JettInv /\ [Next]_vars =>
        [\A u \in Users : subscription[u].tier # 0 /\ subscription'[u].tier = 0 =>
           \/ stake[u] # NoAccount /\ stake'[u] = NoAccount
           \/ /\ pending_action = "migrate" /\ approved' = {}
              /\ \E i, j \in approved : multisig_signers[i] # multisig_signers[j]]_vars
  <2> SUFFICES ASSUME JettInv, [Next]_vars, NEW u \in Users,
                      subscription[u].tier # 0, subscription'[u].tier = 0,
                      ~(stake[u] # NoAccount /\ stake'[u] = NoAccount)
               PROVE  /\ pending_action = "migrate" /\ approved' = {}
                      /\ \E i, j \in approved : multisig_signers[i] # multisig_signers[j]
    OBVIOUS
  <2>1. Effect(u) /\ agt[u] # NoAccount
    BY StepEffects DEF JettInv, Effects, NothingWithoutAgt
  <2>2. Migrated(u)
    BY <2>1 DEF Effect, Same, Opened, Held, TakenBack, MintedFor
  <2>3. /\ pending_action = "migrate" /\ approved' = {} /\ Multisig!Enough(approved)
    BY <2>2 DEF Migrated, Multisig!ExecuteMigrate, Multisig!MayMigrate, Multisig!ApprovalsSpent
  <2>4. approved \subseteq 1 .. 3 /\ OwnSlots
    BY DEF JettInv, VoteInv, Multisig!MultisigTypeOK, Multisig!Slots
  <2>5. PICK i \in approved, j \in approved : i # j
    BY <2>3, <2>4, EnoughAreTwo
  <2>6. multisig_signers[i] # multisig_signers[j]
    BY <2>4, <2>5 DEF OwnSlots
  <2> QED
    BY <2>3, <2>6
<1> QED
  BY <1>1, AlwaysInv, PTL DEF Spec, TierLostByVoteOnly

LEMMA PausedAttestations ==
  ASSUME AgtSound, [AgtNext]_agtVars, paused, NEW u \in Users
  PROVE  /\ audit'[u] = audit[u]
         /\ \/ agt'[u] = agt[u]
            \/ agt[u] # NoAccount /\ agt'[u] = [agt[u] EXCEPT !.is_valid = FALSE]
<1>1. CASE \E v \in Users : RevokeAttestation(v)
  <2>1. PICK v \in Users : RevokeAttestation(v)
    BY <1>1
  <2>2. /\ agt[v] # NoAccount /\ audit' = audit
        /\ agt' = [agt EXCEPT ![v] = [agt[v] EXCEPT !.is_valid = FALSE]]
    BY <2>1 DEF RevokeAttestation, Valid, AgtSound, AgtTypeOK
  <2> QED
    BY <2>2 DEF AgtSound, AgtTypeOK
<1>2. CASE ~\E v \in Users : RevokeAttestation(v)
  <2>1. UNCHANGED <<agt, audit>>
    BY <1>2 DEF AgtNext, Observing, Auditing, CreateAgtAttestation, UpdateAgtWeights,
       AaronAudit, RefreshAaronAudit, SetPaused, Tick, agtVars
  <2> QED
    BY <2>1
<1> QED
  BY <1>1, <1>2

(* A paused vault lets positions be closed and attestations be revoked, and*)
(* nothing else: the guards of nine instructions in three parts agree.     *)
THEOREM PauseHolds == Spec => PausedOnlyLetsOut
<1>1. JettInv /\ [Next]_vars =>
        [paused => \A u \in Users :
           /\ stake'[u] = stake[u] \/ Withdrawn(u)
           /\ subscription'[u].optx_minted = subscription[u].optx_minted
           /\ audit'[u] = audit[u]
           /\ agt'[u] = agt[u] \/ (agt[u] # NoAccount /\ agt'[u] = [agt[u] EXCEPT !.is_valid = FALSE])]_vars
  <2> SUFFICES ASSUME JettInv, [Next]_vars, paused, NEW u \in Users
               PROVE  /\ stake'[u] = stake[u] \/ Withdrawn(u)
                      /\ subscription'[u].optx_minted = subscription[u].optx_minted
                      /\ audit'[u] = audit[u]
                      /\ \/ agt'[u] = agt[u]
                         \/ agt[u] # NoAccount /\ agt'[u] = [agt[u] EXCEPT !.is_valid = FALSE]
    OBVIOUS
  <2>1. AgtSound /\ SubTypeOK
    BY DEF JettInv
  <2>2. [AgtNext]_agtVars
    BY <2>1, AttestationSteps DEF AgtSound, AgtTypeOK
  <2>3. Effect(u)
    BY <2>1, StepEffects DEF Effects
  <2>4. Same(u) \/ TakenBack(u) \/ Migrated(u)
    BY <2>3 DEF Effect, Opened, Held, MintedFor
  <2>5. /\ stake'[u] = stake[u] \/ Withdrawn(u)
        /\ subscription'[u].optx_minted = subscription[u].optx_minted
    BY <2>4 DEF Same, TakenBack, Migrated, Withdrawn
  <2> QED
    BY <2>1, <2>2, <2>5, PausedAttestations
<1> QED
  BY <1>1, AlwaysInv, PTL DEF Spec, PausedOnlyLetsOut

-----------------------------------------------------------------------------
(* The pools.  Together they follow the sum of the positions: a stake adds *)
(* to one of them, an upgrade adds to one exactly what the position grows  *)
(* by, an unstake takes out of one what the position owed.                 *)

Owed == [u \in Sub!Staked |-> stake[u].amount]

Matching == SumFunction(stake_vault_ata) = SumFunction(Owed)

LEMMA SameSum == \A f : Sub!SumFunction(f) = SumFunction(f)
BY DEF Sub!SumFunction, Sub!SumFunctionOnSet, Sub!FoldFunctionOnSet, Sub!MapThenFoldSet,
       SumFunction, SumFunctionOnSet, FoldFunctionOnSet, MapThenFoldSet

LEMMA MatchingIsMatching == PoolsMatchPositions <=> Matching
BY SameSum DEF PoolsMatchPositions, Sub!PoolsMatchPositions, Sub!Pooled, Matching, Owed

LEMMA BalanceSums ==
  ASSUME NEW b \in [Mints -> Nat], NEW m \in Mints, NEW n \in Nat
  PROVE  /\ SumFunction(b) \in Nat
         /\ SumFunction(Sub!Credited(b, m, n)) = SumFunction(b) + n
         /\ b[m] >= n => SumFunction(Sub!Debited(b, m, n)) = SumFunction(b) - n
<1>1. SumFunction(b) \in Nat
  BY TierBounds, SumIsNat
<1>2. SumFunction(Sub!Credited(b, m, n)) = SumFunction(b) + n
  <2> DEFINE c == Sub!Credited(b, m, n)
  <2>1. c \in [Mints -> Nat] /\ c[m] = b[m] + n /\ \A k \in Mints \ {m} : c[k] = b[k]
    BY DEF Sub!Credited
  <2> HIDE DEF c
  <2>2. SumFunction(c) + b[m] = SumFunction(b) + c[m] /\ SumFunction(c) \in Nat
    BY <2>1, TierBounds, SumOfChange, SumIsNat
  <2>3. SumFunction(c) = SumFunction(b) + n
    BY <1>1, <2>1, <2>2
  <2> QED
    BY <2>3 DEF c
<1>3. ASSUME b[m] >= n PROVE SumFunction(Sub!Debited(b, m, n)) = SumFunction(b) - n
  <2> DEFINE c == Sub!Debited(b, m, n)
  <2>1. c \in [Mints -> Nat] /\ c[m] = b[m] - n /\ \A k \in Mints \ {m} : c[k] = b[k]
    BY <1>3 DEF Sub!Debited
  <2> HIDE DEF c
  <2>2. SumFunction(c) + b[m] = SumFunction(b) + c[m] /\ SumFunction(c) \in Nat
    BY <2>1, TierBounds, SumOfChange, SumIsNat
  <2>3. SumFunction(c) = SumFunction(b) - n
    BY <1>1, <2>1, <2>2
  <2> QED
    BY <2>3 DEF c
<1> QED
  BY <1>1, <1>2, <1>3

LEMMA OwedIsNat ==
  ASSUME SubTypeOK
  PROVE  IsFiniteSet(Sub!Staked) /\ Owed \in [Sub!Staked -> Nat] /\ SumFunction(Owed) \in Nat
<1>1. IsFiniteSet(Sub!Staked)
  BY AgtUsersFinite, FS_Subset DEF Sub!Staked
<1>2. \A u \in Sub!Staked : stake[u].amount \in Nat
  BY DEF SubTypeOK, Sub!Staked, Sub!Stake
<1>3. Owed \in [Sub!Staked -> Nat]
  BY <1>2 DEF Owed
<1> QED
  BY <1>1, <1>3, SumIsNat

LEMMA OwedIsNatPrime ==
  ASSUME SubTypeOK'
  PROVE  /\ IsFiniteSet(Sub!Staked') /\ Owed' \in [Sub!Staked' -> Nat]
         /\ SumFunction(Owed') \in Nat
<1>1. IsFiniteSet(Sub!Staked')
  BY AgtUsersFinite, FS_Subset DEF Sub!Staked
<1>2. \A u \in Sub!Staked' : stake'[u].amount \in Nat
  BY DEF SubTypeOK, Sub!Staked, Sub!Stake
<1>3. Owed' \in [Sub!Staked' -> Nat]
  BY <1>2 DEF Owed
<1> QED
  BY <1>1, <1>3, SumIsNat

LEMMA StakeOwed ==
  ASSUME SubTypeOK, SubTypeOK', NEW u \in Users, stake[u] = NoAccount, stake'[u] # NoAccount,
         \A v \in Users \ {u} : stake'[v] = stake[v]
  PROVE  SumFunction(Owed') = SumFunction(Owed) + stake'[u].amount
<1>1. /\ u \in Sub!Staked' /\ u \notin Sub!Staked /\ Sub!Staked' = Sub!Staked \cup {u}
      /\ \A v \in Sub!Staked : Owed'[v] = Owed[v]
      /\ Owed'[u] = stake'[u].amount
  BY DEF Sub!Staked, Owed
<1>2. SumFunction(Owed') = SumFunction(Owed) + Owed'[u]
  BY <1>1, OwedIsNat, OwedIsNatPrime, SumOfMore
<1> QED
  BY <1>1, <1>2

LEMMA UnstakeOwed ==
  ASSUME SubTypeOK, SubTypeOK', NEW u \in Users, stake[u] # NoAccount, stake'[u] = NoAccount,
         \A v \in Users \ {u} : stake'[v] = stake[v]
  PROVE  SumFunction(Owed) = SumFunction(Owed') + stake[u].amount
<1>1. /\ u \in Sub!Staked /\ u \notin Sub!Staked' /\ Sub!Staked = Sub!Staked' \cup {u}
      /\ \A v \in Sub!Staked' : Owed[v] = Owed'[v]
      /\ Owed[u] = stake[u].amount
  BY DEF Sub!Staked, Owed
<1>2. SumFunction(Owed) = SumFunction(Owed') + Owed[u]
  BY <1>1, OwedIsNat, OwedIsNatPrime, SumOfMore
<1> QED
  BY <1>1, <1>2

LEMMA UpgradeOwed ==
  ASSUME SubTypeOK, SubTypeOK', NEW u \in Users, stake[u] # NoAccount, stake'[u] # NoAccount,
         \A v \in Users \ {u} : stake'[v] = stake[v]
  PROVE  SumFunction(Owed') + stake[u].amount = SumFunction(Owed) + stake'[u].amount
<1>1. /\ u \in Sub!Staked /\ Sub!Staked' = Sub!Staked
      /\ \A v \in Sub!Staked \ {u} : Owed'[v] = Owed[v]
      /\ Owed[u] = stake[u].amount /\ Owed'[u] = stake'[u].amount
  BY DEF Sub!Staked, Owed
<1>2. SumFunction(Owed') + Owed[u] = SumFunction(Owed) + Owed'[u]
  BY <1>1, OwedIsNat, OwedIsNatPrime, SumOfChange
<1> QED
  BY <1>1, <1>2

LEMMA StakingMatches ==
  ASSUME AgtSound, SubTypeOK, SubTypeOK', Matching, NEW u \in Users, Subscribing(u)
  PROVE  Matching'
<1>0. clock \in Nat /\ stake_vault_ata \in [Mints -> Nat] /\ SumFunction(Owed) \in Nat /\ SumFunction(Owed') \in Nat
  BY OwedIsNat, OwedIsNatPrime DEF AgtSound, AgtTypeOK, SubTypeOK
<1>1. ASSUME NEW tier \in 1 .. 3, NEW m \in Mints, Sub!StakeForTier(u, tier, m) PROVE Matching'
  <2> DEFINE p == [tier |-> tier, amount |-> Required[tier], staked_at |-> clock,
                   expires_at |-> Sub!ExpiryOf(tier)]
  <2>1. /\ stake[u] = NoAccount
        /\ stake_vault_ata' = Sub!Credited(stake_vault_ata, m, Required[tier])
        /\ stake' = [stake EXCEPT ![u] = p]
    BY <1>1 DEF Sub!StakeForTier
  <2>2. p # NoAccount /\ p.amount = Required[tier]
    BY <1>0, PositionWrites, JettAssumption DEF Sub!NoAccountAssumption
  <2> HIDE DEF p
  <2>3. stake'[u] = p /\ \A v \in Users \ {u} : stake'[v] = stake[v]
    BY <2>1 DEF SubTypeOK
  <2>4. SumFunction(Owed') = SumFunction(Owed) + Required[tier]
    BY <2>1, <2>2, <2>3, StakeOwed
  <2>5. SumFunction(stake_vault_ata') = SumFunction(stake_vault_ata) + Required[tier]
    BY <1>0, <2>1, ExpiryIsNat, BalanceSums
  <2> QED
    BY <2>4, <2>5 DEF Matching
<1>2. ASSUME NEW tier \in 1 .. 3, NEW m \in Mints, Sub!RestakeUpgrade(u, tier, m) PROVE Matching'
  <2> DEFINE p == Sub!Upgraded(stake[u], tier)
             d == Sub!Delta(u, tier)
  <2>1. /\ stake[u] # NoAccount /\ d > 0
        /\ stake_vault_ata' = Sub!Credited(stake_vault_ata, m, d)
        /\ stake' = [stake EXCEPT ![u] = p]
    BY <1>2 DEF Sub!RestakeUpgrade, SubTypeOK
  <2>2. stake[u] \in Sub!Stake /\ stake[u].amount \in Nat /\ Required[tier] \in Nat
    BY <1>0, <2>1, ExpiryIsNat DEF SubTypeOK, Sub!Stake
  <2>3. p # NoAccount /\ p.amount = Required[tier]
    <3>1. p \in Sub!Stake
      BY <1>0, <2>2, PositionWrites
    <3> QED
      BY <2>2, <3>1, JettAssumption DEF Sub!NoAccountAssumption, Sub!Upgraded, Sub!Stake
  <2>4. d \in Nat /\ stake[u].amount + d = Required[tier]
    BY <2>1, <2>2 DEF Sub!Delta
  <2> HIDE DEF p, d
  <2>5. stake'[u] = p /\ \A v \in Users \ {u} : stake'[v] = stake[v]
    BY <2>1 DEF SubTypeOK
  <2>6. SumFunction(Owed') + stake[u].amount = SumFunction(Owed) + Required[tier]
    BY <2>1, <2>3, <2>5, UpgradeOwed
  <2>7. SumFunction(Owed') = SumFunction(Owed) + d
    BY <1>0, <2>2, <2>4, <2>6
  <2>8. SumFunction(stake_vault_ata') = SumFunction(stake_vault_ata) + d
    BY <1>0, <2>1, <2>4, BalanceSums
  <2> QED
    BY <2>7, <2>8 DEF Matching
<1>3. ASSUME NEW m \in Mints, Sub!Unstake(u, m) PROVE Matching'
  <2>1. /\ stake[u] # NoAccount /\ stake_vault_ata[m] >= stake[u].amount
        /\ stake_vault_ata' = Sub!Debited(stake_vault_ata, m, stake[u].amount)
        /\ stake' = [stake EXCEPT ![u] = NoAccount]
    BY <1>3 DEF Sub!Unstake
  <2>2. stake'[u] = NoAccount /\ \A v \in Users \ {u} : stake'[v] = stake[v]
    BY <2>1 DEF SubTypeOK
  <2>3. SumFunction(Owed) = SumFunction(Owed') + stake[u].amount
    BY <2>1, <2>2, UnstakeOwed
  <2>4. stake[u].amount \in Nat
    BY <2>1 DEF SubTypeOK, Sub!Stake
  <2>5. SumFunction(stake_vault_ata') = SumFunction(stake_vault_ata) - stake[u].amount
    BY <1>0, <2>1, <2>4, BalanceSums
  <2> QED
    BY <1>0, <2>3, <2>4, <2>5 DEF Matching
<1>4. ASSUME NEW n \in BaseAmounts, Sub!MintOptx(u, n) PROVE Matching'
  BY <1>4 DEF Sub!MintOptx, Matching, Owed, Sub!Staked
<1> QED
  BY <1>1, <1>2, <1>3, <1>4 DEF Subscribing, Sub!Staking, Sub!Withdrawing

LEMMA MatchingStep == JettInv /\ JettInv' /\ Matching /\ [Next]_vars => Matching'
<1> SUFFICES ASSUME JettInv, JettInv', Matching, [Next]_vars PROVE Matching'
  OBVIOUS
<1>1. AgtSound /\ SubTypeOK /\ SubTypeOK'
  BY DEF JettInv
<1>2. ASSUME UNCHANGED <<stake, stake_vault_ata>> PROVE Matching'
  BY <1>2 DEF Matching, Owed, Sub!Staked
<1>3. ASSUME NEW u \in Users, Attesting(u) PROVE UNCHANGED <<stake, stake_vault_ata>>
  BY <1>3 DEF Attesting, Create, Learn, FirstAudit, Reaudit, Revoke, subVars,
     Sub!CreateAgtAttestation, Sub!AaronAudit, Sub!RevokeAttestation
<1>4. ASSUME NEW s \in Signers, Voting(s) PROVE UNCHANGED <<stake, stake_vault_ata>>
  BY <1>4 DEF Voting, Pause, Approve, Migrate, subVars, Sub!MigrateV2Thresholds
<1> QED
  BY <1>1, <1>2, <1>3, <1>4, StakingMatches DEF Next, vars, subVars

LEMMA MatchingAtFirst == Init => Matching
<1> SUFFICES ASSUME Init PROVE Matching
  OBVIOUS
<1>1. Sub!Staked = {} /\ stake_vault_ata = [m \in Mints |-> 0]
  BY DEF Init, Sub!Staked
<1>2. Owed \in [{} -> Nat]
  BY <1>1 DEF Owed
<1>3. SumFunction(Owed) = 0 /\ SumFunction([m \in Mints |-> 0]) = 0
  BY <1>2, EmptySum, TierBounds, SumOfZeros
<1> QED
  BY <1>1, <1>3 DEF Matching

(* The pools hold between them exactly what the open positions owe,        *)
(* whatever was staked, upgraded, migrated, revoked or paused before, and  *)
(* in whatever mints (stake_for_tier, restake_upgrade, unstake).           *)
THEOREM PoolsMatch == Spec => []PoolsMatchPositions
<1>1. JettInv /\ JettInv' /\ Matching /\ [Next]_vars => Matching'
  BY MatchingStep
<1>2. Matching => PoolsMatchPositions
  BY MatchingIsMatching
<1> QED
  BY <1>1, <1>2, MatchingAtFirst, AlwaysInv, PTL DEF Spec

-----------------------------------------------------------------------------
(* The parts.  A step of the vault is a step of each of its parts, as the  *)
(* part has it on its own, or leaves that part alone.                      *)

LEMMA LearningKeepsView ==
  ASSUME AgtSound, NEW u \in Users, Learn(u)
  PROVE  AgtView' = AgtView
<1>1. PICK gaze \in Gazes, alpha \in Alphas : UpdateAgtWeights(u, gaze, alpha)
  BY DEF Learn
<1>2. agt[u] # NoAccount
  BY <1>1 DEF UpdateAgtWeights, Valid
<1>3. PICK x : /\ Sound(u, x) /\ x.aaron_audit_hash = agt[u].aaron_audit_hash
               /\ x.is_valid = agt[u].is_valid
               /\ agt' = [agt EXCEPT ![u] = x]
  BY <1>1, UpdateSound
<1>4. x # NoAccount
  BY <1>3, NoAgtAssumption DEF Sound
<1>5. View(x) = View(agt[u])
  BY <1>2, <1>3, <1>4 DEF View
<1>6. AgtView' = [AgtView EXCEPT ![u] = View(x)]
  BY <1>3, ViewOfWrite DEF AgtSound
<1> QED
  BY <1>5, <1>6 DEF AgtView, View

LEMMA SubscriptionSteps ==
  ASSUME AgtSound, VoteInv, [Next]_vars
  PROVE  [Sub!Next]_(Sub!vars)
<1> USE DEF Sub!vars
<1>1. ASSUME NEW u \in Users, Attesting(u) PROVE [Sub!Next]_(Sub!vars)
  <2>1. ASSUME Create(u) \/ Revoke(u) \/ \E operator \in Signers : FirstAudit(operator, u)
        PROVE  Sub!Attesting(u)
    BY <2>1 DEF Create, Revoke, FirstAudit, Sub!Attesting
  <2>2. ASSUME Learn(u) PROVE UNCHANGED Sub!vars
    <3>1. UNCHANGED <<clock, paused, subVars>>
      BY <2>2 DEF Learn, UpdateAgtWeights
    <3> QED
      BY <2>2, <3>1, LearningKeepsView DEF subVars
  <2>3. ASSUME NEW operator \in Signers, Reaudit(operator, u) PROVE UNCHANGED Sub!vars
    BY <2>3 DEF Reaudit, RefreshAaronAudit, AgtView, subVars
  <2> QED
    BY <1>1, <2>1, <2>2, <2>3 DEF Attesting, Sub!Next
<1>2. ASSUME NEW u \in Users, Subscribing(u) PROVE Sub!Next
  BY <1>2 DEF Subscribing, Sub!Next
<1>3. ASSUME NEW s \in Signers, Voting(s) PROVE [Sub!Next]_(Sub!vars)
  <2>1. ASSUME NEW p \in BOOLEAN, Pause(s, p) PROVE Sub!SetPaused(paused') /\ paused' \in BOOLEAN
    <3>1. paused' \in BOOLEAN
      BY <2>1 DEF Pause, Multisig!SetPaused, VoteInv, Multisig!MultisigTypeOK
    <3>2. UNCHANGED <<clock, AgtView, subVars>>
      BY <2>1 DEF Pause, AgtView
    <3> QED
      BY <3>1, <3>2 DEF Sub!SetPaused, subVars
  <2>2. ASSUME Approve(s) PROVE UNCHANGED Sub!vars
    BY <2>2 DEF Approve, agtVars, subVars, AgtView
  <2>3. ASSUME NEW batch \in SUBSET Users, Migrate(s, batch) PROVE Sub!MigrateV2Thresholds(batch)
    BY <2>3 DEF Migrate
  <2> QED
    BY <1>3, <2>1, <2>2, <2>3 DEF Voting, Sub!Next, Sub!Governance
<1>4. CASE Tick /\ UNCHANGED <<subVars, voteVars>>
  BY <1>4 DEF Tick, Sub!Next, Sub!Tick, subVars, AgtView
<1>5. CASE UNCHANGED vars
  BY <1>5 DEF vars, agtVars, subVars, AgtView
<1> QED
  BY <1>1, <1>2, <1>3, <1>4, <1>5 DEF Next

LEMMA MultisigSteps ==
  ASSUME [Next]_vars
  PROVE  [Multisig!MultisigNext]_(Multisig!multisigVars)
<1> USE DEF Multisig!multisigVars
<1>1. ASSUME NEW u \in Users, Attesting(u) PROVE UNCHANGED Multisig!multisigVars
  BY <1>1 DEF Attesting, Create, Learn, FirstAudit, Reaudit, Revoke, voteVars,
     CreateAgtAttestation, UpdateAgtWeights, AaronAudit, RefreshAaronAudit, RevokeAttestation
<1>2. ASSUME NEW u \in Users, Subscribing(u) PROVE UNCHANGED Multisig!multisigVars
  BY <1>2 DEF Subscribing, voteVars, agtVars
<1>3. ASSUME NEW s \in Signers, Voting(s) PROVE Multisig!MultisigNext
  BY <1>3 DEF Voting, Pause, Approve, Migrate, Multisig!MultisigNext
<1>4. CASE Tick /\ UNCHANGED <<subVars, voteVars>>
  BY <1>4 DEF Tick, voteVars
<1>5. CASE UNCHANGED vars
  BY <1>5 DEF vars, agtVars, voteVars
<1> QED
  BY <1>1, <1>2, <1>3, <1>4, <1>5 DEF Next

(* Put together, the parts do nothing they would not do alone: the vault   *)
(* implements the multisig, and every transaction is, for the attestations *)
(* and for the stakes, one of their own or none (lib.rs, one instruction). *)
THEOREM PartsAreFollowed ==
  Spec => /\ Multisig!MultisigSpec
          /\ [][AgtNext]_agtVars
          /\ [][Sub!Next]_(Sub!vars)
<1>1. Init => Multisig!MultisigInit
  BY DEF Init
<1>2. [Next]_vars => [Multisig!MultisigNext]_(Multisig!multisigVars)
  BY MultisigSteps
<1>3. JettInv /\ [Next]_vars => [AgtNext]_agtVars
  BY AttestationSteps DEF JettInv, AgtSound, AgtTypeOK
<1>4. JettInv /\ [Next]_vars => [Sub!Next]_(Sub!vars)
  BY SubscriptionSteps DEF JettInv
<1> QED
  BY <1>1, <1>2, <1>3, <1>4, AlwaysInv, PTL DEF Spec, Multisig!MultisigSpec

-----------------------------------------------------------------------------
(* What a staker can count on at any time: the attestation account that    *)
(* unstake asks for is there, and, as long as nobody has brought a second  *)
(* mint into the pools, so are the tokens.                                 *)

OnlyPool(m) == \A k \in Mints \ {m} : stake_vault_ata[k] = 0

Repayable ==
  \A u \in Users : stake[u] # NoAccount =>
    /\ agt[u] # NoAccount
    /\ \A m \in Mints : OnlyPool(m) => stake_vault_ata[m] >= stake[u].amount

StakersAttested == \A u \in Users : stake[u] # NoAccount => agt[u] # NoAccount

LEMMA StakersAttestedStep == JettInv /\ StakersAttested /\ [Next]_vars => StakersAttested'
<1> SUFFICES ASSUME JettInv, StakersAttested, [Next]_vars, NEW u \in Users,
                    stake'[u] # NoAccount
             PROVE  agt'[u] # NoAccount
  BY DEF StakersAttested
<1>1. AgtSound /\ [AgtNext]_agtVars /\ Effect(u)
  BY AttestationSteps, StepEffects DEF JettInv, AgtSound, AgtTypeOK, Effects
<1>2. agt[u] # NoAccount
  BY <1>1 DEF Effect, Same, Opened, Held, TakenBack, MintedFor, Migrated, StakersAttested
<1> QED
  BY <1>1, <1>2, NeverClosed

LEMMA OnlyPoolIsSum ==
  ASSUME SubTypeOK, NEW m \in Mints, OnlyPool(m)
  PROVE  SumFunction(stake_vault_ata) = stake_vault_ata[m]
<1> DEFINE others == [k \in Mints \ {m} |-> stake_vault_ata[k]]
<1>1. others = [k \in Mints \ {m} |-> 0]
  BY DEF OnlyPool
<1>2. IsFiniteSet(Mints \ {m})
  BY TierBounds, FS_Subset
<1>3. SumFunction(others) = 0
  BY <1>1, <1>2, SumOfZeros
<1>4. stake_vault_ata \in [Mints -> Nat] /\ stake_vault_ata[m] \in Nat
  BY DEF SubTypeOK
<1>5. SumFunction(stake_vault_ata) = stake_vault_ata[m] + SumFunction(others)
  BY <1>4, TierBounds, SumWithout
<1> HIDE DEF others
<1> QED
  BY <1>3, <1>4, <1>5

LEMMA PoolCovers ==
  ASSUME SubTypeOK, Matching, NEW u \in Users, stake[u] # NoAccount,
         NEW m \in Mints, OnlyPool(m)
  PROVE  stake_vault_ata[m] >= stake[u].amount
<1> DEFINE rest == SumFunction([v \in Sub!Staked \ {u} |-> Owed[v]])
<1>1. u \in Sub!Staked /\ Owed[u] = stake[u].amount
  BY DEF Sub!Staked, Owed
<1>2. SumFunction(Owed) = Owed[u] + rest
  <2>1. IsFiniteSet(Sub!Staked) /\ Owed \in [Sub!Staked -> Nat] /\ u \in Sub!Staked
    BY <1>1, OwedIsNat
  <2> QED
    BY <2>1, SumWithout
<1>3. rest \in Nat
  <2>1. IsFiniteSet(Sub!Staked \ {u})
    BY OwedIsNat, FS_Subset
  <2>2. [v \in Sub!Staked \ {u} |-> Owed[v]] \in [Sub!Staked \ {u} -> Nat]
    BY OwedIsNat
  <2> QED
    BY <2>1, <2>2, SumIsNat
<1>4. stake[u].amount \in Nat
  BY DEF SubTypeOK, Sub!Stake
<1>5. SumFunction(Owed) = stake_vault_ata[m]
  BY OnlyPoolIsSum DEF Matching
<1> HIDE DEF rest
<1> QED
  BY <1>1, <1>2, <1>3, <1>4, <1>5

(* Whoever holds a position finds the attestation account that unstake     *)
(* asks for, and, while the tokens of all pools are of one mint, a pool    *)
(* that holds at least the amount, whatever was paused, revoked, migrated  *)
(* or upgraded, and whoever unstaked before.  Once two mints are mixed     *)
(* nothing of the kind is promised (unstake names the pool).               *)
THEOREM StakesAreRepayable == Spec => []Repayable
<1>1. Init => StakersAttested
  BY DEF Init, StakersAttested
<1>2. JettInv /\ JettInv' /\ Matching /\ [Next]_vars => Matching'
  BY MatchingStep
<1>3. JettInv /\ StakersAttested /\ Matching => Repayable
  BY PoolCovers DEF JettInv, StakersAttested, Repayable
<1> QED
  BY <1>1, <1>2, <1>3, StakersAttestedStep, MatchingAtFirst, AlwaysInv, PTL DEF Spec

-----------------------------------------------------------------------------
(* The lock.  Also in the whole vault, starting from tiers nobody paid for,*)
(* a position records the price of its tier for its whole term.            *)

StakesTyped == SubTypeOK /\ clock \in Nat

LEMMA InvTyped == JettInv => StakesTyped
BY DEF JettInv, StakesTyped, AgtSound, AgtTypeOK

LEMMA NewPosition ==
  ASSUME clock \in Nat, NEW tier \in 1 .. 3, NEW s \in Sub!Stake,
         s.tier = tier, s.amount = Required[tier], s.expires_at = Sub!ExpiryOf(tier),
         s.staked_at <= clock
  PROVE  Sub!RecordsItsPrice(s, clock)
<1>1. CASE tier = 3
  BY <1>1 DEF Sub!RecordsItsPrice, Sub!ExpiryOf
<1>2. CASE tier # 3
  <2>1. tier \in 1 .. 2 /\ Duration[tier] \in Nat
    BY <1>2, TierBounds
  <2> QED
    BY <1>2, <2>1 DEF Sub!RecordsItsPrice, Sub!ExpiryOf, Sub!Stake
<1> QED
  BY <1>1, <1>2

LEMMA OldPosition ==
  ASSUME NEW s \in Sub!Stake, NEW now \in Nat, NEW later \in Nat, now <= later,
         Sub!RecordsItsPrice(s, now)
  PROVE  Sub!RecordsItsPrice(s, later)
<1>1. CASE s.tier = 3
  BY <1>1 DEF Sub!RecordsItsPrice, Sub!Stake
<1>2. CASE s.tier # 3
  <2>1. s.tier \in 1 .. 2 /\ Duration[s.tier] \in Nat
    BY <1>2, TierBounds DEF Sub!Stake
  <2> QED
    BY <1>2, <2>1 DEF Sub!RecordsItsPrice, Sub!Stake
<1> QED
  BY <1>1, <1>2

LEMMA PositionsStep ==
  JettInv /\ JettInv' /\ Sub!StakeMatchesTier /\ [Next]_vars => Sub!StakeMatchesTier'
<1> SUFFICES ASSUME JettInv, JettInv', Sub!StakeMatchesTier, [Next]_vars,
                    NEW v \in Users, stake'[v] # NoAccount
             PROVE  Sub!RecordsItsPrice(stake'[v], clock')
  BY DEF Sub!StakeMatchesTier, Sub!Staked
<1>1. /\ stake \in [Users -> Sub!Stake \cup {NoAccount}] /\ clock \in Nat
      /\ stake'[v] \in Sub!Stake /\ clock' \in Nat
  <2>1. SubTypeOK /\ clock \in Nat /\ SubTypeOK' /\ clock' \in Nat
    BY DEF JettInv, AgtSound, AgtTypeOK
  <2> QED
    BY <2>1 DEF SubTypeOK
<1>2. [Sub!Next]_(Sub!vars)
  BY SubscriptionSteps DEF JettInv
<1>3. clock <= clock'
  BY <1>1, <1>2
     DEF Sub!Next, Sub!vars, Sub!Governance, Sub!Staking, Sub!Withdrawing, Sub!Attesting, Sub!SetPaused,
         Sub!MigrateV2Thresholds, Sub!Unstake, Sub!StakeForTier, Sub!RestakeUpgrade,
         Sub!CreateAgtAttestation, Sub!AaronAudit, Sub!RevokeAttestation, Sub!MintOptx, Sub!Tick
<1>4. ASSUME stake'[v] = stake[v] PROVE Sub!RecordsItsPrice(stake'[v], clock')
  <2>1. Sub!RecordsItsPrice(stake'[v], clock)
    BY <1>4 DEF Sub!StakeMatchesTier, Sub!Staked
  <2> QED
    BY <1>1, <1>3, <2>1, OldPosition
<1>5. ASSUME NEW u \in Users, NEW tier \in 1 .. 3, NEW m \in Mints, Sub!StakeForTier(u, tier, m)
      PROVE  Sub!RecordsItsPrice(stake'[v], clock')
  <2>1. CASE u = v
    <3> DEFINE s == stake'[v]
    <3>1. /\ s.tier = tier /\ s.amount = Required[tier]
          /\ s.expires_at = Sub!ExpiryOf(tier) /\ s.staked_at <= clock /\ clock' = clock
      BY <1>1, <1>5, <2>1 DEF Sub!StakeForTier
    <3> QED
      BY <1>1, <3>1, NewPosition
  <2>2. CASE u # v
    BY <1>1, <1>4, <1>5, <2>2 DEF Sub!StakeForTier
  <2> QED
    BY <2>1, <2>2
<1>6. ASSUME NEW u \in Users, NEW tier \in 1 .. 3, NEW m \in Mints, Sub!RestakeUpgrade(u, tier, m)
      PROVE  Sub!RecordsItsPrice(stake'[v], clock')
  <2>1. CASE u = v
    <3> DEFINE s == stake'[v]
    <3>1. /\ stake[v] # NoAccount /\ stake[v] \in Sub!Stake
          /\ s = Sub!Upgraded(stake[v], tier) /\ clock' = clock
      BY <1>1, <1>6, <2>1 DEF Sub!RestakeUpgrade
    <3>2. stake[v].staked_at <= clock
      BY <3>1 DEF Sub!StakeMatchesTier, Sub!Staked, Sub!RecordsItsPrice
    <3>3. /\ s.tier = tier /\ s.amount = Required[tier]
          /\ s.expires_at = Sub!ExpiryOf(tier) /\ s.staked_at <= clock
      BY <3>1, <3>2 DEF Sub!Upgraded, Sub!Stake
    <3> QED
      BY <1>1, <3>1, <3>3, NewPosition
  <2>2. CASE u # v
    BY <1>1, <1>4, <1>6, <2>2 DEF Sub!RestakeUpgrade
  <2> QED
    BY <2>1, <2>2
<1>7. ASSUME NEW u \in Users, NEW m \in Mints, Sub!Unstake(u, m) PROVE Sub!RecordsItsPrice(stake'[v], clock')
  <2>1. stake'[v] = stake[v]
    BY <1>1, <1>7 DEF Sub!Unstake
  <2> QED
    BY <1>4, <2>1
<1>8. CASE UNCHANGED stake
  BY <1>4, <1>8
<1> QED
  BY <1>2, <1>5, <1>6, <1>7, <1>8
     DEF Sub!Next, Sub!vars, Sub!Governance, Sub!Staking, Sub!Withdrawing, Sub!Attesting, Sub!SetPaused,
         Sub!MigrateV2Thresholds, Sub!CreateAgtAttestation, Sub!AaronAudit,
         Sub!RevokeAttestation, Sub!MintOptx, Sub!Tick

LEMMA PositionsAtFirst == Init => Sub!StakeMatchesTier
BY DEF Init, Sub!StakeMatchesTier, Sub!Staked

(* Whatever the upgrade to v2.1 found, every open position records exactly *)
(* the price of its tier, in units of whatever mint was paid, until its    *)
(* whole term has passed, and only SPACE COWBOY never expires              *)
(* (stake_for_tier, restake_upgrade).                                      *)
THEOREM PositionsRecordTheirPrice == Spec => []Sub!StakeMatchesTier
BY PositionsAtFirst, PositionsStep, AlwaysInv, PTL DEF Spec

LockedOf(u) == IF stake[u] = NoAccount THEN 0 ELSE stake[u].amount
DateOf(u) ==
  IF stake[u] = NoAccount THEN 0
  ELSE IF stake[u].tier = 3 THEN NoAccount ELSE stake[u].expires_at

locked == [u \in Users |-> LockedOf(u)]
date == [u \in Users |-> DateOf(u)]

LEMMA LockAtFirst == Init => Sub!Lock!Init
BY TierBounds DEF Init, Sub!Lock!Init

LEMMA TickRefines ==
  ASSUME Sub!Tick
  PROVE  Sub!Lock!Next
BY DEF Sub!Tick, Sub!Lock!Next, Sub!Lock!Tick

LEMMA UnstakeRefines ==
  ASSUME StakesTyped, Sub!StakeMatchesTier, NEW u \in Users, NEW m \in Mints, Sub!Unstake(u, m)
  PROVE  Sub!Lock!Next
<1>1. /\ stake \in [Users -> Sub!Stake \cup {NoAccount}] /\ user_jtx_ata \in [Users -> [Mints -> Nat]]
      /\ stake[u] # NoAccount /\ stake[u] \in Sub!Stake /\ clock \in Nat
  BY DEF StakesTyped, SubTypeOK, Sub!Unstake
<1>2. stake[u].tier # 3 /\ clock >= stake[u].expires_at
  BY <1>1 DEF Sub!Unstake, Sub!Matured, Sub!StakeMatchesTier, Sub!Staked, Sub!RecordsItsPrice
<1>3. LockedOf(u) = stake[u].amount /\ DateOf(u) = stake[u].expires_at
  BY <1>1, <1>2 DEF LockedOf, DateOf
<1>4. DateOf(u) # NoAccount /\ clock >= DateOf(u)
  BY <1>1, <1>2, <1>3, JettAssumption DEF Sub!Stake, Sub!NoAccountAssumption
<1>5. /\ user_jtx_ata' = [user_jtx_ata EXCEPT ![u] = Sub!Lock!Plus(user_jtx_ata[u], m, LockedOf(u))]
      /\ stake_vault_ata' = Sub!Lock!Minus(stake_vault_ata, m, LockedOf(u))
      /\ stake_vault_ata[m] >= LockedOf(u)
      /\ stake' = [stake EXCEPT ![u] = NoAccount]
      /\ clock' = clock
  BY <1>3 DEF Sub!Unstake, Sub!Debited, Sub!Credited, Sub!Lock!Plus, Sub!Lock!Minus
<1>6. /\ locked' = [locked EXCEPT ![u] = 0]
      /\ date' = [date EXCEPT ![u] = 0]
  BY <1>1, <1>5 DEF locked, date, LockedOf, DateOf
<1>7. locked[u] = LockedOf(u) /\ date[u] = DateOf(u)
  BY DEF locked, date
<1> QED
  BY <1>4, <1>5, <1>6, <1>7 DEF Sub!Lock!Next, Sub!Lock!Release, locked, date, LockedOf, DateOf

(* What it takes for a step to be a lock. *)
LEMMA LockRefines ==
  ASSUME NEW u \in Users, NEW m \in Mints, NEW d, NEW e,
         d \in Nat, d > 0, user_jtx_ata \in [Users -> [Mints -> Nat]],
         d <= user_jtx_ata[u][m],
         user_jtx_ata' = [user_jtx_ata EXCEPT ![u] = Sub!Debited(user_jtx_ata[u], m, d)],
         stake_vault_ata' = Sub!Credited(stake_vault_ata, m, d),
         locked[u] \in Nat, locked' = [locked EXCEPT ![u] = locked[u] + d],
         date[u] # NoAccount, date' = [date EXCEPT ![u] = e],
         e = NoAccount \/ (date[u] <= e /\ clock <= e), clock # NoAccount,
         clock' = clock
  PROVE  Sub!Lock!Next
<1>1. d \in 1 .. user_jtx_ata[u][m]
  OBVIOUS
<1>2. date'[u] = e
  BY DEF date
<1>3. /\ user_jtx_ata' = [user_jtx_ata EXCEPT ![u] = Sub!Lock!Minus(user_jtx_ata[u], m, d)]
      /\ stake_vault_ata' = Sub!Lock!Plus(stake_vault_ata, m, d)
      /\ date' = [date EXCEPT ![u] = date'[u]]
  BY <1>2 DEF Sub!Debited, Sub!Credited, Sub!Lock!Plus, Sub!Lock!Minus
<1>4. Sub!Lock!NotEarlier(date[u], date'[u]) /\ Sub!Lock!NotEarlier(clock, date'[u])
  BY <1>2 DEF Sub!Lock!NotEarlier
<1>5. Sub!Lock!Lock(u, m, d)
  BY <1>3, <1>4 DEF Sub!Lock!Lock, locked, date, LockedOf, DateOf
<1> QED
  BY <1>1, <1>5 DEF Sub!Lock!Next

LEMMA StakeRefines ==
  ASSUME StakesTyped, NEW u \in Users, NEW tier \in 1 .. 3, NEW m \in Mints, Sub!StakeForTier(u, tier, m)
  PROVE  Sub!Lock!Next
<1> DEFINE s == [tier |-> tier, amount |-> Required[tier],
                 staked_at |-> clock, expires_at |-> Sub!ExpiryOf(tier)]
           d == Required[tier]
           e == IF tier = 3 THEN NoAccount ELSE Sub!ExpiryOf(tier)
<1>1. /\ stake \in [Users -> Sub!Stake \cup {NoAccount}] /\ user_jtx_ata \in [Users -> [Mints -> Nat]]
      /\ clock \in Nat /\ stake[u] = NoAccount
      /\ stake' = [stake EXCEPT ![u] = s] /\ clock' = clock
  BY DEF StakesTyped, SubTypeOK, Sub!StakeForTier
<1>2. d \in Nat /\ d > 0
  BY TierBounds
<1>3. s \in Sub!Stake /\ s # NoAccount
  BY <1>1, PositionWrites, JettAssumption DEF Sub!NoAccountAssumption
<1>4. locked[u] = 0 /\ date[u] = 0
  BY <1>1 DEF locked, date, LockedOf, DateOf
<1>5. /\ locked' = [locked EXCEPT ![u] = d]
      /\ date' = [date EXCEPT ![u] = e]
  BY <1>1, <1>3 DEF locked, date, LockedOf, DateOf
<1>6. e = NoAccount \/ (0 <= e /\ clock <= e)
  <2>1. CASE tier # 3
    <3>1. tier \in 1 .. 2 /\ Duration[tier] \in Nat
      BY <2>1, TierBounds
    <3> QED
      BY <1>1, <2>1, <3>1 DEF Sub!ExpiryOf
  <2> QED
    BY <2>1
<1>7. /\ d <= user_jtx_ata[u][m]
      /\ user_jtx_ata' = [user_jtx_ata EXCEPT ![u] = Sub!Debited(user_jtx_ata[u], m, d)]
      /\ stake_vault_ata' = Sub!Credited(stake_vault_ata, m, d)
  BY <1>1, <1>2 DEF Sub!StakeForTier
<1>8. 0 # NoAccount /\ clock # NoAccount
  BY <1>1, JettAssumption DEF Sub!NoAccountAssumption
<1>9. locked[u] + d = d /\ locked[u] \in Nat
  BY <1>2, <1>4
<1> HIDE DEF d, e, s
<1>10. locked' = [locked EXCEPT ![u] = locked[u] + d]
  BY <1>5, <1>9
<1>11. e = NoAccount \/ (date[u] <= e /\ clock <= e)
  BY <1>4, <1>6
<1>12. date[u] # NoAccount
  BY <1>4, <1>8
<1> QED
  BY <1>1, <1>2, <1>5, <1>7, <1>8, <1>9, <1>10, <1>11, <1>12, LockRefines

LEMMA UpgradeRefines ==
  ASSUME StakesTyped, Sub!StakeMatchesTier, NEW u \in Users, NEW tier \in 1 .. 3, NEW m \in Mints,
         Sub!RestakeUpgrade(u, tier, m)
  PROVE  Sub!Lock!Next
<1> DEFINE s == Sub!Upgraded(stake[u], tier)
           d == Required[tier] - Required[stake[u].tier]
           e == IF tier = 3 THEN NoAccount ELSE Sub!ExpiryOf(tier)
<1>1. /\ stake \in [Users -> Sub!Stake \cup {NoAccount}] /\ user_jtx_ata \in [Users -> [Mints -> Nat]]
      /\ clock \in Nat /\ stake[u] # NoAccount /\ stake[u] \in Sub!Stake
      /\ stake' = [stake EXCEPT ![u] = s] /\ clock' = clock /\ tier > stake[u].tier
  BY DEF StakesTyped, SubTypeOK, Sub!RestakeUpgrade
<1>2. /\ s \in Sub!Stake /\ s # NoAccount /\ s.tier = tier /\ s.amount = Required[tier]
      /\ s.expires_at = Sub!ExpiryOf(tier)
  <2>1. s \in Sub!Stake /\ s.tier = tier
    BY <1>1, PositionWrites
  <2> QED
    BY <1>1, <2>1, JettAssumption DEF Sub!NoAccountAssumption, Sub!Upgraded, Sub!Stake
<1>3. Sub!RecordsItsPrice(stake[u], clock) /\ stake[u].tier \in 1 .. 2
  BY <1>1 DEF Sub!StakeMatchesTier, Sub!Staked, Sub!Stake
<1>4. /\ d \in Nat /\ d > 0 /\ Required[stake[u].tier] \in Nat /\ Required[tier] \in Nat
  BY <1>1, <1>3, TierBounds, JettAssumption DEF Sub!TierAssumption
<1>5. stake[u].amount = Required[stake[u].tier] /\ Sub!Delta(u, tier) = d
  BY <1>3, <1>4 DEF Sub!RecordsItsPrice, Sub!Delta
<1>6. /\ locked[u] = Required[stake[u].tier]
      /\ date[u] = stake[u].expires_at /\ date[u] \in Nat
  BY <1>1, <1>3, <1>5 DEF locked, date, LockedOf, DateOf, Sub!Stake
<1>7. /\ locked' = [locked EXCEPT ![u] = Required[tier]]
      /\ date' = [date EXCEPT ![u] = e]
  <2> HIDE DEF s
  <2> QED
    BY <1>1, <1>2 DEF locked, date, LockedOf, DateOf
<1>8. e = NoAccount \/ (date[u] <= e /\ clock <= e)
  <2>1. CASE tier = 3
    BY <2>1
  <2>2. CASE tier = 2
    <3>1. /\ Sub!ExpiryOf(tier) = clock + Duration[2]
          /\ stake[u].expires_at <= clock + Duration[stake[u].tier]
          /\ Duration[1] <= Duration[2] /\ Duration[1] \in Nat /\ Duration[2] \in Nat
      BY <1>1, <1>3, <2>2, TierBounds, JettAssumption
         DEF Sub!RecordsItsPrice, Sub!ExpiryOf, Sub!TierAssumption
    <3>2. stake[u].tier = 1
      BY <1>1, <1>3, <2>2
    <3> QED
      BY <1>1, <1>6, <2>2, <3>1, <3>2
  <2> QED
    BY <1>1, <1>3, <2>1, <2>2
<1>9. /\ d <= user_jtx_ata[u][m]
      /\ user_jtx_ata' = [user_jtx_ata EXCEPT ![u] = Sub!Debited(user_jtx_ata[u], m, d)]
      /\ stake_vault_ata' = Sub!Credited(stake_vault_ata, m, d)
  BY <1>1, <1>4, <1>5 DEF Sub!RestakeUpgrade
<1>10. date[u] # NoAccount /\ clock # NoAccount
  BY <1>1, <1>6, JettAssumption DEF Sub!NoAccountAssumption
<1>11. locked[u] + d = Required[tier] /\ locked[u] \in Nat
  BY <1>4, <1>6
<1> HIDE DEF d, e, s
<1>12. locked' = [locked EXCEPT ![u] = locked[u] + d]
  BY <1>7, <1>11
<1> QED
  BY <1>1, <1>4, <1>7, <1>8, <1>9, <1>10, <1>11, <1>12, LockRefines

LEMMA LockStep ==
  ASSUME StakesTyped, Sub!StakeMatchesTier, [Sub!Next]_(Sub!vars)
  PROVE  [Sub!Lock!Next]_(Sub!Lock!vars)
<1>1. ASSUME NEW u \in Users, Sub!Staking(u) PROVE Sub!Lock!Next
  BY <1>1, UnstakeRefines, StakeRefines, UpgradeRefines DEF Sub!Staking, Sub!Withdrawing
<1>2. CASE Sub!Tick
  BY <1>2, TickRefines
<1>3. CASE UNCHANGED <<clock, user_jtx_ata, stake_vault_ata, stake>>
  BY <1>3 DEF Sub!Lock!vars
<1> QED
  BY <1>1, <1>2, <1>3
     DEF Sub!Next, Sub!vars, Sub!Governance, Sub!Attesting, Sub!SetPaused,
         Sub!MigrateV2Thresholds, Sub!CreateAgtAttestation, Sub!AaronAudit,
         Sub!RevokeAttestation, Sub!MintOptx

(* The whole vault implements the lock of units, from whatever state the   *)
(* upgrade found: no vote, audit, revocation or pause moves tokens, and    *)
(* they come out of a lock only on its date, in full and to its owner, of  *)
(* whichever mint's pool the owner names (stake_for_tier, restake_upgrade, *)
(* unstake).                                                               *)
THEOREM VaultImplementsLock == Spec => ImplementsLock
<1>1. JettInv /\ JettInv' /\ Sub!StakeMatchesTier /\ [Next]_vars =>
        [Sub!Lock!Next]_(Sub!Lock!vars) /\ Sub!StakeMatchesTier'
  BY InvTyped, SubscriptionSteps, LockStep, PositionsStep DEF JettInv
<1> QED
  BY <1>1, LockAtFirst, PositionsAtFirst, AlwaysInv, PTL
     DEF Spec, ImplementsLock, Sub!ImplementsLock, Sub!Lock!Spec

-----------------------------------------------------------------------------
(* What the lock is worth to its owner: a user's units are the tokens of   *)
(* all mints in the user's accounts and what the position will give back.  *)

Units(u) == SumFunction(user_jtx_ata[u]) + LockedOf(u)

UnitsConserved == [][\A u \in Users : Units(u)' = Units(u)]_vars

LEMMA LockedIsNat ==
  ASSUME SubTypeOK, NEW u \in Users
  PROVE  LockedOf(u) \in Nat
BY DEF SubTypeOK, LockedOf, Sub!Stake

(* What one user's lock moves between the accounts of that user.           *)
LEMMA LockMoves ==
  ASSUME SubTypeOK, NEW u \in Users, NEW m \in Mints,
         \/ \E n \in 1 .. user_jtx_ata[u][m] : Sub!Lock!Lock(u, m, n)
         \/ Sub!Lock!Release(u, m)
  PROVE  /\ locked'[u] + SumFunction(user_jtx_ata'[u]) = locked[u] + SumFunction(user_jtx_ata[u])
         /\ \A v \in Users \ {u} :
              locked'[v] = locked[v] /\ user_jtx_ata'[v] = user_jtx_ata[v]
<1>1. /\ user_jtx_ata \in [Users -> [Mints -> Nat]] /\ user_jtx_ata[u] \in [Mints -> Nat]
      /\ locked \in [Users -> Nat] /\ locked[u] \in Nat
  BY LockedIsNat DEF SubTypeOK, locked
<1>2. SumFunction(user_jtx_ata[u]) \in Nat
  BY <1>1, TierBounds, SumIsNat
<1>3. ASSUME NEW n \in 1 .. user_jtx_ata[u][m], Sub!Lock!Lock(u, m, n)
      PROVE  /\ locked'[u] + SumFunction(user_jtx_ata'[u]) = locked[u] + SumFunction(user_jtx_ata[u])
             /\ \A v \in Users \ {u} :
                  locked'[v] = locked[v] /\ user_jtx_ata'[v] = user_jtx_ata[v]
  <2>1. /\ user_jtx_ata' = [user_jtx_ata EXCEPT ![u] = Sub!Debited(user_jtx_ata[u], m, n)]
        /\ locked' = [locked EXCEPT ![u] = locked[u] + n]
    BY <1>3 DEF Sub!Lock!Lock, Sub!Lock!Minus, Sub!Debited, locked, LockedOf
  <2>2. n \in Nat /\ user_jtx_ata[u][m] >= n
    BY <1>1
  <2>3. SumFunction(Sub!Debited(user_jtx_ata[u], m, n)) = SumFunction(user_jtx_ata[u]) - n
    BY <1>1, <2>2, BalanceSums
  <2>4. user_jtx_ata'[u] = Sub!Debited(user_jtx_ata[u], m, n) /\ locked'[u] = locked[u] + n
    BY <1>1, <2>1
  <2>5. \A v \in Users \ {u} : locked'[v] = locked[v] /\ user_jtx_ata'[v] = user_jtx_ata[v]
    BY <1>1, <2>1
  <2>6. SumFunction(user_jtx_ata'[u]) = SumFunction(user_jtx_ata[u]) - n
    BY <2>3, <2>4
  <2> QED
    BY <1>1, <1>2, <2>2, <2>4, <2>5, <2>6
<1>4. ASSUME Sub!Lock!Release(u, m)
      PROVE  /\ locked'[u] + SumFunction(user_jtx_ata'[u]) = locked[u] + SumFunction(user_jtx_ata[u])
             /\ \A v \in Users \ {u} :
                  locked'[v] = locked[v] /\ user_jtx_ata'[v] = user_jtx_ata[v]
  <2>1. /\ user_jtx_ata' = [user_jtx_ata EXCEPT ![u] = Sub!Credited(user_jtx_ata[u], m, locked[u])]
        /\ locked' = [locked EXCEPT ![u] = 0]
    BY <1>4 DEF Sub!Lock!Release, Sub!Lock!Plus, Sub!Credited, locked, LockedOf
  <2>2. SumFunction(Sub!Credited(user_jtx_ata[u], m, locked[u]))
          = SumFunction(user_jtx_ata[u]) + locked[u]
    BY <1>1, BalanceSums
  <2>3. user_jtx_ata'[u] = Sub!Credited(user_jtx_ata[u], m, locked[u]) /\ locked'[u] = 0
    BY <1>1, <2>1
  <2>4. \A v \in Users \ {u} : locked'[v] = locked[v] /\ user_jtx_ata'[v] = user_jtx_ata[v]
    BY <1>1, <2>1
  <2>5. SumFunction(user_jtx_ata'[u]) = SumFunction(user_jtx_ata[u]) + locked[u]
    BY <2>2, <2>3
  <2> QED
    BY <1>1, <1>2, <2>3, <2>4, <2>5
<1> QED
  BY <1>3, <1>4

LEMMA LockConserves ==
  ASSUME SubTypeOK, SubTypeOK', [Sub!Lock!Next]_(Sub!Lock!vars), NEW v \in Users
  PROVE  Units(v)' = Units(v)
<1>1. locked'[v] = LockedOf(v)' /\ locked[v] = LockedOf(v)
  BY DEF locked
<1>2. LockedOf(v) \in Nat /\ SumFunction(user_jtx_ata[v]) \in Nat
  <2>1. user_jtx_ata[v] \in [Mints -> Nat]
    BY DEF SubTypeOK
  <2> QED
    BY <2>1, LockedIsNat, TierBounds, SumIsNat
<1>3. ASSUME locked'[v] = locked[v], user_jtx_ata'[v] = user_jtx_ata[v]
      PROVE  Units(v)' = Units(v)
  BY <1>1, <1>3 DEF Units
<1>4. ASSUME Sub!Lock!Tick \/ UNCHANGED Sub!Lock!vars
      PROVE  locked'[v] = locked[v] /\ user_jtx_ata'[v] = user_jtx_ata[v]
  BY <1>4 DEF Sub!Lock!Tick, Sub!Lock!vars, locked, LockedOf
<1>5. ASSUME NEW u \in Users, NEW m \in Mints,
             \/ \E n \in 1 .. user_jtx_ata[u][m] : Sub!Lock!Lock(u, m, n)
             \/ Sub!Lock!Release(u, m)
      PROVE  Units(v)' = Units(v)
  <2>1. /\ locked'[u] + SumFunction(user_jtx_ata'[u]) = locked[u] + SumFunction(user_jtx_ata[u])
        /\ \A w \in Users \ {u} : locked'[w] = locked[w] /\ user_jtx_ata'[w] = user_jtx_ata[w]
    BY <1>5, LockMoves
  <2>2. CASE u = v
    <3> DEFINE a == SumFunction(user_jtx_ata'[v])
               b == SumFunction(user_jtx_ata[v])
    <3>1. LockedOf(v)' + a = LockedOf(v) + b
      BY <1>1, <2>1, <2>2
    <3>2. Units(v)' = a + LockedOf(v)' /\ Units(v) = b + LockedOf(v) /\ b \in Nat
      BY <1>2 DEF Units
    <3>3. LockedOf(v)' \in Nat /\ a \in Nat
      <4>1. user_jtx_ata'[v] \in [Mints -> Nat]
        BY DEF SubTypeOK
      <4>2. a \in Nat
        BY <4>1, TierBounds, SumIsNat
      <4> QED
        BY <4>2 DEF SubTypeOK, LockedOf, Sub!Stake
    <3> HIDE DEF a, b
    <3> QED
      BY <1>2, <3>1, <3>2, <3>3
  <2>3. CASE u # v
    BY <1>3, <2>1, <2>3
  <2> QED
    BY <2>2, <2>3
<1> QED
  BY <1>3, <1>4, <1>5 DEF Sub!Lock!Next

(* Nobody gains or loses tokens by the vault, counted over all mints: what *)
(* a user has free and what the user's position will give back are together*)
(* as many units after every transaction of anybody.  The mints are not    *)
(* conserved: what was staked in one may be given back in another          *)
(* (stake_for_tier, restake_upgrade, unstake).                             *)
THEOREM UnitsAreConserved == Spec => UnitsConserved
<1>1. JettInv /\ JettInv' /\ Sub!StakeMatchesTier /\ [Next]_vars =>
        /\ [\A u \in Users : Units(u)' = Units(u)]_vars
        /\ Sub!StakeMatchesTier'
  BY InvTyped, SubscriptionSteps, LockStep, PositionsStep, LockConserves DEF JettInv
<1> QED
  BY <1>1, PositionsAtFirst, AlwaysInv, PTL DEF Spec, UnitsConserved
==============================================================================
