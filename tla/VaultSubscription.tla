-------------------------- MODULE VaultSubscription --------------------------
(***************************************************************************)
(* The AGT attestation of the Jett vault, the stake that unlocks a         *)
(* subscription tier on it, and the OPTX mints the tier allows             *)
(* (programs/jett-vault).  One action is one instruction that succeeds; one*)
(* that fails changes nothing and is no step.  An account that does not    *)
(* exist is NoAccount.                                                     *)
(*                                                                         *)
(* The caller of a stake, an unstake or an upgrade names the mint: the     *)
(* account `jtx_mint` is compared with nothing, the pool is the token      *)
(* account of the stake authority for that mint, and the position does not *)
(* record which one it was.  So there is one pool per mint, and every mint *)
(* may be named each time.  A mint is taken to deliver what is transferred,*)
(* as JTX does, and its pool to exist: anybody can open it, empty.         *)
(*                                                                         *)
(* The multisig that decides on pausing and migrating is VaultMultisig;    *)
(* here its decisions may come at any time.  Left out of the AGT account:  *)
(* the tensors and the hashes, which no guard below reads.  Left out of    *)
(* the stake account: `status`, which is 0 as long as the account exists.  *)
(*                                                                         *)
(* Definitions whose name is a mistake (LifetimeForgotten...) are faulty   *)
(* variants of the definition that follows; nothing uses them.             *)
(***************************************************************************)
EXTENDS Naturals, FiniteSets, Functions

CONSTANTS
  Users,
  NoAccount,    \* an address that holds no account
  Mints,        \* what `jtx_mint` may be: any mint of the token program
  JTX,          \* the mint the documents mean
  Required,     \* [1..3 -> units]: 12, 444 and 1111 JTX in the code
  Duration,     \* [1..2 -> seconds]: one and two years in the code
  BasicMintCap, \* 222 in the code
  MaxU32, MaxU64,
  Period,       \* 30 days in the code
  BaseAmounts,  \* amounts asked of mint_optx
  Wallets,      \* tokens a user starts with, by mint
  MaxClock      \* bound of the instance: the last instant reached

Tiers == 1 .. 3   \* MOJO, DOJO, SPACE COWBOY; 0 is no tier

ASSUME TierAssumption ==
  /\ Required \in [Tiers -> Nat \ {0}]
  /\ Required[1] < Required[2] /\ Required[2] < Required[3]
  /\ Duration \in [1 .. 2 -> Nat \ {0}] /\ Duration[1] <= Duration[2]

ASSUME BoundsAssumption ==
  /\ BasicMintCap \in Nat /\ MaxU32 \in Nat /\ MaxU64 \in Nat
  /\ BasicMintCap <= MaxU32
  /\ Period \in Nat /\ MaxClock \in Nat
  /\ BaseAmounts \subseteq Nat /\ Wallets \subseteq [Mints -> Nat]

ASSUME UsersFinite == IsFiniteSet(Users)

ASSUME MintsAssumption == IsFiniteSet(Mints) /\ JTX \in Mints

VARIABLES
  clock,        \* Clock::get()?.unix_timestamp
  paused,       \* VaultConfig.paused
  agt,          \* [user]: validity and audit of the AgtAttestation account
  subscription, \* [user]: the subscription and minting fields of the same account
  stake,        \* [user]: the StakePosition account
  user_jtx_ata,    \* [user][mint]: balances of the user's token accounts
  stake_vault_ata  \* [mint]: balances of the stake authority's token accounts

vars == <<clock, paused, agt, subscription, stake, user_jtx_ata, stake_vault_ata>>

Agt == [is_valid : BOOLEAN, audited : BOOLEAN]

Subscription ==
  [tier : 0 .. 3, mint_count : 0 .. MaxU32, period_start : Nat, optx_minted : 0 .. MaxU64]

Stake == [tier : Tiers, amount : Nat, staked_at : Nat, expires_at : Nat]

ASSUME NoAccountAssumption ==
  NoAccount \notin Agt /\ NoAccount \notin Stake /\ NoAccount \notin Nat

TypeOK ==
  /\ clock \in Nat
  /\ paused \in BOOLEAN
  /\ agt \in [Users -> Agt \cup {NoAccount}]
  /\ subscription \in [Users -> Subscription]
  /\ stake \in [Users -> Stake \cup {NoAccount}]
  /\ user_jtx_ata \in [Users -> [Mints -> Nat]]
  /\ stake_vault_ata \in [Mints -> Nat]

Unsubscribed ==
  [tier |-> 0, mint_count |-> 0, period_start |-> 0, optx_minted |-> 0]

Init ==
  /\ clock = 0
  /\ paused = FALSE
  /\ agt = [u \in Users |-> NoAccount]
  /\ subscription = [u \in Users |-> Unsubscribed]
  /\ stake = [u \in Users |-> NoAccount]
  /\ user_jtx_ata \in [Users -> Wallets]
  /\ stake_vault_ata = [m \in Mints |-> 0]

-----------------------------------------------------------------------------
(* The attestation: created once per user, audited once, revoked once.     *)
(* Its subscription fields are set together with it.                       *)

CreateAgtAttestation(u) ==
  /\ ~paused
  /\ agt[u] = NoAccount
  /\ agt' = [agt EXCEPT ![u] = [is_valid |-> TRUE, audited |-> FALSE]]
  /\ subscription' = [subscription EXCEPT ![u] = [Unsubscribed EXCEPT !.period_start = clock]]
  /\ UNCHANGED <<clock, paused, stake, user_jtx_ata, stake_vault_ata>>

Valid(u) == agt[u] # NoAccount /\ agt[u].is_valid

AaronAudit(u) ==
  /\ ~paused
  /\ Valid(u) /\ ~agt[u].audited
  /\ agt' = [agt EXCEPT ![u].audited = TRUE]
  /\ UNCHANGED <<clock, paused, subscription, stake, user_jtx_ata, stake_vault_ata>>

(* The authority's revocation stops minting and staking; it leaves the     *)
(* stake and the tier as they are, and the pause does not stop it.         *)
RevokeAttestation(u) ==
  /\ Valid(u)
  /\ agt' = [agt EXCEPT ![u].is_valid = FALSE]
  /\ UNCHANGED <<clock, paused, subscription, stake, user_jtx_ata, stake_vault_ata>>

-----------------------------------------------------------------------------
(* Staking. *)

LifetimeNeverExpires == 0

(* saturating_add: an i64 of seconds does not saturate. *)
ExpiryOf(tier) == IF tier = 3 THEN LifetimeNeverExpires ELSE clock + Duration[tier]

ResetSubscription(s, tier) ==
  [s EXCEPT !.tier = tier, !.mint_count = 0, !.period_start = clock]

(* transfer_checked, seen from the account it takes from and from the one  *)
(* it pays.                                                                *)
Debited(balances, mint, n) == [balances EXCEPT ![mint] = @ - n]
Credited(balances, mint, n) == [balances EXCEPT ![mint] = @ + n]

StakeForTier(u, tier, mint) ==
  /\ ~paused
  /\ user_jtx_ata[u][mint] >= Required[tier]
  /\ stake[u] = NoAccount
  /\ Valid(u)
  /\ ExpiryOf(tier) <= MaxClock
  /\ user_jtx_ata' = [user_jtx_ata EXCEPT ![u] = Debited(@, mint, Required[tier])]
  /\ stake_vault_ata' = Credited(stake_vault_ata, mint, Required[tier])
  /\ stake' = [stake EXCEPT ![u] =
                 [tier |-> tier, amount |-> Required[tier],
                  staked_at |-> clock, expires_at |-> ExpiryOf(tier)]]
  /\ subscription' = [subscription EXCEPT ![u] = ResetSubscription(@, tier)]
  /\ UNCHANGED <<clock, paused, agt>>

LifetimeForgotten(s) == clock >= s.expires_at
MaturedUnlessPaused(s) ==
  ~paused /\ s.expires_at # LifetimeNeverExpires /\ clock >= s.expires_at
Matured(s) == s.expires_at # LifetimeNeverExpires /\ clock >= s.expires_at

TierKept(s) == [s EXCEPT !.mint_count = 0]
WithoutTier(s) == [s EXCEPT !.tier = 0, !.mint_count = 0]

(* Neither the pause nor a revoked attestation keeps the stake back; a pool*)
(* that holds less than the position does.  The mint need not be the one   *)
(* that was staked.                                                        *)
Unstake(u, mint) ==
  /\ stake[u] # NoAccount
  /\ agt[u] # NoAccount
  /\ Matured(stake[u])
  /\ stake_vault_ata[mint] >= stake[u].amount
  /\ stake_vault_ata' = Debited(stake_vault_ata, mint, stake[u].amount)
  /\ user_jtx_ata' = [user_jtx_ata EXCEPT ![u] = Credited(@, mint, stake[u].amount)]
  /\ stake' = [stake EXCEPT ![u] = NoAccount]
  /\ subscription' = [subscription EXCEPT ![u] = WithoutTier(@)]
  /\ UNCHANGED <<clock, paused, agt>>

(* An upgrade pays the difference, in any mint, and starts the new term    *)
(* now; it looks at neither the old expiry nor the attestation's validity. *)
ExpiryKept(s, tier) == [s EXCEPT !.tier = tier, !.amount = Required[tier]]
AmountAdded(s, tier) ==
  [s EXCEPT !.tier = tier, !.amount = @ + Required[tier], !.expires_at = ExpiryOf(tier)]
Upgraded(s, tier) ==
  [s EXCEPT !.tier = tier, !.amount = Required[tier], !.expires_at = ExpiryOf(tier)]

(* saturating_sub *)
Delta(u, tier) ==
  IF Required[tier] > stake[u].amount THEN Required[tier] - stake[u].amount ELSE 0

RestakeUpgrade(u, tier, mint) ==
  /\ ~paused
  /\ stake[u] # NoAccount /\ agt[u] # NoAccount
  /\ tier > stake[u].tier
  /\ Delta(u, tier) > 0
  /\ user_jtx_ata[u][mint] >= Delta(u, tier)
  /\ ExpiryOf(tier) <= MaxClock
  /\ user_jtx_ata' = [user_jtx_ata EXCEPT ![u] = Debited(@, mint, Delta(u, tier))]
  /\ stake_vault_ata' = Credited(stake_vault_ata, mint, Delta(u, tier))
  /\ stake' = [stake EXCEPT ![u] = Upgraded(@, tier)]
  /\ subscription' = [subscription EXCEPT ![u] = ResetSubscription(@, tier)]
  /\ UNCHANGED <<clock, paused, agt>>

-----------------------------------------------------------------------------
(* Minting.  The count starts again in the first mint that comes a period  *)
(* or more after the period's start.                                       *)

MintCap(tier) == IF tier = 1 THEN BasicMintCap ELSE MaxU32

WrappingU64(n) == TRUE
FitsU64(n) == n <= MaxU64

ClosedTooEarly(s) == TRUE
PeriodOver(s) == clock - s.period_start >= Period

CountInPeriod(s) == IF PeriodOver(s) THEN 0 ELSE s.mint_count
StartOfPeriod(s) == IF PeriodOver(s) THEN clock ELSE s.period_start

Minted(s, base_amount) ==
  [s EXCEPT !.mint_count = CountInPeriod(s) + 1, !.period_start = StartOfPeriod(s),
            !.optx_minted = @ + base_amount]

MayMintWhilePaused(u) == Valid(u) /\ agt[u].audited
MayMint(u) == ~paused /\ Valid(u) /\ agt[u].audited

MintOptx(u, base_amount) ==
  /\ MayMint(u)
  /\ subscription[u].tier > 0
  /\ base_amount > 0
  /\ subscription[u].tier \in {1, 2}   \* tier 3 is InvalidSubscriptionTier
  /\ CountInPeriod(subscription[u]) < MintCap(subscription[u].tier)
  /\ FitsU64(subscription[u].optx_minted + base_amount)
  /\ subscription' = [subscription EXCEPT ![u] = Minted(@, base_amount)]
  /\ UNCHANGED <<clock, paused, agt, stake, user_jtx_ata, stake_vault_ata>>

-----------------------------------------------------------------------------
(* Decisions of the multisig, and time. *)

SetPaused(p) ==
  /\ paused' = p
  /\ UNCHANGED <<clock, agt, subscription, stake, user_jtx_ata, stake_vault_ata>>

(* The batch is whatever attestations the caller passes, genuine stakers'  *)
(* included; those without a tier are left alone.                          *)
MigrateV2Thresholds(batch) ==
  /\ batch \subseteq {u \in Users : agt[u] # NoAccount}
  /\ subscription' =
       [u \in Users |-> IF u \in batch /\ subscription[u].tier # 0
                        THEN WithoutTier(subscription[u]) ELSE subscription[u]]
  /\ UNCHANGED <<clock, paused, agt, stake, user_jtx_ata, stake_vault_ata>>

Tick ==
  /\ clock < MaxClock
  /\ clock' = clock + 1
  /\ UNCHANGED <<paused, agt, subscription, stake, user_jtx_ata, stake_vault_ata>>

Governance ==
  \/ \E p \in BOOLEAN : SetPaused(p)
  \/ \E batch \in SUBSET Users : MigrateV2Thresholds(batch)

Withdrawing(u) == \E mint \in Mints : Unstake(u, mint)

Staking(u) ==
  \/ Withdrawing(u)
  \/ \E tier \in Tiers, mint \in Mints :
       StakeForTier(u, tier, mint) \/ RestakeUpgrade(u, tier, mint)

Attesting(u) == CreateAgtAttestation(u) \/ AaronAudit(u) \/ RevokeAttestation(u)

Next ==
  \/ Governance
  \/ \E u \in Users :
       Staking(u) \/ Attesting(u) \/ \E amount \in BaseAmounts : MintOptx(u, amount)
  \/ Tick

Spec == Init /\ [][Next]_vars

(* The clock goes on, and whoever staked keeps asking for the stake back,  *)
(* from any pool that can pay it.                                          *)
FairSpec == Spec /\ WF_vars(Tick) /\ \A u \in Users : WF_vars(Withdrawing(u))

-----------------------------------------------------------------------------
(* Invariants. *)

Staked == {u \in Users : stake[u] # NoAccount}

Pooled == SumFunction(stake_vault_ata)

(* The pools hold between them, over all mints, exactly the units that the *)
(* open positions say are owed (stake_for_tier, restake_upgrade, unstake). *)
(* No single pool need hold what was staked in its mint.                   *)
PoolsMatchPositions == Pooled = SumFunction([u \in Staked |-> stake[u].amount])

(* A tier is never held without an open position of that tier: nobody keeps*)
(* the tier after closing the position, whatever was revoked, migrated or  *)
(* upgraded in between.                                                    *)
TierNeedsStake ==
  \A u \in Users : subscription[u].tier # 0 =>
    stake[u] # NoAccount /\ stake[u].tier = subscription[u].tier

RecordsItsPrice(s, now) ==
  /\ s.amount = Required[s.tier] /\ s.staked_at <= now
  /\ s.tier = 3 => s.expires_at = LifetimeNeverExpires
  /\ s.tier # 3 => /\ s.staked_at + Duration[s.tier] <= s.expires_at
                   /\ s.expires_at <= now + Duration[s.tier]

(* A position always records the price of its tier, in units of whatever   *)
(* was paid, and at least its term: after an upgrade the term has started  *)
(* again, and only SPACE COWBOY has the expiry 0 that means never.         *)
StakeMatchesTier == \A u \in Staked : RecordsItsPrice(stake[u], clock)

-----------------------------------------------------------------------------
(* Action properties. *)

(* OPTX is minted only for an audited, unrevoked attestation whose owner   *)
(* has a position open at that moment, of the price of the tier the cap is *)
(* taken from (mint_optx itself never looks at the stake).  In which mint  *)
(* that price was paid is not on record.                                   *)
MintNeedsPosition ==
  [][\A u \in Users : subscription'[u].optx_minted # subscription[u].optx_minted =>
       /\ Valid(u) /\ agt[u].audited
       /\ stake[u] # NoAccount
       /\ stake[u].amount = Required[subscription[u].tier]]_vars

(* Every mint before the end of a period counts in that period, which goes *)
(* on from the same start; the count goes down only when the period is over*)
(* or when the tier is taken anew or away, and never exceeds the cap.      *)
PeriodNotCutShort ==
  [][\A u \in Users :
       LET s == subscription[u] IN
       /\ subscription'[u].optx_minted # s.optx_minted /\ clock < s.period_start + Period =>
            /\ subscription'[u].mint_count = s.mint_count + 1
            /\ subscription'[u].period_start = s.period_start
       /\ subscription'[u].mint_count < s.mint_count =>
            \/ clock >= s.period_start + Period
            \/ stake'[u] # stake[u]
            \/ subscription'[u].tier = 0
       /\ subscription'[u].tier = 1 => subscription'[u].mint_count <= BasicMintCap]_vars

-----------------------------------------------------------------------------
(* What the documents say and the code does not do. *)

(* "jtx_mint: constraint: mint == shared::JTX_MINT_PUBKEY", "the program   *)
(* must enforce mint identity": what the positions owe is in the JTX pool. *)
(* The program takes any mint, into the pool of that mint.                 *)
PositionsHeldInJtx ==
  stake_vault_ata[JTX] = SumFunction([u \in Staked |-> stake[u].amount])

(* "upgrade an active position; expired positions must unstake then        *)
(* stake_for_tier": no upgrade starts from an expired position.            *)
OnlyActiveUpgraded ==
  [][\A u \in Users :
       /\ stake[u] # NoAccount /\ stake'[u] # NoAccount
       /\ stake'[u].tier # stake[u].tier
       => stake[u].expires_at > clock]_vars

-----------------------------------------------------------------------------
(* Liveness and refinement. *)

(* What was staked for a term comes back: whatever is paused, revoked,     *)
(* migrated or upgraded meanwhile, the position is closed or becomes a     *)
(* lifetime one, unless a moment comes when no single pool holds as much   *)
(* as it owes, which mixing mints brings about.                            *)
StakeReturned ==
  \A u \in Users :
    stake[u] # NoAccount ~>
      \/ stake[u] = NoAccount
      \/ stake[u].tier = 3
      \/ \A m \in Mints : stake_vault_ata[m] < stake[u].amount

Lock == INSTANCE TokenLock WITH
  Never <- NoAccount,
  free <- user_jtx_ata,
  pool <- stake_vault_ata,
  locked <- [u \in Users |-> IF stake[u] = NoAccount THEN 0 ELSE stake[u].amount],
  date <- [u \in Users |->
             IF stake[u] = NoAccount THEN 0
             ELSE IF stake[u].tier = 3 THEN NoAccount ELSE stake[u].expires_at]

(* The stake subsystem implements a lock of units: they move only between  *)
(* a user's accounts and the pools, against the user's own lock, out of it *)
(* in full on its date or later, and out of a lifetime lock never.  That   *)
(* they come back in the mint they were locked in is not promised.         *)
ImplementsLock == Lock!Spec
=============================================================================
