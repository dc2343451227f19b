# A verification of the Jett programs

This directory holds TLA+ models of the two Solana programs of this repository,
the TLC instances that check them, and proofs, checked by TLAPS, of what they
are meant to guarantee. The reference is the code; where a document or a comment
disagrees with it, the model follows the code and the disagreement is a run of
its own (see *Where the documents and the code differ*).

- [1 The system](#1-the-system)
- [2 From code to modules](#2-from-code-to-modules)
- [3 What TLC checks](#3-what-tlc-checks)
- [4 What is proved](#4-what-is-proved)
- [5 Where the documents and the code differ](#5-where-the-documents-and-the-code-differ)
- [6 What is not modelled](#6-what-is-not-modelled)
- [7 Plan](#7-plan)

## 1 The system

Two Anchor programs keep all the state that matters; everything else in the
repository builds transactions for them or reads their accounts.

| Component | State | Operations |
|---|---|---|
| **Proof-of-Attention Trust** (`programs/jtx-optx-devnet-poa-trustjoe`) | one `ProtocolConfig`; a `Handshake` and an `Attestation` per user and handshake id; a `UserEntropy` per user; the OPTX mint | initialize, update_config, set_paused, create_user_entropy, initiate_handshake, submit_gaze_attestation, submit_compute_proof, finalize_attestation, mint_optx, verify_attestation, revoke_attestation, close_handshake |
| **Vault: multisig** (`programs/jett-vault`) | `multisig_signers`, `multisig_approvals`, `pending_action`, `paused` of `VaultConfig` | set_paused, approve_migrate_action, the guard of migrate_v2_thresholds |
| **Vault: stake and subscription** | a `StakePosition` per user, the subscription fields of `AgtAttestation`, token accounts of the users and of the stake authority, by mint | stake_for_tier, unstake, restake_upgrade, mint_optx, migrate_v2_thresholds, revoke_attestation |
| **Vault: AGT and AARON** | the tensors, keys, hashes of `AgtAttestation`; `AaronAuditAccount`; two counters of `VaultConfig` | create_agt_attestation, update_agt_weights, aaron_audit, refresh_aaron_audit, revoke_attestation |
| **Vault: fundraising** | totals of `VaultConfig`, `Donor`, `JtxVaultStats`, `AgentAcquisition`, `AgentLedger`, `DonorReceipt` | donate_sol, donate_jtx, donate_usdc_agent, link_attestation, mint_donor_nft |
| **SDK** (`sdk/jett-sdk.ts`) | none the programs rely on | `AgtTensor`: normalizes, rounds and predicts tensors; the rest derives addresses, builds and sends the instructions above |
| **scripts, tests, docs** | none | send the same instructions once; say what is meant |

How they interact. The parts of the vault share accounts: `paused` is set by
the multisig and read by nearly every other instruction; one `AgtAttestation`
carries the tensors, the validity, the audit stamp and the subscription; the
tier lives on the attestation while the amount that pays for it is in a
`StakePosition` and the tokens in a token account shared by all stakers, and
nobody but the instructions that write them keeps the three together; a receipt reads the donor, the attestation and its audit. The
vault calls the trust program once, in `link_attestation`, and looks only at
whether `verify_attestation` succeeds.

**What makes them hard.** There are no threads: a transaction is atomic, and an
instruction that returns an error changes nothing. What is hard is

- *interleaving of many signers' transactions in any order*: approvals of two
  different actions in one array, audits against revocations, donations against
  links;
- *accounts that are closed and opened again under the same address*: a
  handshake id can live twice, its certificate must not;
- *state split over accounts*: a tier, its position and the pool the position is
  repaid from, an allowance and the supply it pays for, a total and what it is the
  total of;
- *time*: expiry to the second, lazily restarted mint periods, audits that go
  stale, `expires_at = 0` for never;
- *integers*: checked u64 additions, `as u64`, three roundings in a row,
  fixed-point tensors whose shares must sum to exactly one.

**What makes each part correct.**

- *Trust program*: a handshake id is certified once, from two proofs of one
  lifetime; what a user earned equals what was certified; tokens are minted only
  out of an allowance; the rent always comes back.
- *Multisig*: nothing happens on the word of one key, and an approval counts for
  what it was given for (for the pause switch this last part fails).
- *Stake and subscription*: units of tokens move only between a user's accounts
  and the user's own lock; the pools of all mints together hold what the
  positions owe; tiers and mints need an open position of the tier's price; term
  stakes come back while some pool holds them.
- *AGT and AARON*: weights are a point of the simplex exactly and are those the
  client predicts, up to rounding; hashes attest to the weights in force; the
  first audit is final and a revoked attestation frozen.
- *The vault as a whole*: tiers without a position, which the vault had before its
  upgrade, only die out; a tier is taken away by its owner's unstaking or by two
  votes for a migration and by nothing else; a paused vault lets stakes out and
  nothing in.
- *Fundraising*: totals are sums of records; a receipt is unique, backed by its
  donation at its own price, and minted under a fresh audit.

`PROJECT.json` lists the hazards line by line with the property that would
notice each.

## 2 From code to modules

| Module | Models | Uses |
|---|---|---|
| `AttentionCredit` | abstract: certificates and OPTX credit | |
| `PoaTrust` | the whole trust program | refines `AttentionCredit` |
| `VaultMultisig` | approvals, pause, migration guard | |
| `TokenLock` | abstract: a time lock on units of tokens | |
| `VaultSubscription` | stake, tier, mint counters, migration | refines `TokenLock` |
| `AttestationLifecycle` | abstract: an attestation is made, audited, revoked | |
| `VaultAgt` | tensors, hashes, audits | refines `AttestationLifecycle` |
| `AgtClient` | the SDK's tensors beside the program's | extends `VaultAgt` |
| `JettVault` | the vault but its fundraising, over shared accounts | extends `VaultAgt`, instantiates `VaultSubscription` and `VaultMultisig` |
| `VaultDonations` | donations, agents, boost, receipts | extends `VaultAgt` |
| `MC...` | values of the constants for TLC, symmetry | extends the module of its name |
| `...Proofs` | theorems | extends the module of its name |
| `SumLemmas` | lemmas about sums over finite sets | used by the proofs of `PoaTrust`, `VaultDonations`, `JettVault` |

Conventions, the same in every module:

- **One action per instruction, the whole handler.** Guards are its `require!`s
  and the constraints of its `Accounts` struct, primed variables its
  assignments. A failing instruction is no step.
- **An account that does not exist is `NoAccount`.** Anchor's `init` is the
  guard that it does not exist, `close` sets it back. A PDA keyed by a wallet is
  a function of the user, so that "the signer owns it" needs no guard.
- **One clock.** `Clock::get()` is a variable that only `Tick` moves, between
  transactions. It starts at 0.
- **A u64 keeps its width** through `MaxU64`: checked additions are guards
  `FitsU64`, `as u64` is `AsU64`, saturating subtraction is spelled out.
- **sha256 is the tuple of what is hashed**: equal hashes are equal inputs.
- **Inputs come from sets of constants** (`Gazes`, `Entropies`, `Lamports`...),
  on which the assumptions ask no more than the type of the argument.
- **Bounds that are not in the code** are named so: `MaxClock`,
  `MaxHandshakes`, `MaxDonations`.
- **Faulty variants.** A definition named after a mistake (`InitIfNeeded`,
  `TierKept`, `RoundingKept`) stands before the definition it spoils. No action
  uses it; the mutants of `PROJECT.json` substitute it for its neighbour to see
  that a property breaks.

Notes on the correspondence, module by module:

- **`PoaTrust`.** `handshake[u][id]`, `attestation[u][id]`, `user_entropy[u]`
  are the PDAs, `optx_supply` the supply of the Token-2022 mint. `Initialize` may
  be called by anybody, who becomes the authority. `UpdateConfig` sets all three
  thresholds; a field left `None` is the choice of its old value. Guards of
  `FinalizeAttestation` stand in the order of the code, with the checked
  additions last. `entropy_per_attestation` is stored and never read, so it is
  left out. The OPTX mint is fresh when the program is initialized: its supply
  starts at 0, and only `MintOptx` adds to it. `Closable` has no pause in it, as `close_handshake` has none.
- **`VaultMultisig`.** `approved` is the set of slots whose approval is true;
  `SlotOf` is `iter().position`, the *first* slot of a key, which matters because
  `initialize_vault` accepts a list with a key twice. `pending_action` is
  0/1/2/3 as `NoAction`, `"pause"`, `"unpause"`, `"migrate"`.
- **`VaultSubscription`.** The multisig's decisions may come at any time
  (`SetPaused`, `MigrateV2Thresholds`), since `VaultMultisig` says when; the batch
  of a migration is any set of attestations, because the code takes whatever
  accounts it is passed. `status` is left out: it is 0 while the account exists.
  The mint is an argument of `StakeForTier`, `Unstake` and `RestakeUpgrade`:
  `jtx_mint` has no constraint in their accounts (lines 2876, 2934, 2989), no handler
  compares it with anything, and the pool is the token account of the stake authority
  for whatever mint it is. So `stake_vault_ata` is one pool per mint, while the
  position, at `["stake", owner]`, records no mint and is shared by all. Three things
  are assumed of mints: a transfer delivers the full amount, as it does with JTX;
  nobody sends tokens to a pool but through these instructions; and the pool
  account exists, which is no guard because anybody can open it.
- **`VaultAgt`.** `Precision`, `Tolerance`, `AlphaScale` are 1000000, 10000,
  10000 in the code. Normalization rounds the first two axes down and gives the
  rest to the third. `BilinearExtension` is computed at creation and not again.
  The biometric proof hash never changes, so the user's name stands for it. Of the
  four risk scores of an audit the composite one is kept; all four are checked
  alike. Anybody may audit here; `JettVault` asks for a key of the multisig's list.
- **`AgtClient`.** A tensor of floats is an exact fraction, three naturals over
  their sum, so that normalizing is the identity and only `ToOnChain` rounds.
  `Prediction` is what a client that fetched the weights expects of the next
  observation at a rate; the property bounds one step, not the drift over many.
- **`JettVault`.** Each instruction is a joint action of the parts it belongs to:
  `Create`, `FirstAudit` and `Revoke` of `VaultAgt` and `VaultSubscription`, `Pause`
  and `Migrate` of `VaultMultisig` and another part. The subscription sees an
  attestation through `AgtView`, its validity and whether it is audited, which is
  the abstraction `VaultSubscription` was written with. The initial state is the
  one the upgrade to v2.1 found: some users have an attestation with tier 1 or 2
  and no stake, as the old `set_subscription` gave it. The multisig's list is a
  constant of the instance; `VaultMultisig` is checked over all lists.
- **`VaultDonations`.** `is_launched` and `is_refundable` can never become true
  (their only setters are stubs that fail), so guards on them are constant and
  `claim_refund` is no action. `lamports` is the SOL donated that the vault account
  holds; SOL that somebody sends to its address by a bare transfer is left out.
  `donate_usdc_agent` has no token account and moves no USDC: the amount is what the
  agent declares, and the totals of it are records of declarations. `donate_jtx`
  moves tokens of a mint, and into an account, that nothing constrains, so its total
  is a record as well. `link_attestation` can be signed by anybody and succeeds whenever some
  PoA attestation exists. Pyth may hold any price, with any exponent.

## 3 What TLC checks

Every run finishes in about two minutes or less with two workers. The instances turn off
deadlock checking (except the multisig, which never stops), because a bounded
clock does stop.

| Run | Question | Instance |
|---|---|---|
| `poa_replay` | Is a handshake id certified once, whatever expires, is closed, reopened and resubmitted? | one user, two ids, three handshakes, clock to 4, lifetime 2, u64 up to 5 |
| `poa_users` | Do statistics and supply add up over users when the configuration changes between the two proofs, and does the rent of every handshake come back? | two users, one id each, thresholds and difficulties changing, u64 up to 4, `FairSpec` |
| `multisig` | Does everything need two keys, each counting for what it approved? | all 64 lists of three out of four wallets, the fourth a stranger when it is not listed |
| `multisig_pause` | *(violated)* Is a pause agreed on by two? | the same |
| `subscription_mint` | Do tiers and mints need a position and are periods honest, is the subsystem a time lock whatever mint is named, do term stakes come back? | one user, two mints, terms of 2 and 3 ticks, a period of 2, clock to 6, a wallet of one mint that pays for every tier or of both for some, `FairSpec` |
| `subscription_mints` | *(violated)* Are the positions' units in the JTX pool? | as `subscription_mint` |
| `subscription_upgrade` | *(violated)* Are only active positions upgraded? | as `subscription_mint` |
| `vault` | Do the parts keep their promises together: tiers without a position, tiers lost, the pause, the shared pools? | two users with a token of either mint, each with or without a tier from before the upgrade, two keys in three slots, terms of 1 tick, clock to 1, u64 up to 6 |
| `vault_risk` | *(violated)* Does minting need a low risk score? | one user, scores on both sides of the bound |
| `agt` | Do weights stay on the simplex and match the client's, hashes follow weights, audits stay, and is an attestation's life that of `AttestationLifecycle`? | precision 30, tolerance 1, corners, centre, edges and near misses of the simplex as observations, rates 0, 1/4 and 1, a risk score that is refused |
| `donations` | Do the records add up, are boosts earned and receipts backed and fresh? | two users, two agents, two donations, four prices (exact, rounded, scaled to zero, negative), clock to 2, freshness 1 |
| `donations_boost` | *(violated)* Does a donor who has the boost keep it on giving again? | one user |

**Properties by hazard.**

- *Replay.* `CountMatchesRecords`, `CertificatePermanent`, `ReopenedNeverFinalizes`:
  the certificate is a permanent record, and a reopened handshake can collect
  proofs but never be finalized. `ProofsWithinLifetime` says that nothing
  survives from an earlier handshake of the same id; `FinalizedMatchesRecord`
  that a finalized handshake still holds the proofs of its certificate.
- *Split state.* `TotalsMatchRecords`, `SupplyBacked`, `PoolsMatchPositions`,
  `TierNeedsStake`, `DonationsHeld`, `UsdcRecordsAgree`, `AuditsCounted` relate an
  account to the sum, the count or the existence of others.
- *Credit.* `EarnedOnlyByCertificate` compares what a user has earned, minted or
  not, before and after every step. `ImplementsCredit` is the refinement.
- *Locks.* `StakeMatchesTier`, `MintNeedsPosition`, `ImplementsLock`.
- *Parts together.* `NoNewUnheldTier` compares the tier on the attestation with
  the stake account across every step, starting from tiers without a position;
  `TierLostByVoteOnly` relates the tiers of all users to the votes on record
  before and after; `PausedOnlyLetsOut` says of every instruction at once what a
  pause means. `ImplementsLifecycle` is the refinement.
- *Time.* `PeriodNotCutShort`, `ReceiptNeedsFreshAudit`, and `RentReclaimed`,
  `StakeReturned` as liveness.
- *Arithmetic.* `WeightsOnSimplex`, `ChainFollowsClient`, `DualKeyIsAverage`,
  `ReceiptBacked`, and the type invariants, which the checked additions keep.

**Why the bounds are enough.** Each is chosen as the smallest at which the
interesting case happens with one step to spare. A lifetime of 2 within a clock
of 4 gives proofs two instants to arrive in, lets a handshake expire, be closed and
be opened again for a full second lifetime, and lets one that was finalized early be
opened again while its proofs would still be in time. Three handshakes on
two ids are a reopening beside an independent one. Some checked additions do fail at
these bounds: in `poa_replay` that of the allowance, of the entropy used, of the
supply and of the total minted, in `vault` that of the mint counter, in `donations`
that of `raised_usdc`. The others (counts, the totals of SOL and JTX) stay below
`MaxU64` in every run; what happens at their limit is covered by the theorems about
the type invariants only. Terms of one, two and three ticks let two upgrades and
a stake after an unstake fit; the period is shorter than the term, so several
periods fall into one. In `agt` the precision 30 is not divisible by 7 or 4, so
every rounding happens, and the moving average of observations a step off the
simplex has to be projected back. `RoundingError` is 4: the two products of an axis
lose less than two units, normalizing shares out what was lost, and the third
axis, which takes the remainder, gets less than four from the other two. In `vault` one
tick separates before and after the expiry, which is all the composition adds to
`subscription_mint`; the second mint of a user would overflow `MaxU64`. Its users can
pay the first tier in either mint and an upgrade with both; the lifetime tier is
reached in `subscription_mint` alone. In `donations` the amounts and `MaxU64 = 301`
make two payments of 101 fit and three not, and a price of 2.5 loses its half to
rounding. That price never reaches the threshold of a receipt, so that of the three
roundings behind `ReceiptBacked` only the last one shows in the run; the theorem
`ReceiptsAreBacked` is about every price. The clock of `agt` ends at 1, since nothing
there but the audit's date depends on time; `donations` moves it further over the
same actions.
Symmetry is used only where the specification treats users, ids or agents alike
and never in a run with a liveness property.

**Fairness.** Only two assumptions, and only in the runs of `RentReclaimed` and
`StakeReturned`: the validators' clock goes on (`WF(Tick)`), and the owner, who
has rent or a stake to get back and can send the instruction at any time, goes on
sending `close_handshake`, or `unstake` for whichever mint's pool can pay, until it
succeeds. Nobody is assumed to
submit, finalize, stake, unpause or vote. That is the point of both properties:
neither instruction may depend on a pause, a revocation or a migration. `StakeReturned`
allows one way out: a moment at which no single pool holds what the position owes,
as when the first tier was paid in one mint and its upgrade in another.

**Mutants.** Each property of a passing run is broken by substituting one faulty
variant into the model, under the same configuration: an `init` that became
`init_if_needed`, a forgotten reset, a rate and its complement swapped.

## 4 What is proved

TLAPS proves the following for all values of the constants that satisfy the
named assumptions of the modules: every number of users and ids, all inputs,
every precision and learning rate, and every bound. Sets that are counted are
assumed finite, and there is at least one learning rate (`SomeAlpha`).

| Theorem | Says |
|---|---|
| `PoaTrustProofs!TypeCorrect` | counters never leave u64 |
| `PoaTrustProofs!HandshakesSound`, `CompleteMeansBothProofs`, `NoProofOutlivesItsHandshake` | `FinalizedMatchesRecord`, `CompleteIffBothProofs`, `ProofsWithinLifetime` |
| `PoaTrustProofs!CertificatesArePermanent`, `NoReplay` | certificates are permanent; a certified id is never finalized again |
| `PoaTrustProofs!AttestationsCounted` | a user's count is the number of the user's certificates |
| `PoaTrustProofs!EarningsSound` | earnings move only with a certificate, by its allowance |
| `PoaTrustProofs!TotalsAddUp`, `SupplyIsBacked` | statistics are the sums of the permanent records; every OPTX token was taken from an allowance |
| `PoaTrustProofs!CreditImplemented` | `PoaTrust` implements `AttentionCredit` |
| `VaultMultisigProofs!MultisigTypeCorrect`, `ApprovalsAreDistinctKeys`, `NothingPendsWithoutApproval`, `MigrationApprovedAsSuch`, `PauseNeedsTwoKeys` | all properties of the multisig |
| `VaultSubscriptionProofs!TypeCorrect`, `PositionsRecordTheirPrice`, `NoTierWithoutStake`, `MintsNeedPositions`, `PeriodsAreKept` | position and tier belong together, mints need a position of the tier's price, periods last |
| `VaultSubscriptionProofs!LockImplemented` | `VaultSubscription` implements `TokenLock`, a lock of units and not of a mint |
| `VaultAgtProofs!AgtTypeCorrect`, `WeightsStayOnSimplex`, `HashesStayCurrent` | keys fit u64, weights sum to one exactly, hashes are current |
| `VaultAgtProofs!AuditsAreFinal`, `AuditsStayCounted` | audits are final, revoked attestations frozen, everything is counted |
| `VaultAgtProofs!LifecycleImplemented` | `VaultAgt` implements `AttestationLifecycle` |
| `VaultAgtProofs!DualKeysAreAverages` | a dual key lies within what it averages, so no cast cuts it off |
| `VaultDonationsProofs!DonationsTypeCorrect`, `BoostsAreEarned`, `ReceiptsAreBacked`, `ReceiptsNeedFreshAudits` | a boost is earned; a receipt is unique, fresh, and covered by its donation after three roundings |
| `VaultDonationsProofs!DonationsAreHeld`, `UsdcRecordsAddUp` | the SOL recorded is held and is the sum of what donors gave; what was declared in USDC is recorded alike in total, by agent and by user |
| `JettVaultProofs!JettTypeCorrect`, `UnheldTiersDieOut`, `TiersLostByVoteOnly`, `PauseHolds` | the three promises of the vault as a whole |
| `JettVaultProofs!PartsAreFollowed` | the vault implements `VaultMultisig`; each of its steps is one of `VaultAgt` or none, and one of `VaultSubscription` or none |
| `JettVaultProofs!PoolsMatch`, `StakesAreRepayable`, `UnitsAreConserved` | the pools together hold what is owed; while one mint only is pooled every unstake can be paid, and always finds its attestation; nobody gains or loses units, though the mint of them may change |
| `JettVaultProofs!PositionsRecordTheirPrice`, `VaultImplementsLock` | the whole vault keeps the lock of units, from whatever state the upgrade found |
| `AgtClientProofs!ClientIsFollowed` | the program learns what the client predicts, up to four units and what the observation misses the simplex by |
| `SumLemmas!SumIsNat`, `EmptySum`, `SumWithout` | what a sum is, and how it follows a change of one element |

The arguments, and the inductive invariant behind each:

- **Trust program.** `TypeOK` is inductive on its own, because every addition is
  checked. The other invariants about handshakes (`HandshakeInv`) are inductive
  only together: that a finalized handshake matches its certificate holds across
  a resubmission because the resubmission is refused, which needs finalized and
  claimed to go together (`CompleteIffBothProofs`), and the times in it need
  `ProofsWithinLifetime`. `NoReplay` and `CertificatesArePermanent` rest on
  `init` alone: `FinalizeAttestation` needs `Unattested`, and no action takes an
  attestation away. The refinement maps `FinalizeAttestation` to `Certify`,
  `RevokeAttestation` to `Revoke`, `MintOptx` to `Issue` and everything else to a
  stutter.
- **Multisig.** `OneApprovalPerKey` is not inductive. What is, is `OwnSlots`: an
  approved slot is always the *first* slot of its key. Together with
  `PendingMatchesApprovals` it yields that two approvals are two keys, from which
  `NoSingleSigner` follows: if the switch flips, the approvals there before the
  step were not all this signer's.
- **Stake and subscription.** `TierNeedsStake` and `StakeMatchesTier` need
  `NothingWithoutAgt` (no attestation, no stake and no tier): else creating an
  attestation, which resets the subscription, might find a stake with another
  tier. `MintsNeedPositions` is then a one-step argument: `mint_optx` reads the tier
  alone, and the tier vouches for the position. None of it depends on the mint a
  position was paid in. In the refinement the migration, the
  mints and the audits stutter, staking and upgrading lock, and unstaking
  releases; an upgrade never brings the date forward because the durations grow
  with the tier and the position's date is at most a term away.
- **AGT.** `AgtSound` says of every attestation that it is well typed, on the
  simplex and has current hashes. The three need each other: the projection lands
  on the simplex unless its argument is zero (`ProjectionOnSimplex`: two rounded
  shares never exceed the whole, so the saturating subtraction does not
  saturate), and the moving average is not zero (`AverageNotZero`: six roundings
  take less than six units, which `PrecisionAssumption` leaves room for) only if
  the old weights were on the simplex. So the branch of `simplex_project` that
  answers with the uniform tensor, whose sum is 999999, is never taken. The dual
  key is `sum div Precision` of products, each between its weight times the least
  and times the greatest entry; that the weights sum to exactly `Precision` puts it
  between the two entries, and `InputsFitAssumption` (tensors arrive as u64) keeps
  the cast from cutting it off. The refinement maps each instruction to the one of
  its name, and `update_agt_weights` and `refresh_aaron_audit` to a stutter.
- **Mint periods.** `WithinCap`, that the basic tier's count is at most its cap, is
  inductive given `SubscriptionInv`: whoever takes a tier anew has the count reset,
  and a mint, which alone raises it, is refused at the cap (`MintKeepsPeriod`).
- **The vault as a whole.** Its invariant `JettInv` joins those of the parts:
  `AgtSound`, the type of the subscription, `OwnSlots` of the multisig, and
  `NothingWithoutAgt`. No strengthening about stakes is possible, since tiers without
  a position are there at the start. Instead one lemma, `StepEffects`,
  classifies what any step of any part does to the tier and the stake of one user:
  nothing, an attestation is opened with no tier, a position is opened or raised with
  its tier, a position is closed with its tier, a mint, or a migration takes the tier.
  `UnheldTiersDieOut` and `TiersLostByVoteOnly` are read off the list; the second
  also needs that two approvals are two keys, from `OwnSlots` as in the multisig.
- **The pools and the lock.** `PoolsMatchPositions` is inductive with `JettInv`: a
  stake adds an element to the sum of positions, an unstake takes one out, an upgrade
  raises one by exactly `Delta`, and each changes one pool, the one of the mint it
  names, by as much (`BalanceSums`, from `SumOfChange`). What a position owes can
  be taken from a given pool only as long as no other holds anything (`OnlyPool`):
  then that pool holds the whole sum, and `SumWithout` gives that it covers each
  position by itself (`PoolCovers`). With `NeverClosed`, that a staker's attestation
  is still there, this is `StakesAreRepayable`, the half of `StakeReturned` that is
  not about time. Its hypothesis is what a check of `jtx_mint` would guarantee, and
  `subscription_mints` shows that the program does not. A step of the vault is a step
  of `VaultSubscription` (`SubscriptionSteps`:
  learning and refreshing an audit do not show in `AgtView`, a vote on the pause is
  some value of the switch), so that the lock needs `StakeMatchesTier` only, and not
  `TierNeedsStake`, which the tiers from before the upgrade violate. That what a user
  has in all mints and what the user has locked have a constant sum
  (`UnitsConserved`) is read off the lock.
- **Fundraising.** Every step is a step of `VaultAgt` or leaves its variables alone,
  so what is proved of `AgtSpec` holds here. `BoostEarned` and `ReceiptBacked`
  are inductive with the type invariant: amounts only grow, so that a receipt stays
  covered by a donor who goes on donating. That it is covered when minted is a
  chain of three divisions, each of which loses only in the vault's favour
  (`ValueBelow`, `JtxBelow`, `EntitledBelow`, from `DivBounds` and the monotony of
  products), under every exponent of the price.
- **Sums.** `SumFunction` folds over a set by a recursive function on its subsets,
  picking elements in an order nobody knows. `SumLemmas` shows that such a function
  exists and does not depend on the order, by induction on the cardinality; as no
  induction rule with a predicate can be used, each induction takes the least
  cardinality of a counterexample instead (`ElementwiseInduction`, over a set in
  place of a predicate). What the proofs of the programs use are three consequences,
  for the steps that change, add and leave out one element (`SumOfChange`,
  `SumOfMore`, `SumWithout`). `TotalsMatchRecords` needs besides that nothing is
  recorded before the configuration exists (`NothingBeforeInit`), since
  `Initialize` sets the total to 0; `SupplyBacked` is the same argument over the
  allowances. In `DonationsHeld` and `UsdcRecordsAgree` a repeated donation changes one
  element and a first one adds it; the sums over agents are sums of sums, where an
  agent's payment changes one element of the outer sum by one element of the inner.
- **The client's prediction.** The program rounds three times on every axis: two
  products and the share of the total, the third axis taking the rest; the client
  rounds every axis once. Multiplied by `AlphaScale`, each
  comparison is one of integers. The two products lose less than two units per axis
  (`loss`), so that the moving average misses the precision by less than six units
  and what the observation misses it by; projecting gives what is missing back, to
  each axis between nothing and all of it, or takes what is too much away, give or
  take a unit (`ProjectionMoves`). The client's value is
  the exact one rounded (`RoundedFraction`, `PredictedFrom`) and `WithinError` puts
  the two together. An observation off the simplex moves program and client alike,
  up to what it is off by. With a `RoundingError` of 3 the last step fails.

**What stays with TLC.** Liveness (`RentReclaimed`, `StakeReturned`), which is
out of the prover's reach; of the second, `StakesAreRepayable` proves that, while one
mint only is pooled, nothing but the date and the owner's request is waited for. What a run expects to be
violated has no proof either: its counterexample is the result. All other
properties of the runs are theorems.

## 5 Where the documents and the code differ

Five runs end in a counterexample, each of a sentence of the repository:

- **`multisig_pause`.** "Requires 2-of-3 multisig approval": `set_paused` counts
  the approvals on record whatever they were given for. One signer asks for
  unpausing, or for the migration; another asks for pausing; the vault pauses.
  `approve_migrate_action` drops such approvals, `set_paused` does not.
- **`subscription_mints`.** "`jtx_mint` (constraint: `mint == JTX_MINT_PUBKEY`)"
  (`docs/stake-subsystem-design.md`, line 78) and "the program must enforce mint
  identity" (`lib.rs`, lines 2805 and 2806): neither the accounts of `stake_for_tier`,
  `unstake` and `restake_upgrade` nor their handlers compare `jtx_mint` with anything,
  and the position does not record it. A tier is had for the price in any mint, and a
  position opened in one mint may be repaid in another, so that the JTX pool need not
  hold what the positions owe. What is left is the lock of units of section 4.
- **`subscription_upgrade`.** "expired positions must `unstake` then
  `stake_for_tier`": `restake_upgrade` never looks at the expiry.
- **`vault_risk`.** The comment above `mint_optx` lists "Risk score below threshold
  (≤ 7500 bps)" among its conditions, and the SDK has `isSafe` for it: the handler
  has no audit account among its accounts, and any score will do.
- **`donations_boost`.** "If donor has a valid referrer, apply 1.5x OPTX
  multiplier": a donor who named a referrer and was linked has the 1.5x; giving again,
  with a referrer named again, takes the multiplier back to 1x, and
  `link_attestation` refuses a second time (`AlreadyAttested`).

Smaller ones, with no run: `mint_optx` knows tiers 1 and 2 and answers 3 with
`InvalidSubscriptionTier`, where the comment at line 1447 promises "SPACE COWBOY
1,111 JTX Lifetime Unlimited". "Agent pays USDC" stands above `donate_usdc_agent`,
which transfers nothing. The comment above `donate_jtx` speaks of a "vault-owned
associated token account" and "real on-chain escrow", and the account and the mint
are whatever the donor passes. `donor_count` counts donations; `scale_pyth_to_usdc6`
says that a down-shift to zero is an error while the code answers 0 (and the
threshold of the receipt refuses it later); `simplex_project` promises a sum of
exactly `AGT_PRECISION`, which its uniform answer misses by one, in a branch that
is never taken. The comment above `mint_optx` also says that the amount is scaled
by the bilinear score and the multiplier; the handler reads neither. Its counter
`mint_count_this_period` counts mints and not OPTX, and `BASIC_MINT_CAP` and
`UNLIMITED_MINT_CAP` are not the caps of `shared-constants`. An attestation of the
trust program has a field `optx_minted` that "will be updated when user mints" and
never is. `AARON_AUDIT_COOLDOWN` is declared and not enforced: an audit can be
refreshed at once. `migrate_v2_thresholds` is called "one-time" and a reset of
"fake" tiers: it runs as often as two keys agree and wipes genuine tiers as well,
whose stakes stay locked until they expire (`TierLostByVoteOnly` says what
remains true). `link_attestation` is to verify the donor's attestation, but
`verify_attestation` answers `Ok(false)` for a revoked one and the answer is not
looked at, nor whose attestation it is. The SDK calls a handshake expired one
second later than the program does (`now > expiresAt`), and its `AgtTensor.hash`
hashes floats where the program hashes integers.

## 6 What is not modelled

- `claim_refund` and what depends on it: `trigger_refunds`, `check_and_launch`,
  `update_phase` and `close_vault` are stubs that always fail, and nothing else sets
  `is_refundable`, so the instruction cannot succeed in any state the program can
  reach; its proportional arithmetic is never run. `set_subscription` is one of the
  stubs too: what it once did is in the initial state of `JettVault`.
- The token accounts of `donate_jtx`: the program records what was transferred and
  says neither of which mint nor to which account, so a balance to compare the record
  with is not in the code. For the USDC of agents there is no transfer at all.
- Mints whose transfers deliver less than asked, and tokens sent to a pool by a bare
  transfer.
- Goal, deadlines and phase, which are written once; events and logs; the three
  partial risk scores, which are range-checked like the composite one and never
  read; device types and nonces.
- Rent and lamport fees, account sizes, bumps; Token-2022 extensions; the mpl-core
  asset of a receipt, whose failure fails the transaction.
- The trust program behind `link_attestation`: `VaultDonations` takes it that some
  attestation exists, which is all the call depends on.
- The SDK but for `AgtTensor`, and the scripts: they hold no state between calls;
  tests and documents were read as statements of intent.

## 7 Plan

Done: the trust program, the multisig, stake and subscription, AGT and audits,
fundraising, the composition of the vault, the client's tensors; proofs of every
property of the passing runs but liveness. Next, in this order:

1. **Drift of the client.** `ChainFollowsClient` bounds one step from the same
   weights. A client that goes on from its own prediction drifts; since a rate below
   one contracts the difference, a bound over many steps may exist and would be a
   theorem about two runs of the average side by side.
2. **Fundraising in the composition.** `VaultDonations` extends `VaultAgt` and
   `JettVault` does not contain it. Joined, its receipts could be related to the
   stakes of the same users, and `PausedOnlyLetsOut` would speak of donations too.
