------------------------------ MODULE JettVault ------------------------------
(***************************************************************************)
(* The Jett vault put together (programs/jett-vault): the attestations of  *)
(* VaultAgt, the stakes and tiers of VaultSubscription and the multisig of *)
(* VaultMultisig over one pause switch and one AgtAttestation account per  *)
(* user.  An instruction that belongs to several parts is one joint step of*)
(* theirs: the switch moves and tiers are reset only as the multisig lets  *)
(* them, audits come only from a key of its list.                          *)
(*                                                                         *)
(* The vault starts as the upgrade to v2.1 found it: some attestations     *)
(* carry a tier from the old set_subscription, which asked for no stake.   *)
(* Fundraising (VaultDonations) reads what is here and writes none of it.  *)
(***************************************************************************)
EXTENDS VaultAgt

CONSTANTS
  Mints, JTX,                                         \* of VaultSubscription
  Required, Duration, BasicMintCap, MaxU32, Period,
  BaseAmounts, Wallets,
  Signers, NoAction,                                  \* of VaultMultisig
  MaxMintRisk                                         \* 7500 basis points

VARIABLES
  subscription,   \* [user]: the remaining fields of the AgtAttestation account
  stake, user_jtx_ata, stake_vault_ata,
  multisig_signers, approved, pending_action

Multisig == INSTANCE VaultMultisig
Sub == INSTANCE VaultSubscription WITH agt <- AgtView

subVars == <<subscription, stake, user_jtx_ata, stake_vault_ata>>
voteVars == <<multisig_signers, approved, pending_action>>
vars == <<agtVars, subVars, voteVars>>

ASSUME JettAssumption ==
  /\ Sub!TierAssumption /\ Sub!BoundsAssumption /\ Sub!NoAccountAssumption
  /\ Sub!MintsAssumption
  /\ Multisig!ActionsDistinct
  /\ MaxMintRisk \in Nat

JettTypeOK == AgtTypeOK /\ Sub!TypeOK /\ Multisig!MultisigTypeOK

(* The tiers set_subscription knew: none, Basic and Unlimited.             *)
LegacyTiers == 0 .. 2

Init ==
  /\ clock = 0
  /\ Multisig!MultisigInit
  /\ subscription \in [Users -> {[Sub!Unsubscribed EXCEPT !.tier = t] : t \in LegacyTiers}]
  /\ \E gaze \in Gazes, seed \in Seeds, phi \in Factors :
       /\ NearSimplex(gaze)
       /\ agt = [u \in Users |-> IF subscription[u].tier = 0 THEN NoAccount
                                 ELSE NewAttestation(u, gaze, seed, phi)]
  /\ audit = [u \in Users |-> NoAccount]
  /\ total_agt_attestations = Cardinality(Attested) /\ total_aaron_audits = 0
  /\ stake = [u \in Users |-> NoAccount]
  /\ user_jtx_ata \in [Users -> Wallets]
  /\ stake_vault_ata = [m \in Mints |-> 0]

-----------------------------------------------------------------------------
(* Instructions of the attestation. *)

Create(u) ==
  /\ \E gaze \in Gazes, seed \in Seeds, phi \in Factors :
       CreateAgtAttestation(u, gaze, seed, phi)
  /\ Sub!CreateAgtAttestation(u)
  /\ UNCHANGED voteVars

Learn(u) ==
  /\ \E gaze \in Gazes, alpha \in Alphas : UpdateAgtWeights(u, gaze, alpha)
  /\ UNCHANGED <<subVars, voteVars>>

(* The operator must be in the multisig's list. *)
IsOperator(operator) == Multisig!IsSigner(operator)

FirstAudit(operator, u) ==
  /\ IsOperator(operator)
  /\ \E hash \in AuditHashes, risk \in RiskScores : AaronAudit(u, hash, risk)
  /\ Sub!AaronAudit(u)
  /\ UNCHANGED voteVars

Reaudit(operator, u) ==
  /\ IsOperator(operator)
  /\ \E hash \in AuditHashes, risk \in RiskScores : RefreshAaronAudit(u, hash, risk)
  /\ UNCHANGED <<subVars, voteVars>>

Revoke(u) ==
  /\ RevokeAttestation(u)
  /\ Sub!RevokeAttestation(u)
  /\ UNCHANGED voteVars

Attesting(u) ==
  \/ Create(u) \/ Learn(u) \/ Revoke(u)
  \/ \E operator \in Signers : FirstAudit(operator, u) \/ Reaudit(operator, u)

-----------------------------------------------------------------------------
(* Instructions of the stake, minting. *)

Subscribing(u) ==
  /\ UNCHANGED <<agtVars, voteVars>>
  /\ Sub!Staking(u) \/ \E amount \in BaseAmounts : Sub!MintOptx(u, amount)

-----------------------------------------------------------------------------
(* Instructions of the multisig, and time. *)

Pause(s, p) ==
  /\ Multisig!SetPaused(s, p)
  /\ UNCHANGED <<clock, agt, audit, total_agt_attestations, total_aaron_audits, subVars>>

Approve(s) ==
  /\ Multisig!ApproveMigrate(s)
  /\ UNCHANGED <<agtVars, subVars>>

(* The batch, the accounts the caller passes, may be any attestations.     *)
Migrate(s, batch) ==
  /\ UNCHANGED agtVars
  /\ Multisig!ExecuteMigrate(s)
  /\ Sub!MigrateV2Thresholds(batch)

Voting(s) ==
  \/ \E p \in BOOLEAN : Pause(s, p)
  \/ Approve(s)
  \/ \E batch \in SUBSET Users : Migrate(s, batch)

Next ==
  \/ \E u \in Users : Attesting(u) \/ Subscribing(u)
  \/ \E s \in Signers : Voting(s)
  \/ Tick /\ UNCHANGED <<subVars, voteVars>>

Spec == Init /\ [][Next]_vars

-----------------------------------------------------------------------------
(* What the parts promise, kept by the whole.                              *)

PoolsMatchPositions == Sub!PoolsMatchPositions
ImplementsLock == Sub!ImplementsLock

(* A tier without a position of that tier: before the upgrade, whoever     *)
(* asked had it.                                                           *)
Unheld(u) ==
  /\ subscription[u].tier # 0
  /\ stake[u] = NoAccount \/ stake[u].tier # subscription[u].tier

(* The honor-system tiers only die out: no sequence of staking, upgrading, *)
(* unstaking, revoking and migrating leaves anybody with a tier and no     *)
(* position of that tier, unless it was so all along (set_subscription,    *)
(* stake_for_tier).  What mint the position was paid in is another matter: *)
(* the program takes any.                                                  *)
NoNewUnheldTier == [][\A u \in Users : Unheld(u)' => Unheld(u)]_vars

(* A tier, held or not, is lost in two ways only: its owner closes the     *)
(* position, or two different keys have approved the migration, and as a   *)
(* migration; then both approvals are spent, so that the next batch needs  *)
(* two more (migrate_v2_thresholds).                                       *)
TierLostByVoteOnly ==
  [][\A u \in Users : subscription[u].tier # 0 /\ subscription'[u].tier = 0 =>
       \/ stake[u] # NoAccount /\ stake'[u] = NoAccount
       \/ /\ pending_action = "migrate" /\ approved' = {}
          /\ \E i, j \in approved : multisig_signers[i] # multisig_signers[j]]_vars

Withdrawn(u) == stake[u] # NoAccount /\ stake'[u] = NoAccount

(* While the vault is paused, positions can be closed and attestations     *)
(* revoked, and that is all: no position opens or grows, nothing is minted,*)
(* learned or audited, and no audit is made fresh.                         *)
PausedOnlyLetsOut ==
  [][paused => \A u \in Users :
       /\ stake'[u] = stake[u] \/ Withdrawn(u)
       /\ subscription'[u].optx_minted = subscription[u].optx_minted
       /\ audit'[u] = audit[u]
       /\ agt'[u] = agt[u] \/ (agt[u] # NoAccount /\ agt'[u] = [agt[u] EXCEPT !.is_valid = FALSE])]_vars

-----------------------------------------------------------------------------
(* What a comment says and the code does not do. *)

(* "OPTX minting is gated by: ... 4. Risk score below threshold (<= 7500   *)
(* bps)": whoever mints has an audit account with such a score.            *)
MintNeedsLowRisk ==
  [][\A u \in Users : subscription'[u].optx_minted # subscription[u].optx_minted =>
       audit[u] # NoAccount /\ audit[u].risk_score <= MaxMintRisk]_vars
=============================================================================
