---------------------------- MODULE VaultMultisig ----------------------------
(***************************************************************************)
(* The 2-of-3 multisig of the Jett vault (programs/jett-vault): one array  *)
(* of approvals, shared by set_paused and by the migration of the          *)
(* subscription tiers, and one pending_action that says what it is for.    *)
(* The accounts the migration rewrites belong to VaultSubscription.        *)
(*                                                                         *)
(* Definitions whose name is a mistake (ApprovalsCarriedOver...) are faulty*)
(* variants of the definition that follows; nothing uses them.             *)
(***************************************************************************)
EXTENDS Naturals, FiniteSets

CONSTANTS
  Signers,    \* wallets that sign; at most three of them are in the list
  NoAction    \* pending_action = 0

ASSUME ActionsDistinct == NoAction \notin {"pause", "unpause", "migrate"}

Slots == 1 .. 3   \* MAX_MULTISIG_SIGNERS
Threshold == 2    \* MULTISIG_THRESHOLD

VARIABLES
  multisig_signers,   \* [Slots -> Signers], as given to initialize_vault
  approved,           \* slots whose multisig_approvals entry is true
  pending_action,     \* what the approvals are for: 1, 2, 3 or 0 in the code
  paused

multisigVars == <<multisig_signers, approved, pending_action, paused>>

Actions == {"pause", "unpause", "migrate"}

MultisigTypeOK ==
  /\ multisig_signers \in [Slots -> Signers]
  /\ approved \subseteq Slots
  /\ pending_action \in Actions \cup {NoAction}
  /\ paused \in BOOLEAN

(* initialize_vault takes the list as it comes: a key may be there twice. *)
MultisigInit ==
  /\ multisig_signers \in [Slots -> Signers]
  /\ approved = {}
  /\ pending_action = NoAction
  /\ paused = FALSE

IsSigner(s) == \E i \in Slots : multisig_signers[i] = s

(* `position` finds the first slot of a key.                               *)
ZeroBasedSlotOf(s) == (CHOOSE i \in Slots : multisig_signers[i] = s) - 1
FreeSlotOf(s) == CHOOSE i \in Slots :
  /\ multisig_signers[i] = s
  /\ i \in approved => \A j \in Slots : multisig_signers[j] = s => j \in approved
SlotOf(s) == CHOOSE i \in Slots :
  multisig_signers[i] = s /\ \A j \in Slots : multisig_signers[j] = s => i <= j

OneEnough(approvals) == approvals # {}
Enough(approvals) == Cardinality(approvals) >= Threshold

PauseAction(p) == IF p THEN "pause" ELSE "unpause"

(* What an executed action leaves behind.                                  *)
ApprovalsKept == approved' = approved /\ pending_action' = NoAction
ApprovalsSpent == approved' = {} /\ pending_action' = NoAction

(* The approvals already there count, whatever they were given for.        *)
SetPaused(s, p) ==
  LET approvals == approved \cup {SlotOf(s)} IN
  /\ IsSigner(s)
  /\ IF Enough(approvals)
     THEN paused' = p /\ ApprovalsSpent
     ELSE /\ approved' = approvals /\ pending_action' = PauseAction(p)
          /\ UNCHANGED paused
  /\ UNCHANGED multisig_signers

(* Approvals given for another action are dropped, not carried over.       *)
ApprovalsCarriedOver(s) == approved \cup {SlotOf(s)}
MigrateApprovals(s) ==
  (IF pending_action = "migrate" THEN approved ELSE {}) \cup {SlotOf(s)}

ApproveMigrate(s) ==
  /\ IsSigner(s)
  /\ approved' = MigrateApprovals(s)
  /\ pending_action' = "migrate"
  /\ UNCHANGED <<multisig_signers, paused>>

(* The part of migrate_v2_thresholds that concerns the multisig; the       *)
(* caller need not be one of those who approved.                           *)
PendingIgnored(s) == IsSigner(s) /\ Enough(approved)
MayMigrate(s) == IsSigner(s) /\ pending_action = "migrate" /\ Enough(approved)

ExecuteMigrate(s) ==
  /\ MayMigrate(s)
  /\ ApprovalsSpent
  /\ UNCHANGED <<multisig_signers, paused>>

MultisigNext ==
  \E s \in Signers :
    \/ \E p \in BOOLEAN : SetPaused(s, p)
    \/ ApproveMigrate(s)
    \/ ExecuteMigrate(s)

MultisigSpec == MultisigInit /\ [][MultisigNext]_multisigVars

-----------------------------------------------------------------------------
(* A key listed in several slots approves once: two approvals are always   *)
(* the approvals of two different keys, however often one signs.           *)
OneApprovalPerKey ==
  \A i, j \in approved : multisig_signers[i] = multisig_signers[j] => i = j

(* Nothing executable is left lying around: approvals are recorded exactly *)
(* while an action is pending, and a pause that has enough of them has     *)
(* taken effect, so only a migration can wait with two approvals.          *)
PendingMatchesApprovals ==
  /\ approved = {} <=> pending_action = NoAction
  /\ pending_action \in {"pause", "unpause"} => ~Enough(approved)

(* An approval that counts for the migration was given for the migration:  *)
(* it is being given now, or it already stood for it; an approval of a     *)
(* pause never becomes one (approve_migrate_action).                       *)
MigrateApprovalsGenuine ==
  [][\A i \in Slots :
       i \in approved' /\ pending_action' = "migrate"
       => \/ i \in approved /\ pending_action = "migrate"
          \/ ApproveMigrate(multisig_signers[i])]_multisigVars

(* No single signer: a key that flips the pause switch does so on top of   *)
(* an approval of another key, even if it is listed several times.         *)
NoSingleSigner ==
  [][\A s \in Signers :
       SetPaused(s, paused') /\ paused' # paused
       => \E i \in approved : multisig_signers[i] # s]_multisigVars

(* "Emergency pause/unpause. Requires 2-of-3 multisig approval": when the  *)
(* switch flips, an approval of the same flip was already on record.  The  *)
(* code lets an approval of another action stand in for it.                *)
PauseAgreedByTwo ==
  [][paused' # paused => pending_action = PauseAction(paused')]_multisigVars
=============================================================================
