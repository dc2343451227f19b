------------------------- MODULE VaultMultisigProofs -------------------------
(***************************************************************************)
(* Theorems about VaultMultisig, for every set of wallets and every list   *)
(* of three of them.                                                       *)
(***************************************************************************)
EXTENDS VaultMultisig, TLAPS, FiniteSetTheorems

(* The slot of a key that is in the list. *)
LEMMA SlotOfKey ==
  ASSUME NEW s \in Signers, MultisigTypeOK, IsSigner(s)
  PROVE  /\ SlotOf(s) \in Slots /\ multisig_signers[SlotOf(s)] = s
         /\ \A j \in Slots : multisig_signers[j] = s => SlotOf(s) <= j
<1>1. \E i \in Slots : /\ multisig_signers[i] = s
                       /\ \A j \in Slots : multisig_signers[j] = s => i <= j
  <2>1. CASE multisig_signers[1] = s
    BY <2>1 DEF Slots
  <2>2. CASE multisig_signers[1] # s /\ multisig_signers[2] = s
    BY <2>2 DEF Slots
  <2>3. CASE multisig_signers[1] # s /\ multisig_signers[2] # s /\ multisig_signers[3] = s
    BY <2>3 DEF Slots
  <2> QED
    BY <2>1, <2>2, <2>3 DEF Slots, IsSigner
<1> QED
  BY <1>1 DEF SlotOf

(* Approvals are few: none, one, or enough. *)
LEMMA EnoughIsTwo ==
  ASSUME NEW A, A \subseteq Slots
  PROVE  Enough(A) <=> \E i, j \in A : i # j
<1>1. IsFiniteSet(A)
  <2>1. IsFiniteSet(1 .. 3)
    <3>1. 1 \in Int /\ 3 \in Int
      OBVIOUS
    <3> QED
      BY <3>1, FS_Interval, Zenon
  <2> QED
    BY <2>1, FS_Subset DEF Slots
<1>2. ASSUME NEW i \in A, A = {i} PROVE ~Enough(A)
  <2>1. Cardinality(A) = 1
    BY <1>2, FS_Singleton, Zenon
  <2> QED
    BY <2>1 DEF Enough, Threshold
<1>3. CASE A = {}
  BY <1>3, FS_EmptySet DEF Enough, Threshold
<1>4. ASSUME NEW i \in A, NEW j \in A, i # j PROVE Enough(A)
  <2>1. /\ IsFiniteSet({i, j}) /\ Cardinality({i, j}) = 2
    <3>1. IsFiniteSet({i}) /\ Cardinality({i}) = 1
      BY FS_Singleton
    <3>2. {i, j} = {i} \cup {j} /\ j \notin {i}
      BY <1>4
    <3> QED
      BY <3>1, <3>2, FS_AddElement
  <2>2. {i, j} \subseteq A
    OBVIOUS
  <2>3. Cardinality({i, j}) <= Cardinality(A)
    BY <1>1, <2>2, FS_Subset
  <2>4. Cardinality(A) \in Nat
    BY <1>1, FS_CardinalityType
  <2> QED
    BY <2>1, <2>3, <2>4 DEF Enough, Threshold
<1> QED
  BY <1>2, <1>3, <1>4

LEMMA MultisigTypeStep ==
  ASSUME MultisigTypeOK, [MultisigNext]_multisigVars
  PROVE  MultisigTypeOK'
<1>1. ASSUME NEW s \in Signers, NEW p \in BOOLEAN, SetPaused(s, p)
      PROVE  MultisigTypeOK'
  BY <1>1, SlotOfKey
     DEF MultisigTypeOK, SetPaused, ApprovalsSpent, Actions, PauseAction
<1>2. ASSUME NEW s \in Signers, ApproveMigrate(s)
      PROVE  MultisigTypeOK'
  BY <1>2, SlotOfKey DEF MultisigTypeOK, ApproveMigrate, MigrateApprovals, Actions
<1>3. ASSUME NEW s \in Signers, ExecuteMigrate(s)
      PROVE  MultisigTypeOK'
  BY <1>3 DEF MultisigTypeOK, ExecuteMigrate, ApprovalsSpent
<1>4. CASE UNCHANGED multisigVars
  BY <1>4 DEF MultisigTypeOK, multisigVars
<1> QED
  BY <1>1, <1>2, <1>3, <1>4 DEF MultisigNext

(* The account holds a list of keys, a subset of its slots and an action.  *)
THEOREM MultisigTypeCorrect == MultisigSpec => []MultisigTypeOK
<1>1. MultisigInit => MultisigTypeOK
  BY DEF MultisigInit, MultisigTypeOK
<1> QED
  BY <1>1, MultisigTypeStep, PTL DEF MultisigSpec

-----------------------------------------------------------------------------
(* A key is approved in its first slot only. *)
OwnSlots ==
  \A i \in approved, j \in Slots : multisig_signers[j] = multisig_signers[i] => i <= j

MultisigInv == OwnSlots /\ PendingMatchesApprovals

LEMMA MultisigInvStep ==
  ASSUME MultisigTypeOK, MultisigInv, [MultisigNext]_multisigVars
  PROVE  MultisigInv'
<1> USE DEF OwnSlots, PendingMatchesApprovals, MultisigInv
<1>0. /\ Actions \cap {NoAction} = {}
      /\ ~Enough({})
  BY ActionsDistinct, FS_EmptySet DEF Actions, Enough, Threshold
<1>1. ASSUME NEW s \in Signers, NEW p \in BOOLEAN, SetPaused(s, p)
      PROVE  MultisigInv'
  <2>1. /\ SlotOf(s) \in Slots /\ multisig_signers[SlotOf(s)] = s
        /\ \A j \in Slots : multisig_signers[j] = s => SlotOf(s) <= j
    BY <1>1, SlotOfKey DEF SetPaused
  <2>2. OwnSlots'
    BY <1>1, <2>1 DEF SetPaused, ApprovalsSpent
  <2>3. CASE Enough(approved \cup {SlotOf(s)})
    <3>1. approved' = {} /\ pending_action' = NoAction
      BY <1>1, <2>3 DEF SetPaused, ApprovalsSpent
    <3> QED
      BY <2>2, <3>1, ActionsDistinct DEF Actions
  <2>4. CASE ~Enough(approved \cup {SlotOf(s)})
    <3>1. approved' = approved \cup {SlotOf(s)} /\ pending_action' = PauseAction(p)
      BY <1>1, <2>4 DEF SetPaused
    <3>2. pending_action' \in {"pause", "unpause"} /\ pending_action' # NoAction
      BY <3>1, ActionsDistinct DEF PauseAction
    <3>3. approved' # {} /\ ~Enough(approved')
      BY <2>4, <3>1
    <3> QED
      BY <2>2, <3>2, <3>3 DEF Enough
  <2> QED
    BY <2>2, <2>3, <2>4
<1>2. ASSUME NEW s \in Signers, ApproveMigrate(s)
      PROVE  MultisigInv'
  <2>1. /\ SlotOf(s) \in Slots /\ multisig_signers[SlotOf(s)] = s
        /\ \A j \in Slots : multisig_signers[j] = s => SlotOf(s) <= j
    BY <1>2, SlotOfKey DEF ApproveMigrate
  <2>2. OwnSlots'
    BY <1>2, <2>1 DEF ApproveMigrate, MigrateApprovals
  <2>3. PendingMatchesApprovals'
    <3>1. pending_action' = "migrate" /\ approved' # {}
      BY <1>2 DEF ApproveMigrate, MigrateApprovals
    <3> QED
      BY <3>1, ActionsDistinct
  <2> QED
    BY <2>2, <2>3
<1>3. ASSUME NEW s \in Signers, ExecuteMigrate(s)
      PROVE  MultisigInv'
  BY <1>0, <1>3 DEF ExecuteMigrate, ApprovalsSpent, Actions
<1>4. CASE UNCHANGED multisigVars
  BY <1>4 DEF multisigVars
<1> QED
  BY <1>1, <1>2, <1>3, <1>4 DEF MultisigNext

THEOREM MultisigInvariant == MultisigSpec => [](MultisigTypeOK /\ MultisigInv)
<1>1. MultisigInit => MultisigInv
  BY FS_EmptySet, ActionsDistinct
     DEF MultisigInit, MultisigInv, OwnSlots, PendingMatchesApprovals
<1> QED
  BY <1>1, MultisigTypeCorrect, MultisigInvStep, PTL DEF MultisigSpec

(* Whatever the list looks like, two approvals are two keys, and only a    *)
(* migration waits with enough of them (set_paused executes at once).      *)
THEOREM ApprovalsAreDistinctKeys ==
  MultisigSpec => [](OneApprovalPerKey /\ PendingMatchesApprovals)
<1>1. MultisigTypeOK /\ MultisigInv => OneApprovalPerKey /\ PendingMatchesApprovals
  BY DEF MultisigTypeOK, MultisigInv, OwnSlots, OneApprovalPerKey, Slots
<1> QED
  BY <1>1, MultisigInvariant, PTL

(* There are approvals exactly while something is pending, and never enough*)
(* of them for a pause that has not happened (set_paused, the spending of  *)
(* approvals in migrate_v2_thresholds).                                    *)
THEOREM NothingPendsWithoutApproval == MultisigSpec => []PendingMatchesApprovals
BY ApprovalsAreDistinctKeys, PTL

(* No approval of a pause is ever counted for the migration.               *)
THEOREM MigrationApprovedAsSuch == MultisigSpec => MigrateApprovalsGenuine
<1>1. MultisigTypeOK /\ [MultisigNext]_multisigVars =>
        [\A i \in Slots :
           i \in approved' /\ pending_action' = "migrate"
           => \/ i \in approved /\ pending_action = "migrate"
              \/ ApproveMigrate(multisig_signers[i])]_multisigVars
  <2> SUFFICES ASSUME MultisigTypeOK, MultisigNext, NEW i \in Slots,
                      i \in approved', pending_action' = "migrate"
               PROVE  \/ i \in approved /\ pending_action = "migrate"
                      \/ ApproveMigrate(multisig_signers[i])
    OBVIOUS
  <2>1. ASSUME NEW s \in Signers, ApproveMigrate(s)
        PROVE  \/ i \in approved /\ pending_action = "migrate"
               \/ ApproveMigrate(multisig_signers[i])
    <3>1. multisig_signers[SlotOf(s)] = s
      BY <2>1, SlotOfKey DEF ApproveMigrate
    <3> QED
      BY <2>1, <3>1 DEF ApproveMigrate, MigrateApprovals
  <2>2. ASSUME NEW s \in Signers, NEW p \in BOOLEAN, SetPaused(s, p)
        PROVE  FALSE
    BY <2>2, ActionsDistinct DEF SetPaused, ApprovalsSpent, PauseAction
  <2>3. ASSUME NEW s \in Signers, ExecuteMigrate(s) PROVE FALSE
    BY <2>3 DEF ExecuteMigrate, ApprovalsSpent
  <2> QED
    BY <2>1, <2>2, <2>3 DEF MultisigNext
<1> QED
  BY <1>1, MultisigTypeCorrect, PTL DEF MultisigSpec, MigrateApprovalsGenuine

(* A single key never flips the pause switch.                              *)
THEOREM PauseNeedsTwoKeys == MultisigSpec => NoSingleSigner
<1>1. MultisigTypeOK /\ MultisigInv /\ [MultisigNext]_multisigVars =>
        [\A s \in Signers :
           SetPaused(s, paused') /\ paused' # paused
           => \E i \in approved : multisig_signers[i] # s]_multisigVars
  <2> SUFFICES ASSUME MultisigTypeOK, MultisigInv, NEW s \in Signers,
                      SetPaused(s, paused'), paused' # paused
               PROVE  \E i \in approved : multisig_signers[i] # s
    OBVIOUS
  <2>1. Enough(approved \cup {SlotOf(s)})
    BY DEF SetPaused
  <2>2. SlotOf(s) \in Slots /\ approved \subseteq Slots
    BY SlotOfKey DEF SetPaused, MultisigTypeOK
  <2>3. PICK i \in approved : i # SlotOf(s)
    BY <2>1, <2>2, EnoughIsTwo
  <2> QED
    BY <2>2, <2>3, SlotOfKey DEF MultisigInv, OwnSlots, SetPaused, Slots
<1> QED
  BY <1>1, MultisigInvariant, PTL DEF MultisigSpec, NoSingleSigner
=============================================================================
