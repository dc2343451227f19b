------------------------------ MODULE VaultAgt ------------------------------
(***************************************************************************)
(* The AGT attestation of the Jett vault in detail: the weights it learns  *)
(* from gaze observations, the keys and hashes derived from them, and the  *)
(* audits AARON writes about it (programs/jett-vault).  One action is one  *)
(* instruction that succeeds.  VaultSubscription keeps of all this whether *)
(* the attestation is valid and audited.                                   *)
(*                                                                         *)
(* sha256 is modelled by the tuple of what is hashed.  Left out: device    *)
(* type, dates nobody reads and the three partial risk scores, which are   *)
(* checked like the composite one.  Who may audit is JettVault's concern.  *)
(*                                                                         *)
(* Definitions whose name is a mistake (RoundingKept...) are faulty        *)
(* variants of the definition that follows; nothing uses them.             *)
(***************************************************************************)
EXTENDS Integers, FiniteSets

CONSTANTS
  Users,
  NoAccount,    \* an address that holds no account
  NoHash,       \* aaron_audit_hash = None
  Precision,    \* AGT_PRECISION, the 1 of the fixed-point numbers
  Tolerance,    \* a hundredth of Precision
  AlphaScale,   \* 10000 basis points
  MaxU64,
  Gazes,        \* gaze tensors a client sends
  Seeds,        \* session seeds
  Factors,      \* difficulty factors
  Alphas,       \* learning rates, at most AlphaScale
  AuditHashes,  \* what an operator may write as audit hash
  RiskScores,   \* what an operator may write as risk score
  MaxRisk,      \* 10000 basis points
  MaxClock      \* bound of the instance: the last instant reached

Axes == 1 .. 3        \* COG, ENV, EMO
Tensor == [Axes -> Nat]

ASSUME AgtAssumption ==
  /\ Precision \in Nat \ {0} /\ Tolerance \in 0 .. Precision
  /\ AlphaScale \in Nat \ {0} /\ MaxU64 \in Nat /\ MaxClock \in Nat
  /\ Gazes \subseteq Tensor /\ Seeds \subseteq Tensor /\ Factors \subseteq Tensor
  /\ Alphas \subseteq 0 .. AlphaScale
  /\ RiskScores \subseteq Nat /\ MaxRisk \in Nat
  /\ NoHash \notin AuditHashes

(* Rounding six products down cannot take an observation to zero: with     *)
(* 10^6 and a tolerance of a hundredth there is room to spare.             *)
ASSUME PrecisionAssumption == Precision >= Tolerance + 6

(* Tensors arrive as three u64.                                            *)
ASSUME InputsFitAssumption ==
  \A v \in Gazes \cup Seeds \cup Factors, i \in Axes : v[i] <= MaxU64

ASSUME AgtUsersFinite == IsFiniteSet(Users)

VARIABLES
  clock,        \* Clock::get()?.unix_timestamp
  paused,       \* VaultConfig.paused
  agt,          \* [user]: the AgtAttestation account
  audit,        \* [user]: the AaronAuditAccount of that attestation
  total_agt_attestations, total_aaron_audits   \* of VaultConfig

agtVars == <<clock, paused, agt, audit, total_agt_attestations, total_aaron_audits>>

U64 == 0 .. MaxU64

AgtAttestation ==
  [agt_weights : Tensor, gaze_tensor : Tensor, dual_key : U64, bilinear_score : U64,
   tensor_hash : Tensor \X U64, attestation_hash : (Tensor \X U64) \X Users,
   is_valid : BOOLEAN, aaron_audit_hash : AuditHashes \cup {NoHash}]

AaronAuditAccount ==
  [audit_hash : AuditHashes, risk_score : 0 .. MaxRisk, audited_at : Nat]

ASSUME NoAgtAssumption == NoAccount \notin AgtAttestation /\ NoAccount \notin AaronAuditAccount

AgtTypeOK ==
  /\ clock \in Nat /\ paused \in BOOLEAN
  /\ agt \in [Users -> AgtAttestation \cup {NoAccount}]
  /\ audit \in [Users -> AaronAuditAccount \cup {NoAccount}]
  /\ total_agt_attestations \in Nat /\ total_aaron_audits \in Nat

AgtInit ==
  /\ clock = 0 /\ paused = FALSE
  /\ agt = [u \in Users |-> NoAccount]
  /\ audit = [u \in Users |-> NoAccount]
  /\ total_agt_attestations = 0 /\ total_aaron_audits = 0

-----------------------------------------------------------------------------
(* The arithmetic.  The u128 intermediates never overflow; `as u64` keeps  *)
(* the low 64 bits.                                                        *)

Total(v) == v[1] + v[2] + v[3]
AsU64(n) == n % (MaxU64 + 1)
SaturatingSub(a, b) == IF a > b THEN a - b ELSE 0

Scaled(v) == [i \in Axes |-> (v[i] * Precision) \div Total(v)]

(* What rounding takes from the first two axes, the third one gets.        *)
RoundingKept(v) == Scaled(v)
Normalized(v) ==
  [Scaled(v) EXCEPT ![3] = SaturatingSub(Precision, Scaled(v)[1] + Scaled(v)[2])]

SimplexProject(v) ==
  IF Total(v) = 0 THEN [i \in Axes |-> Precision \div 3] ELSE Normalized(v)

NotScaledDown(a, b) == a[1] * b[1] + a[2] * b[2] + a[3] * b[3]
InnerProduct(a, b) ==
  AsU64((a[1] * b[1] + a[2] * b[2] + a[3] * b[3]) \div Precision)

BilinearExtension(w, g, phi) ==
  AsU64((w[1] * g[1] * phi[1] + w[2] * g[2] * phi[2] + w[3] * g[3] * phi[3])
          \div (Precision * Precision))

(* (1 - alpha) w + alpha g, each product rounded down.                     *)
AlphaSwapped(w, g, alpha) ==
  [i \in Axes |-> (w[i] * alpha) \div AlphaScale + (g[i] * (AlphaScale - alpha)) \div AlphaScale]
MovingAverage(w, g, alpha) ==
  [i \in Axes |-> (w[i] * (AlphaScale - alpha)) \div AlphaScale + (g[i] * alpha) \div AlphaScale]

NearSimplex(g) == Total(g) \in Precision - Tolerance .. Precision + Tolerance

-----------------------------------------------------------------------------
RevocationIgnored(u) == agt[u] # NoAccount
Valid(u) == agt[u] # NoAccount /\ agt[u].is_valid

TensorHash(w, dual_key) == <<w, dual_key>>

(* The user's own biometric proof, fixed when the attestation is created,  *)
(* stands in the hash by the user's name.                                  *)
AttestationHash(tensor_hash, u) == <<tensor_hash, u>>

(* The first observation is the first weight.                              *)
NewAttestation(u, gaze, seed, phi) ==
  LET w == SimplexProject(gaze)
      key == InnerProduct(w, seed) IN
  [agt_weights |-> w, gaze_tensor |-> gaze, dual_key |-> key,
   bilinear_score |-> BilinearExtension(w, gaze, phi),
   tensor_hash |-> TensorHash(w, key),
   attestation_hash |-> AttestationHash(TensorHash(w, key), u),
   is_valid |-> TRUE, aaron_audit_hash |-> NoHash]

CreateAgtAttestation(u, gaze, seed, phi) ==
  /\ ~paused
  /\ agt[u] = NoAccount
  /\ NearSimplex(gaze)
  /\ agt' = [agt EXCEPT ![u] = NewAttestation(u, gaze, seed, phi)]
  /\ total_agt_attestations' = total_agt_attestations + 1
  /\ UNCHANGED <<clock, paused, audit, total_aaron_audits>>

(* The bilinear score and the audits stay what they were; the dual key is  *)
(* taken with the new observation in the seed's place.                     *)
HashForgotten(a, u, w, gaze, key) ==
  [a EXCEPT !.agt_weights = w, !.gaze_tensor = gaze, !.dual_key = key,
            !.tensor_hash = TensorHash(w, key)]
Updated(a, u, w, gaze, key) ==
  [a EXCEPT !.agt_weights = w, !.gaze_tensor = gaze, !.dual_key = key,
            !.tensor_hash = TensorHash(w, key),
            !.attestation_hash = AttestationHash(TensorHash(w, key), u)]

UpdateAgtWeights(u, gaze, alpha) ==
  LET w == SimplexProject(MovingAverage(agt[u].agt_weights, gaze, alpha))
      key == InnerProduct(w, gaze) IN
  /\ ~paused
  /\ Valid(u)
  /\ NearSimplex(gaze)
  /\ agt' = [agt EXCEPT ![u] = Updated(@, u, w, gaze, key)]
  /\ UNCHANGED <<clock, paused, audit, total_agt_attestations, total_aaron_audits>>

(* The first audit stamps the attestation; there is one audit account per  *)
(* attestation, so there is no second one.                                 *)
AuditNow(hash, risk) ==
  [audit_hash |-> hash, risk_score |-> risk, audited_at |-> clock]

StampForgotten(a, hash) == a
Stamped(a, hash) == [a EXCEPT !.aaron_audit_hash = hash]

AaronAudit(u, hash, risk) ==
  /\ ~paused
  /\ Valid(u) /\ agt[u].aaron_audit_hash = NoHash
  /\ risk <= MaxRisk
  /\ audit[u] = NoAccount
  /\ audit' = [audit EXCEPT ![u] = AuditNow(hash, risk)]
  /\ agt' = [agt EXCEPT ![u] = Stamped(@, hash)]
  /\ total_aaron_audits' = total_aaron_audits + 1
  /\ UNCHANGED <<clock, paused, total_agt_attestations>>

(* A refresh rolls the audit account forward, not the stamp.               *)
RefreshAaronAudit(u, hash, risk) ==
  /\ ~paused
  /\ Valid(u)
  /\ risk <= MaxRisk
  /\ audit[u] # NoAccount
  /\ audit' = [audit EXCEPT ![u] = AuditNow(hash, risk)]
  /\ UNCHANGED <<clock, paused, agt, total_agt_attestations, total_aaron_audits>>

RevokeAttestation(u) ==
  /\ Valid(u)
  /\ agt' = [agt EXCEPT ![u].is_valid = FALSE]
  /\ UNCHANGED <<clock, paused, audit, total_agt_attestations, total_aaron_audits>>

-----------------------------------------------------------------------------
(* The multisig pauses and unpauses; the clock moves between transactions. *)

SetPaused(p) ==
  /\ paused' = p
  /\ UNCHANGED <<clock, agt, audit, total_agt_attestations, total_aaron_audits>>

Tick ==
  /\ clock < MaxClock
  /\ clock' = clock + 1
  /\ UNCHANGED <<paused, agt, audit, total_agt_attestations, total_aaron_audits>>

Observing(u) ==
  \E gaze \in Gazes :
    \/ \E seed \in Seeds, phi \in Factors : CreateAgtAttestation(u, gaze, seed, phi)
    \/ \E alpha \in Alphas : UpdateAgtWeights(u, gaze, alpha)

Auditing(u) ==
  \/ \E hash \in AuditHashes, risk \in RiskScores :
       AaronAudit(u, hash, risk) \/ RefreshAaronAudit(u, hash, risk)
  \/ RevokeAttestation(u)

AgtNext ==
  \/ \E u \in Users : Observing(u) \/ Auditing(u)
  \/ \E p \in BOOLEAN : SetPaused(p)
  \/ Tick

AgtSpec == AgtInit /\ [][AgtNext]_agtVars

-----------------------------------------------------------------------------
(* Invariants. *)

Attested == {u \in Users : agt[u] # NoAccount}

(* However observations are weighted and rounded, the weights are a point  *)
(* of the simplex again, exactly: they sum to 1 (simplex_project).         *)
WeightsOnSimplex ==
  \A u \in Attested : Total(agt[u].agt_weights) = Precision

(* The hashes are those of the weights and the key in force: an update     *)
(* leaves neither of them behind (update_agt_weights).                     *)
HashesCurrent ==
  \A u \in Attested :
    /\ agt[u].tensor_hash = TensorHash(agt[u].agt_weights, agt[u].dual_key)
    /\ agt[u].attestation_hash = AttestationHash(agt[u].tensor_hash, u)

Lowest(v) == CHOOSE n \in {v[i] : i \in Axes} : \A i \in Axes : n <= v[i]
Highest(v) == CHOOSE n \in {v[i] : i \in Axes} : \A i \in Axes : n >= v[i]

(* The dual key is an average of what the weights are applied to, the seed *)
(* at first and the last observation later, so that the cast to u64 never  *)
(* cuts it off (inner_product).                                            *)
DualKeyIsAverage ==
  \A u \in Attested :
    \E s \in Seeds \cup {agt[u].gaze_tensor} :
      agt[u].dual_key \in Lowest(s) .. Highest(s)

(* Attestation, audit account and the vault's counters tell one story: an  *)
(* attestation bears a stamp exactly when it has its audit account.        *)
AuditsCounted ==
  /\ \A u \in Users :
       audit[u] # NoAccount <=> (agt[u] # NoAccount /\ agt[u].aaron_audit_hash # NoHash)
  /\ total_agt_attestations = Cardinality(Attested)
  /\ total_aaron_audits = Cardinality({u \in Users : audit[u] # NoAccount})

-----------------------------------------------------------------------------
(* Action properties. *)

(* The stamp of the first audit is final, and an attestation that was      *)
(* revoked is frozen: no observation, audit or refresh touches it or its   *)
(* audit account again.                                                    *)
FirstAuditFinal ==
  [][\A u \in Attested :
       /\ agt'[u] # NoAccount
       /\ agt[u].aaron_audit_hash # NoHash =>
            agt'[u].aaron_audit_hash = agt[u].aaron_audit_hash
       /\ ~agt[u].is_valid => agt'[u] = agt[u] /\ audit'[u] = audit[u]]_agtVars

-----------------------------------------------------------------------------
(* Refinement: what the rest of the vault sees of an attestation.          *)

ASSUME NoViewAssumption == NoAccount \notin [is_valid : BOOLEAN, audited : BOOLEAN]

AgtView ==
  [u \in Users |->
     IF agt[u] = NoAccount THEN NoAccount
     ELSE [is_valid |-> agt[u].is_valid, audited |-> agt[u].aaron_audit_hash # NoHash]]

Lifecycle == INSTANCE AttestationLifecycle WITH agt <- AgtView

(* An attestation is made once, audited at most once and revoked at most   *)
(* once, never audited after it was revoked, and never made or audited by a*)
(* paused vault; learning and refreshing change nothing of this.           *)
ImplementsLifecycle == Lifecycle!Spec
=============================================================================
