--------------------------- MODULE VaultAgtProofs ---------------------------
(***************************************************************************)
(* Theorems about VaultAgt, for every precision, tolerance and learning    *)
(* rate, and every observation: the weights are a point of the simplex     *)
(* exactly, the hashes are those of the weights, and audits are final.     *)
(***************************************************************************)
EXTENDS VaultAgt, TLAPS, FiniteSetTheorems

-----------------------------------------------------------------------------
(* Integer division, and what simplex_project makes of it. *)

LEMMA DivBounds ==
  ASSUME NEW a \in Nat, NEW s \in Nat \ {0}
  PROVE  a \div s \in Nat /\ s * (a \div s) <= a /\ a < s * (a \div s) + s
OBVIOUS

LEMMA Cancel ==
  ASSUME NEW s \in Nat \ {0}, NEW x \in Int, NEW y \in Int, s * x <= s * y
  PROVE  x <= y
OBVIOUS

(* Two shares of a total are at most the whole, rounded down or not. *)
LEMMA SharesFit ==
  ASSUME NEW a \in Nat, NEW b \in Nat, NEW s \in Nat \ {0}, NEW p \in Nat, a + b <= s
  PROVE  /\ (a * p) \div s \in Nat /\ (b * p) \div s \in Nat
         /\ (a * p) \div s + (b * p) \div s <= p
<1> DEFINE x == (a * p) \div s
           y == (b * p) \div s
<1>1. a * p \in Nat /\ b * p \in Nat
  OBVIOUS
<1>2. x \in Nat /\ s * x <= a * p
  BY <1>1, DivBounds
<1>3. y \in Nat /\ s * y <= b * p
  BY <1>1, DivBounds
<1>4. (a + b) * p <= s * p
  OBVIOUS
<1>5. s * (x + y) <= s * p
  <2> HIDE DEF x, y
  <2> QED
    BY <1>2, <1>3, <1>4
<1>6. x + y <= p
  <2> HIDE DEF x, y
  <2> QED
    BY <1>2, <1>3, <1>5, Cancel
<1> QED
  BY <1>2, <1>3, <1>6

(* The projection of a tensor that is not zero is on the simplex: what is  *)
(* rounded off the first two axes is never more than the third can take.   *)
LEMMA ProjectionOnSimplex ==
  ASSUME NEW v \in Tensor, Total(v) # 0
  PROVE  SimplexProject(v) \in Tensor /\ Total(SimplexProject(v)) = Precision
<1> DEFINE w == Scaled(v)
<1>1. v[1] \in Nat /\ v[2] \in Nat /\ v[3] \in Nat /\ Precision \in Nat
  BY AgtAssumption DEF Tensor, Axes
<1>2. Total(v) \in Nat \ {0} /\ v[1] + v[2] <= Total(v) /\ v[3] <= Total(v)
  BY <1>1 DEF Total
<1>3. w[1] \in Nat /\ w[2] \in Nat /\ w[1] + w[2] <= Precision
  <2>1. w[1] = (v[1] * Precision) \div Total(v) /\ w[2] = (v[2] * Precision) \div Total(v)
    BY DEF Scaled, Axes
  <2>2. \A s \in Nat \ {0} : v[1] + v[2] <= s =>
          /\ (v[1] * Precision) \div s \in Nat /\ (v[2] * Precision) \div s \in Nat
          /\ (v[1] * Precision) \div s + (v[2] * Precision) \div s <= Precision
    BY <1>1, SharesFit
  <2> HIDE DEF w
  <2> QED
    BY <1>2, <2>1, <2>2
<1>4. SaturatingSub(Precision, w[1] + w[2]) = Precision - (w[1] + w[2])
  <2> HIDE DEF w
  <2> QED
    BY <1>1, <1>3 DEF SaturatingSub
<1>5. /\ SimplexProject(v)[1] = w[1] /\ SimplexProject(v)[2] = w[2]
      /\ SimplexProject(v)[3] = Precision - (w[1] + w[2])
      /\ SimplexProject(v) = [i \in Axes |-> SimplexProject(v)[i]]
  <2>1. SimplexProject(v) = [w EXCEPT ![3] = Precision - (w[1] + w[2])]
    BY <1>4 DEF SimplexProject, Normalized
  <2>2. w = [i \in Axes |-> w[i]]
    BY DEF Scaled
  <2> DEFINE z == SimplexProject(v)
  <2>3. z = [i \in Axes |-> IF i = 3 THEN Precision - (w[1] + w[2]) ELSE w[i]]
    BY <2>1, <2>2
  <2> HIDE DEF w, z
  <2>4. z[1] = w[1] /\ z[2] = w[2] /\ z[3] = Precision - (w[1] + w[2])
    BY <2>3 DEF Axes
  <2>5. z = [i \in Axes |-> z[i]]
    BY <2>3
  <2> QED
    BY <2>4, <2>5 DEF z
<1>6. Total(SimplexProject(v)) = Precision
  <2> HIDE DEF w
  <2> QED
    BY <1>1, <1>3, <1>5 DEF Total
<1>7. \A i \in Axes : SimplexProject(v)[i] \in Nat
  <2> HIDE DEF w
  <2> QED
    BY <1>1, <1>3, <1>5 DEF Axes
<1> QED
  BY <1>5, <1>6, <1>7 DEF Tensor

-----------------------------------------------------------------------------
(* The moving average of weights and an observation cannot vanish, and the *)
(* keys are 64-bit numbers. *)

LEMMA AverageIsTensor ==
  ASSUME NEW w \in Tensor, NEW g \in Tensor, NEW alpha \in 0 .. AlphaScale
  PROVE  /\ MovingAverage(w, g, alpha) \in Tensor
         /\ \A i \in Axes :
              w[i] * (AlphaScale - alpha) + g[i] * alpha
                < AlphaScale * MovingAverage(w, g, alpha)[i] + 2 * AlphaScale
<1> DEFINE b == AlphaScale - alpha
           p(i) == (w[i] * b) \div AlphaScale
           q(i) == (g[i] * alpha) \div AlphaScale
<1>1. AlphaScale \in Nat \ {0} /\ alpha \in Nat /\ b \in Nat
  BY AgtAssumption
<1>2. \A i \in Axes : w[i] \in Nat /\ g[i] \in Nat
  BY DEF Tensor
<1>3. \A i \in Axes : w[i] * b \in Nat /\ g[i] * alpha \in Nat
  BY <1>1, <1>2
<1>4. \A i \in Axes : /\ p(i) \in Nat /\ q(i) \in Nat
                      /\ w[i] * b < AlphaScale * p(i) + AlphaScale
                      /\ g[i] * alpha < AlphaScale * q(i) + AlphaScale
  BY <1>1, <1>3, DivBounds
<1>5. \A i \in Axes : MovingAverage(w, g, alpha)[i] = p(i) + q(i)
  BY DEF MovingAverage
<1>6. MovingAverage(w, g, alpha) = [i \in Axes |-> p(i) + q(i)]
  BY DEF MovingAverage
<1>7. MovingAverage(w, g, alpha) \in Tensor
  <2> HIDE DEF p, q
  <2> QED
    BY <1>4, <1>6 DEF Tensor
<1>8. ASSUME NEW i \in Axes
      PROVE  w[i] * b + g[i] * alpha < AlphaScale * (p(i) + q(i)) + 2 * AlphaScale
  <2>1. AlphaScale * (p(i) + q(i)) = AlphaScale * p(i) + AlphaScale * q(i)
    <3> HIDE DEF p, q
    <3> QED
      BY <1>1, <1>4
  <2>2. AlphaScale * p(i) \in Nat /\ AlphaScale * q(i) \in Nat
    <3> HIDE DEF p, q
    <3> QED
      BY <1>1, <1>4
  <2> HIDE DEF b, p, q
  <2> QED
    BY <1>1, <1>3, <1>4, <2>1, <2>2
<1> QED
  <2> HIDE DEF p, q
  <2> QED
    BY <1>5, <1>7, <1>8

LEMMA AverageNotZero ==
  ASSUME NEW w \in Tensor, NEW g \in Tensor, NEW alpha \in 0 .. AlphaScale,
         Total(w) = Precision, NearSimplex(g)
  PROVE  Total(MovingAverage(w, g, alpha)) # 0
<1> DEFINE m == MovingAverage(w, g, alpha)
           b == AlphaScale - alpha
           low == Precision - Tolerance
<1>1. AlphaScale \in Nat \ {0} /\ alpha \in Nat /\ b \in Nat /\ alpha + b = AlphaScale
  BY AgtAssumption
<1>2. Precision \in Nat /\ low \in Nat /\ low >= 6 /\ low <= Precision
  BY AgtAssumption, PrecisionAssumption
<1>3. /\ w[1] \in Nat /\ w[2] \in Nat /\ w[3] \in Nat
      /\ g[1] \in Nat /\ g[2] \in Nat /\ g[3] \in Nat
  BY DEF Tensor, Axes
<1>4. m[1] \in Nat /\ m[2] \in Nat /\ m[3] \in Nat
  BY AverageIsTensor DEF Tensor, Axes
<1>5. w[1] + w[2] + w[3] = Precision /\ g[1] + g[2] + g[3] >= low
  BY <1>2, <1>3, AgtAssumption DEF NearSimplex, Total
<1>6. SUFFICES ASSUME Total(m) = 0 PROVE FALSE
  OBVIOUS
<1>7. m[1] = 0 /\ m[2] = 0 /\ m[3] = 0
  <2>1. m[1] + m[2] + m[3] = 0
    BY <1>6 DEF Total
  <2> HIDE DEF m
  <2> QED
    BY <1>4, <2>1
<1>8. \A i \in Axes : w[i] * b + g[i] * alpha < AlphaScale * m[i] + 2 * AlphaScale
  BY AverageIsTensor
<1>9. /\ w[1] * b + g[1] * alpha < 2 * AlphaScale
      /\ w[2] * b + g[2] * alpha < 2 * AlphaScale
      /\ w[3] * b + g[3] * alpha < 2 * AlphaScale
  <2> HIDE DEF m, b
  <2>1. 1 \in Axes /\ 2 \in Axes /\ 3 \in Axes
    BY DEF Axes
  <2> QED
    BY <1>1, <1>7, <1>8, <2>1
<1> HIDE DEF m, b, low
<1>10. (w[1] + w[2] + w[3]) * b + (g[1] + g[2] + g[3]) * alpha < 6 * AlphaScale
  BY <1>1, <1>3, <1>9
<1>11. Precision * b >= low * b
  BY <1>1, <1>2
<1>12. (g[1] + g[2] + g[3]) * alpha >= low * alpha
  BY <1>1, <1>2, <1>3, <1>5
<1>13. low * b + low * alpha = low * AlphaScale
  <2>1. low * b + low * alpha = low * (alpha + b)
    BY <1>1, <1>2
  <2> QED
    BY <1>1, <2>1
<1>14. low * AlphaScale >= 6 * AlphaScale
  BY <1>1, <1>2
<1>15. /\ low * b \in Nat /\ low * alpha \in Nat /\ Precision * b \in Nat
       /\ (g[1] + g[2] + g[3]) * alpha \in Nat
  BY <1>1, <1>2, <1>3
<1> QED
  BY <1>1, <1>5, <1>10, <1>11, <1>12, <1>13, <1>14, <1>15

LEMMA CastType ==
  ASSUME NEW n \in Nat
  PROVE  AsU64(n) \in U64
BY AgtAssumption DEF AsU64, U64

LEMMA InnerProductType ==
  ASSUME NEW a \in Tensor, NEW b \in Tensor
  PROVE  InnerProduct(a, b) \in U64
<1>1. /\ a[1] \in Nat /\ a[2] \in Nat /\ a[3] \in Nat
      /\ b[1] \in Nat /\ b[2] \in Nat /\ b[3] \in Nat
  BY DEF Tensor, Axes
<1>2. a[1] * b[1] + a[2] * b[2] + a[3] * b[3] \in Nat
  BY <1>1
<1>3. (a[1] * b[1] + a[2] * b[2] + a[3] * b[3]) \div Precision \in Nat
  BY <1>2, AgtAssumption, DivBounds
<1> QED
  BY <1>3, CastType DEF InnerProduct

LEMMA BilinearType ==
  ASSUME NEW w \in Tensor, NEW g \in Tensor, NEW phi \in Tensor
  PROVE  BilinearExtension(w, g, phi) \in U64
<1> DEFINE n == w[1] * g[1] * phi[1] + w[2] * g[2] * phi[2] + w[3] * g[3] * phi[3]
<1>1. /\ w[1] \in Nat /\ w[2] \in Nat /\ w[3] \in Nat
      /\ g[1] \in Nat /\ g[2] \in Nat /\ g[3] \in Nat
      /\ phi[1] \in Nat /\ phi[2] \in Nat /\ phi[3] \in Nat
  BY DEF Tensor, Axes
<1>2. /\ w[1] * g[1] * phi[1] \in Nat /\ w[2] * g[2] * phi[2] \in Nat
      /\ w[3] * g[3] * phi[3] \in Nat
  BY <1>1
<1>3. n \in Nat
  BY <1>2
<1>4. Precision * Precision \in Nat \ {0}
  BY AgtAssumption
<1>5. n \div (Precision * Precision) \in Nat
  <2> HIDE DEF n
  <2> QED
    BY <1>3, <1>4, DivBounds
<1> QED
  BY <1>5, CastType DEF BilinearExtension

-----------------------------------------------------------------------------
(* What an observation makes of an attestation. *)

LEMMA ObservationProjects ==
  ASSUME NEW gaze \in Tensor, NearSimplex(gaze)
  PROVE  SimplexProject(gaze) \in Tensor /\ Total(SimplexProject(gaze)) = Precision
<1>1. gaze[1] \in Nat /\ gaze[2] \in Nat /\ gaze[3] \in Nat
  BY DEF Tensor, Axes
<1>2. Total(gaze) # 0
  BY <1>1, AgtAssumption, PrecisionAssumption DEF NearSimplex, Total
<1> QED
  BY <1>2, ProjectionOnSimplex

LEMMA UpdatedType ==
  ASSUME NEW a \in AgtAttestation, NEW u \in Users, NEW w \in Tensor,
         NEW gaze \in Tensor, NEW key \in U64
  PROVE  /\ Updated(a, u, w, gaze, key) \in AgtAttestation
         /\ Updated(a, u, w, gaze, key).agt_weights = w
         /\ Updated(a, u, w, gaze, key).gaze_tensor = gaze
         /\ Updated(a, u, w, gaze, key).dual_key = key
         /\ Updated(a, u, w, gaze, key).tensor_hash = TensorHash(w, key)
         /\ Updated(a, u, w, gaze, key).attestation_hash =
              AttestationHash(TensorHash(w, key), u)
         /\ Updated(a, u, w, gaze, key).is_valid = a.is_valid
         /\ Updated(a, u, w, gaze, key).aaron_audit_hash = a.aaron_audit_hash
BY DEF Updated, AgtAttestation, TensorHash, AttestationHash

LEMMA StampedType ==
  ASSUME NEW a \in AgtAttestation, NEW hash \in AuditHashes
  PROVE  /\ Stamped(a, hash) \in AgtAttestation
         /\ Stamped(a, hash).agt_weights = a.agt_weights
         /\ Stamped(a, hash).dual_key = a.dual_key
         /\ Stamped(a, hash).tensor_hash = a.tensor_hash
         /\ Stamped(a, hash).attestation_hash = a.attestation_hash
         /\ Stamped(a, hash).is_valid = a.is_valid
         /\ Stamped(a, hash).aaron_audit_hash = hash
BY DEF Stamped, AgtAttestation

-----------------------------------------------------------------------------
(* The inductive invariant.  That an average can be projected at all needs *)
(* the weights it starts from to be on the simplex, and that needs the     *)
(* accounts to have their type: the three go together.                     *)

Sound(u, a) ==
  /\ a \in AgtAttestation
  /\ Total(a.agt_weights) = Precision
  /\ a.tensor_hash = TensorHash(a.agt_weights, a.dual_key)
  /\ a.attestation_hash = AttestationHash(a.tensor_hash, u)

AgtSound ==
  /\ AgtTypeOK
  /\ \A u \in Attested : Sound(u, agt[u])

LEMMA NewSound ==
  ASSUME NEW u \in Users, NEW gaze \in Gazes, NEW seed \in Seeds, NEW phi \in Factors,
         NearSimplex(gaze)
  PROVE  LET x == NewAttestation(u, gaze, seed, phi) IN
         Sound(u, x) /\ x.aaron_audit_hash = NoHash /\ x.is_valid = TRUE
<1> DEFINE w == SimplexProject(gaze)
           key == InnerProduct(w, seed)
           score == BilinearExtension(w, gaze, phi)
           x == [agt_weights |-> w, gaze_tensor |-> gaze, dual_key |-> key,
                 bilinear_score |-> score,
                 tensor_hash |-> TensorHash(w, key),
                 attestation_hash |-> AttestationHash(TensorHash(w, key), u),
                 is_valid |-> TRUE, aaron_audit_hash |-> NoHash]
<1>1. gaze \in Tensor /\ seed \in Tensor /\ phi \in Tensor
  BY AgtAssumption
<1>2. w \in Tensor /\ Total(w) = Precision
  BY <1>1, ObservationProjects
<1>3. key \in U64 /\ score \in U64
  BY <1>1, <1>2, InnerProductType, BilinearType
<1>4. NewAttestation(u, gaze, seed, phi) = x
  BY DEF NewAttestation
<1>5. Sound(u, x) /\ x.aaron_audit_hash = NoHash /\ x.is_valid = TRUE
  <2> HIDE DEF w, key, score
  <2> QED
    BY <1>1, <1>2, <1>3 DEF Sound, AgtAttestation, TensorHash, AttestationHash
<1> QED
  BY <1>4, <1>5

LEMMA CreatedSound ==
  ASSUME NEW u \in Users, NEW gaze \in Gazes, NEW seed \in Seeds, NEW phi \in Factors,
         AgtTypeOK, CreateAgtAttestation(u, gaze, seed, phi)
  PROVE  \E x : /\ Sound(u, x) /\ x.aaron_audit_hash = NoHash /\ x.is_valid = TRUE
                /\ agt' = [agt EXCEPT ![u] = x]
<1>1. /\ NearSimplex(gaze)
      /\ agt' = [agt EXCEPT ![u] = NewAttestation(u, gaze, seed, phi)]
  BY DEF CreateAgtAttestation
<1> QED
  BY <1>1, NewSound

LEMMA UpdateSound ==
  ASSUME NEW u \in Users, NEW gaze \in Gazes, NEW alpha \in Alphas,
         AgtSound, UpdateAgtWeights(u, gaze, alpha)
  PROVE  \E x : /\ Sound(u, x) /\ x.aaron_audit_hash = agt[u].aaron_audit_hash
                /\ x.is_valid = agt[u].is_valid
                /\ agt' = [agt EXCEPT ![u] = x]
<1> DEFINE m == MovingAverage(agt[u].agt_weights, gaze, alpha)
           w == SimplexProject(m)
           key == InnerProduct(w, gaze)
           x == Updated(agt[u], u, w, gaze, key)
<1>1. gaze \in Tensor /\ alpha \in 0 .. AlphaScale
  BY AgtAssumption
<1>2. agt[u] \in AgtAttestation /\ Sound(u, agt[u])
  BY DEF AgtSound, AgtTypeOK, Attested, UpdateAgtWeights, Valid
<1>3. agt[u].agt_weights \in Tensor /\ Total(agt[u].agt_weights) = Precision
  BY <1>2 DEF Sound, AgtAttestation
<1>4. m \in Tensor /\ Total(m) # 0
  BY <1>1, <1>3, AverageIsTensor, AverageNotZero DEF UpdateAgtWeights
<1>5. w \in Tensor /\ Total(w) = Precision
  <2> HIDE DEF m
  <2> QED
    BY <1>4, ProjectionOnSimplex
<1>6. key \in U64
  <2> HIDE DEF w
  <2> QED
    BY <1>1, <1>5, InnerProductType
<1>7. agt' = [agt EXCEPT ![u] = x]
  BY DEF UpdateAgtWeights, AgtSound, AgtTypeOK
<1>8. /\ Sound(u, x) /\ x.aaron_audit_hash = agt[u].aaron_audit_hash
      /\ x.is_valid = agt[u].is_valid
  <2> HIDE DEF w, key
  <2> QED
    BY <1>1, <1>2, <1>5, <1>6, UpdatedType DEF Sound
<1> QED
  BY <1>7, <1>8

LEMMA AuditSound ==
  ASSUME NEW u \in Users, NEW hash \in AuditHashes, NEW risk \in RiskScores,
         AgtSound, AaronAudit(u, hash, risk)
  PROVE  \E x : /\ Sound(u, x) /\ x.aaron_audit_hash = hash
                /\ x.is_valid = agt[u].is_valid
                /\ agt' = [agt EXCEPT ![u] = x]
<1>1. agt[u] \in AgtAttestation /\ Sound(u, agt[u])
  BY DEF AgtSound, AgtTypeOK, Attested, AaronAudit, Valid
<1>2. agt' = [agt EXCEPT ![u] = Stamped(agt[u], hash)]
  BY DEF AaronAudit, AgtSound, AgtTypeOK
<1>3. /\ Sound(u, Stamped(agt[u], hash)) /\ Stamped(agt[u], hash).aaron_audit_hash = hash
      /\ Stamped(agt[u], hash).is_valid = agt[u].is_valid
  BY <1>1, StampedType DEF Sound
<1> QED
  BY <1>2, <1>3

LEMMA RevokeSound ==
  ASSUME NEW u \in Users, AgtSound, RevokeAttestation(u)
  PROVE  \E x : /\ Sound(u, x) /\ x.aaron_audit_hash = agt[u].aaron_audit_hash
                /\ x.is_valid = FALSE
                /\ agt' = [agt EXCEPT ![u] = x]
<1> DEFINE x == [agt[u] EXCEPT !.is_valid = FALSE]
<1>1. agt[u] \in AgtAttestation /\ Sound(u, agt[u])
  BY DEF AgtSound, AgtTypeOK, Attested, RevokeAttestation, Valid
<1>2. agt' = [agt EXCEPT ![u] = x]
  BY DEF RevokeAttestation, AgtSound, AgtTypeOK
<1>3. Sound(u, x) /\ x.aaron_audit_hash = agt[u].aaron_audit_hash /\ x.is_valid = FALSE
  BY <1>1 DEF Sound, AgtAttestation
<1> QED
  BY <1>2, <1>3

(* Writing a sound attestation keeps all of them sound. *)
LEMMA WriteSound ==
  ASSUME NEW u \in Users, NEW x, Sound(u, x), AgtSound, agt' = [agt EXCEPT ![u] = x]
  PROVE  /\ agt' \in [Users -> AgtAttestation \cup {NoAccount}]
         /\ \A v \in Attested' : Sound(v, agt'[v])
         /\ agt'[u] = x /\ x # NoAccount
         /\ \A v \in Users \ {u} : agt'[v] = agt[v]
<1>1. x \in AgtAttestation
  BY DEF Sound
<1>2. agt'[u] = x /\ \A v \in Users \ {u} : agt'[v] = agt[v]
  BY DEF AgtSound, AgtTypeOK
<1>3. agt' \in [Users -> AgtAttestation \cup {NoAccount}]
  BY <1>1 DEF AgtSound, AgtTypeOK
<1>4. ASSUME NEW v \in Attested'
      PROVE  Sound(v, agt'[v])
  <2>1. v \in Users /\ agt'[v] # NoAccount
    BY DEF Attested
  <2>2. CASE v = u
    BY <1>2, <2>2
  <2>3. CASE v # u
    BY <1>2, <2>1, <2>3 DEF AgtSound, Attested
  <2> QED
    BY <2>2, <2>3
<1> QED
  BY <1>1, <1>2, <1>3, <1>4, NoAgtAssumption

LEMMA AuditNowType ==
  ASSUME AgtTypeOK, NEW hash \in AuditHashes, NEW risk \in RiskScores, risk <= MaxRisk
  PROVE  AuditNow(hash, risk) \in AaronAuditAccount
BY AgtAssumption DEF AgtTypeOK, AuditNow, AaronAuditAccount

LEMMA SoundStep == AgtSound /\ [AgtNext]_agtVars => AgtSound'
<1> SUFFICES ASSUME AgtSound, [AgtNext]_agtVars PROVE AgtSound'
  OBVIOUS
<1>1. ASSUME NEW u \in Users, NEW gaze \in Gazes, NEW seed \in Seeds, NEW phi \in Factors,
             CreateAgtAttestation(u, gaze, seed, phi)
      PROVE  AgtSound'
  <2>1. PICK x : Sound(u, x) /\ agt' = [agt EXCEPT ![u] = x]
    BY <1>1, CreatedSound DEF AgtSound
  <2>2. total_agt_attestations' = total_agt_attestations + 1
    BY <1>1 DEF CreateAgtAttestation
  <2>3. UNCHANGED <<clock, paused, audit, total_aaron_audits>>
    BY <1>1 DEF CreateAgtAttestation
  <2>4. /\ agt' \in [Users -> AgtAttestation \cup {NoAccount}]
        /\ \A v \in Attested' : Sound(v, agt'[v])
    BY <2>1, WriteSound
  <2> QED
    BY <2>2, <2>3, <2>4 DEF AgtTypeOK, AgtSound
<1>2. ASSUME NEW u \in Users, NEW gaze \in Gazes, NEW alpha \in Alphas,
             UpdateAgtWeights(u, gaze, alpha)
      PROVE  AgtSound'
  <2>1. PICK x : Sound(u, x) /\ agt' = [agt EXCEPT ![u] = x]
    BY <1>2, UpdateSound
  <2>2. UNCHANGED <<clock, paused, audit, total_agt_attestations, total_aaron_audits>>
    BY <1>2 DEF UpdateAgtWeights
  <2>3. /\ agt' \in [Users -> AgtAttestation \cup {NoAccount}]
        /\ \A v \in Attested' : Sound(v, agt'[v])
    BY <2>1, WriteSound
  <2> QED
    BY <2>2, <2>3 DEF AgtTypeOK, AgtSound
<1>3. ASSUME NEW u \in Users, NEW hash \in AuditHashes, NEW risk \in RiskScores,
         AaronAudit(u, hash, risk)
      PROVE  AgtSound'
  <2>1. PICK x : Sound(u, x) /\ agt' = [agt EXCEPT ![u] = x]
    BY <1>3, AuditSound
  <2>2. audit' \in [Users -> AaronAuditAccount \cup {NoAccount}]
    BY <1>3, AuditNowType DEF AaronAudit, AgtTypeOK, AgtSound
  <2>3. /\ total_aaron_audits' = total_aaron_audits + 1
        /\ UNCHANGED <<clock, paused, total_agt_attestations>>
    BY <1>3 DEF AaronAudit
  <2>4. /\ agt' \in [Users -> AgtAttestation \cup {NoAccount}]
        /\ \A v \in Attested' : Sound(v, agt'[v])
    BY <2>1, WriteSound
  <2> QED
    BY <2>2, <2>3, <2>4 DEF AgtTypeOK, AgtSound
<1>4. ASSUME NEW u \in Users, NEW hash \in AuditHashes, NEW risk \in RiskScores,
         RefreshAaronAudit(u, hash, risk)
      PROVE  AgtSound'
  <2>1. audit' \in [Users -> AaronAuditAccount \cup {NoAccount}]
    BY <1>4, AuditNowType DEF RefreshAaronAudit, AgtTypeOK, AgtSound
  <2> QED
    BY <1>4, <2>1 DEF RefreshAaronAudit, AgtTypeOK, AgtSound, Attested
<1>5. ASSUME NEW u \in Users, RevokeAttestation(u)
      PROVE  AgtSound'
  <2>1. PICK x : Sound(u, x) /\ agt' = [agt EXCEPT ![u] = x]
    BY <1>5, RevokeSound
  <2>2. UNCHANGED <<clock, paused, audit, total_agt_attestations, total_aaron_audits>>
    BY <1>5 DEF RevokeAttestation
  <2>3. /\ agt' \in [Users -> AgtAttestation \cup {NoAccount}]
        /\ \A v \in Attested' : Sound(v, agt'[v])
    BY <2>1, WriteSound
  <2> QED
    BY <2>2, <2>3 DEF AgtTypeOK, AgtSound
<1>6. ASSUME NEW p \in BOOLEAN, SetPaused(p)
      PROVE  AgtSound'
  BY <1>6 DEF SetPaused, AgtTypeOK, AgtSound, Attested
<1>7. CASE Tick
  BY <1>7 DEF Tick, AgtTypeOK, AgtSound, Attested
<1>8. CASE UNCHANGED agtVars
  BY <1>8 DEF agtVars, AgtTypeOK, AgtSound, Attested
<1> QED
  BY <1>1, <1>2, <1>3, <1>4, <1>5, <1>6, <1>7, <1>8 DEF AgtNext, Observing, Auditing

LEMMA AlwaysSound == AgtSpec => []AgtSound
<1>1. AgtInit => AgtSound
  <2> SUFFICES ASSUME AgtInit PROVE AgtSound
    OBVIOUS
  <2>1. Attested = {}
    BY DEF AgtInit, Attested
  <2>2. AgtTypeOK
    BY DEF AgtInit, AgtTypeOK
  <2> QED
    BY <2>1, <2>2 DEF AgtSound
<1> QED
  BY <1>1, SoundStep, PTL DEF AgtSpec

-----------------------------------------------------------------------------
(* Accounts hold what their structs can hold; the keys and scores fit u64. *)

THEOREM AgtTypeCorrect == AgtSpec => []AgtTypeOK
<1>1. AgtSound => AgtTypeOK
  BY DEF AgtSound
<1> QED
  BY <1>1, AlwaysSound, PTL

(* Whatever is observed, at whatever rate, the weights sum to 1 exactly.   *)
THEOREM WeightsStayOnSimplex == AgtSpec => []WeightsOnSimplex
<1>1. AgtSound => WeightsOnSimplex
  BY DEF AgtSound, Sound, WeightsOnSimplex
<1> QED
  BY <1>1, AlwaysSound, PTL

(* The two hashes are always those of the weights and the key in force.    *)
THEOREM HashesStayCurrent == AgtSpec => []HashesCurrent
<1>1. AgtSound => HashesCurrent
  BY DEF AgtSound, Sound, HashesCurrent
<1> QED
  BY <1>1, AlwaysSound, PTL

-----------------------------------------------------------------------------
(* No instruction takes back the stamp of the first audit, and a revoked   *)
(* attestation is frozen with its audit account.                           *)
THEOREM AuditsAreFinal == AgtSpec => FirstAuditFinal
<1> DEFINE Final == \A u \in Attested :
             /\ agt'[u] # NoAccount
             /\ agt[u].aaron_audit_hash # NoHash =>
                  agt'[u].aaron_audit_hash = agt[u].aaron_audit_hash
             /\ ~agt[u].is_valid => agt'[u] = agt[u] /\ audit'[u] = audit[u]
<1>1. AgtSound /\ [AgtNext]_agtVars => [Final]_agtVars
  <2> SUFFICES ASSUME AgtSound, AgtNext, NEW v \in Attested
               PROVE  /\ agt'[v] # NoAccount
                      /\ agt[v].aaron_audit_hash # NoHash =>
                           agt'[v].aaron_audit_hash = agt[v].aaron_audit_hash
                      /\ ~agt[v].is_valid => agt'[v] = agt[v] /\ audit'[v] = audit[v]
    OBVIOUS
  <2>1. v \in Users /\ agt[v] # NoAccount
    BY DEF Attested
  <2>2. ASSUME NEW u \in Users, NEW gaze \in Gazes, NEW seed \in Seeds, NEW phi \in Factors,
               CreateAgtAttestation(u, gaze, seed, phi)
        PROVE  agt'[v] = agt[v] /\ audit'[v] = audit[v]
    <3>1. v # u /\ audit' = audit
      BY <2>1, <2>2 DEF CreateAgtAttestation
    <3> QED
      BY <2>1, <2>2, <3>1, CreatedSound, WriteSound DEF AgtSound
  <2>3. ASSUME NEW u \in Users, NEW gaze \in Gazes, NEW alpha \in Alphas,
               UpdateAgtWeights(u, gaze, alpha)
        PROVE  /\ agt'[v] # NoAccount
               /\ agt'[v].aaron_audit_hash = agt[v].aaron_audit_hash
               /\ ~agt[v].is_valid => agt'[v] = agt[v] /\ audit'[v] = audit[v]
    <3>1. PICK x : /\ Sound(u, x) /\ x.aaron_audit_hash = agt[u].aaron_audit_hash
                   /\ agt' = [agt EXCEPT ![u] = x]
      BY <2>3, UpdateSound
    <3>2. /\ agt'[u] = x /\ x # NoAccount
          /\ \A y \in Users \ {u} : agt'[y] = agt[y]
      BY <3>1, WriteSound
    <3>3. agt[u].is_valid /\ audit' = audit
      BY <2>3 DEF UpdateAgtWeights, Valid
    <3> QED
      BY <2>1, <3>1, <3>2, <3>3
  <2>4. ASSUME NEW u \in Users, NEW hash \in AuditHashes, NEW risk \in RiskScores,
         AaronAudit(u, hash, risk)
        PROVE  /\ agt'[v] # NoAccount
               /\ agt[v].aaron_audit_hash # NoHash =>
                    agt'[v].aaron_audit_hash = agt[v].aaron_audit_hash
               /\ ~agt[v].is_valid => agt'[v] = agt[v] /\ audit'[v] = audit[v]
    <3>1. PICK x : Sound(u, x) /\ agt' = [agt EXCEPT ![u] = x]
      BY <2>4, AuditSound
    <3>2. /\ agt'[u] = x /\ x # NoAccount
          /\ \A y \in Users \ {u} : agt'[y] = agt[y]
      BY <3>1, WriteSound
    <3>3. agt[u].is_valid /\ agt[u].aaron_audit_hash = NoHash
      BY <2>4 DEF AaronAudit, Valid
    <3>4. v # u => audit'[v] = audit[v]
      BY <2>1, <2>4 DEF AaronAudit, AgtSound, AgtTypeOK
    <3> QED
      BY <2>1, <3>2, <3>3, <3>4
  <2>5. ASSUME NEW u \in Users, NEW hash \in AuditHashes, NEW risk \in RiskScores,
         RefreshAaronAudit(u, hash, risk)
        PROVE  agt' = agt /\ (~agt[v].is_valid => audit'[v] = audit[v])
    <3>1. agt' = agt /\ agt[u].is_valid
      BY <2>5 DEF RefreshAaronAudit, Valid
    <3>2. v # u => audit'[v] = audit[v]
      BY <2>1, <2>5 DEF RefreshAaronAudit, AgtSound, AgtTypeOK
    <3> QED
      BY <3>1, <3>2
  <2>6. ASSUME NEW u \in Users, RevokeAttestation(u)
        PROVE  /\ agt'[v] # NoAccount
               /\ agt'[v].aaron_audit_hash = agt[v].aaron_audit_hash
               /\ ~agt[v].is_valid => agt'[v] = agt[v] /\ audit'[v] = audit[v]
    <3>1. PICK x : /\ Sound(u, x) /\ x.aaron_audit_hash = agt[u].aaron_audit_hash
                   /\ agt' = [agt EXCEPT ![u] = x]
      BY <2>6, RevokeSound
    <3>2. /\ agt'[u] = x /\ x # NoAccount
          /\ \A y \in Users \ {u} : agt'[y] = agt[y]
      BY <3>1, WriteSound
    <3>3. agt[u].is_valid /\ audit' = audit
      BY <2>6 DEF RevokeAttestation, Valid
    <3> QED
      BY <2>1, <3>1, <3>2, <3>3
  <2>7. ASSUME NEW p \in BOOLEAN, SetPaused(p)
        PROVE  agt' = agt /\ audit' = audit
    BY <2>7 DEF SetPaused
  <2>8. CASE Tick
    BY <2>1, <2>8 DEF Tick
  <2> QED
    BY <2>1, <2>2, <2>3, <2>4, <2>5, <2>6, <2>7, <2>8 DEF AgtNext, Observing, Auditing
<1> QED
  BY <1>1, AlwaysSound, PTL DEF AgtSpec, FirstAuditFinal

-----------------------------------------------------------------------------
(* The vault's counters count the attestations and the audit accounts, and *)
(* an attestation bears a stamp exactly when it has its audit account.     *)

Audited == {u \in Users : audit[u] # NoAccount}

Stamps(u) == agt[u] # NoAccount /\ agt[u].aaron_audit_hash # NoHash

(* A step that neither opens an account nor stamps one. *)
LEMMA NothingCounted ==
  ASSUME AuditsCounted, NEW u \in Users,
         agt[u] # NoAccount, agt'[u] # NoAccount,
         agt'[u].aaron_audit_hash = agt[u].aaron_audit_hash,
         \A v \in Users \ {u} : agt'[v] = agt[v],
         \A v \in Users : audit'[v] # NoAccount <=> audit[v] # NoAccount,
         UNCHANGED <<total_agt_attestations, total_aaron_audits>>
  PROVE  AuditsCounted'
<1>1. Attested' = Attested
  BY DEF Attested
<1>2. {v \in Users : audit'[v] # NoAccount} = {v \in Users : audit[v] # NoAccount}
  OBVIOUS
<1>3. \A v \in Users : Stamps(v)' <=> Stamps(v)
  BY DEF Stamps
<1>4. \A v \in Users : audit'[v] # NoAccount <=> Stamps(v)'
  BY <1>3 DEF AuditsCounted, Stamps
<1> QED
  BY <1>1, <1>2, <1>4 DEF AuditsCounted, Stamps

LEMMA CountedStep == AgtSound /\ AuditsCounted /\ [AgtNext]_agtVars => AuditsCounted'
<1> SUFFICES ASSUME AgtSound, AuditsCounted, [AgtNext]_agtVars PROVE AuditsCounted'
  OBVIOUS
<1>1. ASSUME NEW u \in Users, NEW gaze \in Gazes, NEW seed \in Seeds, NEW phi \in Factors,
             CreateAgtAttestation(u, gaze, seed, phi)
      PROVE  AuditsCounted'
  <2>1. PICK x : /\ Sound(u, x) /\ x.aaron_audit_hash = NoHash
                 /\ agt' = [agt EXCEPT ![u] = x]
    BY <1>1, CreatedSound DEF AgtSound
  <2>2. /\ agt'[u] = x /\ x # NoAccount
        /\ \A v \in Users \ {u} : agt'[v] = agt[v]
    BY <2>1, WriteSound
  <2>3. /\ agt[u] = NoAccount /\ audit' = audit
        /\ total_agt_attestations' = total_agt_attestations + 1
        /\ total_aaron_audits' = total_aaron_audits
    BY <1>1 DEF CreateAgtAttestation
  <2>4. Attested' = Attested \cup {u} /\ u \notin Attested
    BY <2>2, <2>3 DEF Attested
  <2>5. Cardinality(Attested') = Cardinality(Attested) + 1
    <3>1. IsFiniteSet(Attested)
      BY AgtUsersFinite, FS_Subset DEF Attested
    <3> QED
      BY <2>4, <3>1, FS_AddElement
  <2>6. \A v \in Users : audit'[v] # NoAccount <=> Stamps(v)'
    BY <2>1, <2>2, <2>3 DEF AuditsCounted, Stamps
  <2> QED
    BY <2>3, <2>5, <2>6 DEF AuditsCounted, Stamps
<1>2. ASSUME NEW u \in Users, NEW gaze \in Gazes, NEW alpha \in Alphas,
             UpdateAgtWeights(u, gaze, alpha)
      PROVE  AuditsCounted'
  <2>1. PICK x : /\ Sound(u, x) /\ x.aaron_audit_hash = agt[u].aaron_audit_hash
                 /\ agt' = [agt EXCEPT ![u] = x]
    BY <1>2, UpdateSound
  <2>2. /\ agt'[u] = x /\ x # NoAccount
        /\ \A v \in Users \ {u} : agt'[v] = agt[v]
    BY <2>1, WriteSound
  <2> QED
    BY <1>2, <2>1, <2>2, NothingCounted DEF UpdateAgtWeights, Valid
<1>3. ASSUME NEW u \in Users, NEW hash \in AuditHashes, NEW risk \in RiskScores,
         AaronAudit(u, hash, risk)
      PROVE  AuditsCounted'
  <2>1. PICK x : /\ Sound(u, x) /\ x.aaron_audit_hash = hash
                 /\ agt' = [agt EXCEPT ![u] = x]
    BY <1>3, AuditSound
  <2>2. /\ agt'[u] = x /\ x # NoAccount
        /\ \A v \in Users \ {u} : agt'[v] = agt[v]
    BY <2>1, WriteSound
  <2>3. /\ agt[u] # NoAccount /\ audit[u] = NoAccount /\ risk <= MaxRisk
        /\ audit' = [audit EXCEPT ![u] = AuditNow(hash, risk)]
        /\ total_agt_attestations' = total_agt_attestations
        /\ total_aaron_audits' = total_aaron_audits + 1
    BY <1>3 DEF AaronAudit, Valid
  <2>4. /\ audit'[u] # NoAccount
        /\ \A v \in Users \ {u} : audit'[v] = audit[v]
    BY <2>3, AuditNowType, NoAgtAssumption DEF AgtSound, AgtTypeOK
  <2>5. Attested' = Attested
    BY <2>2, <2>3 DEF Attested
  <2>6. Audited' = Audited \cup {u} /\ u \notin Audited
    BY <2>3, <2>4 DEF Audited
  <2>7. Cardinality(Audited') = Cardinality(Audited) + 1
    <3>1. IsFiniteSet(Audited)
      BY AgtUsersFinite, FS_Subset DEF Audited
    <3> QED
      BY <2>6, <3>1, FS_AddElement
  <2>8. hash # NoHash
    BY AgtAssumption
  <2>9. \A v \in Users : audit'[v] # NoAccount <=> Stamps(v)'
    BY <2>1, <2>2, <2>4, <2>8 DEF AuditsCounted, Stamps
  <2> QED
    BY <2>3, <2>5, <2>7, <2>9 DEF AuditsCounted, Stamps, Audited
<1>4. ASSUME NEW u \in Users, NEW hash \in AuditHashes, NEW risk \in RiskScores,
         RefreshAaronAudit(u, hash, risk)
      PROVE  AuditsCounted'
  <2>1. /\ agt' = agt /\ agt[u] # NoAccount /\ audit[u] # NoAccount
        /\ risk <= MaxRisk /\ audit' = [audit EXCEPT ![u] = AuditNow(hash, risk)]
        /\ UNCHANGED <<total_agt_attestations, total_aaron_audits>>
    BY <1>4 DEF RefreshAaronAudit, Valid
  <2>2. \A v \in Users : audit'[v] # NoAccount <=> audit[v] # NoAccount
    BY <2>1, AuditNowType, NoAgtAssumption DEF AgtSound, AgtTypeOK
  <2> QED
    BY <2>1, <2>2, NothingCounted
<1>5. ASSUME NEW u \in Users, RevokeAttestation(u)
      PROVE  AuditsCounted'
  <2>1. PICK x : /\ Sound(u, x) /\ x.aaron_audit_hash = agt[u].aaron_audit_hash
                 /\ agt' = [agt EXCEPT ![u] = x]
    BY <1>5, RevokeSound
  <2>2. /\ agt'[u] = x /\ x # NoAccount
        /\ \A v \in Users \ {u} : agt'[v] = agt[v]
    BY <2>1, WriteSound
  <2> QED
    BY <1>5, <2>1, <2>2, NothingCounted DEF RevokeAttestation, Valid
<1>6. ASSUME UNCHANGED <<agt, audit, total_agt_attestations, total_aaron_audits>>
      PROVE  AuditsCounted'
  BY <1>6 DEF AuditsCounted, Attested
<1> QED
  BY <1>1, <1>2, <1>3, <1>4, <1>5, <1>6
     DEF AgtNext, Observing, Auditing, SetPaused, Tick, agtVars

(* No audit or attestation goes uncounted, and none is counted twice.      *)
THEOREM AuditsStayCounted == AgtSpec => []AuditsCounted
<1>1. AgtInit => AuditsCounted
  <2> SUFFICES ASSUME AgtInit PROVE AuditsCounted
    OBVIOUS
  <2>1. Attested = {} /\ {u \in Users : audit[u] # NoAccount} = {}
    BY DEF AgtInit, Attested
  <2>2. Cardinality({}) = 0
    BY FS_EmptySet
  <2>3. \A u \in Users : agt[u] = NoAccount /\ audit[u] = NoAccount
    BY DEF AgtInit
  <2> QED
    BY <2>1, <2>2, <2>3 DEF AgtInit, AuditsCounted
<1> QED
  BY <1>1, CountedStep, AlwaysSound, PTL DEF AgtSpec
-----------------------------------------------------------------------------
(* The attestation keeps what AttestationLifecycle promises: each step is  *)
(* a step of it on AgtView, or changes nothing that shows there.           *)

View(x) ==
  IF x = NoAccount THEN NoAccount
  ELSE [is_valid |-> x.is_valid, audited |-> x.aaron_audit_hash # NoHash]

LEMMA ViewOfWrite ==
  ASSUME AgtSound, NEW u \in Users, NEW x, agt' = [agt EXCEPT ![u] = x]
  PROVE  AgtView' = [AgtView EXCEPT ![u] = View(x)]
<1>1. agt \in [Users -> AgtAttestation \cup {NoAccount}]
  BY DEF AgtSound, AgtTypeOK
<1>2. AgtView = [v \in Users |-> View(agt[v])] /\ AgtView' = [v \in Users |-> View(agt'[v])]
  BY DEF AgtView, View
<1>3. \A v \in Users : agt'[v] = IF v = u THEN x ELSE agt[v]
  BY <1>1
<1> QED
  BY <1>2, <1>3

LEMMA LifecycleStep ==
  AgtSound /\ [AgtNext]_agtVars => [Lifecycle!Next]_(Lifecycle!vars)
<1> SUFFICES ASSUME AgtSound, [AgtNext]_agtVars PROVE [Lifecycle!Next]_(Lifecycle!vars)
  OBVIOUS
<1> USE DEF Lifecycle!Next, Lifecycle!vars
<1>0. AgtView = [u \in Users |-> View(agt[u])]
  BY DEF AgtView, View
<1>e. \A u \in Users : \A x : agt' = [agt EXCEPT ![u] = x] =>
        AgtView' = [AgtView EXCEPT ![u] = View(x)]
  BY ViewOfWrite
<1>n. \A u \in Users : \A x : Sound(u, x) =>
        /\ View(x) = [is_valid |-> x.is_valid, audited |-> x.aaron_audit_hash # NoHash]
        /\ View(x) # NoAccount /\ x.is_valid \in BOOLEAN
  <2> SUFFICES ASSUME NEW u \in Users, NEW x, Sound(u, x)
               PROVE  /\ View(x) = [is_valid |-> x.is_valid, audited |-> x.aaron_audit_hash # NoHash]
                      /\ View(x) # NoAccount /\ x.is_valid \in BOOLEAN
    OBVIOUS
  <2>1. x # NoAccount /\ x.is_valid \in BOOLEAN
    BY NoAgtAssumption DEF Sound, AgtAttestation
  <2>2. View(x) = [is_valid |-> x.is_valid, audited |-> x.aaron_audit_hash # NoHash]
    BY <2>1 DEF View
  <2>3. View(x) \in [is_valid : BOOLEAN, audited : BOOLEAN]
    <3> DEFINE stamped == x.aaron_audit_hash # NoHash
    <3>1. stamped \in BOOLEAN
      OBVIOUS
    <3> HIDE DEF stamped
    <3> QED
      BY <2>1, <2>2, <3>1 DEF stamped
  <2> QED
    BY <2>1, <2>2, <2>3, NoViewAssumption
<1>k. \A u \in Users : agt[u] # NoAccount => Sound(u, agt[u])
  BY DEF AgtSound, Attested
<1>1. ASSUME NEW u \in Users, NEW gaze \in Gazes, NEW seed \in Seeds, NEW phi \in Factors,
             CreateAgtAttestation(u, gaze, seed, phi)
      PROVE  Lifecycle!Make(u)
  <2>1. PICK x : /\ Sound(u, x) /\ x.aaron_audit_hash = NoHash /\ x.is_valid = TRUE
                 /\ agt' = [agt EXCEPT ![u] = x]
    BY <1>1, CreatedSound DEF AgtSound
  <2>2. View(x) = [is_valid |-> TRUE, audited |-> FALSE]
    BY <1>n, <2>1
  <2>3. agt[u] = NoAccount /\ ~paused /\ paused' = paused
    BY <1>1 DEF CreateAgtAttestation
  <2>4. AgtView[u] = NoAccount
    BY <1>0, <2>3 DEF View
  <2>5. AgtView' = [AgtView EXCEPT ![u] = View(x)]
    BY <1>e, <2>1
  <2> QED
    BY <2>2, <2>3, <2>4, <2>5 DEF Lifecycle!Make
<1>2. ASSUME NEW u \in Users, NEW gaze \in Gazes, NEW alpha \in Alphas,
             UpdateAgtWeights(u, gaze, alpha)
      PROVE  UNCHANGED <<paused, AgtView>>
  <2>1. PICK x : /\ Sound(u, x) /\ x.aaron_audit_hash = agt[u].aaron_audit_hash
                 /\ x.is_valid = agt[u].is_valid
                 /\ agt' = [agt EXCEPT ![u] = x]
    BY <1>2, UpdateSound
  <2>2. agt[u] # NoAccount /\ paused' = paused
    BY <1>2 DEF UpdateAgtWeights, Valid
  <2>3. View(x) = View(agt[u])
    BY <1>n, <1>k, <2>1, <2>2
  <2>4. AgtView' = [AgtView EXCEPT ![u] = View(x)]
    BY <1>e, <2>1
  <2> QED
    BY <1>0, <2>2, <2>3, <2>4
<1>3. ASSUME NEW u \in Users, NEW hash \in AuditHashes, NEW risk \in RiskScores,
             AaronAudit(u, hash, risk)
      PROVE  Lifecycle!Audit(u)
  <2>1. PICK x : /\ Sound(u, x) /\ x.aaron_audit_hash = hash
                 /\ x.is_valid = agt[u].is_valid
                 /\ agt' = [agt EXCEPT ![u] = x]
    BY <1>3, AuditSound
  <2>2. /\ agt[u] # NoAccount /\ agt[u].is_valid /\ agt[u].aaron_audit_hash = NoHash
        /\ ~paused /\ paused' = paused
    BY <1>3 DEF AaronAudit, Valid
  <2>3. View(x) = [is_valid |-> TRUE, audited |-> TRUE]
    <3>1. hash # NoHash /\ x.is_valid = TRUE
      BY <1>n, <2>1, <2>2, AgtAssumption
    <3> QED
      BY <1>n, <2>1, <3>1
  <2>4. AgtView[u] # NoAccount /\ AgtView[u].is_valid /\ ~AgtView[u].audited
    <3>1. /\ AgtView[u] # NoAccount /\ AgtView[u].is_valid
          /\ AgtView[u].audited = (agt[u].aaron_audit_hash # NoHash)
      BY <1>0, <1>n, <1>k, <2>2
    <3> QED
      BY <2>2, <3>1
  <2>5. AgtView' = [AgtView EXCEPT ![u] = View(x)]
    BY <1>e, <2>1
  <2> QED
    BY <2>2, <2>3, <2>4, <2>5 DEF Lifecycle!Audit, Lifecycle!Unrevoked
<1>4. ASSUME NEW u \in Users, NEW hash \in AuditHashes, NEW risk \in RiskScores,
             RefreshAaronAudit(u, hash, risk)
      PROVE  UNCHANGED <<paused, AgtView>>
  BY <1>4 DEF RefreshAaronAudit, AgtView
<1>5. ASSUME NEW u \in Users, RevokeAttestation(u)
      PROVE  Lifecycle!Revoke(u)
  <2>1. PICK x : /\ Sound(u, x) /\ x.aaron_audit_hash = agt[u].aaron_audit_hash
                 /\ x.is_valid = FALSE
                 /\ agt' = [agt EXCEPT ![u] = x]
    BY <1>5, RevokeSound
  <2>2. /\ agt[u] # NoAccount /\ agt[u].is_valid /\ paused' = paused
    BY <1>5 DEF RevokeAttestation, Valid
  <2>3. /\ AgtView[u] # NoAccount /\ AgtView[u].is_valid
        /\ AgtView[u].audited = (agt[u].aaron_audit_hash # NoHash)
    BY <1>0, <1>n, <1>k, <2>2
  <2>4. View(x) = [is_valid |-> FALSE, audited |-> AgtView[u].audited]
    BY <1>n, <2>1, <2>3
  <2>5. AgtView' = [AgtView EXCEPT ![u] = View(x)]
    BY <1>e, <2>1
  <2> QED
    BY <2>2, <2>3, <2>4, <2>5 DEF Lifecycle!Revoke, Lifecycle!Unrevoked
<1>6. ASSUME NEW p \in BOOLEAN, SetPaused(p)
      PROVE  Lifecycle!Switch
  BY <1>6 DEF SetPaused, Lifecycle!Switch, AgtView
<1>7. CASE Tick \/ UNCHANGED agtVars
  BY <1>7 DEF Tick, agtVars, AgtView
<1> QED
  BY <1>1, <1>2, <1>3, <1>4, <1>5, <1>6, <1>7 DEF AgtNext, Observing, Auditing

(* Whatever weights, hashes and audits an attestation holds, the rest of   *)
(* the vault sees it made once, audited at most once and revoked at most   *)
(* once, in this order, and never made or audited while paused.            *)
THEOREM LifecycleImplemented == AgtSpec => ImplementsLifecycle
<1>1. AgtInit => Lifecycle!Init
  BY DEF AgtInit, AgtView, Lifecycle!Init
<1> QED
  BY <1>1, LifecycleStep, AlwaysSound, PTL
     DEF AgtSpec, ImplementsLifecycle, Lifecycle!Spec

-----------------------------------------------------------------------------
(* The dual key is an average: weights that sum to one keep an inner       *)
(* product between the least and the greatest of what they are applied to. *)

LEMMA Extremes ==
  ASSUME NEW v \in Tensor
  PROVE  /\ Lowest(v) \in Nat /\ Highest(v) \in {v[i] : i \in Axes} /\ Highest(v) \in Nat
         /\ \A i \in Axes : Lowest(v) <= v[i] /\ v[i] <= Highest(v)
<1>1. v[1] \in Nat /\ v[2] \in Nat /\ v[3] \in Nat
  BY DEF Tensor, Axes
<1>2. \A i \in Axes : i = 1 \/ i = 2 \/ i = 3
  BY DEF Axes
<1>3. 1 \in Axes /\ 2 \in Axes /\ 3 \in Axes
  BY DEF Axes
<1>4. \E n \in {v[i] : i \in Axes} : \A i \in Axes : n <= v[i]
  <2>1. CASE v[1] <= v[2] /\ v[1] <= v[3]
    BY <1>1, <1>2, <1>3, <2>1
  <2>2. CASE v[2] <= v[1] /\ v[2] <= v[3]
    BY <1>1, <1>2, <1>3, <2>2
  <2>3. CASE v[3] <= v[1] /\ v[3] <= v[2]
    BY <1>1, <1>2, <1>3, <2>3
  <2> QED
    BY <1>1, <2>1, <2>2, <2>3
<1>5. \E n \in {v[i] : i \in Axes} : \A i \in Axes : n >= v[i]
  <2>1. CASE v[1] >= v[2] /\ v[1] >= v[3]
    BY <1>1, <1>2, <1>3, <2>1
  <2>2. CASE v[2] >= v[1] /\ v[2] >= v[3]
    BY <1>1, <1>2, <1>3, <2>2
  <2>3. CASE v[3] >= v[1] /\ v[3] >= v[2]
    BY <1>1, <1>2, <1>3, <2>3
  <2> QED
    BY <1>1, <2>1, <2>2, <2>3
<1>6. Lowest(v) \in {v[i] : i \in Axes} /\ \A i \in Axes : Lowest(v) <= v[i]
  BY <1>4 DEF Lowest
<1>7. Highest(v) \in {v[i] : i \in Axes} /\ \A i \in Axes : Highest(v) >= v[i]
  BY <1>5 DEF Highest
<1>8. \A i \in Axes : v[i] \in Nat
  BY DEF Tensor
<1> QED
  BY <1>6, <1>7, <1>8

(* Every weight counts an entry at least as its least and at most as its   *)
(* greatest.                                                               *)
LEMMA Weighted ==
  ASSUME NEW a \in Nat, NEW x \in Nat, NEW l \in Nat, NEW h \in Nat, l <= x, x <= h
  PROVE  a * l \in Nat /\ a * x \in Nat /\ a * h \in Nat /\ a * l <= a * x /\ a * x <= a * h
OBVIOUS

\* Equal factors gather: three shares of one value are that value taken once for each unit.
LEMMA Distribute ==
  ASSUME NEW a \in Nat, NEW b \in Nat, NEW c \in Nat, NEW p \in Nat, NEW v \in Nat,
         a + b + c = p
  PROVE  a * v + b * v + c * v = p * v
<1>1. (a + b + c) * v = a * v + b * v + c * v
  OBVIOUS
<1> QED
  BY <1>1

LEMMA InnerProductIsAverage ==
  ASSUME NEW w \in Tensor, NEW s \in Tensor, Total(w) = Precision,
         \A i \in Axes : s[i] <= MaxU64
  PROVE  InnerProduct(w, s) \in Lowest(s) .. Highest(s)
<1> DEFINE l == Lowest(s)
           h == Highest(s)
           sum == w[1] * s[1] + w[2] * s[2] + w[3] * s[3]
           q == sum \div Precision
<1>1. /\ w[1] \in Nat /\ w[2] \in Nat /\ w[3] \in Nat
      /\ s[1] \in Nat /\ s[2] \in Nat /\ s[3] \in Nat
      /\ Precision \in Nat \ {0} /\ w[1] + w[2] + w[3] = Precision
  BY AgtAssumption DEF Tensor, Axes, Total
<1>2. /\ l \in Nat /\ h \in Nat /\ h <= MaxU64
      /\ l <= s[1] /\ l <= s[2] /\ l <= s[3] /\ s[1] <= h /\ s[2] <= h /\ s[3] <= h
  BY Extremes DEF Axes
<1> HIDE DEF l, h
<1>3. /\ w[1] * l \in Nat /\ w[1] * s[1] \in Nat /\ w[1] * h \in Nat
      /\ w[1] * l <= w[1] * s[1] /\ w[1] * s[1] <= w[1] * h
  BY <1>1, <1>2, Weighted
<1>4. /\ w[2] * l \in Nat /\ w[2] * s[2] \in Nat /\ w[2] * h \in Nat
      /\ w[2] * l <= w[2] * s[2] /\ w[2] * s[2] <= w[2] * h
  BY <1>1, <1>2, Weighted
<1>5. /\ w[3] * l \in Nat /\ w[3] * s[3] \in Nat /\ w[3] * h \in Nat
      /\ w[3] * l <= w[3] * s[3] /\ w[3] * s[3] <= w[3] * h
  BY <1>1, <1>2, Weighted
<1>6. /\ w[1] * l + w[2] * l + w[3] * l = Precision * l
      /\ w[1] * h + w[2] * h + w[3] * h = Precision * h
  <2> DEFINE a == w[1]
             b == w[2]
             c == w[3]
  <2>1. a \in Nat /\ b \in Nat /\ c \in Nat /\ a + b + c = Precision /\ Precision \in Nat
    BY <1>1
  <2> HIDE DEF a, b, c
  <2>2. a * l + b * l + c * l = Precision * l /\ a * h + b * h + c * h = Precision * h
    BY <1>2, <2>1, Distribute
  <2> QED
    BY <2>2 DEF a, b, c
<1>7. sum \in Nat /\ Precision * l <= sum /\ sum <= Precision * h
  BY <1>3, <1>4, <1>5, <1>6
<1> HIDE DEF sum
<1>8. q \in Nat /\ Precision * q <= sum /\ sum < Precision * q + Precision
  BY <1>1, <1>7, DivBounds
<1> HIDE DEF q
<1>9. q <= h
  <2>1. Precision * q \in Nat /\ Precision * h \in Nat
    BY <1>1, <1>2, <1>8
  <2>2. Precision * q <= Precision * h
    BY <1>7, <1>8, <2>1
  <2> QED
    BY <1>1, <1>2, <1>8, <2>2, Cancel
<1>10. l <= q
  <2>1. Precision * l <= sum /\ sum < Precision * (q + 1)
    BY <1>1, <1>7, <1>8
  <2>2. CASE l >= q + 1
    <3>1. Precision * (q + 1) <= Precision * l
      BY <1>1, <1>2, <1>8, <2>2
    <3>2. Precision * (q + 1) \in Nat /\ Precision * l \in Nat
      BY <1>1, <1>2, <1>8
    <3> QED
      BY <1>7, <2>1, <3>1, <3>2
  <2> QED
    BY <1>2, <1>8, <2>2
<1>11. AsU64(q) = q
  BY <1>2, <1>8, <1>9, AgtAssumption DEF AsU64
<1> QED
  BY <1>2, <1>8, <1>9, <1>10, <1>11 DEF InnerProduct, q, sum, l, h

Averaged(a) ==
  \E s \in Seeds \cup {a.gaze_tensor} : a.dual_key \in Lowest(s) .. Highest(s)

LEMMA KeyStep == AgtSound /\ DualKeyIsAverage /\ [AgtNext]_agtVars => DualKeyIsAverage'
<1> SUFFICES ASSUME AgtSound, DualKeyIsAverage, [AgtNext]_agtVars PROVE DualKeyIsAverage'
  OBVIOUS
<1>0. \A v \in Users : agt[v] # NoAccount => Averaged(agt[v]) /\ agt[v] \in AgtAttestation
  BY DEF DualKeyIsAverage, Attested, Averaged, AgtSound, AgtTypeOK
<1>w. ASSUME NEW u \in Users, NEW x, agt' = [agt EXCEPT ![u] = x], Averaged(x)
      PROVE  DualKeyIsAverage'
  <2>1. \A v \in Users : agt'[v] = IF v = u THEN x ELSE agt[v]
    BY <1>w DEF AgtSound, AgtTypeOK
  <2>2. \A v \in Users : agt'[v] # NoAccount => Averaged(agt'[v])
    BY <1>0, <1>w, <2>1
  <2> QED
    BY <2>2 DEF DualKeyIsAverage, Attested, Averaged
<1>1. ASSUME NEW u \in Users, NEW gaze \in Gazes, NEW seed \in Seeds, NEW phi \in Factors,
             CreateAgtAttestation(u, gaze, seed, phi)
      PROVE  DualKeyIsAverage'
  <2> DEFINE x == NewAttestation(u, gaze, seed, phi)
             w == SimplexProject(gaze)
  <2>1. agt' = [agt EXCEPT ![u] = x] /\ NearSimplex(gaze)
    BY <1>1 DEF CreateAgtAttestation
  <2>2. gaze \in Tensor /\ seed \in Tensor
    BY AgtAssumption
  <2>3. w \in Tensor /\ Total(w) = Precision
    BY <2>1, <2>2, ObservationProjects
  <2>4. x.dual_key = InnerProduct(w, seed)
    BY DEF NewAttestation
  <2> HIDE DEF x, w
  <2>5. InnerProduct(w, seed) \in Lowest(seed) .. Highest(seed)
    <3>1. \A i \in Axes : seed[i] <= MaxU64
      BY InputsFitAssumption
    <3> QED
      BY <2>2, <2>3, <3>1, InnerProductIsAverage
  <2>6. Averaged(x)
    BY <2>4, <2>5 DEF Averaged
  <2> QED
    BY <1>w, <2>1, <2>6
<1>2. ASSUME NEW u \in Users, NEW gaze \in Gazes, NEW alpha \in Alphas,
             UpdateAgtWeights(u, gaze, alpha)
      PROVE  DualKeyIsAverage'
  <2> DEFINE m == MovingAverage(agt[u].agt_weights, gaze, alpha)
             w == SimplexProject(m)
             key == InnerProduct(w, gaze)
             x == Updated(agt[u], u, w, gaze, key)
  <2>1. agt' = [agt EXCEPT ![u] = x] /\ agt[u] # NoAccount
    BY <1>2 DEF UpdateAgtWeights, Valid, AgtSound, AgtTypeOK
  <2>2. gaze \in Tensor /\ alpha \in 0 .. AlphaScale
    BY AgtAssumption
  <2>3. agt[u] \in AgtAttestation /\ agt[u].agt_weights \in Tensor
        /\ Total(agt[u].agt_weights) = Precision
    BY <2>1 DEF AgtSound, AgtTypeOK, Attested, Sound, AgtAttestation
  <2>4. m \in Tensor /\ Total(m) # 0
    BY <1>2, <2>2, <2>3, AverageIsTensor, AverageNotZero DEF UpdateAgtWeights
  <2>5. w \in Tensor /\ Total(w) = Precision
    <3> HIDE DEF m
    <3> QED
      BY <2>4, ProjectionOnSimplex
  <2> HIDE DEF m, w
  <2>6. key \in Lowest(gaze) .. Highest(gaze) /\ key \in U64
    <3>1. \A i \in Axes : gaze[i] <= MaxU64
      BY InputsFitAssumption
    <3> QED
      BY <2>2, <2>5, <3>1, InnerProductIsAverage, InnerProductType
  <2> HIDE DEF key
  <2>7. x.gaze_tensor = gaze /\ x.dual_key = key
    BY <2>2, <2>3, <2>5, <2>6, UpdatedType
  <2>8. Averaged(x)
    BY <2>6, <2>7 DEF Averaged
  <2> QED
    BY <1>w, <2>1, <2>8
<1>3. ASSUME NEW u \in Users, NEW hash \in AuditHashes, NEW risk \in RiskScores,
             AaronAudit(u, hash, risk)
      PROVE  DualKeyIsAverage'
  <2>1. agt' = [agt EXCEPT ![u] = Stamped(agt[u], hash)] /\ agt[u] # NoAccount
    BY <1>3 DEF AaronAudit, Valid, AgtSound, AgtTypeOK
  <2>2. /\ Stamped(agt[u], hash).gaze_tensor = agt[u].gaze_tensor
        /\ Stamped(agt[u], hash).dual_key = agt[u].dual_key
    BY <1>0, <2>1 DEF Stamped, AgtAttestation
  <2>3. Averaged(Stamped(agt[u], hash))
    BY <1>0, <2>1, <2>2 DEF Averaged
  <2> QED
    BY <1>w, <2>1, <2>3
<1>4. ASSUME NEW u \in Users, RevokeAttestation(u) PROVE DualKeyIsAverage'
  <2> DEFINE x == [agt[u] EXCEPT !.is_valid = FALSE]
  <2>1. agt' = [agt EXCEPT ![u] = x] /\ agt[u] # NoAccount
    BY <1>4 DEF RevokeAttestation, Valid, AgtSound, AgtTypeOK
  <2>2. x.gaze_tensor = agt[u].gaze_tensor /\ x.dual_key = agt[u].dual_key
    BY <1>0, <2>1 DEF AgtAttestation
  <2>3. Averaged(x)
    BY <1>0, <2>1, <2>2 DEF Averaged
  <2> QED
    BY <1>w, <2>1, <2>3
<1>5. CASE UNCHANGED agt
  BY <1>5 DEF DualKeyIsAverage, Attested
<1> QED
  BY <1>1, <1>2, <1>3, <1>4, <1>5
     DEF AgtNext, Observing, Auditing, RefreshAaronAudit, SetPaused, Tick, agtVars

(* For every u64 seed and observation, the dual key lies between the least *)
(* and the greatest entry of what the weights were applied to, so that the *)
(* cast to u64 never cuts it off (inner_product).                          *)
THEOREM DualKeysAreAverages == AgtSpec => []DualKeyIsAverage
<1>1. AgtInit => DualKeyIsAverage
  BY DEF AgtInit, DualKeyIsAverage, Attested
<1> QED
  BY <1>1, KeyStep, AlwaysSound, PTL DEF AgtSpec
=============================================================================
