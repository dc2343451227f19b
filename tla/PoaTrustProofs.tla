--------------------------- MODULE PoaTrustProofs ---------------------------
(***************************************************************************)
(* Theorems about PoaTrust, for every set of users and ids, every lifetime,*)
(* cap, rate and width, and their machine-checked proofs.                  *)
(***************************************************************************)
EXTENDS PoaTrust, SumLemmas

USE DEF Opened, U64, FitsU64, Running, NotExpired, NotFinalized, Unattested

-----------------------------------------------------------------------------
(* Writing one account keeps a map of accounts well typed. *)

LEMMA PutAccount ==
  ASSUME NEW S, NEW f \in [Users -> [HandshakeIds -> S]],
         NEW u \in Users, NEW id \in HandshakeIds, NEW v \in S
  PROVE  [f EXCEPT ![u][id] = v] \in [Users -> [HandshakeIds -> S]]
OBVIOUS

LEMMA HandshakeWrites ==
  ASSUME NEW h \in Handshake, NEW d \in Nat, NEW e \in Nat, clock \in Nat
  PROVE  /\ WithGaze(h, e) \in Handshake
         /\ WithCompute(h, d, e) \in Handshake
         /\ Sealed(h) \in Handshake
         /\ Record(h) \in Attestation
<1>1. ASSUME NEW c \in BOOLEAN
      PROVE  /\ [h EXCEPT !.gaze_entropy = e, !.gaze_verified = TRUE,
                          !.gaze_verified_at = clock,
                          !.attestation_complete = c] \in Handshake
             /\ [h EXCEPT !.difficulty_level = d, !.compute_entropy = e,
                          !.compute_verified = TRUE, !.compute_verified_at = clock,
                          !.attestation_complete = c] \in Handshake
  BY DEF Handshake
<1>2. /\ (h.attestation_complete \/ h.compute_verified) \in BOOLEAN
      /\ (h.attestation_complete \/ h.gaze_verified) \in BOOLEAN
  OBVIOUS
<1>3. WithGaze(h, e) \in Handshake /\ WithCompute(h, d, e) \in Handshake
  BY <1>1, <1>2 DEF WithGaze, WithCompute
<1>4. Sealed(h) \in Handshake
  BY DEF Handshake, Sealed
<1>5. Record(h) \in Attestation
  BY DEF Handshake, Attestation, Record, CombinedEntropy
<1> QED
  BY <1>3, <1>4, <1>5

LEMMA DebitedType ==
  ASSUME NEW e \in UserEntropy, NEW amount \in Nat,
         amount <= e.optx_minting_allowance, FitsU64(e.entropy_used + amount)
  PROVE  Debited(e, amount) \in UserEntropy
<1>1. /\ e.optx_minting_allowance - amount \in U64
      /\ e.entropy_used + amount \in U64
  BY InputsAssumption DEF UserEntropy
<1>2. ASSUME NEW a \in U64, NEW b \in U64
      PROVE  [e EXCEPT !.optx_minting_allowance = a, !.entropy_used = b] \in UserEntropy
  BY DEF UserEntropy
<1> QED
  BY <1>1, <1>2 DEF Debited

LEMMA CreditedType ==
  ASSUME NEW e \in UserEntropy, NEW c \in Nat, NEW a \in Nat,
         FitsU64(e.total_entropy + c), FitsU64(e.attestation_count + 1),
         FitsU64(e.optx_minting_allowance + a)
  PROVE  Credited(e, c, a) \in UserEntropy
<1>1. /\ e.total_entropy + c \in U64
      /\ e.attestation_count + 1 \in U64
      /\ e.optx_minting_allowance + a \in U64
  BY InputsAssumption DEF UserEntropy
<1>2. ASSUME NEW x \in U64, NEW y \in U64, NEW z \in U64
      PROVE  [e EXCEPT !.total_entropy = x, !.attestation_count = y,
                       !.optx_minting_allowance = z] \in UserEntropy
  BY DEF UserEntropy
<1> QED
  BY <1>1, <1>2 DEF Credited

LEMMA AllowanceType ==
  ASSUME NEW c \in Nat, NEW d \in Nat, NEW r \in Nat
  PROVE  Allowance(c, d, r) \in Nat
<1>1. c * d * r \in Nat
  OBVIOUS
<1> QED
  BY <1>1, InputsAssumption DEF Allowance

LEMMA CountedConfigType ==
  ASSUME NEW c \in ProtocolConfig, NEW n \in U64
  PROVE  /\ [c EXCEPT !.total_handshakes = n] \in ProtocolConfig
         /\ [c EXCEPT !.total_attestations = n] \in ProtocolConfig
         /\ [c EXCEPT !.total_optx_minted = n] \in ProtocolConfig
BY DEF ProtocolConfig

(* What a well-typed state says of the accounts an instruction finds open. *)
LEMMA OpenedTypes ==
  ASSUME TypeOK, NEW u \in Users, NEW id \in HandshakeIds
  PROVE  /\ protocol_config # NoAccount => protocol_config \in ProtocolConfig
         /\ handshake[u][id] # NoAccount => handshake[u][id] \in Handshake
         /\ attestation[u][id] # NoAccount => attestation[u][id] \in Attestation
         /\ user_entropy[u] # NoAccount => user_entropy[u] \in UserEntropy
BY DEF TypeOK

-----------------------------------------------------------------------------
(* Every account holds what its struct can hold: u64 counters stay below   *)
(* 2^64 because every addition is checked.                                 *)

LEMMA TypeStep == TypeOK /\ [Next]_vars => TypeOK'
<1> USE InputsAssumption, NoAccountAssumption
<1> SUFFICES ASSUME TypeOK, [Next]_vars PROVE TypeOK'
  OBVIOUS
<1>1. ASSUME NEW a \in Users, NEW t \in Durations, NEW d \in Difficulties,
             NEW r \in Rates, Initialize(a, t, d, r)
      PROVE  TypeOK'
  BY <1>1 DEF TypeOK, Initialize, ProtocolConfig
<1>2. ASSUME NEW t \in Durations, NEW d \in Difficulties, NEW r \in Rates,
             UpdateConfig(t, d, r)
      PROVE  TypeOK'
  BY <1>2 DEF TypeOK, UpdateConfig, ProtocolConfig
<1>3. ASSUME NEW p \in BOOLEAN, SetPaused(p)
      PROVE  TypeOK'
  BY <1>3 DEF TypeOK, SetPaused, ProtocolConfig
<1>4. ASSUME NEW u \in Users, CreateUserEntropy(u)
      PROVE  TypeOK'
  BY <1>4 DEF TypeOK, CreateUserEntropy, UserEntropy
<1>5. ASSUME NEW u \in Users, NEW amount \in Amounts, MintOptx(u, amount)
      PROVE  TypeOK'
  <2>1. protocol_config \in ProtocolConfig /\ user_entropy[u] \in UserEntropy
    BY <1>5 DEF TypeOK, MintOptx
  <2>2. Debited(user_entropy[u], amount) \in UserEntropy
    BY <1>5, <2>1, DebitedType DEF MintOptx
  <2>3. /\ protocol_config.total_optx_minted + amount \in U64
        /\ optx_supply + amount \in U64
    BY <1>5, <2>1 DEF MintOptx, ProtocolConfig, TypeOK
  <2>4. WithMinted(amount) \in ProtocolConfig
    BY <2>1, <2>3, CountedConfigType DEF WithMinted
  <2> QED
    BY <1>5, <2>2, <2>3, <2>4 DEF TypeOK, MintOptx
<1>6. ASSUME NEW u \in Users, NEW id \in HandshakeIds, InitiateHandshake(u, id)
      PROVE  TypeOK'
  <2>1. protocol_config \in ProtocolConfig
    BY <1>6 DEF TypeOK, InitiateHandshake
  <2>2. protocol_config.total_handshakes + 1 \in U64
    BY <1>6, <2>1 DEF InitiateHandshake, ProtocolConfig
  <2>3. protocol_config' \in ProtocolConfig
    BY <1>6, <2>1, <2>2, CountedConfigType DEF InitiateHandshake
  <2>4. handshake' \in [Users -> [HandshakeIds -> Opened(Handshake)]]
    BY <1>6 DEF TypeOK, InitiateHandshake, Handshake
  <2> QED
    BY <1>6, <2>3, <2>4 DEF TypeOK, InitiateHandshake
<1>7. ASSUME NEW u \in Users, NEW id \in HandshakeIds, NEW d \in Durations,
             NEW e \in Entropies, SubmitGazeAttestation(u, id, d, e)
      PROVE  TypeOK'
  <2>1. handshake[u][id] \in Handshake
    BY <1>7, OpenedTypes DEF SubmitGazeAttestation, Submittable
  <2>2. handshake' \in [Users -> [HandshakeIds -> Opened(Handshake)]]
    BY <1>7, <2>1, HandshakeWrites, PutAccount DEF TypeOK, SubmitGazeAttestation
  <2> QED
    BY <1>7, <2>2 DEF TypeOK, SubmitGazeAttestation
<1>8. ASSUME NEW u \in Users, NEW id \in HandshakeIds, NEW d \in Difficulties,
             NEW e \in Entropies, SubmitComputeProof(u, id, d, e)
      PROVE  TypeOK'
  <2>1. handshake[u][id] \in Handshake
    BY <1>8, OpenedTypes DEF SubmitComputeProof, Submittable
  <2>2. handshake' \in [Users -> [HandshakeIds -> Opened(Handshake)]]
    BY <1>8, <2>1, HandshakeWrites, PutAccount DEF TypeOK, SubmitComputeProof
  <2> QED
    BY <1>8, <2>2 DEF TypeOK, SubmitComputeProof
<1>9. ASSUME NEW u \in Users, NEW id \in HandshakeIds, FinalizeAttestation(u, id)
      PROVE  TypeOK'
  <2> DEFINE h == handshake[u][id]
             e == user_entropy[u]
             combined == CombinedEntropy(h)
             earned == Allowance(combined, h.difficulty_level,
                                 protocol_config.optx_per_entropy)
  <2>1. /\ h \in Handshake /\ e \in UserEntropy
        /\ protocol_config \in ProtocolConfig
    BY <1>9, OpenedTypes DEF FinalizeAttestation
  <2>2. combined \in Nat /\ h.difficulty_level \in Nat
    BY <2>1 DEF Handshake, CombinedEntropy
  <2>3. earned \in Nat
    BY <2>1, <2>2, AllowanceType DEF ProtocolConfig
  <2>4. Credited(e, combined, earned) \in UserEntropy
    BY <1>9, <2>1, <2>2, <2>3, CreditedType DEF FinalizeAttestation
  <2>5. user_entropy' \in [Users -> Opened(UserEntropy)]
    BY <1>9, <2>4 DEF TypeOK, FinalizeAttestation
  <2>6. protocol_config.total_attestations + 1 \in U64
    BY <1>9, <2>1 DEF FinalizeAttestation, ProtocolConfig
  <2>7. protocol_config' \in ProtocolConfig
    BY <1>9, <2>1, <2>6, CountedConfigType DEF FinalizeAttestation
  <2>8. Sealed(h) \in Handshake /\ Record(h) \in Attestation
    BY <2>1, HandshakeWrites DEF TypeOK
  <2>9. /\ handshake' \in [Users -> [HandshakeIds -> Opened(Handshake)]]
        /\ attestation' \in [Users -> [HandshakeIds -> Opened(Attestation)]]
    BY <1>9, <2>8, PutAccount DEF TypeOK, FinalizeAttestation
  <2> QED
    BY <1>9, <2>5, <2>7, <2>9 DEF TypeOK, FinalizeAttestation
<1>10. ASSUME NEW u \in Users, NEW id \in HandshakeIds, CloseHandshake(u, id)
       PROVE  TypeOK'
  BY <1>10 DEF TypeOK, CloseHandshake
<1>11. ASSUME NEW s \in Users, NEW u \in Users, NEW id \in HandshakeIds,
              RevokeAttestation(s, u, id)
       PROVE  TypeOK'
  <2>1. Revoked(attestation[u][id]) \in Attestation
    BY <1>11, OpenedTypes DEF RevokeAttestation, Revoked, Attestation
  <2> QED
    BY <1>11, <2>1, PutAccount DEF TypeOK, RevokeAttestation
<1>12. CASE Tick
  BY <1>12 DEF TypeOK, Tick
<1>13. CASE UNCHANGED vars
  BY <1>13 DEF TypeOK, vars
<1> QED
  BY <1>1, <1>2, <1>3, <1>4, <1>5, <1>6, <1>7, <1>8, <1>9, <1>10, <1>11, <1>12,
     <1>13 DEF Next, Administration, UserStep, HandshakeStep

THEOREM TypeCorrect == Spec => []TypeOK
<1>1. Init => TypeOK
  BY InputsAssumption DEF Init, TypeOK
<1> QED
  BY <1>1, TypeStep, PTL DEF Spec

-----------------------------------------------------------------------------
(* The inductive invariant of the handshakes.  FinalizedMatchesRecord is   *)
(* not inductive alone: that a proof is younger than one lifetime when the *)
(* attestation is made follows from the lifetime of its handshake.         *)

HandshakeInv == ProofsWithinLifetime /\ CompleteIffBothProofs /\ FinalizedMatchesRecord

(* The three conjuncts, for one handshake h with attestation a at time t.  *)
WithinLifetime(h, t) ==
  /\ h.initiated_at <= t /\ h.expires_at = h.initiated_at + HandshakeTtl
  /\ h.gaze_verified =>
       h.gaze_verified_at \in h.initiated_at .. t /\ h.gaze_verified_at < h.expires_at
  /\ h.compute_verified =>
       h.compute_verified_at \in h.initiated_at .. t /\ h.compute_verified_at < h.expires_at

CompleteIffBoth(h) ==
  /\ h.attestation_complete <=> (h.gaze_verified /\ h.compute_verified)
  /\ h.finalized => h.attestation_complete
  /\ h.finalized <=> h.claimed

MatchesRecord(h, a) ==
  h.finalized =>
    /\ a # NoAccount
    /\ a.combined_entropy = CombinedEntropy(h)
    /\ a.difficulty_level = h.difficulty_level
    /\ \A t \in {h.gaze_verified_at, h.compute_verified_at} :
         h.initiated_at <= t /\ t <= a.created_at /\ a.created_at < t + HandshakeTtl

Sound(h, a, t) ==
  h # NoAccount => WithinLifetime(h, t) /\ CompleteIffBoth(h) /\ MatchesRecord(h, a)

LEMMA HandshakeInvPointwise ==
  HandshakeInv <=>
    \A u \in Users, id \in HandshakeIds : Sound(handshake[u][id], attestation[u][id], clock)
BY DEF HandshakeInv, ProofsWithinLifetime, CompleteIffBothProofs, FinalizedMatchesRecord,
       Sound, WithinLifetime, CompleteIffBoth, MatchesRecord

LEMMA HandshakeInvPointwisePrime ==
  HandshakeInv' <=>
    \A u \in Users, id \in HandshakeIds : Sound(handshake'[u][id], attestation'[u][id], clock')
BY DEF HandshakeInv, ProofsWithinLifetime, CompleteIffBothProofs, FinalizedMatchesRecord,
       Sound, WithinLifetime, CompleteIffBoth, MatchesRecord

(* Time passing and revocation of the attestation disturb no handshake. *)
LEMMA SoundLater ==
  ASSUME NEW h \in Opened(Handshake), NEW a \in Opened(Attestation),
         NEW t \in Nat, NEW s \in Nat, t <= s, Sound(h, a, t)
  PROVE  /\ Sound(h, a, s)
         /\ a # NoAccount => Sound(h, Revoked(a), s)
<1>1. Sound(h, a, s)
  BY InputsAssumption, NoAccountAssumption
     DEF Handshake, Sound, WithinLifetime, CompleteIffBoth, MatchesRecord
<1>2. ASSUME a # NoAccount PROVE Sound(h, Revoked(a), s)
  <2>1. /\ Revoked(a) \in Attestation
        /\ Revoked(a).combined_entropy = a.combined_entropy
        /\ Revoked(a).difficulty_level = a.difficulty_level
        /\ Revoked(a).created_at = a.created_at
    BY <1>2 DEF Attestation, Revoked
  <2> QED
    BY <1>1, <2>1, NoAccountAssumption DEF Sound, MatchesRecord
<1> QED
  BY <1>1, <1>2

LEMMA SoundSubmit ==
  ASSUME NEW h \in Handshake, NEW a \in Opened(Attestation), NEW d \in Nat, NEW e \in Nat,
         clock \in Nat, Sound(h, a, clock), NotFinalized(h), NotExpired(h)
  PROVE  /\ Sound(WithGaze(h, e), a, clock)
         /\ Sound(WithCompute(h, d, e), a, clock)
<1> USE InputsAssumption, NoAccountAssumption
    DEF Handshake, Sound, WithinLifetime, CompleteIffBoth, MatchesRecord
<1>1. Sound(WithGaze(h, e), a, clock)
  BY DEF WithGaze
<1>2. Sound(WithCompute(h, d, e), a, clock)
  BY DEF WithCompute
<1> QED
  BY <1>1, <1>2

LEMMA SoundFinalize ==
  ASSUME NEW h \in Handshake, clock \in Nat, Sound(h, NoAccount, clock), NotExpired(h),
         h.gaze_verified, h.compute_verified
  PROVE  Sound(Sealed(h), Record(h), clock)
<1>1. WithinLifetime(h, clock) /\ CompleteIffBoth(h)
  BY NoAccountAssumption DEF Sound
<1>2. WithinLifetime(Sealed(h), clock) /\ CompleteIffBoth(Sealed(h))
  BY <1>1 DEF WithinLifetime, CompleteIffBoth, Handshake, Sealed
<1>3. Record(h) # NoAccount
  BY HandshakeWrites, NoAccountAssumption
<1>4. \A s \in {h.gaze_verified_at, h.compute_verified_at} :
        h.initiated_at <= s /\ s <= clock /\ clock < s + HandshakeTtl
  BY <1>1, InputsAssumption DEF WithinLifetime, Handshake
<1>5. MatchesRecord(Sealed(h), Record(h))
  BY <1>3, <1>4 DEF MatchesRecord, Handshake, Sealed, Record, CombinedEntropy
<1> QED
  BY <1>2, <1>5 DEF Sound

LEMMA HandshakeInvStep == TypeOK /\ HandshakeInv /\ [Next]_vars => HandshakeInv'
<1> USE InputsAssumption, NoAccountAssumption
<1> SUFFICES ASSUME TypeOK, [Next]_vars,
                    \A u \in Users, id \in HandshakeIds :
                      Sound(handshake[u][id], attestation[u][id], clock),
                    NEW v \in Users, NEW i \in HandshakeIds
             PROVE  Sound(handshake'[v][i], attestation'[v][i], clock')
  BY HandshakeInvPointwise, HandshakeInvPointwisePrime
<1> DEFINE h == handshake[v][i]
           a == attestation[v][i]
<1>0. /\ h \in Opened(Handshake) /\ a \in Opened(Attestation) /\ clock \in Nat
      /\ Sound(h, a, clock)
  BY DEF TypeOK
<1>1. CASE UNCHANGED <<clock, handshake, attestation>>
  BY <1>0, <1>1
<1>2. CASE Administration
  BY <1>1, <1>2 DEF Administration, Initialize, UpdateConfig, SetPaused
<1>3. CASE Tick
  <2>1. clock' \in Nat /\ clock <= clock'
    BY <1>0, <1>3 DEF Tick
  <2>2. Sound(h, a, clock')
    BY <1>0, <2>1, SoundLater
  <2> QED
    BY <1>3, <2>2 DEF Tick
<1>4. ASSUME NEW u \in Users, CreateUserEntropy(u) \/ \E m \in Amounts : MintOptx(u, m)
      PROVE  Sound(handshake'[v][i], attestation'[v][i], clock')
  BY <1>1, <1>4 DEF CreateUserEntropy, MintOptx
<1>5. ASSUME NEW u \in Users, NEW id \in HandshakeIds, InitiateHandshake(u, id)
      PROVE  Sound(handshake'[v][i], attestation'[v][i], clock')
  <2>1. CASE u = v /\ id = i
    <3>1. handshake'[v][i] =
            [initiated_at |-> clock, expires_at |-> clock + HandshakeTtl,
             gaze_verified |-> FALSE, gaze_verified_at |-> 0, gaze_entropy |-> 0,
             compute_verified |-> FALSE, compute_verified_at |-> 0,
             difficulty_level |-> 0, compute_entropy |-> 0,
             attestation_complete |-> FALSE, finalized |-> FALSE, claimed |-> FALSE]
      BY <1>5, <2>1 DEF InitiateHandshake, TypeOK
    <3>2. clock' = clock
      BY <1>5 DEF InitiateHandshake
    <3> QED
      BY <1>0, <3>1, <3>2
         DEF Sound, WithinLifetime, CompleteIffBoth, MatchesRecord
  <2>2. CASE ~(u = v /\ id = i)
    BY <1>0, <1>5, <2>2 DEF InitiateHandshake, TypeOK
  <2> QED
    BY <2>1, <2>2
<1>6. ASSUME NEW u \in Users, NEW id \in HandshakeIds, NEW d \in Durations,
             NEW e \in Entropies, SubmitGazeAttestation(u, id, d, e)
      PROVE  Sound(handshake'[v][i], attestation'[v][i], clock')
  <2>1. CASE u = v /\ id = i
    <3>1. h \in Handshake /\ NotFinalized(h) /\ NotExpired(h) /\ e \in Nat
      BY <1>0, <1>6, <2>1 DEF SubmitGazeAttestation, Submittable
    <3>2. Sound(WithGaze(h, e), a, clock)
      BY <1>0, <3>1, SoundSubmit
    <3> QED
      BY <1>6, <2>1, <3>2 DEF SubmitGazeAttestation, TypeOK
  <2>2. CASE ~(u = v /\ id = i)
    BY <1>0, <1>6, <2>2 DEF SubmitGazeAttestation, TypeOK
  <2> QED
    BY <2>1, <2>2
<1>7. ASSUME NEW u \in Users, NEW id \in HandshakeIds, NEW d \in Difficulties,
             NEW e \in Entropies, SubmitComputeProof(u, id, d, e)
      PROVE  Sound(handshake'[v][i], attestation'[v][i], clock')
  <2>1. CASE u = v /\ id = i
    <3>1. /\ h \in Handshake /\ NotFinalized(h) /\ NotExpired(h)
          /\ d \in Nat /\ e \in Nat
      BY <1>0, <1>7, <2>1 DEF SubmitComputeProof, Submittable
    <3>2. Sound(WithCompute(h, d, e), a, clock)
      BY <1>0, <3>1, SoundSubmit
    <3> QED
      BY <1>7, <2>1, <3>2 DEF SubmitComputeProof, TypeOK
  <2>2. CASE ~(u = v /\ id = i)
    BY <1>0, <1>7, <2>2 DEF SubmitComputeProof, TypeOK
  <2> QED
    BY <2>1, <2>2
<1>8. ASSUME NEW u \in Users, NEW id \in HandshakeIds, FinalizeAttestation(u, id)
      PROVE  Sound(handshake'[v][i], attestation'[v][i], clock')
  <2>1. CASE u = v /\ id = i
    <3>1. /\ h \in Handshake /\ a = NoAccount /\ NotExpired(h)
          /\ h.gaze_verified /\ h.compute_verified
      BY <1>0, <1>8, <2>1 DEF FinalizeAttestation
    <3>2. Sound(Sealed(h), Record(h), clock)
      BY <1>0, <3>1, SoundFinalize
    <3> QED
      BY <1>8, <2>1, <3>2 DEF FinalizeAttestation, TypeOK
  <2>2. CASE ~(u = v /\ id = i)
    BY <1>0, <1>8, <2>2 DEF FinalizeAttestation, TypeOK
  <2> QED
    BY <2>1, <2>2
<1>9. ASSUME NEW u \in Users, NEW id \in HandshakeIds, CloseHandshake(u, id)
      PROVE  Sound(handshake'[v][i], attestation'[v][i], clock')
  <2>1. CASE u = v /\ id = i
    BY <1>9, <2>1 DEF CloseHandshake, TypeOK, Sound
  <2>2. CASE ~(u = v /\ id = i)
    BY <1>0, <1>9, <2>2 DEF CloseHandshake, TypeOK
  <2> QED
    BY <2>1, <2>2
<1>10. ASSUME NEW s \in Users, NEW u \in Users, NEW id \in HandshakeIds,
              RevokeAttestation(s, u, id)
       PROVE  Sound(handshake'[v][i], attestation'[v][i], clock')
  <2>1. CASE u = v /\ id = i
    <3>1. Sound(h, Revoked(a), clock)
      BY <1>0, <1>10, <2>1, SoundLater DEF RevokeAttestation
    <3> QED
      BY <1>10, <2>1, <3>1 DEF RevokeAttestation, TypeOK
  <2>2. CASE ~(u = v /\ id = i)
    BY <1>0, <1>10, <2>2 DEF RevokeAttestation, TypeOK
  <2> QED
    BY <2>1, <2>2
<1> QED
  BY <1>1, <1>2, <1>3, <1>4, <1>5, <1>6, <1>7, <1>8, <1>9, <1>10
     DEF Next, UserStep, HandshakeStep, vars

(* Whatever order proofs, resubmissions, closings and reopenings come in,  *)
(* an open handshake tells the truth about its proofs and a finalized one  *)
(* matches its attestation (submissions, finalize_attestation, close).     *)
THEOREM HandshakesSound ==
  Spec => [](ProofsWithinLifetime /\ CompleteIffBothProofs /\ FinalizedMatchesRecord)
<1>1. Init => HandshakeInv
  BY DEF Init, HandshakeInv, ProofsWithinLifetime, CompleteIffBothProofs,
         FinalizedMatchesRecord
<1>2. TypeOK /\ HandshakeInv /\ [Next]_vars => HandshakeInv'
  BY HandshakeInvStep
<1> QED
  BY <1>1, <1>2, TypeCorrect, PTL DEF Spec, HandshakeInv

(* attestation_complete, which lets a handshake close early, is true as    *)
(* soon as both proofs are in and never before, whatever the number of     *)
(* users and the order of their submissions.                               *)
THEOREM CompleteMeansBothProofs == Spec => []CompleteIffBothProofs
BY HandshakesSound, PTL

(* No recorded proof was submitted before its handshake was initiated,     *)
(* after it expired or in the future: closing and reopening an id leaves   *)
(* nothing of the old handshake.                                           *)
THEOREM NoProofOutlivesItsHandshake == Spec => []ProofsWithinLifetime
BY HandshakesSound, PTL

-----------------------------------------------------------------------------
(* What a step does to one attestation: it appears, when finalize_attestation*)
(* finds no account at its address, or it is revoked, or it stays.         *)

LEMMA AttestationStep ==
  ASSUME TypeOK, [Next]_vars, NEW u \in Users, NEW id \in HandshakeIds
  PROVE  \/ attestation'[u][id] = attestation[u][id]
         \/ /\ FinalizeAttestation(u, id)
            /\ attestation'[u][id] = Record(handshake[u][id])
         \/ /\ attestation[u][id] # NoAccount /\ attestation[u][id].is_valid
            /\ attestation'[u][id] = Revoked(attestation[u][id])
<1>1. CASE UNCHANGED attestation
  BY <1>1
<1>2. ASSUME NEW v \in Users, NEW i \in HandshakeIds, FinalizeAttestation(v, i)
      PROVE  \/ attestation'[u][id] = attestation[u][id]
             \/ /\ FinalizeAttestation(u, id)
                /\ attestation'[u][id] = Record(handshake[u][id])
  <2>1. CASE v = u /\ i = id
    <3>1. FinalizeAttestation(u, id)
      BY <1>2, <2>1
    <3>2. attestation' = [attestation EXCEPT ![u][id] = Record(handshake[u][id])]
      BY <3>1 DEF FinalizeAttestation
    <3> QED
      BY <3>1, <3>2 DEF TypeOK
  <2>2. CASE ~(v = u /\ i = id)
    BY <1>2, <2>2 DEF FinalizeAttestation, TypeOK
  <2> QED
    BY <2>1, <2>2
<1>3. ASSUME NEW w \in Users, NEW v \in Users, NEW i \in HandshakeIds,
             RevokeAttestation(w, v, i)
      PROVE  \/ attestation'[u][id] = attestation[u][id]
             \/ /\ attestation[u][id] # NoAccount /\ attestation[u][id].is_valid
                /\ attestation'[u][id] = Revoked(attestation[u][id])
  BY <1>3 DEF RevokeAttestation, TypeOK
<1> QED
  BY <1>1, <1>2, <1>3
     DEF Next, Administration, UserStep, HandshakeStep, vars, Initialize, UpdateConfig,
         SetPaused, Tick, CreateUserEntropy, MintOptx, InitiateHandshake,
         SubmitGazeAttestation, SubmitComputeProof, CloseHandshake

(* finalize_attestation never overwrites a record, and revocation only     *)
(* clears its validity: an attestation is permanent.                       *)
THEOREM CertificatesArePermanent == Spec => CertificatePermanent
<1>1. TypeOK /\ [Next]_vars =>
        [\A u \in Users, id \in HandshakeIds :
           attestation[u][id] # NoAccount =>
             \/ attestation'[u][id] = attestation[u][id]
             \/ /\ attestation[u][id].is_valid
                /\ attestation'[u][id] = Revoked(attestation[u][id])]_vars
  BY AttestationStep DEF FinalizeAttestation
<1> QED
  BY <1>1, TypeCorrect, PTL DEF Spec, CertificatePermanent

(* Replay protection: a handshake reopened under an attested id stays      *)
(* unfinalized, because finalize_attestation must create its record.       *)
THEOREM NoReplay == Spec => ReopenedNeverFinalizes
<1>1. TypeOK /\ [Next]_vars =>
        [\A u \in Users, id \in HandshakeIds :
           /\ attestation[u][id] # NoAccount
           /\ handshake[u][id] # NoAccount /\ ~handshake[u][id].finalized
           /\ handshake'[u][id] # NoAccount
           => ~handshake'[u][id].finalized]_vars
  <2> SUFFICES ASSUME TypeOK, [Next]_vars, NEW u \in Users, NEW id \in HandshakeIds,
                      attestation[u][id] # NoAccount,
                      handshake[u][id] # NoAccount, ~handshake[u][id].finalized,
                      handshake'[u][id] # NoAccount
               PROVE  ~handshake'[u][id].finalized
    OBVIOUS
  <2> USE InputsAssumption
  <2>0. handshake[u][id] \in Handshake
    BY OpenedTypes
  <2>1. ASSUME NEW d \in Nat, NEW e \in Nat
        PROVE  /\ ~WithGaze(handshake[u][id], e).finalized
               /\ ~WithCompute(handshake[u][id], d, e).finalized
    BY <2>0 DEF WithGaze, WithCompute, Handshake
  <2>2. ASSUME NEW v \in Users, NEW i \in HandshakeIds, NEW d \in Durations,
               NEW e \in Entropies, SubmitGazeAttestation(v, i, d, e)
        PROVE  ~handshake'[u][id].finalized
    <3>1. CASE v = u /\ i = id
      <4>1. handshake'[u][id] = WithGaze(handshake[u][id], e)
        BY <2>2, <3>1 DEF SubmitGazeAttestation, TypeOK
      <4>2. e \in Nat
        OBVIOUS
      <4> QED
        BY <2>1, <4>1, <4>2
    <3>2. CASE ~(v = u /\ i = id)
      BY <2>2, <3>2 DEF SubmitGazeAttestation, TypeOK
    <3> QED
      BY <3>1, <3>2
  <2>3. ASSUME NEW v \in Users, NEW i \in HandshakeIds, NEW d \in Difficulties,
               NEW e \in Entropies, SubmitComputeProof(v, i, d, e)
        PROVE  ~handshake'[u][id].finalized
    <3>1. CASE v = u /\ i = id
      <4>1. handshake'[u][id] = WithCompute(handshake[u][id], d, e)
        BY <2>3, <3>1 DEF SubmitComputeProof, TypeOK
      <4>2. e \in Nat /\ d \in Nat
        OBVIOUS
      <4> QED
        BY <2>1, <4>1, <4>2
    <3>2. CASE ~(v = u /\ i = id)
      BY <2>3, <3>2 DEF SubmitComputeProof, TypeOK
    <3> QED
      BY <3>1, <3>2
  <2>4. ASSUME NEW v \in Users, NEW i \in HandshakeIds,
               InitiateHandshake(v, i) \/ CloseHandshake(v, i) \/ FinalizeAttestation(v, i)
        PROVE  ~handshake'[u][id].finalized
    BY <2>4 DEF InitiateHandshake, CloseHandshake, FinalizeAttestation, TypeOK
  <2>5. CASE UNCHANGED handshake
    BY <2>5
  <2> QED
    BY <2>2, <2>3, <2>4, <2>5
       DEF Next, Administration, UserStep, HandshakeStep, vars, Initialize, UpdateConfig,
           SetPaused, Tick, CreateUserEntropy, MintOptx, RevokeAttestation
<1> QED
  BY <1>1, TypeCorrect, PTL DEF Spec, ReopenedNeverFinalizes

-----------------------------------------------------------------------------
(* What a step does to the entropy account and the records of one user.    *)

LEMMA UserRecordsStep ==
  ASSUME TypeOK, [Next]_vars, NEW u \in Users
  PROVE  \/ user_entropy'[u] = user_entropy[u] /\ Attested(u)' = Attested(u)
         \/ CreateUserEntropy(u) /\ Attested(u)' = Attested(u)
         \/ \E amount \in Amounts : MintOptx(u, amount) /\ Attested(u)' = Attested(u)
         \/ \E id \in HandshakeIds :
              /\ FinalizeAttestation(u, id)
              /\ Attested(u)' = Attested(u) \cup {id}
<1>1. CASE UNCHANGED <<user_entropy, attestation>>
  BY <1>1 DEF Attested
<1>2. ASSUME NEW v \in Users, CreateUserEntropy(v)
      PROVE  \/ user_entropy'[u] = user_entropy[u] /\ Attested(u)' = Attested(u)
             \/ CreateUserEntropy(u) /\ Attested(u)' = Attested(u)
  BY <1>2 DEF CreateUserEntropy, Attested, TypeOK
<1>3. ASSUME NEW v \in Users, NEW amount \in Amounts, MintOptx(v, amount)
      PROVE  \/ user_entropy'[u] = user_entropy[u] /\ Attested(u)' = Attested(u)
             \/ MintOptx(u, amount) /\ Attested(u)' = Attested(u)
  <2>1. Attested(u)' = Attested(u)
    BY <1>3 DEF MintOptx, Attested
  <2>2. CASE v = u
    BY <1>3, <2>1, <2>2
  <2>3. CASE v # u
    BY <1>3, <2>1, <2>3 DEF MintOptx, TypeOK
  <2> QED
    BY <2>2, <2>3
<1>4. ASSUME NEW v \in Users, NEW id \in HandshakeIds, FinalizeAttestation(v, id)
      PROVE  \/ user_entropy'[u] = user_entropy[u] /\ Attested(u)' = Attested(u)
             \/ FinalizeAttestation(u, id) /\ Attested(u)' = Attested(u) \cup {id}
  <2>1. attestation' = [attestation EXCEPT ![v][id] = Record(handshake[v][id])]
    BY <1>4 DEF FinalizeAttestation
  <2>2. CASE v = u
    <3>1. Record(handshake[u][id]) # NoAccount
      BY <1>4, <2>2, OpenedTypes, HandshakeWrites, NoAccountAssumption, InputsAssumption
         DEF FinalizeAttestation, TypeOK
    <3>2. Attested(u)' = Attested(u) \cup {id}
      BY <2>1, <2>2, <3>1 DEF Attested, TypeOK
    <3> QED
      BY <1>4, <2>2, <3>2
  <2>3. CASE v # u
    <3>1. Attested(u)' = Attested(u)
      BY <2>1, <2>3 DEF Attested, TypeOK
    <3> QED
      BY <1>4, <2>3, <3>1 DEF FinalizeAttestation, TypeOK
  <2> QED
    BY <2>2, <2>3
<1>5. ASSUME NEW w \in Users, NEW v \in Users, NEW id \in HandshakeIds,
             RevokeAttestation(w, v, id)
      PROVE  user_entropy'[u] = user_entropy[u] /\ Attested(u)' = Attested(u)
  <2>1. attestation' = [attestation EXCEPT ![v][id] = Revoked(attestation[v][id])]
    BY <1>5 DEF RevokeAttestation
  <2>2. Revoked(attestation[v][id]) # NoAccount /\ attestation[v][id] # NoAccount
    <3>1. attestation[v][id] \in Attestation
      BY <1>5, OpenedTypes DEF RevokeAttestation
    <3>2. Revoked(attestation[v][id]) \in Attestation
      BY <3>1 DEF Revoked, Attestation
    <3> QED
      BY <3>1, <3>2, NoAccountAssumption
  <2>3. \A i \in HandshakeIds : attestation'[u][i] # NoAccount <=> attestation[u][i] # NoAccount
    BY <2>1, <2>2 DEF TypeOK
  <2> QED
    BY <1>5, <2>3 DEF RevokeAttestation, Attested
<1> QED
  BY <1>1, <1>2, <1>3, <1>4, <1>5
     DEF Next, Administration, UserStep, HandshakeStep, vars, Initialize, UpdateConfig,
         SetPaused, Tick, InitiateHandshake, SubmitGazeAttestation, SubmitComputeProof,
         CloseHandshake

(* Each attestation account was counted exactly once.                      *)
THEOREM AttestationsCounted == Spec => []CountMatchesRecords
<1> USE IdsFinite
<1>1. Init => CountMatchesRecords
  BY DEF Init, CountMatchesRecords, Accounted, Attested
<1>2. TypeOK /\ CountMatchesRecords /\ [Next]_vars => CountMatchesRecords'
  <2> SUFFICES ASSUME TypeOK, [Next]_vars, NEW u \in Users,
                      IF Accounted(u)
                      THEN user_entropy[u].attestation_count = Cardinality(Attested(u))
                      ELSE Attested(u) = {}
               PROVE  IF Accounted(u)'
                      THEN user_entropy'[u].attestation_count = Cardinality(Attested(u)')
                      ELSE Attested(u)' = {}
    BY DEF CountMatchesRecords
  <2>1. CASE user_entropy'[u] = user_entropy[u] /\ Attested(u)' = Attested(u)
    BY <2>1 DEF Accounted
  <2>2. CASE CreateUserEntropy(u) /\ Attested(u)' = Attested(u)
    <3>1. user_entropy'[u].attestation_count = 0 /\ Attested(u)' = {}
      BY <2>2 DEF CreateUserEntropy, Accounted, TypeOK
    <3> QED
      BY <3>1, FS_EmptySet
  <2>3. ASSUME NEW amount \in Amounts, MintOptx(u, amount), Attested(u)' = Attested(u)
        PROVE  IF Accounted(u)'
               THEN user_entropy'[u].attestation_count = Cardinality(Attested(u)')
               ELSE Attested(u)' = {}
    <3>1. user_entropy[u] # NoAccount /\ user_entropy[u] \in UserEntropy
      BY <2>3 DEF MintOptx, TypeOK
    <3>2. user_entropy'[u] = Debited(user_entropy[u], amount)
      BY <2>3 DEF MintOptx, TypeOK
    <3>3. Debited(user_entropy[u], amount) \in UserEntropy
      BY <2>3, <3>1, DebitedType, InputsAssumption DEF MintOptx
    <3>4. user_entropy'[u].attestation_count = user_entropy[u].attestation_count
      BY <3>1, <3>2 DEF Debited, UserEntropy
    <3> QED
      BY <2>3, <3>1, <3>2, <3>3, <3>4, NoAccountAssumption DEF Accounted
  <2>4. ASSUME NEW id \in HandshakeIds, FinalizeAttestation(u, id),
               Attested(u)' = Attested(u) \cup {id}
        PROVE  IF Accounted(u)'
               THEN user_entropy'[u].attestation_count = Cardinality(Attested(u)')
               ELSE Attested(u)' = {}
    <3> DEFINE h == handshake[u][id]
               earned == Allowance(CombinedEntropy(h), h.difficulty_level,
                                   protocol_config.optx_per_entropy)
    <3>1. /\ user_entropy[u] # NoAccount /\ user_entropy[u] \in UserEntropy
          /\ attestation[u][id] = NoAccount
      BY <2>4 DEF FinalizeAttestation, TypeOK
    <3>2. user_entropy'[u] = Credited(user_entropy[u], CombinedEntropy(h), earned)
      BY <2>4 DEF FinalizeAttestation, TypeOK
    <3>3. user_entropy'[u] \in Opened(UserEntropy)
      BY TypeStep DEF TypeOK
    <3>4. user_entropy'[u].attestation_count = user_entropy[u].attestation_count + 1
      BY <3>1, <3>2 DEF Credited, UserEntropy
    <3>5. id \notin Attested(u)
      BY <3>1 DEF Attested
    <3>6. IsFiniteSet(Attested(u))
      BY FS_Subset DEF Attested
    <3>7. Cardinality(Attested(u)') = Cardinality(Attested(u)) + 1
      BY <2>4, <3>5, <3>6, FS_AddElement
    <3>8. user_entropy'[u] # NoAccount
      <4>1. Credited(user_entropy[u], CombinedEntropy(h), earned) \in UserEntropy
        <5>1. h \in Handshake /\ protocol_config \in ProtocolConfig
          BY <2>4, OpenedTypes DEF FinalizeAttestation
        <5>2. CombinedEntropy(h) \in Nat /\ h.difficulty_level \in Nat
          BY <5>1 DEF Handshake, CombinedEntropy
        <5>3. earned \in Nat
          BY <5>1, <5>2, AllowanceType, InputsAssumption DEF ProtocolConfig
        <5> QED
          BY <2>4, <3>1, <5>2, <5>3, CreditedType DEF FinalizeAttestation
      <4> QED
        BY <3>2, <4>1, NoAccountAssumption
    <3> QED
      BY <3>1, <3>4, <3>7, <3>8 DEF Accounted
  <2> QED
    BY <2>1, <2>2, <2>3, <2>4, UserRecordsStep
<1> QED
  BY <1>1, <1>2, TypeCorrect, PTL DEF Spec

-----------------------------------------------------------------------------
(* What finalization and minting write into the user's account. *)

FinalizeEarns(u, id, earned) ==
  /\ user_entropy[u] \in UserEntropy /\ user_entropy[u] # NoAccount
  /\ user_entropy'[u] # NoAccount
  /\ user_entropy'[u].optx_minting_allowance = user_entropy[u].optx_minting_allowance + earned
  /\ user_entropy'[u].entropy_used = user_entropy[u].entropy_used
  /\ attestation[u][id] = NoAccount /\ attestation'[u][id] # NoAccount
  /\ attestation'[u][id] = Record(handshake[u][id])

LEMMA FinalizeWrites ==
  ASSUME TypeOK, NEW u \in Users, NEW id \in HandshakeIds, FinalizeAttestation(u, id),
         NEW earned,
         earned = Allowance(CombinedEntropy(handshake[u][id]),
                            handshake[u][id].difficulty_level,
                            protocol_config.optx_per_entropy)
  PROVE  earned \in Nat /\ FinalizeEarns(u, id, earned)
<1> DEFINE h == handshake[u][id]
<1>1. /\ h \in Handshake /\ protocol_config \in ProtocolConfig
      /\ user_entropy[u] \in UserEntropy /\ clock \in Nat
      /\ user_entropy[u] # NoAccount /\ attestation[u][id] = NoAccount
  BY OpenedTypes DEF FinalizeAttestation, TypeOK
<1>2. CombinedEntropy(h) \in Nat /\ h.difficulty_level \in Nat
  BY <1>1 DEF Handshake, CombinedEntropy
<1>3. earned \in Nat
  BY <1>1, <1>2, AllowanceType, InputsAssumption DEF ProtocolConfig
<1>4. /\ user_entropy'[u] = Credited(user_entropy[u], CombinedEntropy(h), earned)
      /\ attestation'[u][id] = Record(h)
  BY DEF FinalizeAttestation, TypeOK
<1>5. Record(h) # NoAccount
  BY <1>1, HandshakeWrites, NoAccountAssumption
<1>6. user_entropy'[u] # NoAccount
  BY <1>1, <1>2, <1>3, <1>4, CreditedType, NoAccountAssumption DEF FinalizeAttestation
<1>7. /\ user_entropy'[u].optx_minting_allowance =
           user_entropy[u].optx_minting_allowance + earned
      /\ user_entropy'[u].entropy_used = user_entropy[u].entropy_used
  BY <1>1, <1>4 DEF Credited, UserEntropy
<1> QED
  BY <1>1, <1>3, <1>4, <1>5, <1>6, <1>7 DEF FinalizeEarns

LEMMA MintWrites ==
  ASSUME TypeOK, NEW u \in Users, NEW amount \in Amounts, MintOptx(u, amount)
  PROVE  /\ amount \in Nat /\ user_entropy[u] \in UserEntropy
         /\ user_entropy[u] # NoAccount /\ user_entropy'[u] # NoAccount
         /\ amount <= user_entropy[u].optx_minting_allowance
         /\ user_entropy'[u].optx_minting_allowance =
              user_entropy[u].optx_minting_allowance - amount
         /\ user_entropy'[u].entropy_used = user_entropy[u].entropy_used + amount
<1>1. /\ amount \in Nat /\ user_entropy[u] \in UserEntropy /\ user_entropy[u] # NoAccount
      /\ amount <= user_entropy[u].optx_minting_allowance
  BY InputsAssumption DEF MintOptx, TypeOK
<1>2. user_entropy'[u] = Debited(user_entropy[u], amount)
  BY DEF MintOptx, TypeOK
<1>3. user_entropy'[u] # NoAccount
  BY <1>1, <1>2, DebitedType, NoAccountAssumption DEF MintOptx
<1>4. /\ user_entropy'[u].optx_minting_allowance =
           user_entropy[u].optx_minting_allowance - amount
      /\ user_entropy'[u].entropy_used = user_entropy[u].entropy_used + amount
  BY <1>1, <1>2 DEF Debited, UserEntropy
<1> QED
  BY <1>1, <1>3, <1>4

-----------------------------------------------------------------------------
(* The totals.  A user's entropy is summed over the user's attestations.   *)

EntropyOf(u) == [id \in Attested(u) |-> attestation[u][id].combined_entropy]

EntropySummed(u) ==
  Accounted(u) => user_entropy[u].total_entropy = SumFunction(EntropyOf(u))

Counted(u) ==
  IF Accounted(u) THEN user_entropy[u].attestation_count = Cardinality(Attested(u))
                  ELSE Attested(u) = {}

LEMMA EntropyOfType ==
  ASSUME TypeOK, NEW u \in Users
  PROVE  EntropyOf(u) \in [Attested(u) -> Nat] /\ IsFiniteSet(Attested(u))
<1>1. \A id \in Attested(u) : attestation[u][id].combined_entropy \in Nat
  BY OpenedTypes DEF Attested, Attestation
<1>2. IsFiniteSet(Attested(u))
  BY IdsFinite, FS_Subset DEF Attested
<1> QED
  BY <1>1, <1>2 DEF EntropyOf

(* Revocation, the one way to change an attestation, keeps its entropy.    *)
LEMMA EntropyKept ==
  ASSUME TypeOK, [Next]_vars, NEW u \in Users, NEW id \in Attested(u)
  PROVE  attestation'[u][id].combined_entropy = attestation[u][id].combined_entropy
<1>1. attestation[u][id] # NoAccount /\ id \in HandshakeIds
  BY DEF Attested
<1>2. attestation[u][id] \in Attestation
  BY <1>1, OpenedTypes
<1>3. Revoked(attestation[u][id]).combined_entropy = attestation[u][id].combined_entropy
  BY <1>2 DEF Revoked, Attestation
<1> QED
  BY <1>1, <1>3, AttestationStep DEF FinalizeAttestation

LEMMA EntropyStep ==
  ASSUME TypeOK, [Next]_vars, NEW u \in Users, Counted(u), EntropySummed(u)
  PROVE  EntropySummed(u)'
<1>1. ASSUME Attested(u)' = Attested(u) PROVE EntropyOf(u)' = EntropyOf(u)
  BY <1>1, EntropyKept DEF EntropyOf
<1>2. CASE user_entropy'[u] = user_entropy[u] /\ Attested(u)' = Attested(u)
  BY <1>1, <1>2 DEF EntropySummed, Accounted
<1>3. CASE CreateUserEntropy(u) /\ Attested(u)' = Attested(u)
  <2>1. user_entropy'[u].total_entropy = 0 /\ Attested(u) = {}
    BY <1>3 DEF CreateUserEntropy, TypeOK, Counted, Accounted
  <2>2. SumFunction(EntropyOf(u)) = 0
    BY <2>1, EntropyOfType, EmptySum
  <2> QED
    BY <1>1, <1>3, <2>1, <2>2 DEF EntropySummed
<1>4. ASSUME NEW amount \in Amounts, MintOptx(u, amount), Attested(u)' = Attested(u)
      PROVE  EntropySummed(u)'
  <2>1. user_entropy[u] # NoAccount /\ user_entropy[u] \in UserEntropy
    BY <1>4 DEF MintOptx, TypeOK
  <2>2. user_entropy'[u] = Debited(user_entropy[u], amount)
    BY <1>4 DEF MintOptx, TypeOK
  <2>3. user_entropy'[u].total_entropy = user_entropy[u].total_entropy
    BY <2>1, <2>2 DEF Debited, UserEntropy
  <2> QED
    BY <1>1, <1>4, <2>1, <2>3 DEF EntropySummed, Accounted
<1>5. ASSUME NEW id \in HandshakeIds, FinalizeAttestation(u, id),
             Attested(u)' = Attested(u) \cup {id}
      PROVE  EntropySummed(u)'
  <2> DEFINE h == handshake[u][id]
             earned == Allowance(CombinedEntropy(h), h.difficulty_level,
                                 protocol_config.optx_per_entropy)
             entropy == CombinedEntropy(h)
  <2>1. /\ user_entropy[u] # NoAccount /\ user_entropy[u] \in UserEntropy
        /\ attestation[u][id] = NoAccount
    BY <1>5 DEF FinalizeAttestation, TypeOK
  <2>2. user_entropy'[u] = Credited(user_entropy[u], entropy, earned)
    BY <1>5 DEF FinalizeAttestation, TypeOK
  <2>3. attestation'[u][id].combined_entropy = entropy
    BY <1>5 DEF FinalizeAttestation, TypeOK, Record
  <2> HIDE DEF earned, entropy
  <2>4. user_entropy'[u].total_entropy = user_entropy[u].total_entropy + entropy
    BY <2>1, <2>2 DEF Credited, UserEntropy
  <2>5. id \notin Attested(u) /\ user_entropy[u].total_entropy = SumFunction(EntropyOf(u))
    BY <2>1 DEF Attested, EntropySummed, Accounted
  <2>6. EntropyOf(u) \in [Attested(u) -> Nat] /\ IsFiniteSet(Attested(u))
    BY EntropyOfType
  <2>7. EntropyOf(u)' \in [Attested(u)' -> Nat]
    <3>1. \A i \in Attested(u) : EntropyOf(u)[i] \in Nat
      BY <2>6
    <3>2. entropy \in Nat
      BY <1>5, OpenedTypes DEF FinalizeAttestation, entropy, CombinedEntropy, Handshake
    <3> QED
      BY <1>5, <2>3, <3>1, <3>2, EntropyKept DEF EntropyOf
  <2>8. /\ \A i \in Attested(u) : EntropyOf(u)'[i] = EntropyOf(u)[i]
        /\ EntropyOf(u)'[id] = entropy
    BY <1>5, <2>3, EntropyKept DEF EntropyOf
  <2>9. SumFunction(EntropyOf(u)') = SumFunction(EntropyOf(u)) + entropy
    <3> DEFINE f == EntropyOf(u)
               g == EntropyOf(u)'
               D == Attested(u)
               E == Attested(u)'
    <3>1. /\ f \in [D -> Nat] /\ g \in [E -> Nat] /\ id \in E /\ id \notin D
          /\ E = D \cup {id} /\ IsFiniteSet(D) /\ g[id] = entropy
          /\ \A i \in D : g[i] = f[i]
      BY <1>5, <2>5, <2>6, <2>7, <2>8
    <3> HIDE DEF f, g, D, E
    <3>2. SumFunction(g) = SumFunction(f) + g[id]
      BY <3>1, SumOfMore
    <3> QED
      BY <3>1, <3>2 DEF f, g
  <2> QED
    BY <2>4, <2>5, <2>9 DEF EntropySummed
<1> QED
  BY <1>2, <1>3, <1>4, <1>5, UserRecordsStep

(* The protocol's count of attestations and its supply, over all users.    *)

Cards == [u \in Users |-> Cardinality(Attested(u))]

Used == [u \in {v \in Users : Accounted(v)} |-> user_entropy[u].entropy_used]

(* Users may open entropy accounts before the protocol is initialized, but *)
(* without it nothing is certified and nothing minted.                     *)
NothingBeforeInit ==
  protocol_config = NoAccount => optx_supply = 0 /\ \A u \in Users : Attested(u) = {}

AllCounted ==
  protocol_config # NoAccount => protocol_config.total_attestations = SumFunction(Cards)

AllMinted ==
  /\ optx_supply = SumFunction(Used)
  /\ protocol_config # NoAccount => protocol_config.total_optx_minted = optx_supply

SumInv ==
  /\ \A u \in Users : Counted(u) /\ EntropySummed(u)
  /\ NothingBeforeInit /\ AllCounted /\ AllMinted

LEMMA CardsType ==
  ASSUME TypeOK
  PROVE  Cards \in [Users -> Nat]
<1>1. \A u \in Users : Cardinality(Attested(u)) \in Nat
  BY EntropyOfType, FS_CardinalityType
<1> QED
  BY <1>1 DEF Cards

LEMMA UsedType ==
  ASSUME TypeOK
  PROVE  /\ Used \in [{v \in Users : Accounted(v)} -> Nat]
         /\ IsFiniteSet({v \in Users : Accounted(v)})
<1>1. \A u \in {v \in Users : Accounted(v)} : user_entropy[u].entropy_used \in Nat
  BY DEF Accounted, TypeOK, UserEntropy
<1> QED
  BY <1>1, UsersFinite, FS_Subset DEF Used

(* A step that writes nothing the totals depend on.                        *)
Uncounted ==
  /\ optx_supply' = optx_supply
  /\ \A u \in Users : Attested(u)' = Attested(u)
  /\ \A u \in Users : user_entropy'[u] = user_entropy[u]
  /\ protocol_config' = NoAccount <=> protocol_config = NoAccount
  /\ protocol_config # NoAccount =>
       /\ protocol_config'.total_attestations = protocol_config.total_attestations
       /\ protocol_config'.total_optx_minted = protocol_config.total_optx_minted

LEMMA SameCards == (\A u \in Users : Attested(u)' = Attested(u)) => Cards' = Cards
BY DEF Cards

LEMMA SameUsed == (\A u \in Users : user_entropy'[u] = user_entropy[u]) => Used' = Used
BY DEF Used, Accounted

LEMMA UncountedKeeps ==
  ASSUME SumInv, Uncounted
  PROVE  NothingBeforeInit' /\ AllCounted' /\ AllMinted'
<1>1. Cards' = Cards /\ Used' = Used
  BY SameCards, SameUsed DEF Uncounted
<1>2. NothingBeforeInit'
  BY DEF SumInv, Uncounted, NothingBeforeInit, Attested
<1>3. AllCounted'
  BY <1>1 DEF SumInv, Uncounted, AllCounted
<1>4. AllMinted'
  BY <1>1 DEF SumInv, Uncounted, AllMinted
<1> QED
  BY <1>2, <1>3, <1>4

LEMMA OthersKept ==
  ASSUME TypeOK, NEW u \in Users, NEW id \in HandshakeIds, FinalizeAttestation(u, id)
  PROVE  \A v \in Users \ {u} : Attested(v)' = Attested(v) /\ user_entropy'[v] = user_entropy[v]
BY DEF FinalizeAttestation, TypeOK, Attested

LEMMA FinalizeCounts ==
  ASSUME TypeOK, [Next]_vars, SumInv,
         NEW u \in Users, NEW id \in HandshakeIds, FinalizeAttestation(u, id)
  PROVE  NothingBeforeInit' /\ AllCounted' /\ AllMinted'
<1> DEFINE h == handshake[u][id]
           earned == Allowance(CombinedEntropy(h), h.difficulty_level,
                               protocol_config.optx_per_entropy)
<1>1. /\ protocol_config \in ProtocolConfig /\ protocol_config # NoAccount
      /\ protocol_config' = [protocol_config EXCEPT !.total_attestations = @ + 1]
      /\ protocol_config.total_attestations + 1 \in U64
      /\ user_entropy' = [user_entropy EXCEPT ![u] = Credited(@, CombinedEntropy(h), earned)]
      /\ attestation[u][id] = NoAccount /\ optx_supply' = optx_supply
  <2>1. protocol_config \in ProtocolConfig
    BY OpenedTypes DEF FinalizeAttestation
  <2> QED
    BY <2>1 DEF FinalizeAttestation, ProtocolConfig
<1>2. /\ protocol_config' \in ProtocolConfig
      /\ protocol_config'.total_attestations = protocol_config.total_attestations + 1
      /\ protocol_config'.total_optx_minted = protocol_config.total_optx_minted
  BY <1>1, CountedConfigType DEF ProtocolConfig
<1>3. FinalizeEarns(u, id, earned)
  BY FinalizeWrites
<1>4. \A v \in Users \ {u} : Attested(v)' = Attested(v) /\ user_entropy'[v] = user_entropy[v]
  BY OthersKept
<1>5. Attested(u)' = Attested(u) \cup {id} /\ id \notin Attested(u)
  <2>1. attestation' = [attestation EXCEPT ![u][id] = Record(h)]
    BY DEF FinalizeAttestation
  <2>2. Record(h) # NoAccount
    BY <1>3, <2>1 DEF FinalizeEarns
  <2> QED
    BY <1>1, <2>1, <2>2 DEF Attested, TypeOK
<1>6. Used' = Used
  <2>1. \A v \in Users : Accounted(v)' <=> Accounted(v)
    BY <1>3, <1>4 DEF FinalizeEarns, Accounted
  <2>2. \A v \in Users : user_entropy'[v].entropy_used = user_entropy[v].entropy_used
    BY <1>3, <1>4 DEF FinalizeEarns
  <2> QED
    BY <2>1, <2>2 DEF Used
<1>7. SumFunction(Cards') = SumFunction(Cards) + 1
  <2> DEFINE f == Cards
             g == Cards'
  <2>1. TypeOK'
    BY TypeStep
  <2>2. f \in [Users -> Nat]
    BY CardsType
  <2>3. g[u] = f[u] + 1
    <3>1. IsFiniteSet(Attested(u))
      BY EntropyOfType
    <3> QED
      BY <1>5, <3>1, FS_AddElement DEF Cards
  <2>4. \A v \in Users \ {u} : g[v] = f[v]
    BY <1>4 DEF Cards
  <2>5. g \in [Users -> Nat]
    BY <2>2, <2>3, <2>4 DEF Cards
  <2> HIDE DEF f, g
  <2>6. SumFunction(g) + f[u] = SumFunction(f) + g[u]
    BY <2>2, <2>4, <2>5, UsersFinite, SumOfChange
  <2>7. SumFunction(f) \in Nat /\ SumFunction(g) \in Nat /\ f[u] \in Nat
    BY <2>2, <2>5, UsersFinite, SumIsNat
  <2>8. SumFunction(g) = SumFunction(f) + 1
    BY <2>3, <2>6, <2>7
  <2> QED
    BY <2>8 DEF f, g
<1>8. NothingBeforeInit'
  BY <1>2, NoAccountAssumption DEF NothingBeforeInit
<1>9. AllCounted'
  BY <1>1, <1>2, <1>7 DEF AllCounted, SumInv
<1>10. AllMinted'
  BY <1>1, <1>2, <1>6 DEF AllMinted, SumInv
<1> QED
  BY <1>8, <1>9, <1>10

LEMMA MintCounts ==
  ASSUME TypeOK, SumInv, NEW u \in Users, NEW amount \in Amounts, MintOptx(u, amount)
  PROVE  NothingBeforeInit' /\ AllCounted' /\ AllMinted'
<1>1. /\ protocol_config \in ProtocolConfig /\ protocol_config # NoAccount
      /\ protocol_config' = WithMinted(amount) /\ amount \in Nat
      /\ protocol_config.total_optx_minted + amount \in U64
      /\ optx_supply' = optx_supply + amount /\ attestation' = attestation
      /\ optx_supply \in Nat
  <2>1. protocol_config \in ProtocolConfig
    BY DEF MintOptx, TypeOK
  <2> QED
    BY <2>1, InputsAssumption DEF MintOptx, ProtocolConfig, TypeOK
<1>2. /\ protocol_config' \in ProtocolConfig
      /\ protocol_config'.total_attestations = protocol_config.total_attestations
      /\ protocol_config'.total_optx_minted = protocol_config.total_optx_minted + amount
  BY <1>1, CountedConfigType DEF ProtocolConfig, WithMinted
<1>3. Cards' = Cards
  BY <1>1 DEF Cards, Attested
<1>4. /\ user_entropy[u] # NoAccount /\ user_entropy'[u] # NoAccount
      /\ user_entropy[u] \in UserEntropy
      /\ user_entropy'[u].entropy_used = user_entropy[u].entropy_used + amount
  BY MintWrites
<1>5. \A v \in Users \ {u} : user_entropy'[v] = user_entropy[v]
  BY DEF MintOptx, TypeOK
<1>6. SumFunction(Used') = SumFunction(Used) + amount
  <2> DEFINE f == Used
             g == Used'
             D == {v \in Users : Accounted(v)}
  <2>1. f \in [D -> Nat] /\ IsFiniteSet(D)
    BY UsedType
  <2>2. D' = D /\ u \in D
    BY <1>4, <1>5 DEF Accounted
  <2>3. g[u] = f[u] + amount
    BY <1>4, <2>2 DEF Used
  <2>4. \A v \in D \ {u} : g[v] = f[v]
    BY <1>5, <2>2 DEF Used
  <2>5. g \in [D -> Nat]
    <3>1. \A v \in D : f[v] \in Nat
      BY <2>1
    <3>2. \A v \in D : g[v] \in Nat
      <4> HIDE DEF f, g
      <4> QED
        BY <1>1, <2>2, <2>3, <2>4, <3>1
    <3> QED
      BY <2>2, <3>2 DEF Used
  <2> HIDE DEF f, g, D
  <2>6. SumFunction(g) + f[u] = SumFunction(f) + g[u]
    BY <2>1, <2>2, <2>4, <2>5, SumOfChange
  <2>7. SumFunction(f) \in Nat /\ SumFunction(g) \in Nat /\ f[u] \in Nat
    BY <2>1, <2>2, <2>5, SumIsNat
  <2>8. SumFunction(g) = SumFunction(f) + amount
    BY <1>1, <2>3, <2>6, <2>7
  <2> QED
    BY <2>8 DEF f, g
<1>7. NothingBeforeInit'
  BY <1>2, NoAccountAssumption DEF NothingBeforeInit
<1>8. AllCounted'
  BY <1>1, <1>2, <1>3 DEF AllCounted, SumInv
<1>9. AllMinted'
  BY <1>1, <1>2, <1>6 DEF AllMinted, SumInv
<1> QED
  BY <1>7, <1>8, <1>9

LEMMA OpeningCounts ==
  ASSUME TypeOK, SumInv, NEW u \in Users, CreateUserEntropy(u)
  PROVE  NothingBeforeInit' /\ AllCounted' /\ AllMinted'
<1>1. /\ protocol_config' = protocol_config /\ attestation' = attestation
      /\ optx_supply' = optx_supply /\ user_entropy[u] = NoAccount
      /\ user_entropy'[u].entropy_used = 0
  BY DEF CreateUserEntropy, TypeOK
<1>2. user_entropy'[u] # NoAccount
  <2>1. [total_entropy |-> 0, entropy_used |-> 0, attestation_count |-> 0,
         optx_minting_allowance |-> 0] \in UserEntropy
    BY InputsAssumption DEF UserEntropy
  <2> QED
    BY <2>1, NoAccountAssumption DEF CreateUserEntropy, TypeOK
<1>3. \A v \in Users \ {u} : user_entropy'[v] = user_entropy[v]
  BY DEF CreateUserEntropy, TypeOK
<1>4. Cards' = Cards /\ \A v \in Users : Attested(v)' = Attested(v)
  BY <1>1 DEF Cards, Attested
<1>5. SumFunction(Used') = SumFunction(Used)
  <2> DEFINE f == Used
             g == Used'
             D == {v \in Users : Accounted(v)}
             E == D'
  <2>1. f \in [D -> Nat] /\ IsFiniteSet(D)
    BY UsedType
  <2>2. E = D \cup {u} /\ u \notin D
    BY <1>1, <1>2, <1>3 DEF Accounted
  <2>3. g[u] = 0
    BY <1>1, <2>2 DEF Used
  <2>4. \A v \in D : g[v] = f[v]
    BY <1>3, <2>2 DEF Used
  <2>5. g \in [E -> Nat]
    BY <2>1, <2>2, <2>3, <2>4 DEF Used
  <2> HIDE DEF f, g, D, E
  <2>6. SumFunction(g) = SumFunction(f) + g[u]
    BY <2>1, <2>2, <2>4, <2>5, SumOfMore
  <2>7. SumFunction(f) \in Nat
    BY <2>1, SumIsNat
  <2>8. SumFunction(g) = SumFunction(f)
    BY <2>3, <2>6, <2>7
  <2> QED
    BY <2>8 DEF f, g
<1>6. NothingBeforeInit'
  BY <1>1, <1>4 DEF NothingBeforeInit, SumInv
<1>7. AllCounted'
  BY <1>1, <1>4 DEF AllCounted, SumInv
<1>8. AllMinted'
  BY <1>1, <1>5 DEF AllMinted, SumInv
<1> QED
  BY <1>6, <1>7, <1>8

LEMMA UncountedSteps ==
  ASSUME TypeOK, [Next]_vars
  PROVE  \/ Uncounted
         \/ \E a \in Users, t \in Durations, d \in Difficulties, r \in Rates :
              Initialize(a, t, d, r)
         \/ \E u \in Users : CreateUserEntropy(u)
         \/ \E u \in Users, amount \in Amounts : MintOptx(u, amount)
         \/ \E u \in Users, id \in HandshakeIds : FinalizeAttestation(u, id)
<1>1. CASE UNCHANGED <<protocol_config, attestation, user_entropy, optx_supply>>
  BY <1>1 DEF Uncounted, Attested
<1>2. ASSUME NEW t \in Durations, NEW d \in Difficulties, NEW r \in Rates,
             UpdateConfig(t, d, r)
      PROVE  Uncounted
  <2>1. protocol_config \in ProtocolConfig
    BY <1>2 DEF UpdateConfig, TypeOK
  <2>2. protocol_config' = [protocol_config EXCEPT !.gaze_threshold = t,
                              !.compute_difficulty_min = d, !.optx_per_entropy = r]
    BY <1>2 DEF UpdateConfig
  <2>3. protocol_config' \in ProtocolConfig
    BY <2>1, <2>2 DEF ProtocolConfig
  <2>4. /\ protocol_config'.total_attestations = protocol_config.total_attestations
        /\ protocol_config'.total_optx_minted = protocol_config.total_optx_minted
        /\ protocol_config' # NoAccount
    BY <2>1, <2>2, <2>3, NoAccountAssumption DEF ProtocolConfig
  <2> QED
    BY <1>2, <2>4 DEF UpdateConfig, Uncounted, Attested
<1>3. ASSUME NEW p \in BOOLEAN, SetPaused(p) PROVE Uncounted
  <2>1. protocol_config \in ProtocolConfig
    BY <1>3 DEF SetPaused, TypeOK
  <2>2. protocol_config' = [protocol_config EXCEPT !.paused = p]
    BY <1>3 DEF SetPaused
  <2>3. protocol_config' \in ProtocolConfig
    BY <2>1, <2>2 DEF ProtocolConfig
  <2>4. /\ protocol_config'.total_attestations = protocol_config.total_attestations
        /\ protocol_config'.total_optx_minted = protocol_config.total_optx_minted
        /\ protocol_config' # NoAccount
    BY <2>1, <2>2, <2>3, NoAccountAssumption DEF ProtocolConfig
  <2> QED
    BY <1>3, <2>4 DEF SetPaused, Uncounted, Attested
<1>4. ASSUME NEW u \in Users, NEW id \in HandshakeIds, InitiateHandshake(u, id)
      PROVE  Uncounted
  <2>1. protocol_config \in ProtocolConfig
    BY <1>4, OpenedTypes DEF InitiateHandshake
  <2>2. protocol_config.total_handshakes + 1 \in U64
    BY <1>4, <2>1 DEF InitiateHandshake, ProtocolConfig
  <2>3. protocol_config' = [protocol_config EXCEPT !.total_handshakes = @ + 1]
    BY <1>4 DEF InitiateHandshake
  <2>4. protocol_config' \in ProtocolConfig
    BY <2>1, <2>2, <2>3, CountedConfigType
  <2>5. /\ protocol_config'.total_attestations = protocol_config.total_attestations
        /\ protocol_config'.total_optx_minted = protocol_config.total_optx_minted
        /\ protocol_config' # NoAccount
    BY <2>1, <2>3, <2>4, NoAccountAssumption DEF ProtocolConfig
  <2> QED
    BY <1>4, <2>5 DEF InitiateHandshake, Uncounted, Attested
<1>5. ASSUME NEW w \in Users, NEW v \in Users, NEW id \in HandshakeIds,
             RevokeAttestation(w, v, id)
      PROVE  Uncounted
  <2>1. /\ UNCHANGED <<protocol_config, user_entropy, optx_supply>>
        /\ attestation[v][id] \in Attestation
        /\ attestation' = [attestation EXCEPT ![v][id] = Revoked(attestation[v][id])]
    BY <1>5, OpenedTypes DEF RevokeAttestation
  <2>2. Revoked(attestation[v][id]) \in Attestation
    BY <2>1 DEF Revoked, Attestation
  <2>3. \A u \in Users, i \in HandshakeIds :
          attestation'[u][i] # NoAccount <=> attestation[u][i] # NoAccount
    BY <2>1, <2>2, NoAccountAssumption DEF TypeOK
  <2> QED
    BY <2>1, <2>3 DEF Uncounted, Attested
<1> QED
  BY <1>1, <1>2, <1>3, <1>4, <1>5
     DEF Next, Administration, UserStep, HandshakeStep, vars, Tick,
         SubmitGazeAttestation, SubmitComputeProof, CloseHandshake

LEMMA InitializeCounts ==
  ASSUME TypeOK, SumInv, NEW a \in Users, NEW t \in Durations, NEW d \in Difficulties,
         NEW r \in Rates, Initialize(a, t, d, r)
  PROVE  NothingBeforeInit' /\ AllCounted' /\ AllMinted'
<1>1. /\ protocol_config = NoAccount
      /\ protocol_config'.total_attestations = 0 /\ protocol_config'.total_optx_minted = 0
      /\ UNCHANGED <<attestation, user_entropy, optx_supply>>
  BY DEF Initialize
<1>2. optx_supply = 0 /\ \A u \in Users : Attested(u) = {}
  BY <1>1 DEF SumInv, NothingBeforeInit
<1>3. Cards' = [u \in Users |-> 0] /\ Used' = Used
  BY <1>1, <1>2, FS_EmptySet DEF Cards, Used, Attested, Accounted
<1>4. SumFunction(Cards') = 0
  BY <1>3, UsersFinite, SumOfZeros
<1>5. NothingBeforeInit'
  BY <1>1, <1>2 DEF NothingBeforeInit, Attested
<1>6. AllCounted'
  BY <1>1, <1>4 DEF AllCounted
<1>7. AllMinted'
  BY <1>1, <1>2, <1>3 DEF AllMinted, SumInv
<1> QED
  BY <1>5, <1>6, <1>7

LEMMA SumStep == TypeOK /\ CountMatchesRecords' /\ SumInv /\ [Next]_vars => SumInv'
<1> SUFFICES ASSUME TypeOK, CountMatchesRecords', SumInv, [Next]_vars PROVE SumInv'
  OBVIOUS
<1>1. \A u \in Users : EntropySummed(u)'
  BY EntropyStep DEF SumInv
<1>2. \A u \in Users : Counted(u)'
  BY DEF CountMatchesRecords, Counted
<1>3. NothingBeforeInit' /\ AllCounted' /\ AllMinted'
  BY UncountedSteps, UncountedKeeps, InitializeCounts, OpeningCounts, MintCounts, FinalizeCounts
<1> QED
  BY <1>1, <1>2, <1>3 DEF SumInv

LEMMA SumsHold == Spec => []SumInv
<1>1. Init => SumInv
  <2> SUFFICES ASSUME Init PROVE SumInv
    OBVIOUS
  <2>1. \A u \in Users : Attested(u) = {} /\ ~Accounted(u)
    BY DEF Init, Attested, Accounted
  <2>2. {v \in Users : Accounted(v)} = {}
    BY <2>1
  <2>3. SumFunction(Used) = 0
    BY <2>2, EmptySum DEF Used
  <2> QED
    BY <2>1, <2>3 DEF Init, SumInv, Counted, EntropySummed, NothingBeforeInit, AllCounted,
                      AllMinted
<1> QED
  BY <1>1, SumStep, TypeCorrect, AttestationsCounted, PTL DEF Spec

(* The protocol's statistics are the sums over its permanent records.      *)
THEOREM TotalsAddUp == Spec => []TotalsMatchRecords
<1>1. SumInv => TotalsMatchRecords
  BY DEF SumInv, TotalsMatchRecords, EntropySummed, EntropyOf, AllCounted, Cards
<1> QED
  BY <1>1, SumsHold, PTL

(* Every token of the supply came out of some user's allowance.            *)
THEOREM SupplyIsBacked == Spec => []SupplyBacked
<1>1. SumInv => SupplyBacked
  BY DEF SumInv, SupplyBacked, AllMinted, Used
<1> QED
  BY <1>1, SumsHold, PTL

-----------------------------------------------------------------------------
(* What a user has earned. *)

CertificateEarns(u) ==
  Earned(u)' # Earned(u) =>
    \E id \in HandshakeIds :
      /\ attestation[u][id] = NoAccount /\ attestation'[u][id] # NoAccount
      /\ Earned(u)' - Earned(u) =
           Allowance(attestation'[u][id].combined_entropy,
                     attestation'[u][id].difficulty_level,
                     protocol_config.optx_per_entropy)

LEMMA EarningStep ==
  ASSUME TypeOK, [Next]_vars, NEW u \in Users
  PROVE  CertificateEarns(u)
<1>1. CASE user_entropy'[u] = user_entropy[u]
  BY <1>1 DEF CertificateEarns, Earned, Accounted
<1>2. CASE CreateUserEntropy(u)
  <2>1. user_entropy[u] = NoAccount
    BY <1>2 DEF CreateUserEntropy
  <2>2. /\ user_entropy'[u].optx_minting_allowance = 0
        /\ user_entropy'[u].entropy_used = 0
    BY <1>2 DEF CreateUserEntropy, TypeOK
  <2> QED
    BY <2>1, <2>2 DEF CertificateEarns, Earned, Accounted
<1>3. ASSUME NEW amount \in Amounts, MintOptx(u, amount) PROVE CertificateEarns(u)
  <2>1. Earned(u)' = Earned(u)
    BY <1>3, MintWrites DEF Earned, Accounted, UserEntropy
  <2> QED
    BY <2>1 DEF CertificateEarns
<1>4. ASSUME NEW id \in HandshakeIds, FinalizeAttestation(u, id) PROVE CertificateEarns(u)
  <2> DEFINE h == handshake[u][id]
             earned == Allowance(CombinedEntropy(h), h.difficulty_level,
                                 protocol_config.optx_per_entropy)
  <2>1. earned \in Nat /\ FinalizeEarns(u, id, earned)
    BY <1>4, FinalizeWrites
  <2>2. Earned(u)' - Earned(u) = earned
    <3> HIDE DEF earned
    <3> QED
      BY <2>1 DEF FinalizeEarns, Earned, Accounted, UserEntropy
  <2>3. /\ attestation'[u][id].combined_entropy = CombinedEntropy(h)
        /\ attestation'[u][id].difficulty_level = h.difficulty_level
    BY <2>1 DEF FinalizeEarns, Record
  <2> QED
    BY <2>1, <2>2, <2>3 DEF CertificateEarns, FinalizeEarns
<1> QED
  BY <1>1, <1>2, <1>3, <1>4, UserRecordsStep

(* Minting and revocation leave what a user has earned alone, and only a   *)
(* new attestation adds to it, by its own allowance.                       *)
THEOREM EarningsSound == Spec => EarnedOnlyByCertificate
<1>1. TypeOK /\ [Next]_vars => [\A u \in Users : CertificateEarns(u)]_vars
  BY EarningStep
<1>2. Spec => [][\A u \in Users : CertificateEarns(u)]_vars
  BY <1>1, TypeCorrect, PTL DEF Spec
<1> QED
  BY <1>2 DEF EarnedOnlyByCertificate, CertificateEarns

-----------------------------------------------------------------------------
(* The program implements AttentionCredit.                                 *)

BalanceOf(u) == IF Accounted(u) THEN user_entropy[u].optx_minting_allowance ELSE 0
IssuedOf(u) == IF Accounted(u) THEN user_entropy[u].entropy_used ELSE 0

certificate == [u \in Users |-> [id \in HandshakeIds |-> CertificateStatus(u, id)]]
balance == [u \in Users |-> BalanceOf(u)]
issued == [u \in Users |-> IssuedOf(u)]

creditVars == <<certificate, balance, issued>>

(* An update of one user's record is an update of the mapped function.     *)
LEMMA CreditUpdates ==
  ASSUME TypeOK, NEW u \in Users, NEW r,
         user_entropy' = [user_entropy EXCEPT ![u] = r]
  PROVE  /\ balance' = [balance EXCEPT ![u] = BalanceOf(u)']
         /\ issued' = [issued EXCEPT ![u] = IssuedOf(u)']
BY DEF TypeOK, balance, issued, BalanceOf, IssuedOf, Accounted

LEMMA CertificateUpdates ==
  ASSUME TypeOK, NEW u \in Users, NEW id \in HandshakeIds, NEW r,
         attestation' = [attestation EXCEPT ![u][id] = r]
  PROVE  certificate' = [certificate EXCEPT ![u][id] = CertificateStatus(u, id)']
BY DEF TypeOK, certificate, CertificateStatus, VerifyAttestation

LEMMA CertificateSame ==
  ASSUME UNCHANGED attestation
  PROVE  certificate' = certificate
BY DEF certificate, CertificateStatus, VerifyAttestation

LEMMA BalancesSame ==
  ASSUME UNCHANGED user_entropy
  PROVE  balance' = balance /\ issued' = issued
BY DEF balance, issued, BalanceOf, IssuedOf, Accounted

LEMMA FinalizeRefines ==
  ASSUME TypeOK, NEW u \in Users, NEW id \in HandshakeIds, FinalizeAttestation(u, id)
  PROVE  Credit!Next
<1> DEFINE h == handshake[u][id]
           earned == Allowance(CombinedEntropy(h), h.difficulty_level,
                               protocol_config.optx_per_entropy)
<1>1. earned \in Nat /\ FinalizeEarns(u, id, earned)
  BY FinalizeWrites
<1> HIDE DEF earned
<1>2. /\ balance' = [balance EXCEPT ![u] = BalanceOf(u)']
      /\ issued' = [issued EXCEPT ![u] = IssuedOf(u)']
  BY CreditUpdates DEF FinalizeAttestation
<1>3. certificate' = [certificate EXCEPT ![u][id] = CertificateStatus(u, id)']
  BY CertificateUpdates DEF FinalizeAttestation
<1>4. CertificateStatus(u, id) = "none" /\ CertificateStatus(u, id)' = "valid"
  BY <1>1 DEF FinalizeEarns, CertificateStatus, VerifyAttestation, Record
<1>5. BalanceOf(u)' >= BalanceOf(u) /\ IssuedOf(u)' = IssuedOf(u)
  BY <1>1 DEF FinalizeEarns, BalanceOf, IssuedOf, Accounted, UserEntropy
<1>6. balance[u] = BalanceOf(u) /\ issued[u] = IssuedOf(u)
  BY DEF balance, issued
<1>7. balance'[u] = BalanceOf(u)'
  BY DEF balance
<1>8. certificate[u][id] = CertificateStatus(u, id)
  BY DEF certificate
<1>9. issued' = issued
  BY <1>2, <1>5, <1>6 DEF issued
<1>10. balance'[u] >= balance[u] /\ balance' = [balance EXCEPT ![u] = balance'[u]]
  BY <1>2, <1>5, <1>6, <1>7
<1>11. certificate[u][id] = "none" /\ certificate' = [certificate EXCEPT ![u][id] = "valid"]
  BY <1>3, <1>4, <1>8
<1>12. Credit!Certify(u, id)
  BY <1>9, <1>10, <1>11
     DEF Credit!Certify, certificate, balance, issued, BalanceOf, IssuedOf
<1> QED
  BY <1>12 DEF Credit!Next

LEMMA RevokeRefines ==
  ASSUME TypeOK, NEW w \in Users, NEW u \in Users, NEW id \in HandshakeIds,
         RevokeAttestation(w, u, id)
  PROVE  Credit!Next
<1>1. /\ attestation[u][id] # NoAccount /\ attestation[u][id] \in Attestation
      /\ attestation[u][id].is_valid
      /\ attestation'[u][id] = Revoked(attestation[u][id])
      /\ UNCHANGED user_entropy
  BY DEF RevokeAttestation, TypeOK
<1>2. /\ Revoked(attestation[u][id]) \in Attestation
      /\ ~Revoked(attestation[u][id]).is_valid
  BY <1>1 DEF Revoked, Attestation
<1>3. CertificateStatus(u, id) = "valid" /\ CertificateStatus(u, id)' = "revoked"
  BY <1>1, <1>2, NoAccountAssumption DEF CertificateStatus, VerifyAttestation
<1>4. certificate' = [certificate EXCEPT ![u][id] = CertificateStatus(u, id)']
  BY CertificateUpdates DEF RevokeAttestation
<1>5. certificate[u][id] = CertificateStatus(u, id)
  BY DEF certificate
<1>6. certificate[u][id] = "valid" /\ certificate' = [certificate EXCEPT ![u][id] = "revoked"]
  BY <1>3, <1>4, <1>5
<1>7. balance' = balance /\ issued' = issued
  BY <1>1, BalancesSame
<1>8. Credit!Revoke(u, id)
  BY <1>6, <1>7 DEF Credit!Revoke, certificate, balance, issued, BalanceOf, IssuedOf
<1> QED
  BY <1>8 DEF Credit!Next

LEMMA MintRefines ==
  ASSUME TypeOK, NEW u \in Users, NEW amount \in Amounts, MintOptx(u, amount)
  PROVE  Credit!Next
<1>1. /\ amount \in Nat /\ user_entropy[u] \in UserEntropy
      /\ user_entropy[u] # NoAccount /\ user_entropy'[u] # NoAccount
      /\ user_entropy'[u].optx_minting_allowance =
           user_entropy[u].optx_minting_allowance - amount
      /\ user_entropy'[u].entropy_used = user_entropy[u].entropy_used + amount
  BY MintWrites
<1>2. /\ balance' = [balance EXCEPT ![u] = BalanceOf(u)']
      /\ issued' = [issued EXCEPT ![u] = IssuedOf(u)']
  BY CreditUpdates DEF MintOptx
<1>3. /\ BalanceOf(u)' <= BalanceOf(u)
      /\ IssuedOf(u)' = IssuedOf(u) + (BalanceOf(u) - BalanceOf(u)')
  BY <1>1 DEF BalanceOf, IssuedOf, Accounted, UserEntropy
<1>4. balance[u] = BalanceOf(u) /\ issued[u] = IssuedOf(u) /\ balance'[u] = BalanceOf(u)'
  BY DEF balance, issued
<1>5. balance'[u] <= balance[u] /\ balance' = [balance EXCEPT ![u] = balance'[u]]
  BY <1>2, <1>3, <1>4
<1>6. issued' = [issued EXCEPT ![u] = issued[u] + (balance[u] - balance'[u])]
  BY <1>2, <1>3, <1>4
<1>7. certificate' = certificate
  BY CertificateSame DEF MintOptx
<1>8. Credit!Issue(u)
  BY <1>5, <1>6, <1>7 DEF Credit!Issue, certificate, balance, issued, BalanceOf, IssuedOf
<1> QED
  BY <1>8 DEF Credit!Next

LEMMA CreateRefines ==
  ASSUME TypeOK, NEW u \in Users, CreateUserEntropy(u)
  PROVE  UNCHANGED creditVars
<1>1. /\ BalanceOf(u)' = 0 /\ IssuedOf(u)' = 0
      /\ BalanceOf(u) = 0 /\ IssuedOf(u) = 0
  BY DEF CreateUserEntropy, BalanceOf, IssuedOf, Accounted, TypeOK
<1>2. /\ balance' = [balance EXCEPT ![u] = BalanceOf(u)']
      /\ issued' = [issued EXCEPT ![u] = IssuedOf(u)']
  BY CreditUpdates DEF CreateUserEntropy
<1>3. balance' = balance /\ issued' = issued
  BY <1>1, <1>2 DEF balance, issued
<1>4. certificate' = certificate
  BY CertificateSame DEF CreateUserEntropy
<1> QED
  BY <1>3, <1>4 DEF creditVars

LEMMA CreditStep ==
  ASSUME TypeOK, [Next]_vars
  PROVE  Credit!Next \/ UNCHANGED Credit!vars
<1>1. ASSUME NEW u \in Users, NEW id \in HandshakeIds, FinalizeAttestation(u, id)
      PROVE  Credit!Next
  BY <1>1, FinalizeRefines
<1>2. ASSUME NEW w \in Users, NEW u \in Users, NEW id \in HandshakeIds,
             RevokeAttestation(w, u, id)
      PROVE  Credit!Next
  BY <1>2, RevokeRefines
<1>3. ASSUME NEW u \in Users, NEW amount \in Amounts, MintOptx(u, amount)
      PROVE  Credit!Next
  BY <1>3, MintRefines
<1>4. ASSUME UNCHANGED creditVars PROVE UNCHANGED Credit!vars
  BY <1>4 DEF creditVars, Credit!vars, certificate, balance, issued, BalanceOf, IssuedOf
<1>5. ASSUME NEW u \in Users, CreateUserEntropy(u) PROVE UNCHANGED Credit!vars
  BY <1>4, <1>5, CreateRefines
<1>6. CASE UNCHANGED <<user_entropy, attestation>>
  BY <1>4, <1>6, CertificateSame, BalancesSame DEF creditVars
<1> QED
  BY <1>1, <1>2, <1>3, <1>5, <1>6
     DEF Next, Administration, UserStep, HandshakeStep, vars, Initialize, UpdateConfig,
         SetPaused, Tick, InitiateHandshake, SubmitGazeAttestation, SubmitComputeProof,
         CloseHandshake

(* Every instruction is a step of the certificate-and-credit specification *)
(* or leaves certificates, balances and issued tokens alone.               *)
THEOREM CreditImplemented == Spec => ImplementsCredit
<1>1. Init => Credit!Init
  BY DEF Init, Credit!Init, CertificateStatus, Accounted
<1>2. TypeOK /\ [Next]_vars => [Credit!Next]_(Credit!vars)
  BY CreditStep
<1> QED
  BY <1>1, <1>2, TypeCorrect, PTL DEF Spec, ImplementsCredit, Credit!Spec
=============================================================================
