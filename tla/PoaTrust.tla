------------------------------ MODULE PoaTrust ------------------------------
(***************************************************************************)
(* The Proof-of-Attention Trust program                                    *)
(* (programs/jtx-optx-devnet-poa-trustjoe).  One action is one instruction *)
(* that succeeds: a Solana transaction is atomic, so an instruction that   *)
(* returns an error leaves every account as it was and is no step here.    *)
(* An account that does not exist is NoAccount; Anchor's `init` is the     *)
(* guard that it does not exist, `close` sets it back.                     *)
(*                                                                         *)
(* A definition named after a mistake (IgnoredExpiry, InitIfNeeded...) is  *)
(* a faulty variant of the definition that follows it.  Nothing uses it:   *)
(* it is there to be substituted, to see that a property notices.          *)
(*                                                                         *)
(* Left out: hashes, vectors, nonces and device types (stored, never read  *)
(* by a guard), bumps and rent, the mints' addresses, and                  *)
(* entropy_per_attestation (stored, never read).                           *)
(***************************************************************************)
EXTENDS Integers, FiniteSets, Functions

CONSTANTS
  Users,           \* the wallets that sign; a PDA is keyed by one of them
  HandshakeIds,    \* the 32-byte ids a user picks
  NoAccount,       \* an address that holds no account
  HandshakeTtl,    \* lifetime of a handshake (3600 s in the code)
  EntropyCap,      \* largest entropy accepted (1_000_000_000 in the code)
  RateScale,       \* divisor of the allowance formula (1000 in the code)
  MaxU64,          \* largest u64
  Durations,       \* gaze durations and thresholds
  Difficulties,    \* u8 difficulties, submitted or required
  Entropies,       \* entropies submitted
  Rates,           \* values of optx_per_entropy
  Amounts,         \* amounts asked of mint_optx
  MaxClock,        \* bound of the instance: the last instant reached
  MaxHandshakes    \* bound of the instance: handshakes ever initiated

ASSUME InputsAssumption ==
  /\ HandshakeTtl \in Nat /\ EntropyCap \in Nat /\ RateScale \in Nat \ {0}
  /\ MaxU64 \in Nat /\ MaxClock \in Nat /\ MaxHandshakes \in Nat
  /\ Durations \subseteq Nat /\ Difficulties \subseteq Nat
  /\ Entropies \subseteq Nat /\ Rates \subseteq Nat /\ Amounts \subseteq Nat

ASSUME IdsFinite == IsFiniteSet(HandshakeIds)

ASSUME UsersFinite == IsFiniteSet(Users)

VARIABLES
  clock,           \* Clock::get()?.unix_timestamp, shared by all transactions
  protocol_config, \* the ProtocolConfig account
  handshake,       \* [user][id]: the Handshake account
  attestation,     \* [user][id]: the Attestation account
  user_entropy,    \* [user]: the UserEntropy account
  optx_supply      \* tokens minted by the OPTX mint (Token-2022)

vars == <<clock, protocol_config, handshake, attestation, user_entropy, optx_supply>>

U64 == 0 .. MaxU64

ProtocolConfig ==
  [authority : Users, total_handshakes : U64, total_attestations : U64,
   total_optx_minted : U64, gaze_threshold : Durations,
   compute_difficulty_min : Difficulties, optx_per_entropy : Rates,
   paused : BOOLEAN]

Handshake ==
  [initiated_at : Nat, expires_at : Nat,
   gaze_verified : BOOLEAN, gaze_verified_at : Nat, gaze_entropy : Nat,
   compute_verified : BOOLEAN, compute_verified_at : Nat,
   difficulty_level : Nat, compute_entropy : Nat,
   attestation_complete : BOOLEAN, finalized : BOOLEAN, claimed : BOOLEAN]

Attestation ==
  [created_at : Nat, combined_entropy : Nat, difficulty_level : Nat,
   is_valid : BOOLEAN]

UserEntropy ==
  [total_entropy : U64, entropy_used : U64, attestation_count : U64,
   optx_minting_allowance : U64]

ASSUME NoAccountAssumption ==
  /\ NoAccount \notin ProtocolConfig /\ NoAccount \notin Handshake
  /\ NoAccount \notin Attestation /\ NoAccount \notin UserEntropy

Opened(S) == S \cup {NoAccount}

TypeOK ==
  /\ clock \in Nat
  /\ protocol_config \in Opened(ProtocolConfig)
  /\ handshake \in [Users -> [HandshakeIds -> Opened(Handshake)]]
  /\ attestation \in [Users -> [HandshakeIds -> Opened(Attestation)]]
  /\ user_entropy \in [Users -> Opened(UserEntropy)]
  /\ optx_supply \in U64

Init ==
  /\ clock = 0
  /\ protocol_config = NoAccount
  /\ handshake = [u \in Users |-> [id \in HandshakeIds |-> NoAccount]]
  /\ attestation = [u \in Users |-> [id \in HandshakeIds |-> NoAccount]]
  /\ user_entropy = [u \in Users |-> NoAccount]
  /\ optx_supply = 0

-----------------------------------------------------------------------------
(* Guards and formulas the instructions share. *)

(* checked_add and try_into fail the transaction instead of wrapping. *)
WrappingU64(n) == TRUE
FitsU64(n) == n <= MaxU64

Running == protocol_config # NoAccount /\ ~protocol_config.paused

IgnoredExpiry(h) == TRUE
NotExpired(h) == clock < h.expires_at

SealForgotten(h) == TRUE
NotFinalized(h) == ~h.finalized /\ ~h.claimed

(* Anchor's `init` of the attestation PDA, which finalize never closes. *)
InitIfNeeded(u, id) == TRUE
Unattested(u, id) == attestation[u][id] = NoAccount

ValidEntropy(e) == e > 0 /\ e <= EntropyCap

(* (gaze + compute) * difficulty * rate / 1000, rounded down.  The u128     *)
(* products cannot overflow: 2 * 10^9 * 255 * 2^64 < 2^128.                 *)
Allowance(combined, difficulty, rate) == (combined * difficulty * rate) \div RateScale

-----------------------------------------------------------------------------
(* Configuration: the first caller of initialize becomes the authority. *)

Initialize(a, threshold, difficulty, rate) ==
  /\ protocol_config = NoAccount
  /\ protocol_config' =
       [authority |-> a, total_handshakes |-> 0, total_attestations |-> 0,
        total_optx_minted |-> 0, gaze_threshold |-> threshold,
        compute_difficulty_min |-> difficulty, optx_per_entropy |-> rate,
        paused |-> FALSE]
  /\ UNCHANGED <<clock, handshake, attestation, user_entropy, optx_supply>>

(* A field whose Option is None keeps its value. *)
UpdateConfig(threshold, difficulty, rate) ==
  /\ protocol_config # NoAccount
  /\ protocol_config' =
       [protocol_config EXCEPT !.gaze_threshold = threshold,
                               !.compute_difficulty_min = difficulty,
                               !.optx_per_entropy = rate]
  /\ UNCHANGED <<clock, handshake, attestation, user_entropy, optx_supply>>

SetPaused(paused) ==
  /\ protocol_config # NoAccount
  /\ protocol_config' = [protocol_config EXCEPT !.paused = paused]
  /\ UNCHANGED <<clock, handshake, attestation, user_entropy, optx_supply>>

CreateUserEntropy(u) ==
  /\ user_entropy[u] = NoAccount
  /\ user_entropy' =
       [user_entropy EXCEPT ![u] =
          [total_entropy |-> 0, entropy_used |-> 0, attestation_count |-> 0,
           optx_minting_allowance |-> 0]]
  /\ UNCHANGED <<clock, protocol_config, handshake, attestation, optx_supply>>

-----------------------------------------------------------------------------
(* A handshake is keyed by its initiator, who must sign for it: u below is *)
(* both.                                                                   *)

InitiateHandshake(u, id) ==
  /\ Running
  /\ handshake[u][id] = NoAccount
  /\ protocol_config.total_handshakes < MaxHandshakes
  /\ FitsU64(protocol_config.total_handshakes + 1)
  /\ clock + HandshakeTtl <= MaxClock
  /\ handshake' =
       [handshake EXCEPT ![u][id] =
          [initiated_at |-> clock, expires_at |-> clock + HandshakeTtl,
           gaze_verified |-> FALSE, gaze_verified_at |-> 0, gaze_entropy |-> 0,
           compute_verified |-> FALSE, compute_verified_at |-> 0,
           difficulty_level |-> 0, compute_entropy |-> 0,
           attestation_complete |-> FALSE, finalized |-> FALSE, claimed |-> FALSE]]
  /\ protocol_config' = [protocol_config EXCEPT !.total_handshakes = @ + 1]
  /\ UNCHANGED <<clock, attestation, user_entropy, optx_supply>>

(* The checks both submissions make, in order. *)
Submittable(u, id) ==
  /\ Running
  /\ handshake[u][id] # NoAccount
  /\ NotFinalized(handshake[u][id])
  /\ NotExpired(handshake[u][id])

(* A resubmission overwrites the earlier proof; the second half to arrive  *)
(* completes the handshake ("auto-finalized" in the log, no more than that).*)
WithGaze(h, entropy) ==
  [h EXCEPT !.gaze_entropy = entropy, !.gaze_verified = TRUE, !.gaze_verified_at = clock,
            !.attestation_complete = @ \/ h.compute_verified]

SubmitGazeAttestation(u, id, duration_cs, gaze_entropy) ==
  /\ Submittable(u, id)
  /\ duration_cs >= protocol_config.gaze_threshold
  /\ ValidEntropy(gaze_entropy)
  /\ handshake' = [handshake EXCEPT ![u][id] = WithGaze(@, gaze_entropy)]
  /\ UNCHANGED <<clock, protocol_config, attestation, user_entropy, optx_supply>>

ComputeNotCompleting(h, difficulty, entropy) ==
  [h EXCEPT !.difficulty_level = difficulty, !.compute_entropy = entropy,
            !.compute_verified = TRUE, !.compute_verified_at = clock]
WithCompute(h, difficulty, entropy) ==
  [h EXCEPT !.difficulty_level = difficulty, !.compute_entropy = entropy,
            !.compute_verified = TRUE, !.compute_verified_at = clock,
            !.attestation_complete = @ \/ h.gaze_verified]

SubmitComputeProof(u, id, difficulty, compute_entropy) ==
  /\ Submittable(u, id)
  /\ difficulty >= protocol_config.compute_difficulty_min
  /\ ValidEntropy(compute_entropy)
  /\ handshake' = [handshake EXCEPT ![u][id] = WithCompute(@, difficulty, compute_entropy)]
  /\ UNCHANGED <<clock, protocol_config, attestation, user_entropy, optx_supply>>

CombinedEntropy(h) == h.gaze_entropy + h.compute_entropy

Record(h) ==
  [created_at |-> clock, combined_entropy |-> CombinedEntropy(h),
   difficulty_level |-> h.difficulty_level, is_valid |-> TRUE]

Credited(e, combined, earned) ==
  [e EXCEPT !.total_entropy = @ + combined, !.attestation_count = @ + 1,
            !.optx_minting_allowance = @ + earned]

Sealed(h) == [h EXCEPT !.finalized = TRUE, !.claimed = TRUE]

(* The rate is the one in force now, not the one in force when the proofs  *)
(* were submitted.                                                         *)
FinalizeAttestation(u, id) ==
  LET h == handshake[u][id]
      e == user_entropy[u]
      combined == CombinedEntropy(h)
      earned == Allowance(combined, h.difficulty_level, protocol_config.optx_per_entropy)
  IN
  /\ Running
  /\ h # NoAccount
  /\ Unattested(u, id)
  /\ e # NoAccount
  /\ NotFinalized(h)
  /\ NotExpired(h)
  /\ h.gaze_verified /\ h.compute_verified
  /\ FitsU64(earned)
  /\ FitsU64(e.total_entropy + combined)
  /\ FitsU64(e.attestation_count + 1)
  /\ FitsU64(e.optx_minting_allowance + earned)
  /\ FitsU64(protocol_config.total_attestations + 1)
  /\ attestation' = [attestation EXCEPT ![u][id] = Record(h)]
  /\ user_entropy' = [user_entropy EXCEPT ![u] = Credited(@, combined, earned)]
  /\ protocol_config' = [protocol_config EXCEPT !.total_attestations = @ + 1]
  /\ handshake' = [handshake EXCEPT ![u][id] = Sealed(@)]
  /\ UNCHANGED <<clock, optx_supply>>

(* Closing reclaims the rent and drops the proofs, finalized or not; the   *)
(* pause does not stop it.                                                 *)
ClosableUnlessPaused(h) ==
  ~protocol_config.paused /\ (~NotExpired(h) \/ h.attestation_complete)
Closable(h) == ~NotExpired(h) \/ h.attestation_complete

CloseHandshake(u, id) ==
  /\ handshake[u][id] # NoAccount
  /\ Closable(handshake[u][id])
  /\ handshake' = [handshake EXCEPT ![u][id] = NoAccount]
  /\ UNCHANGED <<clock, protocol_config, attestation, user_entropy, optx_supply>>

-----------------------------------------------------------------------------
(* The allowance is taken before the CPI that mints; a failing mint_to     *)
(* (the supply is a u64 too) undoes the whole transaction.                 *)

AllowanceKept(e, amount) == [e EXCEPT !.entropy_used = @ + amount]
Debited(e, amount) ==
  [e EXCEPT !.optx_minting_allowance = @ - amount, !.entropy_used = @ + amount]

StatsForgotten(amount) == [protocol_config EXCEPT !.total_optx_minted = amount]
WithMinted(amount) == [protocol_config EXCEPT !.total_optx_minted = @ + amount]

MintOptx(u, amount) ==
  /\ Running
  /\ user_entropy[u] # NoAccount
  /\ amount <= user_entropy[u].optx_minting_allowance
  /\ FitsU64(optx_supply + amount)
  /\ FitsU64(user_entropy[u].entropy_used + amount)
  /\ FitsU64(protocol_config.total_optx_minted + amount)
  /\ user_entropy' = [user_entropy EXCEPT ![u] = Debited(@, amount)]
  /\ optx_supply' = optx_supply + amount
  /\ protocol_config' = WithMinted(amount)
  /\ UNCHANGED <<clock, handshake, attestation>>

(* Neither verify_attestation's result nor revocation touches the allowance. *)
VerifyAttestation(u, id) == attestation[u][id] # NoAccount /\ attestation[u][id].is_valid

Revoked(a) == [a EXCEPT !.is_valid = FALSE]

RevokeAttestation(signer, u, id) ==
  /\ protocol_config # NoAccount
  /\ attestation[u][id] # NoAccount
  /\ signer \in {u, protocol_config.authority}
  /\ attestation[u][id].is_valid
  /\ attestation' = [attestation EXCEPT ![u][id] = Revoked(@)]
  /\ UNCHANGED <<clock, protocol_config, handshake, user_entropy, optx_supply>>

(* The validators' clock moves between transactions. *)
Tick ==
  /\ clock < MaxClock
  /\ clock' = clock + 1
  /\ UNCHANGED <<protocol_config, handshake, attestation, user_entropy, optx_supply>>

-----------------------------------------------------------------------------
Administration ==
  \/ \E a \in Users, t \in Durations, d \in Difficulties, r \in Rates :
       Initialize(a, t, d, r)
  \/ \E t \in Durations, d \in Difficulties, r \in Rates : UpdateConfig(t, d, r)
  \/ \E paused \in BOOLEAN : SetPaused(paused)

HandshakeStep(u, id) ==
  \/ InitiateHandshake(u, id)
  \/ \E d \in Durations, e \in Entropies : SubmitGazeAttestation(u, id, d, e)
  \/ \E d \in Difficulties, e \in Entropies : SubmitComputeProof(u, id, d, e)
  \/ FinalizeAttestation(u, id)
  \/ CloseHandshake(u, id)
  \/ \E signer \in Users : RevokeAttestation(signer, u, id)

UserStep(u) ==
  \/ CreateUserEntropy(u)
  \/ \E amount \in Amounts : MintOptx(u, amount)
  \/ \E id \in HandshakeIds : HandshakeStep(u, id)

Next ==
  \/ Administration
  \/ \E u \in Users : UserStep(u)
  \/ Tick

Spec == Init /\ [][Next]_vars

(* The clock goes on, and whoever opened a handshake wants the rent back   *)
(* and sends close_handshake until it succeeds.  Nothing else is assumed.  *)
FairSpec ==
  /\ Spec
  /\ WF_vars(Tick)
  /\ \A u \in Users, id \in HandshakeIds : WF_vars(CloseHandshake(u, id))

-----------------------------------------------------------------------------
(* Invariants. *)

(* attestation_complete, the flag that lets a handshake be closed before   *)
(* it expires, says exactly that both halves are in, in whichever order    *)
(* they were submitted and resubmitted; and a finalized handshake has it,  *)
(* so its rent is never stuck until expiry (submissions, close_handshake).  *)
CompleteIffBothProofs ==
  \A u \in Users, id \in HandshakeIds :
    LET h == handshake[u][id] IN
    h # NoAccount =>
      /\ h.attestation_complete <=> (h.gaze_verified /\ h.compute_verified)
      /\ h.finalized => h.attestation_complete
      /\ h.finalized <=> h.claimed

(* A proof recorded in a handshake was submitted after the handshake was   *)
(* initiated, within its lifetime and not in the future: nothing survives  *)
(* from an earlier handshake of the same id (close_handshake, initiate).*)
ProofsWithinLifetime ==
  \A u \in Users, id \in HandshakeIds :
    LET h == handshake[u][id] IN
    h # NoAccount =>
      /\ h.initiated_at <= clock /\ h.expires_at = h.initiated_at + HandshakeTtl
      /\ h.gaze_verified =>
           h.gaze_verified_at \in h.initiated_at .. clock /\ h.gaze_verified_at < h.expires_at
      /\ h.compute_verified =>
           h.compute_verified_at \in h.initiated_at .. clock /\ h.compute_verified_at < h.expires_at

(* A finalized handshake still holds the very proofs its attestation was   *)
(* made from, both submitted less than one lifetime before the attestation *)
(* was created: nothing is resubmitted after finalize_attestation, which   *)
(* checks the expiry once more.                                            *)
FinalizedMatchesRecord ==
  \A u \in Users, id \in HandshakeIds :
    LET h == handshake[u][id]
        a == attestation[u][id] IN
    h # NoAccount /\ h.finalized =>
      /\ a # NoAccount
      /\ a.combined_entropy = CombinedEntropy(h)
      /\ a.difficulty_level = h.difficulty_level
      /\ \A t \in {h.gaze_verified_at, h.compute_verified_at} :
           /\ h.initiated_at <= t /\ t <= a.created_at
           /\ a.created_at < t + HandshakeTtl

Attested(u) == {id \in HandshakeIds : attestation[u][id] # NoAccount}

Accounted(u) == user_entropy[u] # NoAccount

(* Every attestation of a user was counted once: the count is the number   *)
(* of attestation accounts, however often handshakes of the same id were   *)
(* closed and opened again (finalize_attestation, close_handshake).        *)
CountMatchesRecords ==
  \A u \in Users :
    IF Accounted(u) THEN user_entropy[u].attestation_count = Cardinality(Attested(u))
                    ELSE Attested(u) = {}

(* The statistics of the protocol and of its users are the sums over the   *)
(* permanent records: entropy over attestations, attestations over users.  *)
TotalsMatchRecords ==
  /\ \A u \in Users : Accounted(u) =>
       user_entropy[u].total_entropy =
         SumFunction([id \in Attested(u) |-> attestation[u][id].combined_entropy])
  /\ protocol_config # NoAccount =>
       protocol_config.total_attestations =
         SumFunction([u \in Users |-> Cardinality(Attested(u))])

(* Every token of the OPTX supply was taken from some user's allowance, and *)
(* the protocol's statistics know it (mint_optx).                           *)
SupplyBacked ==
  /\ optx_supply =
       SumFunction([u \in {v \in Users : Accounted(v)} |-> user_entropy[u].entropy_used])
  /\ protocol_config # NoAccount => protocol_config.total_optx_minted = optx_supply

-----------------------------------------------------------------------------
(* Action properties. *)

Earned(u) ==
  IF Accounted(u)
  THEN user_entropy[u].optx_minting_allowance + user_entropy[u].entropy_used
  ELSE 0

(* What a user has earned, minted or not, moves only when a new attestation *)
(* of theirs appears, and then by the allowance of that attestation at the  *)
(* rate in force: minting moves none of it and revocation claws none back.  *)
EarnedOnlyByCertificate ==
  [][\A u \in Users : Earned(u)' # Earned(u) =>
       \E id \in HandshakeIds :
         /\ attestation[u][id] = NoAccount /\ attestation'[u][id] # NoAccount
         /\ Earned(u)' - Earned(u) =
              Allowance(attestation'[u][id].combined_entropy,
                        attestation'[u][id].difficulty_level,
                        protocol_config.optx_per_entropy)]_vars

(* An attestation is a permanent record: it never vanishes, its content    *)
(* never changes and a revoked one never becomes valid again, even after   *)
(* its handshake is closed and the same id goes through a second handshake.*)
CertificatePermanent ==
  [][\A u \in Users, id \in HandshakeIds :
       attestation[u][id] # NoAccount =>
         \/ attestation'[u][id] = attestation[u][id]
         \/ /\ attestation[u][id].is_valid
            /\ attestation'[u][id] = Revoked(attestation[u][id])]_vars

(* A handshake opened again under an id that already has its attestation   *)
(* can collect proofs but never be finalized (replay protection).          *)
ReopenedNeverFinalizes ==
  [][\A u \in Users, id \in HandshakeIds :
       /\ attestation[u][id] # NoAccount
       /\ handshake[u][id] # NoAccount /\ ~handshake[u][id].finalized
       /\ handshake'[u][id] # NoAccount
       => ~handshake'[u][id].finalized]_vars

-----------------------------------------------------------------------------
(* Liveness and refinement. *)

(* The rent of every handshake comes back: whatever is submitted, paused   *)
(* or reconfigured meanwhile, an open handshake becomes closable and is    *)
(* closed (close_handshake checks no pause).                               *)
RentReclaimed ==
  \A u \in Users, id \in HandshakeIds :
    handshake[u][id] # NoAccount ~> handshake[u][id] = NoAccount

CertificateStatus(u, id) ==
  IF attestation[u][id] = NoAccount THEN "none"
  ELSE IF VerifyAttestation(u, id) THEN "valid" ELSE "revoked"

Credit == INSTANCE AttentionCredit WITH
  certificate <- [u \in Users |-> [id \in HandshakeIds |-> CertificateStatus(u, id)]],
  balance <- [u \in Users |->
                IF Accounted(u) THEN user_entropy[u].optx_minting_allowance ELSE 0],
  issued <- [u \in Users |-> IF Accounted(u) THEN user_entropy[u].entropy_used ELSE 0]

(* The program implements the certificate-and-credit specification: each   *)
(* instruction is a Certify, Revoke or Issue step of AttentionCredit, or   *)
(* changes nothing a certificate holder relies on.                         *)
ImplementsCredit == Credit!Spec
=============================================================================
