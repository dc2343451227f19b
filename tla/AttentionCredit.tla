--------------------------- MODULE AttentionCredit ---------------------------
(***************************************************************************)
(* What the Proof-of-Attention Trust program promises, without handshakes, *)
(* proofs, clocks or pauses: a user holds at most one certificate for a    *)
(* handshake id, a certificate is issued once and may be revoked once, and *)
(* OPTX leaves a user's balance only to be issued.  PoaTrust implements    *)
(* this specification (PoaTrust!Credit).                                   *)
(***************************************************************************)
EXTENDS Naturals

CONSTANTS Users, HandshakeIds

VARIABLES
  certificate,  \* [Users -> [HandshakeIds -> {"none", "valid", "revoked"}]]
  balance,      \* [Users -> Nat]: OPTX a user may still mint
  issued        \* [Users -> Nat]: OPTX a user has minted

vars == <<certificate, balance, issued>>

Init ==
  /\ certificate = [u \in Users |-> [id \in HandshakeIds |-> "none"]]
  /\ balance = [u \in Users |-> 0]
  /\ issued = [u \in Users |-> 0]

(* A new certificate credits its owner; nobody else's balance moves. *)
Certify(u, id) ==
  /\ certificate[u][id] = "none"
  /\ certificate' = [certificate EXCEPT ![u][id] = "valid"]
  /\ balance'[u] >= balance[u]
  /\ balance' = [balance EXCEPT ![u] = balance'[u]]
  /\ UNCHANGED issued

(* Revocation is final and takes back no credit. *)
Revoke(u, id) ==
  /\ certificate[u][id] = "valid"
  /\ certificate' = [certificate EXCEPT ![u][id] = "revoked"]
  /\ UNCHANGED <<balance, issued>>

(* What leaves the balance is issued, to the same user. *)
Issue(u) ==
  /\ balance'[u] <= balance[u]
  /\ balance' = [balance EXCEPT ![u] = balance'[u]]
  /\ issued' = [issued EXCEPT ![u] = @ + (balance[u] - balance'[u])]
  /\ UNCHANGED certificate

Next ==
  \E u \in Users :
    \/ Issue(u)
    \/ \E id \in HandshakeIds : Certify(u, id) \/ Revoke(u, id)

Spec == Init /\ [][Next]_vars
=============================================================================
