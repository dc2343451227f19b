------------------------- MODULE AttestationLifecycle -------------------------
(***************************************************************************)
(* What the vault promises about attestations, whatever they contain: a    *)
(* user's attestation is made once, audited at most once and revoked at    *)
(* most once, in this order if at all, and a paused vault neither makes nor*)
(* audits one.  VaultAgt implements this specification with its weights    *)
(* and hashes hidden.                                                      *)
(***************************************************************************)
CONSTANTS
  Users,
  NoAccount   \* an address that holds no account

VARIABLES
  paused,
  agt         \* [user]: [is_valid : BOOLEAN, audited : BOOLEAN], or NoAccount

vars == <<paused, agt>>

Init ==
  /\ paused = FALSE
  /\ agt = [u \in Users |-> NoAccount]

Unrevoked(u) == agt[u] # NoAccount /\ agt[u].is_valid

Make(u) ==
  /\ ~paused /\ agt[u] = NoAccount
  /\ agt' = [agt EXCEPT ![u] = [is_valid |-> TRUE, audited |-> FALSE]]
  /\ UNCHANGED paused

Audit(u) ==
  /\ ~paused /\ Unrevoked(u) /\ ~agt[u].audited
  /\ agt' = [agt EXCEPT ![u] = [is_valid |-> TRUE, audited |-> TRUE]]
  /\ UNCHANGED paused

Revoke(u) ==
  /\ Unrevoked(u)
  /\ agt' = [agt EXCEPT ![u] = [is_valid |-> FALSE, audited |-> agt[u].audited]]
  /\ UNCHANGED paused

Switch == paused' \in BOOLEAN /\ UNCHANGED agt

Next == Switch \/ \E u \in Users : Make(u) \/ Audit(u) \/ Revoke(u)

Spec == Init /\ [][Next]_vars
=============================================================================
