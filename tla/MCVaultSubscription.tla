------------------------- MODULE MCVaultSubscription -------------------------
(* Instances of VaultSubscription for TLC: the values of the constants. *)
EXTENDS VaultSubscription, TLC

CONSTANTS alice, other

OneUser == {alice}

TwoMints == {JTX, other}

(* Enough of the one mint for every tier, or of both for some upgrades. *)
MixedWallets == {[m \in TwoMints |-> IF m = JTX THEN 3 ELSE 0],
                 [m \in TwoMints |-> IF m = JTX THEN 2 ELSE 1]}

(* 12, 444, 1111 JTX; one and two years: only their order matters. *)
RequiredJtx == <<1, 2, 3>>
LongTerms == <<2, 3>>
=============================================================================
