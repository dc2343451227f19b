----------------------------- MODULE MCJettVault -----------------------------
(* Instances of JettVault for TLC: the values of the constants. *)
EXTENDS JettVault, TLC

CONSTANTS alice, bob, founder, joe, h1, other

OneUser == {alice}
TwoUsers == {alice, bob}
TwoKeys == {founder, joe}

TwoMints == {JTX, other}

(* A tier can be paid in either mint, an upgrade takes both. *)
OneOfEach == {[m \in TwoMints |-> 1]}

RequiredJtx == <<1, 2, 3>>
OneTick == <<1, 1>>
Centre == {<<2, 2, 2>>}

(* One key is listed twice. *)
OneListInit == Init /\ multisig_signers = <<founder, joe, founder>>
OneListSpec == OneListInit /\ [][Next]_vars

(* Sound for safety: no action or property tells users apart. *)
UserSymmetry == Permutations(Users)
=============================================================================
