----------------------------- MODULE MCPoaTrust -----------------------------
(* Instances of PoaTrust for TLC: the values of the constants. *)
EXTENDS PoaTrust, TLC

CONSTANTS alice, bob, id1, id2

OneUser == {alice}
TwoUsers == {alice, bob}
OneId == {id1}
TwoIds == {id1, id2}

(* Sound for safety: no action or property tells users or ids apart. *)
UserSymmetry == Permutations(Users)
IdSymmetry == Permutations(HandshakeIds)
=============================================================================
