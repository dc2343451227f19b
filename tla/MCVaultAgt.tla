----------------------------- MODULE MCVaultAgt -----------------------------
(* Instances of VaultAgt and AgtClient for TLC: the values of the constants. *)
EXTENDS AgtClient, TLC

CONSTANTS alice, bob, h1, h2

OneUser == {alice}

(* Corners, centre and edges of the simplex, observations that miss it by  *)
(* the tolerance on either side, and two that miss it by more.             *)
SomeGazes ==
  {<<Precision, 0, 0>>, <<0, Precision, 0>>, <<10, 9, 11>>, <<1, 2, Precision - 2>>,
   <<7, 11, 11>>, <<0, Precision + 2, 0>>, <<1, 1, 1>>}

SomeSeeds == {<<1, 7, 2>>, <<MaxU64, 0, 1>>}
SomeFactors == {<<1, MaxU64, 3>>}

(* Sound for safety: no action or property tells audit hashes apart. *)
HashSymmetry == Permutations(AuditHashes)
=============================================================================
