-------------------------- MODULE MCVaultDonations --------------------------
(* Instances of VaultDonations for TLC: the values of the constants. *)
EXTENDS VaultDonations, TLC

CONSTANTS alice, bob, joe, moe, h1

OneUser == {alice}
TwoUsers == {alice, bob}
TwoAgents == {joe, moe}
NoAgents == {}

Centre == {<<2, 2, 2>>}

(* 8.0, 2.5 and 0 USDC per SOL, and one that is no price at all. *)
SomePrices ==
  {[price |-> 8, exponent |-> 0], [price |-> 250, exponent |-> -2],
   [price |-> 8, exponent |-> -2], [price |-> -1, exponent |-> 0]}

(* Sound for safety: no action or property tells users or agents apart. *)
WalletSymmetry == Permutations(Users) \cup Permutations(Agents)
=============================================================================
