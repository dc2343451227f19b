--------------------------- MODULE MCVaultMultisig ---------------------------
(* Instances of VaultMultisig for TLC: the values of the constants. *)
EXTENDS VaultMultisig

CONSTANTS founder, joe, backup, stranger

FourWallets == {founder, joe, backup, stranger}
=============================================================================
