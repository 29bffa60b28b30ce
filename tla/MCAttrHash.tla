----------------------------- MODULE MCAttrHash -----------------------------
(* Instances of AttrHash for TLC. *)
EXTENDS AttrHash, TLC

\* which free address an allocation returns does not matter
AddressSymmetry == Permutations(Addresses)

=============================================================================
