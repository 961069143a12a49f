---------------------------- MODULE MCMetaStore ----------------------------
(* Small instances of the contract.                                        *)
EXTENDS MetaStore

CONSTANTS x, y

TwoAddresses == {x, y}
Symmetry == Permutations(TwoAddresses)

=============================================================================
