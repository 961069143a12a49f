--------------------------- MODULE MCStorageNode ---------------------------
(* Instances of StorageNode for TLC.                                       *)
EXTENDS StorageNode, TLC

CONSTANTS a1, a2, w1, w2

OneAccount == {a1}
TwoAccounts == {a1, a2}
TwoWorkers == {w1, w2}

(* Handlers and accounts are interchangeable.                              *)
Symmetry == Permutations(Worker) \cup Permutations(Account)

=============================================================================
