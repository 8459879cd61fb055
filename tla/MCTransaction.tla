--------------------------- MODULE MCTransaction ---------------------------
(* Model values and symmetry for the runs of Transaction.                   *)
EXTENDS Transaction, TLC

Symmetry == Permutations(Txns) \cup Permutations(Procs) \cup Permutations(Slots)
=============================================================================
