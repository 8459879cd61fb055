--------------------------- MODULE MCSourceDevice ---------------------------
(* Model values and symmetry for the runs of SourceDevice.                  *)
EXTENDS SourceDevice, TLC

Symmetry == Permutations(Callers) \cup Permutations(Threads) \cup Permutations(Files)
=============================================================================
