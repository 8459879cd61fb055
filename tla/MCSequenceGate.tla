--------------------------- MODULE MCSequenceGate ---------------------------
(* Small instances of SequenceGate for TLC: sources and writers are         *)
(* interchangeable, so the safety runs may reduce by their symmetry.        *)
EXTENDS SequenceGate, TLC

Symmetry == Permutations(Sources) \cup Permutations(Mutators)
=============================================================================
