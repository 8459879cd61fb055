----------------------------- MODULE MCNtfeFlow -----------------------------
(* A small instance of NtfeFlow for TLC: verdicts whose strictness differs  *)
(* between policies, contexts and endpoints, and one timed policy.          *)
EXTENDS NtfeFlow, TLC

MCCandidates == [s \in Slots |-> IF s = 0 THEN Owners ELSE {}]
MCDrops == {<<1, 1, 0>>, <<1, 0, 1>>}
MCRejects == {<<1, 0, 0>>}
MCTimed == {1}
MCForestless == {2}

Symmetry == Permutations(Cpus) \cup Permutations(Owners)
=============================================================================
