----------------------------- MODULE MCKmesRing -----------------------------
(* Small instances of KmesRing: rings of four and of two cells, events of   *)
(* one and two cells, batches that hold an invalid event and batches longer *)
(* than the ring.                                                           *)
EXTENDS KmesRing

MCKernelBatches == {<<0, 1, 2, 2>>, <<2, 2, 2>>, <<0>>}
MCStagedBatches == {<<1, 1>>, <<2>>}
=============================================================================
