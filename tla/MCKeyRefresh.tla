---------------------------- MODULE MCKeyRefresh ----------------------------
(* A small instance of KeyRefresh for TLC: the Registry key, with LCS's own  *)
(* limits, refreshed at once, the Network key and the Events key.           *)
EXTENDS KeyRefresh, TLC

CONSTANTS registry, network, events

MCOrder == <<registry, network, events>>
MCMaxContent == [k \in Keys |-> IF k = network THEN 2 ELSE 1]
MCRefused == {<<network, 2>>}
=============================================================================
