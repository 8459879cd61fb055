---------------------------- MODULE SentenceCell ----------------------------
(***************************************************************************)
(* What a flow's sentence slots promise the packet path of ntfe/flow.c: a  *)
(* slot holds one sentence, replaced as a whole, and a lookup that         *)
(* succeeds returns the sentence the slot holds at that moment.  A lookup  *)
(* may always miss (nothing is cached, or the slot is being replaced) and  *)
(* never waits.                                                            *)
(***************************************************************************)
CONSTANTS
    Cpus,       \* the CPUs that look sentences up
    Slots,      \* the sentence slots of one flow
    Sentences,  \* what a slot may hold
    Empty,      \* the sentence of a slot nobody has written
    Miss        \* the answer of a lookup that found nothing to use

VARIABLES
    value,      \* per slot: the sentence it holds
    got         \* per CPU: the answer of its last lookup

Init ==
    /\ value = [s \in Slots |-> Empty]
    /\ got = [c \in Cpus |-> Miss]

Replace(s) ==
    /\ value'[s] \in Sentences
    /\ value' = [value EXCEPT ![s] = value'[s]]
    /\ UNCHANGED got

Lookup(c, s) ==
    /\ got' = [got EXCEPT ![c] = value[s]]
    /\ UNCHANGED value

LookupMiss(c) ==
    /\ got' = [got EXCEPT ![c] = Miss]
    /\ UNCHANGED value

Next ==
    \/ \E s \in Slots : Replace(s)
    \/ \E c \in Cpus : LookupMiss(c) \/ \E s \in Slots : Lookup(c, s)

Spec == Init /\ [][Next]_<<value, got>>
=============================================================================
