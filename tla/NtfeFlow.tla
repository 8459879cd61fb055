------------------------------ MODULE NtfeFlow ------------------------------
(***************************************************************************)
(* One conntrack flow on the packet path of NTFE (ntfe/flow.c), against    *)
(* the publication of policies (ntfe/policy.c) and of the network context  *)
(* (ntfe/context.c).                                                       *)
(*                                                                         *)
(* The Flow layer judges a flow once and caches the verdict in the flow's  *)
(* extension as a sentence, stamped with the generation counter and with   *)
(* the generation of the policy that judged it.  Packets on several CPUs   *)
(* read the sentences without a lock, under a sequence count, and rewrite  *)
(* them under ct->lock.  A policy publication advances the counter before  *)
(* it swaps the policy pointer; a context publication swaps its table      *)
(* before it advances the counter.  Nothing else orders a publication      *)
(* against a packet in flight.                                             *)
(*                                                                         *)
(* What a forest decides is external (the Rust evaluator).  A verdict is   *)
(* the record of what it was judged from, so two verdicts are equal only   *)
(* when nothing that could change a judgement differs between them.        *)
(***************************************************************************)
EXTENDS Integers, Sequences, FiniteSets

CONSTANTS
    Cpus,               \* CPUs that handle packets of the flow
    Owners,             \* tokens a socket lookup may attribute an end to
    Candidates,         \* per slot: those of them its lookups may find
    None,               \* no lock holder, no identity
    Miss,               \* a lookup that found nothing to use
    Drops, Rejects,     \* the <<policy, context, slot>> judged DROP or REJECT
    Timed,              \* policies with rules on the time of day
    Forestless,         \* policies without a Flow forest
    MaxPackets,         \* bound: packets of the flow
    MaxEvents           \* bound: publications and ticks of the clock

Slots == {0, 1}
Other(s) == 1 - s

Verdict == [policy : Nat, context : Nat, t : Nat, slot : Slots]
Sentence == [generation : Nat, policy_generation : Nat, expires_at : Nat,
             verdict : Verdict]
Policy == [generation : Nat, forest : BOOLEAN]
Identity == Owners \cup {None}

NoVerdict == [policy |-> 0, context |-> 0, t |-> 0, slot |-> 0]
NoSentence == [generation |-> 0, policy_generation |-> 0, expires_at |-> 0,
               verdict |-> NoVerdict]
NoPolicy == [generation |-> 0, forest |-> FALSE]

ASSUME FlowAssumption ==
    /\ None \notin Cpus \cup Owners
    /\ Candidates \in [Slots -> SUBSET Owners]
    /\ Miss \notin Sentence
    /\ Drops \cup Rejects \subseteq Nat \X Nat \X Slots
    /\ Timed \cup Forestless \subseteq Nat \ {0}

VARIABLES
    generation,     \* the generation counter (kacs/ntfe_runtime.rs)
    active,         \* peios_ntfe_active
    publishing,     \* the policy stamped but not swapped in yet, NoPolicy: none
    context,        \* peios_ntfe_context_active: which table, counted up
    stamping,       \* a context publisher swapped but did not advance yet
    settled,        \* history: the table wholly published at each generation
    clock,          \* ktime_get_real_seconds
    packets,        \* packets taken so far
    loopback,       \* the flow is local at both ends
    extension,      \* the flow has its extension (pc is not NULL)
    alive,          \* the flow was not freed
    sentence,       \* pc->sentence[slot]
    version,        \* pc->sentence_seq[slot], the count of finished writes
    busy,           \* pc->sentence_seq[slot], its low bit: a write is open
    lock,           \* ct->lock: the CPU writing a sentence, or None
    owner,          \* pc->owner[slot], None until pc->owner_recorded[slot]
    refs,           \* token references held on the flow's behalf
    pc,             \* per CPU: where its packet is
    slot,           \* per CPU: the slot of this traversal
    reading,        \* per CPU: the slot it is looking up
    now,            \* per CPU: snap->t_secs
    policy,         \* per CPU: the policy of its snapshot
    epoch,          \* per CPU: snapshot->cache_generation
    start,          \* per CPU: the sequence count its lookup began at
    buf,            \* per CPU: the fields its lookup has read
    got,            \* per CPU: what its last lookup returned
    cur,            \* per CPU: the sentence it applies or writes
    seen,           \* per CPU: the context table of its flow view
    end,            \* per CPU: the endpoint it is identifying
    ids             \* per CPU: the identities it judges by

pubVars == <<generation, active, publishing, context, stamping, settled>>
flowVars == <<loopback, extension, alive>>
cellVars == <<sentence, version, busy, lock>>
ownerVars == <<owner, refs>>
snapVars == <<slot, now, policy, epoch>>
readVars == <<reading, start, buf, got>>
idVars == <<end, ids>>
vars == <<pubVars, clock, packets, flowVars, cellVars, ownerVars, pc, snapVars,
          readVars, cur, seen, idVars>>

Init ==
    /\ generation = 0
    /\ active = NoPolicy
    /\ publishing = NoPolicy
    /\ context = 0
    /\ stamping = FALSE
    /\ settled = <<0>>
    /\ clock = 0
    /\ packets = 0
    /\ loopback \in BOOLEAN
    /\ extension \in BOOLEAN
    /\ alive = TRUE
    /\ sentence = [s \in Slots |-> NoSentence]
    /\ version = [s \in Slots |-> 0]
    /\ busy = [s \in Slots |-> FALSE]
    /\ lock = None
    /\ owner = [s \in Slots |-> None]
    /\ refs = [o \in Owners |-> 0]
    /\ pc = [c \in Cpus |-> "idle"]
    /\ slot = [c \in Cpus |-> 0]
    /\ reading = [c \in Cpus |-> 0]
    /\ now = [c \in Cpus |-> 0]
    /\ policy = [c \in Cpus |-> NoPolicy]
    /\ epoch = [c \in Cpus |-> 0]
    /\ start = [c \in Cpus |-> 0]
    /\ buf = [c \in Cpus |-> NoSentence]
    /\ got = [c \in Cpus |-> Miss]
    /\ cur = [c \in Cpus |-> NoSentence]
    /\ seen = [c \in Cpus |-> 0]
    /\ end = [c \in Cpus |-> 0]
    /\ ids = [c \in Cpus |-> [s \in Slots |-> None]]

Goto(c, l) == pc' = [pc EXCEPT ![c] = l]

(* The publications begun and the seconds passed so far.                    *)
Events == generation + (IF stamping THEN 1 ELSE 0) + clock

(* The newest context table whose publication was over at generation g.     *)
Settled(g) == settled[g + 1]

-----------------------------------------------------------------------------
(* peios_ntfe_policy_publish_why, under its mutex: advance the counter and  *)
(* stamp the policy with it, then swap the pointer. A refused publication   *)
(* (forests, memory, counter store) leaves before the first of the two.     *)
StampPolicy ==
    /\ publishing = NoPolicy
    /\ Events < MaxEvents
    /\ generation' = generation + 1
    /\ settled' = Append(settled, Settled(generation))
    /\ publishing' = [generation |-> generation + 1,
                      forest |-> generation + 1 \notin Forestless]
    /\ UNCHANGED <<active, context, stamping>>

SwapPolicy ==
    /\ publishing # NoPolicy
    /\ active' = publishing
    /\ publishing' = NoPolicy
    /\ UNCHANGED <<generation, context, stamping, settled>>

(* peios_ntfe_context_publish, under its own mutex: swap the table, then    *)
(* advance the counter. A table equal to the active one is dropped.         *)
SwapContext ==
    /\ ~stamping
    /\ Events < MaxEvents
    /\ context' = context + 1
    /\ stamping' = TRUE
    /\ UNCHANGED <<generation, active, publishing, settled>>

AdvanceContext ==
    /\ stamping
    /\ generation' = generation + 1
    /\ settled' = Append(settled, context)
    /\ stamping' = FALSE
    /\ UNCHANGED <<active, publishing, context>>

Publish ==
    /\ StampPolicy \/ SwapPolicy \/ SwapContext \/ AdvanceContext
    /\ UNCHANGED <<clock, packets, flowVars, cellVars, ownerVars, pc, snapVars,
                   readVars, cur, seen, idVars>>

Tick ==
    /\ Events < MaxEvents
    /\ clock' = clock + 1
    /\ UNCHANGED <<pubVars, packets, flowVars, cellVars, ownerVars, pc, snapVars,
                   readVars, cur, seen, idVars>>

-----------------------------------------------------------------------------
(* A packet of the flow reaches a seat: its facts are taken (the slot and   *)
(* the time among them), then peios_ntfe_policy_snapshot_begin reads the    *)
(* policy pointer and, after it, the counter.                               *)
SnapshotPolicy(c) ==
    /\ pc[c] = "idle"
    /\ alive
    /\ packets < MaxPackets
    /\ packets' = packets + 1
    /\ \E s \in Slots :
          /\ s = 0 \/ loopback
          /\ slot' = [slot EXCEPT ![c] = s]
    /\ now' = [now EXCEPT ![c] = clock]
    /\ policy' = [policy EXCEPT ![c] = active]
    /\ Goto(c, "epoch")
    /\ UNCHANGED <<pubVars, clock, flowVars, cellVars, ownerVars, epoch, readVars,
                   cur, seen, idVars>>

SnapshotEpoch(c) ==
    /\ pc[c] = "epoch"
    /\ epoch' = [epoch EXCEPT ![c] = generation]
    /\ reading' = [reading EXCEPT ![c] = slot[c]]
    /\ Goto(c, IF extension THEN "try" ELSE "view")
    /\ UNCHANGED <<pubVars, clock, packets, flowVars, cellVars, ownerVars, slot,
                   now, policy, start, buf, got, cur, seen, idVars>>

-----------------------------------------------------------------------------
(* ntfe_sentence_read: interference is a miss, never a wait. A miss of the  *)
(* traversal's own slot leads to a judgement, of the other slot to the end. *)
Missed(c) ==
    /\ got' = [got EXCEPT ![c] = Miss]
    /\ Goto(c, IF reading[c] = slot[c] THEN "view" ELSE "final")
    /\ UNCHANGED <<cur, reading>>

ReadTry(c) ==
    /\ pc[c] = "try"
    /\ IF busy[reading[c]]
       THEN Missed(c) /\ UNCHANGED <<start, buf>>
       ELSE /\ start' = [start EXCEPT ![c] = version[reading[c]]]
            /\ Goto(c, "generation")
            /\ UNCHANGED <<reading, buf, got, cur>>

ReadGeneration(c) ==
    /\ pc[c] = "generation"
    /\ IF sentence[reading[c]].generation = 0
       THEN Missed(c) /\ UNCHANGED <<start, buf>>
       ELSE /\ buf' = [buf EXCEPT ![c].generation =
                                    sentence[reading[c]].generation]
            /\ Goto(c, "policy_generation")
            /\ UNCHANGED <<reading, start, got, cur>>

ReadPolicyGeneration(c) ==
    /\ pc[c] = "policy_generation"
    /\ buf' = [buf EXCEPT ![c].policy_generation =
                             sentence[reading[c]].policy_generation]
    /\ Goto(c, "expires_at")
    /\ UNCHANGED <<reading, start, got, cur>>

ReadExpiresAt(c) ==
    /\ pc[c] = "expires_at"
    /\ buf' = [buf EXCEPT ![c].expires_at = sentence[reading[c]].expires_at]
    /\ Goto(c, "verdict")
    /\ UNCHANGED <<reading, start, got, cur>>

ReadVerdict(c) ==
    /\ pc[c] = "verdict"
    /\ buf' = [buf EXCEPT ![c].verdict = sentence[reading[c]].verdict]
    /\ Goto(c, "retry")
    /\ UNCHANGED <<reading, start, got, cur>>

(* A mutant of Current: the policy generation is not compared.              *)
CurrentAnyPolicy(c, s) ==
    /\ s.generation = epoch[c]
    /\ ~(s.expires_at # 0 /\ now[c] >= s.expires_at)

(* ntfe_sentence_current, for the snapshot of CPU c.                        *)
Current(c, s) ==
    /\ s.generation = epoch[c]
    /\ s.policy_generation = policy[c].generation
    /\ ~(s.expires_at # 0 /\ now[c] >= s.expires_at)

(* ntfe_sentence_stricter: DROP over REJECT over PASS.                      *)
Strictness(v) ==
    CASE <<v.policy, v.context, v.slot>> \in Drops -> 2
      [] <<v.policy, v.context, v.slot>> \in Rejects -> 1
      [] OTHER -> 0
Stricter(a, b) == Strictness(a.verdict) > Strictness(b.verdict)

(* Once the traversal has its own sentence, a loopback flow with an         *)
(* extension also looks the other endpoint's up.                            *)
OwnSentence(c) ==
    IF loopback /\ extension
    THEN /\ reading' = [reading EXCEPT ![c] = Other(slot[c])]
         /\ Goto(c, "try")
    ELSE /\ Goto(c, "final")
         /\ UNCHANGED reading

(* A mutant of Torn: the lookup only asks whether a write is open now.      *)
TornWhileBusy(c) == busy[reading[c]]

Torn(c) == busy[reading[c]] \/ version[reading[c]] # start[c]

ReadTorn(c) ==
    /\ pc[c] = "retry"
    /\ Torn(c)
    /\ Missed(c)
    /\ UNCHANGED <<start, buf>>

ReadOwn(c) ==
    /\ pc[c] = "retry"
    /\ ~Torn(c)
    /\ reading[c] = slot[c]
    /\ got' = [got EXCEPT ![c] = buf[c]]
    /\ IF Current(c, buf[c])
       THEN cur' = [cur EXCEPT ![c] = buf[c]] /\ OwnSentence(c)
       ELSE Goto(c, "view") /\ UNCHANGED <<cur, reading>>
    /\ UNCHANGED <<start, buf>>

ReadOther(c) ==
    /\ pc[c] = "retry"
    /\ ~Torn(c)
    /\ reading[c] # slot[c]
    /\ got' = [got EXCEPT ![c] = buf[c]]
    /\ IF Current(c, buf[c]) /\ Stricter(buf[c], cur[c])
       THEN cur' = [cur EXCEPT ![c] = buf[c]]
       ELSE UNCHANGED cur
    /\ Goto(c, "final")
    /\ UNCHANGED <<reading, start, buf>>

Lookup(c) ==
    /\ \/ ReadTry(c) \/ ReadGeneration(c) \/ ReadPolicyGeneration(c)
       \/ ReadExpiresAt(c) \/ ReadVerdict(c) \/ ReadTorn(c) \/ ReadOwn(c)
       \/ ReadOther(c)
    /\ UNCHANGED <<pubVars, clock, packets, flowVars, cellVars, ownerVars,
                   snapVars, seen, idVars>>

-----------------------------------------------------------------------------
(* The packet leaves: identities the extension does not keep are released,  *)
(* and the locals of the call are gone.                                     *)
Holds(c, s, o) ==
    /\ ids[c][s] = o
    /\ ~extension \/ (pc[c] = "record" /\ end[c] = s)

Forget(c) ==
    /\ start' = [start EXCEPT ![c] = 0]
    /\ buf' = [buf EXCEPT ![c] = NoSentence]
    /\ got' = [got EXCEPT ![c] = Miss]

Leave(c) ==
    /\ refs' = [o \in Owners |->
                   refs[o] - Cardinality({s \in Slots : Holds(c, s, o)})]
    /\ ids' = [ids EXCEPT ![c] = [s \in Slots |-> None]]
    /\ end' = [end EXCEPT ![c] = 0]
    /\ cur' = [cur EXCEPT ![c] = NoSentence]
    /\ Forget(c)
    /\ seen' = [seen EXCEPT ![c] = 0]
    /\ reading' = [reading EXCEPT ![c] = 0]
    /\ slot' = [slot EXCEPT ![c] = 0]
    /\ now' = [now EXCEPT ![c] = 0]
    /\ policy' = [policy EXCEPT ![c] = NoPolicy]
    /\ epoch' = [epoch EXCEPT ![c] = 0]
    /\ Goto(c, "idle")
    /\ UNCHANGED <<pubVars, clock, packets, flowVars, cellVars, owner>>

(* The judgement: the flow view takes the network context afresh, after the *)
(* epoch was read. Without a Flow forest the packet passes and nothing is   *)
(* cached.                                                                  *)
View(c) ==
    /\ pc[c] = "view"
    /\ IF policy[c].forest
       THEN /\ seen' = [seen EXCEPT ![c] = context]
            /\ Forget(c)
            /\ end' = [end EXCEPT ![c] = 0]
            /\ Goto(c, "identify")
            /\ UNCHANGED <<pubVars, clock, packets, flowVars, cellVars, ownerVars,
                           snapVars, reading, cur, ids>>
       ELSE Leave(c)

-----------------------------------------------------------------------------
(* ntfe_flow_identity, one endpoint at a time. An identity of the extension *)
(* is borrowed; a resolved one carries a token reference. NextEnd skips an  *)
(* endpoint that is not local. An absent end is not recorded: a later       *)
(* packet may still find its owner.                                         *)
NextEnd(c) ==
    IF loopback /\ end[c] = 0
    THEN end' = [end EXCEPT ![c] = 1] /\ Goto(c, "identify")
    ELSE Goto(c, "eval") /\ UNCHANGED end

ReadRecorded(c) ==
    /\ pc[c] = "identify"
    /\ owner[end[c]] # None
    /\ ids' = [ids EXCEPT ![c][end[c]] = owner[end[c]]]
    /\ NextEnd(c)
    /\ UNCHANGED ownerVars

ResolveAbsent(c) ==
    /\ pc[c] = "identify"
    /\ owner[end[c]] = None
    /\ NextEnd(c)
    /\ UNCHANGED <<ownerVars, ids>>

ResolveOwner(c) ==
    /\ pc[c] = "identify"
    /\ owner[end[c]] = None
    /\ \E o \in Candidates[end[c]] :
          /\ ids' = [ids EXCEPT ![c][end[c]] = o]
          /\ refs' = [refs EXCEPT ![o] = @ + 1]
    /\ IF extension
       THEN Goto(c, "record") /\ UNCHANGED end
       ELSE NextEnd(c)
    /\ UNCHANGED owner

(* Mutants of Record: a loser keeps its reference; a loser judges by the    *)
(* owner it resolved itself.                                                *)
RecordLeaky(c) ==
    /\ pc[c] = "record"
    /\ lock = None
    /\ IF owner[end[c]] = None
       THEN /\ owner' = [owner EXCEPT ![end[c]] = ids[c][end[c]]]
            /\ UNCHANGED <<refs, ids>>
       ELSE /\ ids' = [ids EXCEPT ![c][end[c]] = owner[end[c]]]
            /\ UNCHANGED <<owner, refs>>
    /\ NextEnd(c)

RecordOwnView(c) ==
    /\ pc[c] = "record"
    /\ lock = None
    /\ IF owner[end[c]] = None
       THEN /\ owner' = [owner EXCEPT ![end[c]] = ids[c][end[c]]]
            /\ UNCHANGED refs
       ELSE /\ refs' = [refs EXCEPT ![ids[c][end[c]]] = @ - 1]
            /\ UNCHANGED owner
    /\ NextEnd(c)
    /\ UNCHANGED ids

(* Under ct->lock: the first record stands and keeps the reference; a loser *)
(* drops its own and judges by what is recorded.                            *)
Record(c) ==
    /\ pc[c] = "record"
    /\ lock = None
    /\ IF owner[end[c]] = None
       THEN /\ owner' = [owner EXCEPT ![end[c]] = ids[c][end[c]]]
            /\ UNCHANGED <<refs, ids>>
       ELSE /\ refs' = [refs EXCEPT ![ids[c][end[c]]] = @ - 1]
            /\ ids' = [ids EXCEPT ![c][end[c]] = owner[end[c]]]
            /\ UNCHANGED owner
    /\ NextEnd(c)

Attribute(c) ==
    /\ ReadRecorded(c) \/ ResolveAbsent(c) \/ ResolveOwner(c) \/ Record(c)
    /\ UNCHANGED <<pubVars, clock, packets, flowVars, cellVars, snapVars,
                   readVars, cur, seen>>

-----------------------------------------------------------------------------
(* peios_ntfe_policy_snapshot_eval. A failure fails closed: the packet is   *)
(* dropped and nothing is cached. A judgement is stamped with the epoch and *)
(* the policy of the packet's snapshot; a borrowed identity is done with.   *)
EvalFails(c) ==
    /\ pc[c] = "eval"
    /\ Leave(c)

Expiry(p, t) == IF p \in Timed THEN t + 1 ELSE 0

Judgement(c) ==
    [generation |-> epoch[c],
     policy_generation |-> policy[c].generation,
     expires_at |-> Expiry(policy[c].generation, now[c]),
     verdict |-> [policy |-> policy[c].generation, context |-> seen[c],
                  t |-> now[c], slot |-> slot[c]]]

Judge(c) ==
    /\ pc[c] = "eval"
    /\ cur' = [cur EXCEPT ![c] = Judgement(c)]
    /\ ids' = IF extension
              THEN [ids EXCEPT ![c] = [s \in Slots |-> None]]
              ELSE ids
    /\ Goto(c, IF extension THEN "write" ELSE "final")
    /\ UNCHANGED <<pubVars, clock, packets, flowVars, cellVars, ownerVars,
                   snapVars, readVars, seen, end>>

-----------------------------------------------------------------------------
(* ntfe_sentence_write, under ct->lock and inside a sequence-count write.   *)
WriteBegin(c) ==
    /\ pc[c] = "write"
    /\ lock = None
    /\ lock' = c
    /\ busy' = [busy EXCEPT ![slot[c]] = TRUE]
    /\ Goto(c, "clear")
    /\ UNCHANGED <<sentence, version, reading>>

WriteField(c, from, to, s) ==
    /\ pc[c] = from
    /\ sentence' = [sentence EXCEPT ![slot[c]] = s]
    /\ Goto(c, to)
    /\ UNCHANGED <<version, busy, lock, reading>>

WriteEnd(c) ==
    /\ pc[c] = "end"
    /\ version' = [version EXCEPT ![slot[c]] = @ + 1]
    /\ busy' = [busy EXCEPT ![slot[c]] = FALSE]
    /\ lock' = None
    /\ OwnSentence(c)
    /\ UNCHANGED sentence

Write(c) ==
    /\ LET s == sentence[slot[c]] IN
       \/ WriteBegin(c)
       \/ WriteField(c, "clear", "w_policy", [s EXCEPT !.generation = 0])
       \/ WriteField(c, "w_policy", "w_expires",
             [s EXCEPT !.policy_generation = cur[c].policy_generation])
       \/ WriteField(c, "w_expires", "w_verdict",
             [s EXCEPT !.expires_at = cur[c].expires_at])
       \/ WriteField(c, "w_verdict", "stamp",
             [s EXCEPT !.verdict = cur[c].verdict])
       \/ WriteField(c, "stamp", "end",
             [s EXCEPT !.generation = cur[c].generation])
       \/ WriteEnd(c)
    /\ UNCHANGED <<pubVars, clock, packets, flowVars, ownerVars, snapVars, start,
                   buf, got, cur, seen, idVars>>

(* The verdict is applied to the packet and the snapshot is left.           *)
Apply(c) ==
    /\ pc[c] = "final"
    /\ Leave(c)

(* peios_ntfe_ct_destroy: no packet holds the flow any more; the references *)
(* its extension kept die with it.                                          *)
Destroy ==
    /\ alive
    /\ \A c \in Cpus : pc[c] = "idle"
    /\ alive' = FALSE
    /\ refs' = [o \in Owners |->
                   refs[o] - Cardinality({s \in Slots : owner[s] = o})]
    /\ UNCHANGED <<pubVars, clock, packets, loopback, extension, cellVars,
                   owner, pc, snapVars, readVars, cur, seen, idVars>>

Step(c) ==
    \/ SnapshotPolicy(c) \/ SnapshotEpoch(c) \/ Lookup(c)
    \/ View(c) \/ Attribute(c) \/ EvalFails(c) \/ Judge(c) \/ Write(c)
    \/ Apply(c)

Next == Publish \/ Tick \/ Destroy \/ \E c \in Cpus : Step(c)

Spec == Init /\ [][Next]_vars

-----------------------------------------------------------------------------
Pcs == {"idle", "epoch", "try", "generation", "policy_generation",
        "expires_at", "verdict", "retry", "view", "identify", "record", "eval",
        "write", "clear", "w_policy", "w_expires", "w_verdict", "stamp", "end",
        "final"}

(* Every variable has its type; the history is as long as the counter.      *)
TypeOK ==
    /\ generation \in Nat
    /\ active \in Policy
    /\ publishing \in Policy
    /\ context \in Nat
    /\ stamping \in BOOLEAN
    /\ settled \in Seq(Nat) /\ Len(settled) = generation + 1
    /\ clock \in Nat
    /\ packets \in Nat
    /\ loopback \in BOOLEAN
    /\ extension \in BOOLEAN
    /\ alive \in BOOLEAN
    /\ sentence \in [Slots -> Sentence]
    /\ version \in [Slots -> Nat]
    /\ busy \in [Slots -> BOOLEAN]
    /\ lock \in Cpus \cup {None}
    /\ owner \in [Slots -> Identity]
    /\ refs \in [Owners -> Int]
    /\ pc \in [Cpus -> Pcs]
    /\ slot \in [Cpus -> Slots]
    /\ reading \in [Cpus -> Slots]
    /\ now \in [Cpus -> Nat]
    /\ policy \in [Cpus -> Policy]
    /\ epoch \in [Cpus -> Nat]
    /\ start \in [Cpus -> Nat]
    /\ buf \in [Cpus -> Sentence]
    /\ got \in [Cpus -> Sentence \cup {Miss}]
    /\ cur \in [Cpus -> Sentence]
    /\ seen \in [Cpus -> Nat]
    /\ end \in [Cpus -> Slots]
    /\ ids \in [Cpus -> [Slots -> Identity]]

(* The verdict a packet is given, cached or judged on the spot, comes from  *)
(* the policy of the packet's own snapshot, from a network context no older *)
(* than the newest one wholly published when the snapshot was taken, and    *)
(* has not lapsed at the packet's time (ntfe_flow_dispatch_policy).         *)
AppliedVerdictIsFresh ==
    \A c \in Cpus : pc[c] = "final" =>
        LET v == cur[c].verdict IN
        /\ v.policy = policy[c].generation
        /\ v.context >= Settled(epoch[c])
        /\ v.policy \in Timed => now[c] <= v.t

(* Every token reference taken for an endpoint is held by the extension or  *)
(* by the one CPU that must release it, until the flow is freed             *)
(* (ntfe_flow_identity, ntfe_identity_pair_release, peios_ntfe_ct_destroy). *)
OwnerRefsExact ==
    \A o \in Owners :
        refs[o] = Cardinality({s \in Slots : alive /\ owner[s] = o})
                + Cardinality({cs \in Cpus \X Slots : Holds(cs[1], cs[2], o)})

(* Two judgements of one endpoint of a flow never rest on two owners: once  *)
(* an owner is recorded, a CPU that judges an attributed end judges by it.  *)
JudgedByRecordedOwner ==
    \A c \in Cpus, s \in Slots :
        /\ pc[c] = "eval"
        /\ extension
        /\ ids[c][s] # None
        => ids[c][s] = owner[s]

(* What the slots hold for their readers: while a write is open the reader  *)
(* can only miss, so the new sentence counts from the moment it opens.      *)
Held ==
    [s \in Slots |-> IF busy[s] THEN cur[lock] ELSE sentence[s]]

Cell == INSTANCE SentenceCell WITH
    Sentences <- Sentence, Empty <- NoSentence, value <- Held

(* The lock-free lookup implements an atomic cell: a lookup that succeeds   *)
(* returned one whole sentence, the one its slot held at that moment        *)
(* (ntfe_sentence_read against ntfe_sentence_write).                        *)
LookupIsAtomic == Cell!Spec
=============================================================================
