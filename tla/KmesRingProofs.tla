--------------------------- MODULE KmesRingProofs ---------------------------
(***************************************************************************)
(* Proofs about KmesRing, for any capacities, events and batches and for   *)
(* both settings of ConcurrentAttach: the reference counts are exact, and  *)
(* a consumer asleep on a ring that has moved on is about to be woken.     *)
(*                                                                         *)
(* What the walks over the events compute is recursive, and stays with the *)
(* model checker; nothing here depends on it.                              *)
(***************************************************************************)
EXTENDS KmesRing, FiniteSetTheorems, TLAPS

(* The consumer's fields, where the steps below look at them.               *)
Phases == {"idle", "copy", "verify", "armed", "wait", "asleep", "woken"}
Waiting == {"armed", "wait", "asleep", "woken"}

ConsumerInv ==
    \/ consumer = NoConsumer
    \/ /\ consumer.phase \in Phases
       /\ consumer.ring \in 1..live
       /\ {"phase", "ring", "pos", "last"} \subseteq DOMAIN consumer
       /\ consumer.phase \in Waiting =>
             "counter" \in DOMAIN consumer /\ consumer.counter \in Nat
       /\ consumer.phase \in {"copy", "verify"} =>
             {"tail", "copied"} \subseteq DOMAIN consumer

(* Rings beyond the live one are untouched, and an attach, which holds the  *)
(* topology lock, meets no consumer and no swap.                            *)
RingInv ==
    /\ live \in Generations
    /\ swapped \in 0..live
    /\ refs \in [Generations -> Int]
    /\ wake_work \in [Generations -> BOOLEAN]
    /\ need_wake \in [Generations -> BOOLEAN]
    /\ futex_counter \in [Generations -> Nat]
    /\ DOMAIN write_pos = Generations /\ DOMAIN generation = Generations
    /\ \A g \in Generations : wake_work[g] => g <= live
    /\ attach.phase # "idle" => ~Attached /\ swapped = 0
    /\ attach.phase = "futex" => attach.value \in Nat

(* The number of holders of a ring, one of each kind at most.               *)
One(holds) == IF holds THEN 1 ELSE 0
Holders(g) ==
    One(live = g) + One(Attached /\ consumer.ring = g) + One(wake_work[g])
        + One(swapped = g)

RefInv == \A g \in Generations : refs[g] = Holders(g)

(* A consumer that is going to wait has asked to be woken, and the counter  *)
(* it remembers is past as soon as there is something to wake it for; only  *)
(* a writer yet to look at need_wake is excused.                            *)
Behind == Stale \/ consumer.pos < write_pos[consumer.ring]

WaitInv ==
    consumer.phase \in {"armed", "wait", "asleep"} =>
        /\ need_wake[consumer.ring]
        /\ consumer.counter <= futex_counter[consumer.ring]
        /\ /\ consumer.phase = "wait" /\ Behind
           /\ consumer.counter = futex_counter[consumer.ring]
           => writer.phase = "note" /\ live = consumer.ring

IndInv == ConsumerInv /\ RingInv /\ RefInv /\ WaitInv /\ SleeperWillWake

-----------------------------------------------------------------------------
(* Counting.                                                                *)

LEMMA OneTypes == ASSUME NEW b PROVE One(b) \in {0, 1} /\ (b => One(b) = 1) /\ (~b => One(b) = 0)
  BY Zenon DEF One

(* A set of holders with one more kind tested has one more element or not.  *)
LEMMA CardOne ==
    ASSUME NEW S, IsFiniteSet(S), NEW h, h \notin S, NEW b \in BOOLEAN,
           NEW T, T = IF b THEN S \cup {h} ELSE S
    PROVE  IsFiniteSet(T) /\ Cardinality(T) = Cardinality(S) + One(b)
  <1>1. Cardinality(S) \in Nat BY FS_CardinalityType, Zenon
  <1>2. CASE b
    <2>1. IsFiniteSet(T) /\ Cardinality(T) = Cardinality(S) + 1
      BY <1>2, FS_AddElement, Zenon
    <2> QED BY <1>2, <2>1, Zenon DEF One
  <1>3. CASE ~b
    BY <1>1, <1>3 DEF One
  <1> QED BY <1>2, <1>3, Zenon

(* The set RefsExact counts has as many elements as there are holders.      *)
LEMMA HoldersCounted ==
    ASSUME NEW a \in BOOLEAN, NEW b \in BOOLEAN, NEW c \in BOOLEAN, NEW d \in BOOLEAN
    PROVE  Cardinality({h \in {"slot", "fd", "work", "swap"} :
                            (h = "slot" /\ a) \/ (h = "fd" /\ b) \/ (h = "work" /\ c)
                               \/ (h = "swap" /\ d)})
             = One(a) + One(b) + One(c) + One(d)
  <1> DEFINE S1 == IF a THEN {} \cup {"slot"} ELSE {}
             S2 == IF b THEN S1 \cup {"fd"} ELSE S1
             S3 == IF c THEN S2 \cup {"work"} ELSE S2
             S4 == IF d THEN S3 \cup {"swap"} ELSE S3
  <1>1. {h \in {"slot", "fd", "work", "swap"} :
            (h = "slot" /\ a) \/ (h = "fd" /\ b) \/ (h = "work" /\ c)
               \/ (h = "swap" /\ d)} = S4
    BY Zenon
  <1>2. IsFiniteSet({}) /\ Cardinality({}) = 0 BY FS_EmptySet, Zenon
  <1>3. "slot" \notin {} /\ "fd" \notin S1 /\ "work" \notin S2 /\ "swap" \notin S3
    BY Zenon
  <1> HIDE DEF S4
  <1>4. S4 = IF d THEN S3 \cup {"swap"} ELSE S3 BY Zenon DEF S4
  <1> HIDE DEF S3
  <1>5. S3 = IF c THEN S2 \cup {"work"} ELSE S2 BY Zenon DEF S3
  <1> HIDE DEF S2
  <1>6. S2 = IF b THEN S1 \cup {"fd"} ELSE S1 BY Zenon DEF S2
  <1> HIDE DEF S1
  <1>7. S1 = IF a THEN {} \cup {"slot"} ELSE {} BY Zenon DEF S1
  <1>8. IsFiniteSet(S1) /\ Cardinality(S1) = Cardinality({}) + One(a)
    BY <1>2, <1>3, <1>7, CardOne, Zenon
  <1>9. IsFiniteSet(S2) /\ Cardinality(S2) = Cardinality(S1) + One(b)
    BY <1>3, <1>6, <1>8, CardOne, Zenon
  <1>10. IsFiniteSet(S3) /\ Cardinality(S3) = Cardinality(S2) + One(c)
    BY <1>3, <1>5, <1>9, CardOne, Zenon
  <1>11. IsFiniteSet(S4) /\ Cardinality(S4) = Cardinality(S3) + One(d)
    BY <1>3, <1>4, <1>10, CardOne, Zenon
  <1>12. Cardinality(S4) = One(a) + One(b) + One(c) + One(d)
    BY <1>2, <1>8, <1>9, <1>10, <1>11, OneTypes
  <1> QED BY <1>1, <1>12, Zenon

(* RefInv is RefsExact.                                                     *)
LEMMA RefsFromHolders == RingInv /\ RefInv => RefsExact
  <1> SUFFICES ASSUME RingInv, RefInv, NEW g \in Generations
               PROVE  refs[g] = Cardinality({h \in {"slot", "fd", "work", "swap"} :
                         \/ h = "slot" /\ live = g
                         \/ h = "fd" /\ Attached /\ consumer.ring = g
                         \/ h = "work" /\ wake_work[g]
                         \/ h = "swap" /\ swapped = g})
    BY Zenon DEF RefsExact
  <1>1. \E a, b, c, d \in BOOLEAN :
            /\ a <=> live = g
            /\ b <=> Attached /\ consumer.ring = g
            /\ c <=> wake_work[g]
            /\ d <=> swapped = g
    BY Zenon
  <1>2. PICK a \in BOOLEAN, b \in BOOLEAN, c \in BOOLEAN, d \in BOOLEAN :
            /\ a <=> live = g
            /\ b <=> Attached /\ consumer.ring = g
            /\ c <=> wake_work[g]
            /\ d <=> swapped = g
    BY <1>1, Zenon
  <1>3. refs[g] = One(a) + One(b) + One(c) + One(d)
    BY <1>2, Zenon DEF RefInv, Holders, One
  <1>4. {h \in {"slot", "fd", "work", "swap"} :
            \/ h = "slot" /\ live = g
            \/ h = "fd" /\ Attached /\ consumer.ring = g
            \/ h = "work" /\ wake_work[g]
            \/ h = "swap" /\ swapped = g}
         = {h \in {"slot", "fd", "work", "swap"} :
               (h = "slot" /\ a) \/ (h = "fd" /\ b) \/ (h = "work" /\ c)
                  \/ (h = "swap" /\ d)}
    BY <1>2, Zenon
  <1> DEFINE H == {h \in {"slot", "fd", "work", "swap"} :
                    (h = "slot" /\ a) \/ (h = "fd" /\ b) \/ (h = "work" /\ c)
                       \/ (h = "swap" /\ d)}
  <1>5. Cardinality(H) = One(a) + One(b) + One(c) + One(d)
    BY HoldersCounted
  <1> HIDE DEF H
  <1>6. refs[g] = Cardinality(H) BY <1>3, <1>5, Zenon
  <1> QED BY <1>4, <1>6, Zenon DEF H

-----------------------------------------------------------------------------
(* A step that touches neither rings, wakes nor consumer, and is no writer  *)
(* with a wake to note.                                                     *)
LEMMA QuietStep ==
    ASSUME IndInv, writer.phase # "note",
           UNCHANGED <<live, refs, generation, write_pos, futex_counter, need_wake,
                       wake_work, wakes, attach, swapped, consumer>>
    PROVE  IndInv'
  <1>1. /\ live' = live /\ refs' = refs /\ generation' = generation
        /\ write_pos' = write_pos /\ futex_counter' = futex_counter
        /\ need_wake' = need_wake /\ wake_work' = wake_work /\ wakes' = wakes
        /\ attach' = attach /\ swapped' = swapped /\ consumer' = consumer
    BY Zenon
  <1>2. ConsumerInv /\ RingInv /\ RefInv /\ WaitInv /\ SleeperWillWake BY Zenon DEF IndInv
  <1>3. ConsumerInv' BY <1>1, <1>2, Zenon DEF ConsumerInv
  <1>4. RingInv' BY <1>1, <1>2, Zenon DEF RingInv, Attached
  <1>5. RefInv' BY <1>1, <1>2, Zenon DEF RefInv, Holders, Attached, One
  <1>6. WaitInv' BY <1>1, <1>2, Zenon DEF WaitInv, Behind, Stale
  <1>7. SleeperWillWake' BY <1>1, <1>2, Zenon DEF SleeperWillWake, Stale
  <1> QED BY <1>3, <1>4, <1>5, <1>6, <1>7, Zenon DEF IndInv

(* Reserving and writing.                                                   *)
LEMMA EmitSteps ==
    ASSUME IndInv,
           \/ \E size \in KernelEvents, ctx \in Contexts : EmitKernel(size, ctx)
           \/ \E batch \in KernelBatches, ctx \in Contexts : EmitKernelBatch(batch, ctx)
           \/ \E batch \in StagedBatches : EmitStaged(batch)
           \/ WriteCell
    PROVE  IndInv'
  <1>1. ASSUME NEW size, NEW ctx, EmitKernel(size, ctx) PROVE IndInv'
    <2>1. /\ writer.phase = "idle"
          /\ UNCHANGED <<live, refs, generation, write_pos, futex_counter, need_wake,
                         wake_work, wakes, attach, swapped, consumer>>
      BY <1>1, Zenon DEF EmitKernel, MayEnter
    <2> QED BY <2>1, QuietStep, Zenon
  <1>2. ASSUME NEW batch, NEW ctx, BatchEnter(batch, ctx) PROVE IndInv'
    <2>1. /\ writer.phase = "idle"
          /\ UNCHANGED <<live, refs, generation, write_pos, futex_counter, need_wake,
                         wake_work, wakes, attach, swapped, consumer>>
      BY <1>2, Zenon DEF BatchEnter, MayEnter
    <2> QED BY <2>1, QuietStep, Zenon
  <1>3. ASSUME WriteCell PROVE IndInv'
    <2>1. /\ writer.phase = "write"
          /\ UNCHANGED <<live, refs, generation, write_pos, futex_counter, need_wake,
                         wake_work, wakes, attach, swapped, consumer>>
      BY <1>3, Zenon DEF WriteCell
    <2> QED BY <2>1, QuietStep, Zenon
  <1> QED BY <1>1, <1>2, <1>3, Zenon DEF EmitKernelBatch, EmitStaged

-----------------------------------------------------------------------------
(* Publishing and waking.                                                   *)

LEMMA GenerationFacts ==
    /\ MaxGeneration \in Nat /\ MaxGeneration > 0 /\ Generations \subseteq Nat
    /\ 0 \notin Generations
    /\ \A l \in Generations : 1..l \subseteq Generations
  BY RingAssumption DEF RingAssumption, Generations

(* A consumer that stays on its ring, or stays away, changes no holder.     *)
LEMMA SameHolders ==
    ASSUME RefInv, UNCHANGED <<live, refs, wake_work, swapped>>,
           Attached' <=> Attached, Attached => consumer'.ring = consumer.ring
    PROVE  RefInv'
  <1> SUFFICES ASSUME NEW g \in Generations PROVE refs'[g] = Holders(g)'
    BY Zenon DEF RefInv
  <1>1. refs[g] = Holders(g) BY Zenon DEF RefInv
  <1>2. (Attached /\ consumer.ring = g) <=> (Attached' /\ consumer'.ring = g)
    BY Zenon
  <1>3. One(Attached /\ consumer.ring = g) = One(Attached' /\ consumer'.ring = g)
    BY <1>2, Zenon DEF One
  <1> QED BY <1>1, <1>3, Zenon DEF Holders

(* A wake keeps the consumer as it is, or takes it from its wait on the     *)
(* ring.                                                                    *)
LEMMA WakeMoves ==
    ASSUME ConsumerInv, NEW g, consumer' = FutexWake(g, consumer), live' = live
    PROVE  /\ ConsumerInv'
           /\ Attached' <=> Attached
           /\ Attached => consumer'.ring = consumer.ring
           /\ \/ consumer' = consumer /\ ~(consumer.phase = "asleep" /\ consumer.ring = g)
              \/ consumer'.phase = "woken"
  <1>1. CASE consumer.phase = "asleep" /\ consumer.ring = g
    <2>1. consumer # NoConsumer BY <1>1 DEF NoConsumer
    <2>2. /\ consumer.phase \in Phases
          /\ consumer.ring \in 1..live
          /\ {"phase", "ring", "pos", "last"} \subseteq DOMAIN consumer
          /\ "counter" \in DOMAIN consumer /\ consumer.counter \in Nat
      BY <1>1, <2>1, Zenon DEF ConsumerInv, Waiting
    <2>3. consumer' = [consumer EXCEPT !.phase = "woken"] BY <1>1, Zenon DEF FutexWake
    <2>4. /\ consumer'.phase = "woken" /\ consumer'.ring = consumer.ring
          /\ consumer'.counter = consumer.counter
          /\ DOMAIN consumer' = DOMAIN consumer
      BY <2>2, <2>3, Zenon
    <2>5. ConsumerInv' BY <2>2, <2>4, Zenon DEF ConsumerInv, Phases, Waiting
    <2> QED BY <1>1, <2>4, <2>5, Zenon DEF Attached
  <1>2. CASE ~(consumer.phase = "asleep" /\ consumer.ring = g)
    <2>1. consumer' = consumer BY <1>2, Zenon DEF FutexWake
    <2>2. ConsumerInv' BY <2>1, Zenon DEF ConsumerInv
    <2> QED BY <1>2, <2>1, <2>2, Zenon DEF Attached
  <1> QED BY <1>1, <1>2, Zenon

(* The bytes become visible: the writer has yet to look at need_wake.       *)
LEMMA PublishStep == ASSUME IndInv, PublishWrite PROVE IndInv'
  <1>1. ConsumerInv /\ RingInv /\ RefInv /\ WaitInv /\ SleeperWillWake BY Zenon DEF IndInv
  <1>2. /\ live' = live /\ refs' = refs /\ generation' = generation
        /\ futex_counter' = futex_counter
        /\ need_wake' = need_wake /\ wake_work' = wake_work /\ wakes' = wakes
        /\ attach' = attach /\ swapped' = swapped /\ consumer' = consumer
    BY Zenon DEF PublishWrite
  <1>3. writer.phase = "write" /\ writer'.phase = "note" BY Zenon DEF PublishWrite
  <1>4. /\ DOMAIN write_pos' = Generations
        /\ \A g \in Generations : g # live => write_pos'[g] = write_pos[g]
    BY <1>1, Zenon DEF PublishWrite, RingInv
  <1>5. ConsumerInv' BY <1>1, <1>2, Zenon DEF ConsumerInv
  <1>6. RingInv' BY <1>1, <1>2, <1>4, Zenon DEF RingInv, Attached
  <1>7. RefInv' BY <1>1, <1>2, SameHolders, Zenon DEF Attached
  <1>8. consumer.phase # "detached" => consumer.ring \in Generations
    BY <1>1, GenerationFacts DEF ConsumerInv, NoConsumer, RingInv
  <1>9. WaitInv'
    <2> SUFFICES ASSUME consumer.phase \in {"armed", "wait", "asleep"}
                 PROVE  /\ need_wake[consumer.ring]
                        /\ consumer.counter <= futex_counter[consumer.ring]
                        /\ /\ consumer.phase = "wait" /\ Behind'
                           /\ consumer.counter = futex_counter[consumer.ring]
                           => live = consumer.ring
      BY <1>2, <1>3, Zenon DEF WaitInv
    <2>1. ASSUME live # consumer.ring PROVE Behind' => Behind
      BY <1>2, <1>4, <1>8, <2>1, Zenon DEF Behind, Stale
    <2> QED BY <1>1, <1>3, <2>1, Zenon DEF WaitInv
  <1>10. SleeperWillWake'
    <2> SUFFICES ASSUME consumer.phase = "asleep", live # consumer.ring, Behind'
                 PROVE  \/ consumer.ring \in wakes \/ wake_work[consumer.ring]
                        \/ swapped = consumer.ring
      BY <1>2, <1>3, Zenon DEF SleeperWillWake, Behind
    <2>1. Behind BY <1>2, <1>4, <1>8, Zenon DEF Behind, Stale
    <2> QED BY <1>1, <2>1, Zenon DEF SleeperWillWake, Behind
  <1> QED BY <1>5, <1>6, <1>7, <1>9, <1>10, Zenon DEF IndInv

(* The writer looks at need_wake, and wakes or hands the wake on.           *)
LEMMA NoteStep == ASSUME IndInv, NoteWake PROVE IndInv'
  <1> USE GenerationFacts
  <1>1. ConsumerInv /\ RingInv /\ RefInv /\ WaitInv /\ SleeperWillWake BY Zenon DEF IndInv
  <1>2. /\ live' = live /\ generation' = generation /\ write_pos' = write_pos
        /\ need_wake' = need_wake /\ attach' = attach /\ swapped' = swapped
        /\ consumer' = consumer
    BY Zenon DEF NoteWake
  <1>3. writer.phase = "note" /\ writer'.phase = "idle" BY Zenon DEF NoteWake, NoWriter
  <1>4. /\ live \in Generations /\ refs \in [Generations -> Int]
        /\ wake_work \in [Generations -> BOOLEAN]
        /\ need_wake \in [Generations -> BOOLEAN]
        /\ futex_counter \in [Generations -> Nat]
        /\ \A g \in Generations : wake_work[g] => g <= live
    BY <1>1, Zenon DEF RingInv
  <1>5. ConsumerInv' BY <1>1, <1>2, Zenon DEF ConsumerInv
  <1>6. consumer.phase # "detached" => consumer.ring \in Generations
    BY <1>1, <1>4 DEF ConsumerInv, NoConsumer
  <1>7. CASE ~need_wake[live]
    <2>1. /\ futex_counter' = futex_counter /\ wakes' = wakes
          /\ wake_work' = wake_work /\ refs' = refs
      BY <1>7, Zenon DEF NoteWake
    <2>2. RingInv' BY <1>1, <1>2, <2>1, Zenon DEF RingInv, Attached
    <2>3. RefInv' BY <1>1, <1>2, <2>1, SameHolders, Zenon DEF Attached
    <2>4. consumer.phase \in {"armed", "wait", "asleep"} => consumer.ring # live
      BY <1>1, <1>7, Zenon DEF WaitInv
    <2>5. WaitInv' BY <1>1, <1>2, <2>1, <2>4, Zenon DEF WaitInv, Behind, Stale
    <2>6. SleeperWillWake'
      BY <1>1, <1>2, <2>1, <2>4, Zenon DEF SleeperWillWake, Stale
    <2> QED BY <1>5, <2>2, <2>3, <2>5, <2>6, Zenon DEF IndInv
  <1>8. CASE need_wake[live]
    <2>1. futex_counter' = [futex_counter EXCEPT ![live] = @ + 1]
      BY <1>8, Zenon DEF NoteWake
    <2>2. futex_counter[live] \in Nat BY <1>4, Zenon
    <2>3. futex_counter[live] + 1 \in Nat BY <2>2
    <2>4. /\ futex_counter' \in [Generations -> Nat]
          /\ futex_counter'[live] = futex_counter[live] + 1
          /\ \A g \in Generations : g # live => futex_counter'[g] = futex_counter[g]
      BY <1>4, <2>1, <2>3, Zenon
    <2>5. WaitInv'
      <3> SUFFICES ASSUME consumer.phase \in {"armed", "wait", "asleep"}
                   PROVE  /\ need_wake[consumer.ring]
                          /\ consumer.counter <= futex_counter'[consumer.ring]
                          /\ /\ consumer.phase = "wait" /\ Behind
                             /\ consumer.counter = futex_counter'[consumer.ring]
                             => FALSE
        BY <1>2, Zenon DEF WaitInv, Behind, Stale
      <3>1. /\ need_wake[consumer.ring]
            /\ consumer.counter <= futex_counter[consumer.ring]
            /\ /\ consumer.phase = "wait" /\ Behind
               /\ consumer.counter = futex_counter[consumer.ring]
               => live = consumer.ring
        BY <1>1, Zenon DEF WaitInv
      <3>2. consumer.counter \in Nat /\ consumer.ring \in Generations
        BY <1>1, <1>6 DEF ConsumerInv, NoConsumer, Waiting
      <3>3. CASE consumer.ring = live
        <4>1. consumer.counter <= futex_counter'[live] /\ consumer.counter # futex_counter'[live]
          BY <2>2, <2>4, <3>1, <3>2, <3>3
        <4> QED BY <3>1, <3>3, <4>1, Zenon
      <3>4. CASE consumer.ring # live
        BY <2>4, <3>1, <3>2, <3>4, Zenon
      <3> QED BY <3>3, <3>4, Zenon
    <2>6. CASE writer.ctx = "task"
      <3>1. wakes' = wakes \cup {live} /\ wake_work' = wake_work /\ refs' = refs
        BY <1>8, <2>6, Zenon DEF NoteWake
      <3>2. RingInv' BY <1>1, <1>2, <2>4, <3>1, Zenon DEF RingInv, Attached
      <3>3. RefInv' BY <1>1, <1>2, <3>1, SameHolders, Zenon DEF Attached
      <3>4. SleeperWillWake'
        BY <1>1, <1>2, <3>1, Zenon DEF SleeperWillWake, Stale
      <3> QED BY <1>5, <2>5, <3>2, <3>3, <3>4, Zenon DEF IndInv
    <2>7. CASE writer.ctx # "task"
      <3>1. /\ wakes' = wakes
            /\ wake_work' = [wake_work EXCEPT ![live] = TRUE]
            /\ refs' = [refs EXCEPT ![live] = IF wake_work[live] THEN @ ELSE @ + 1]
        BY <1>8, <2>7, Zenon DEF NoteWake, DeferWake
      <3>2. /\ wake_work' \in [Generations -> BOOLEAN] /\ wake_work'[live]
            /\ \A g \in Generations : g # live => wake_work'[g] = wake_work[g]
        BY <1>4, <3>1, Zenon
      <3>3. /\ refs' \in [Generations -> Int]
            /\ refs'[live] = IF wake_work[live] THEN refs[live] ELSE refs[live] + 1
            /\ \A g \in Generations : g # live => refs'[g] = refs[g]
        BY <1>4, <3>1
      <3>4. \A g \in Generations : wake_work'[g] => g <= live
        BY <1>4, <3>2
      <3>5. RingInv' BY <1>1, <1>2, <2>4, <3>2, <3>3, <3>4, Zenon DEF RingInv, Attached
      <3>6. RefInv'
        <4> SUFFICES ASSUME NEW g \in Generations PROVE refs'[g] = Holders(g)'
          BY Zenon DEF RefInv
        <4>1. refs[g] = Holders(g) BY <1>1, Zenon DEF RefInv
        <4>2. Holders(g)' = One(live = g) + One(Attached /\ consumer.ring = g)
                              + One(wake_work'[g]) + One(swapped = g)
          BY <1>2, Zenon DEF Holders, Attached, One
        <4>3. CASE g = live
          BY <3>2, <3>3, <4>1, <4>2, <4>3 DEF Holders, One
        <4>4. CASE g # live
          BY <3>2, <3>3, <4>1, <4>2, <4>4, Zenon DEF Holders, One
        <4> QED BY <4>3, <4>4, Zenon
      <3>7. SleeperWillWake'
        <4> SUFFICES ASSUME consumer.phase = "asleep", Behind
                     PROVE  \/ consumer.ring \in wakes \/ wake_work'[consumer.ring]
                            \/ swapped = consumer.ring
          BY <1>2, <3>1, Zenon DEF SleeperWillWake, Behind, Stale
        <4>1. consumer.ring \in Generations BY <1>6, Zenon
        <4>2. wake_work[consumer.ring] => wake_work'[consumer.ring] BY <3>2, <4>1, Zenon
        <4> QED BY <1>1, <3>2, <4>2, Zenon DEF SleeperWillWake, Behind
      <3> QED BY <1>5, <2>5, <3>5, <3>6, <3>7, Zenon DEF IndInv
    <2> QED BY <2>6, <2>7, Zenon
  <1> QED BY <1>7, <1>8, Zenon

(* A wake that a task writer or a swap owes.                                *)
LEMMA DirectStep == ASSUME IndInv, NEW g \in Generations, DirectWake(g) PROVE IndInv'
  <1>1. ConsumerInv /\ RingInv /\ RefInv /\ WaitInv /\ SleeperWillWake BY Zenon DEF IndInv
  <1>2. /\ live' = live /\ refs' = refs /\ generation' = generation
        /\ write_pos' = write_pos /\ futex_counter' = futex_counter
        /\ need_wake' = need_wake /\ wake_work' = wake_work /\ writer' = writer
        /\ attach' = attach /\ swapped' = swapped /\ wakes' = wakes \ {g}
        /\ consumer' = FutexWake(g, consumer)
    BY Zenon DEF DirectWake, ringVars
  <1>3. /\ ConsumerInv' /\ (Attached' <=> Attached)
        /\ Attached => consumer'.ring = consumer.ring
        /\ \/ consumer' = consumer /\ ~(consumer.phase = "asleep" /\ consumer.ring = g)
           \/ consumer'.phase = "woken"
    BY <1>1, <1>2, WakeMoves, Zenon
  <1>4. RingInv' BY <1>1, <1>2, <1>3, Zenon DEF RingInv
  <1>5. RefInv' BY <1>1, <1>2, <1>3, SameHolders, Zenon
  <1>6. CASE consumer' = consumer /\ ~(consumer.phase = "asleep" /\ consumer.ring = g)
    <2>1. WaitInv' BY <1>1, <1>2, <1>6, Zenon DEF WaitInv, Behind, Stale
    <2>2. SleeperWillWake' BY <1>1, <1>2, <1>6, Zenon DEF SleeperWillWake, Stale
    <2> QED BY <1>3, <1>4, <1>5, <2>1, <2>2, Zenon DEF IndInv
  <1>7. CASE consumer'.phase = "woken"
    <2>1. WaitInv' /\ SleeperWillWake' BY <1>7, Zenon DEF WaitInv, SleeperWillWake
    <2> QED BY <1>3, <1>4, <1>5, <2>1, Zenon DEF IndInv
  <1> QED BY <1>3, <1>6, <1>7, Zenon

(* The ring's work item wakes the consumer and drops its reference.         *)
LEMMA WakeWorkStep == ASSUME IndInv, NEW g \in Generations, WakeWork(g) PROVE IndInv'
  <1>1. ConsumerInv /\ RingInv /\ RefInv /\ WaitInv /\ SleeperWillWake BY Zenon DEF IndInv
  <1>2. /\ live' = live /\ generation' = generation
        /\ write_pos' = write_pos /\ futex_counter' = futex_counter
        /\ need_wake' = need_wake /\ writer' = writer
        /\ attach' = attach /\ swapped' = swapped /\ wakes' = wakes
        /\ consumer' = FutexWake(g, consumer)
        /\ wake_work[g] /\ wake_work' = [wake_work EXCEPT ![g] = FALSE]
        /\ refs' = [refs EXCEPT ![g] = @ - 1]
    BY Zenon DEF WakeWork, Put
  <1>3. /\ ConsumerInv' /\ (Attached' <=> Attached)
        /\ Attached => consumer'.ring = consumer.ring
        /\ \/ consumer' = consumer /\ ~(consumer.phase = "asleep" /\ consumer.ring = g)
           \/ consumer'.phase = "woken"
    BY <1>1, <1>2, WakeMoves, Zenon
  <1>4. /\ refs \in [Generations -> Int] /\ wake_work \in [Generations -> BOOLEAN]
        /\ \A h \in Generations : wake_work[h] => h <= live
    BY <1>1, Zenon DEF RingInv
  <1>5. /\ wake_work' \in [Generations -> BOOLEAN] /\ ~wake_work'[g]
        /\ \A h \in Generations : h # g => wake_work'[h] = wake_work[h]
    BY <1>2, <1>4, Zenon
  <1>6. /\ refs' \in [Generations -> Int] /\ refs'[g] = refs[g] - 1
        /\ \A h \in Generations : h # g => refs'[h] = refs[h]
    BY <1>2, <1>4
  <1>7. \A h \in Generations : wake_work'[h] => h <= live BY <1>4, <1>5, Zenon
  <1>8. RingInv' BY <1>1, <1>2, <1>3, <1>5, <1>6, <1>7, Zenon DEF RingInv
  <1>9. RefInv'
    <2> SUFFICES ASSUME NEW h \in Generations PROVE refs'[h] = Holders(h)'
      BY Zenon DEF RefInv
    <2>1. refs[h] = Holders(h) BY <1>1, Zenon DEF RefInv
    <2>2. One(Attached /\ consumer.ring = h) = One(Attached' /\ consumer'.ring = h)
      BY <1>3, Zenon DEF One
    <2>3. Holders(h)' = One(live = h) + One(Attached /\ consumer.ring = h)
                          + One(wake_work'[h]) + One(swapped = h)
      BY <1>2, <2>2, Zenon DEF Holders
    <2>4. CASE h = g
      <3>1. One(wake_work[h]) = 1 /\ One(wake_work'[h]) = 0
        BY <1>2, <1>5, <2>4, Zenon DEF One
      <3> QED BY <1>6, <2>1, <2>3, <2>4, <3>1, OneTypes DEF Holders
    <2>5. CASE h # g
      <3>1. wake_work'[h] = wake_work[h] BY <1>5, <2>5, Zenon
      <3> QED BY <1>6, <2>1, <2>3, <2>5, <3>1, Zenon DEF Holders
    <2> QED BY <2>4, <2>5, Zenon
  <1>10. CASE consumer' = consumer /\ ~(consumer.phase = "asleep" /\ consumer.ring = g)
    <2>1. WaitInv' BY <1>1, <1>2, <1>10, Zenon DEF WaitInv, Behind, Stale
    <2>2. consumer.phase = "asleep" => consumer.ring \in Generations
      BY <1>1, GenerationFacts DEF ConsumerInv, NoConsumer, RingInv
    <2>3. consumer.phase = "asleep" => wake_work'[consumer.ring] = wake_work[consumer.ring]
      BY <1>5, <1>10, <2>2, Zenon
    <2>4. SleeperWillWake' BY <1>1, <1>2, <1>10, <2>3, Zenon DEF SleeperWillWake, Stale
    <2> QED BY <1>3, <1>8, <1>9, <2>1, <2>4, Zenon DEF IndInv
  <1>11. CASE consumer'.phase = "woken"
    <2>1. WaitInv' /\ SleeperWillWake' BY <1>11, Zenon DEF WaitInv, SleeperWillWake
    <2> QED BY <1>3, <1>8, <1>9, <2>1, Zenon DEF IndInv
  <1> QED BY <1>3, <1>10, <1>11, Zenon

(* The swap wakes the replaced ring's consumer and drops the reference kept *)
(* for it.                                                                  *)
LEMMA SwapWakeStep == ASSUME IndInv, SwapWake PROVE IndInv'
  <1> DEFINE g == swapped
  <1>1. ConsumerInv /\ RingInv /\ RefInv /\ WaitInv /\ SleeperWillWake BY Zenon DEF IndInv
  <1>2. /\ live' = live /\ generation' = generation
        /\ write_pos' = write_pos /\ futex_counter' = futex_counter
        /\ need_wake' = need_wake /\ writer' = writer /\ wake_work' = wake_work
        /\ attach' = attach /\ swapped' = 0 /\ wakes' = wakes /\ g # 0
        /\ consumer' = FutexWake(g, consumer)
        /\ refs' = [refs EXCEPT ![g] = @ - 1]
    BY Zenon DEF SwapWake, Put
  <1>3. /\ ConsumerInv' /\ (Attached' <=> Attached)
        /\ Attached => consumer'.ring = consumer.ring
        /\ \/ consumer' = consumer /\ ~(consumer.phase = "asleep" /\ consumer.ring = g)
           \/ consumer'.phase = "woken"
    BY <1>1, <1>2, WakeMoves, Zenon
  <1>4. /\ live \in Generations /\ g \in 0..live /\ refs \in [Generations -> Int]
    BY <1>1, Zenon DEF RingInv
  <1>5. g \in Generations BY <1>2, <1>4, GenerationFacts
  <1>6. /\ refs' \in [Generations -> Int] /\ refs'[g] = refs[g] - 1
        /\ \A h \in Generations : h # g => refs'[h] = refs[h]
    BY <1>2, <1>4, <1>5
  <1>7. 0 \in 0..live BY <1>4, GenerationFacts
  <1>8. RingInv' BY <1>1, <1>2, <1>3, <1>6, <1>7, Zenon DEF RingInv
  <1>9. RefInv'
    <2> SUFFICES ASSUME NEW h \in Generations PROVE refs'[h] = Holders(h)'
      BY Zenon DEF RefInv
    <2>1. refs[h] = Holders(h) BY <1>1, Zenon DEF RefInv
    <2>2. One(Attached /\ consumer.ring = h) = One(Attached' /\ consumer'.ring = h)
      BY <1>3, Zenon DEF One
    <2>3. Holders(h)' = One(live = h) + One(Attached /\ consumer.ring = h)
                          + One(wake_work[h]) + One(0 = h)
      BY <1>2, <2>2, Zenon DEF Holders
    <2>4. 0 # h BY GenerationFacts, Zenon
    <2>5. One(0 = h) = 0 BY <2>4, OneTypes, Zenon
    <2>6. CASE h = g
      <3>1. One(swapped = h) = 1 BY <2>6, OneTypes, Zenon
      <3> QED BY <1>6, <2>1, <2>3, <2>5, <2>6, <3>1, OneTypes DEF Holders
    <2>7. CASE h # g
      <3>1. One(swapped = h) = 0 BY <2>7, OneTypes, Zenon
      <3> QED BY <1>6, <2>1, <2>3, <2>5, <2>7, <3>1, OneTypes, Zenon DEF Holders
    <2> QED BY <2>6, <2>7, Zenon
  <1>10. CASE consumer' = consumer /\ ~(consumer.phase = "asleep" /\ consumer.ring = g)
    <2>1. WaitInv' BY <1>1, <1>2, <1>10, Zenon DEF WaitInv, Behind, Stale
    <2>2. SleeperWillWake' BY <1>1, <1>2, <1>10, Zenon DEF SleeperWillWake, Stale
    <2> QED BY <1>3, <1>8, <1>9, <2>1, <2>2, Zenon DEF IndInv
  <1>11. CASE consumer'.phase = "woken"
    <2>1. WaitInv' /\ SleeperWillWake' BY <1>11, Zenon DEF WaitInv, SleeperWillWake
    <2> QED BY <1>3, <1>8, <1>9, <2>1, Zenon DEF IndInv
  <1> QED BY <1>3, <1>10, <1>11, Zenon

-----------------------------------------------------------------------------
(* Attaching.                                                               *)

(* A consumer opens on the live ring, which one more holder holds.          *)
LEMMA OpenMoves ==
    ASSUME ConsumerInv, RingInv, RefInv, ~Attached, NEW tail, OpenConsumer(live, tail),
           UNCHANGED <<live, wake_work, swapped>>
    PROVE  /\ ConsumerInv' /\ RefInv' /\ refs' \in [Generations -> Int]
           /\ consumer'.phase = "idle"
  <1>1. /\ refs' = [refs EXCEPT ![live] = @ + 1]
        /\ consumer' = [phase |-> "idle", ring |-> live, pos |-> tail, last |-> 0]
    BY Zenon DEF OpenConsumer
  <1>2. live \in Generations /\ refs \in [Generations -> Int] BY Zenon DEF RingInv
  <1>3. live \in 1..live BY <1>2, GenerationFacts
  <1>4. consumer'.phase = "idle" /\ consumer'.ring = live BY <1>1, Zenon
  <1>5. {"phase", "ring", "pos", "last"} \subseteq DOMAIN consumer' BY <1>1, Zenon
  <1>6. ConsumerInv' BY <1>3, <1>4, <1>5, Zenon DEF ConsumerInv, Phases, Waiting
  <1>7. /\ refs' \in [Generations -> Int] /\ refs'[live] = refs[live] + 1
        /\ \A h \in Generations : h # live => refs'[h] = refs[h]
    BY <1>1, <1>2
  <1>8. RefInv'
    <2> SUFFICES ASSUME NEW h \in Generations PROVE refs'[h] = Holders(h)'
      BY Zenon DEF RefInv
    <2>1. refs[h] = Holders(h) BY Zenon DEF RefInv
    <2>2. One(Attached /\ consumer.ring = h) = 0 BY Zenon DEF One
    <2>3. Attached' BY <1>4, Zenon DEF Attached
    <2>4. CASE h = live
      <3>1. One(Attached' /\ consumer'.ring = h) = 1 BY <1>4, <2>3, <2>4, Zenon DEF One
      <3> QED BY <1>7, <2>1, <2>2, <2>4, <3>1, OneTypes DEF Holders
    <2>5. CASE h # live
      <3>1. One(Attached' /\ consumer'.ring = h) = 0 BY <1>4, <2>5, Zenon DEF One
      <3> QED BY <1>7, <2>1, <2>2, <2>5, <3>1, OneTypes, Zenon DEF Holders
    <2> QED BY <2>4, <2>5, Zenon
  <1> QED BY <1>4, <1>6, <1>7, <1>8, Zenon

LEMMA AttachAgainStep == ASSUME IndInv, AttachAgain PROVE IndInv'
  <1>1. ConsumerInv /\ RingInv /\ RefInv /\ WaitInv /\ SleeperWillWake BY Zenon DEF IndInv
  <1>2. /\ live' = live /\ generation' = generation /\ write_pos' = write_pos
        /\ futex_counter' = futex_counter /\ need_wake' = need_wake
        /\ wake_work' = wake_work /\ attach' = attach /\ swapped' = swapped
        /\ ~Attached /\ attach.phase = "idle" /\ OpenConsumer(live, tail_pos[live])
    BY Zenon DEF AttachAgain, TopologyFree
  <1>3. /\ ConsumerInv' /\ RefInv' /\ refs' \in [Generations -> Int]
        /\ consumer'.phase = "idle"
    BY <1>1, <1>2, OpenMoves, Zenon
  <1>4. RingInv' BY <1>1, <1>2, <1>3, Zenon DEF RingInv
  <1>5. WaitInv' /\ SleeperWillWake' BY <1>3, Zenon DEF WaitInv, SleeperWillWake
  <1> QED BY <1>3, <1>4, <1>5, Zenon DEF IndInv

(* The stores of a first attach: nobody is attached yet.                    *)
LEMMA AttachQuiet ==
    ASSUME IndInv, ~Attached, UNCHANGED <<live, refs, generation, need_wake, wake_work,
                                          swapped, consumer>>,
           DOMAIN write_pos' = Generations, futex_counter' \in [Generations -> Nat],
           swapped = 0, attach'.phase = "futex" => attach'.value \in Nat
    PROVE  IndInv'
  <1>1. ConsumerInv /\ RingInv /\ RefInv BY Zenon DEF IndInv
  <1>2. ConsumerInv' BY <1>1, Zenon DEF ConsumerInv
  <1>3. Attached' <=> Attached BY Zenon DEF Attached
  <1>4. RefInv' BY <1>1, <1>3, SameHolders, Zenon
  <1>5. RingInv' BY <1>1, <1>3, Zenon DEF RingInv
  <1>6. consumer'.phase = "detached" BY <1>3, Zenon DEF Attached
  <1>7. WaitInv' /\ SleeperWillWake' BY <1>6, Zenon DEF WaitInv, SleeperWillWake
  <1> QED BY <1>2, <1>4, <1>5, <1>7, Zenon DEF IndInv

LEMMA AttachSteps ==
    ASSUME IndInv, AttachFirst \/ AttachStoreWrite \/ AttachStoreTail \/ AttachFinish
    PROVE  IndInv'
  <1>1. ConsumerInv /\ RingInv /\ RefInv /\ WaitInv /\ SleeperWillWake BY Zenon DEF IndInv
  <1>2. /\ DOMAIN write_pos = Generations /\ futex_counter \in [Generations -> Nat]
        /\ attach.phase # "idle" => ~Attached /\ swapped = 0
        /\ attach.phase = "futex" => attach.value \in Nat
        /\ live \in Generations
    BY <1>1, Zenon DEF RingInv
  <1>3. CASE AttachFirst
    <2>1. /\ UNCHANGED <<live, refs, generation, need_wake, wake_work, swapped, consumer>>
          /\ write_pos' = write_pos /\ futex_counter' = futex_counter
          /\ ~Attached /\ swapped = 0
          /\ attach' = [phase |-> "write", value |-> write_pos[live]]
      BY <1>3, Zenon DEF AttachFirst, TopologyFree
    <2>2. attach'.phase # "futex" BY <2>1, Zenon
    <2> QED BY <1>2, <2>1, <2>2, AttachQuiet, Zenon
  <1>4. CASE AttachStoreWrite
    <2>1. /\ UNCHANGED <<live, refs, generation, need_wake, wake_work, swapped, consumer>>
          /\ write_pos' = [write_pos EXCEPT ![live] = attach.value]
          /\ futex_counter' = futex_counter /\ attach.phase = "write"
          /\ attach' = [phase |-> "tail", value |-> tail_pos[live]]
      BY <1>4, Zenon DEF AttachStoreWrite
    <2>2. attach'.phase # "futex" /\ attach.phase # "idle" BY <2>1, Zenon
    <2>3. DOMAIN write_pos' = Generations BY <1>2, <2>1, Zenon
    <2> QED BY <1>2, <2>1, <2>2, <2>3, AttachQuiet, Zenon
  <1>5. CASE AttachStoreTail
    <2>1. /\ UNCHANGED <<live, refs, generation, need_wake, wake_work, swapped, consumer>>
          /\ write_pos' = write_pos /\ futex_counter' = futex_counter
          /\ attach.phase = "tail"
          /\ attach' = [phase |-> "futex", value |-> futex_counter[live]]
      BY <1>5, Zenon DEF AttachStoreTail
    <2>2. attach'.value \in Nat /\ attach.phase # "idle" BY <1>2, <2>1, Zenon
    <2> QED BY <1>2, <2>1, <2>2, AttachQuiet, Zenon
  <1>6. CASE AttachFinish
    <2>1. /\ UNCHANGED <<live, generation, need_wake, wake_work, swapped>>
          /\ write_pos' = write_pos
          /\ futex_counter' = [futex_counter EXCEPT ![live] = attach.value]
          /\ attach.phase = "futex" /\ attach' = NoAttach
          /\ OpenConsumer(live, tail_pos[live]) \/ UNCHANGED <<refs, consumer>>
      BY <1>6, Zenon DEF AttachFinish
    <2>2. attach'.phase = "idle" /\ attach.phase # "idle" BY <2>1, Zenon DEF NoAttach
    <2>3. ~Attached /\ swapped = 0 /\ attach.value \in Nat BY <1>2, <2>1, <2>2, Zenon
    <2>4. futex_counter' \in [Generations -> Nat] BY <1>2, <2>1, <2>3, Zenon
    <2>5. attach'.phase # "futex" BY <2>2, Zenon
    <2>6. CASE UNCHANGED <<refs, consumer>>
      BY <1>2, <2>1, <2>3, <2>4, <2>5, <2>6, AttachQuiet, Zenon
    <2>7. CASE OpenConsumer(live, tail_pos[live])
      <3>1. /\ ConsumerInv' /\ RefInv' /\ refs' \in [Generations -> Int]
            /\ consumer'.phase = "idle"
        BY <1>1, <2>1, <2>3, <2>7, OpenMoves, Zenon
      <3>2. RingInv' BY <1>1, <2>1, <2>2, <2>4, <2>5, <3>1, Zenon DEF RingInv
      <3>3. WaitInv' /\ SleeperWillWake' BY <3>1, Zenon DEF WaitInv, SleeperWillWake
      <3> QED BY <3>1, <3>2, <3>3, Zenon DEF IndInv
    <2> QED BY <2>1, <2>6, <2>7, Zenon
  <1> QED BY <1>3, <1>4, <1>5, <1>6, Zenon

-----------------------------------------------------------------------------
(* The slot's reference moves to the new ring; the replaced one keeps one   *)
(* for the wake it owes.                                                    *)
LEMMA SwapStep ==
    ASSUME IndInv, NEW cap \in Capacities, SwapCapacity(cap)
    PROVE  IndInv'
  <1> DEFINE new == live + 1
  <1>1. ConsumerInv /\ RingInv /\ RefInv /\ WaitInv /\ SleeperWillWake BY Zenon DEF IndInv
  <1>2. /\ live' = new /\ need_wake' = need_wake /\ wake_work' = wake_work
        /\ writer' = writer /\ wakes' = wakes /\ attach' = attach /\ consumer' = consumer
        /\ attach.phase = "idle" /\ swapped = 0 /\ writer.phase = "idle"
        /\ live < MaxGeneration
        /\ generation' = [generation EXCEPT ![live] = new]
    BY Zenon DEF SwapCapacity, TopologyFree
  <1>3. \E w : write_pos' = [write_pos EXCEPT ![new] = w]
    BY Zenon DEF SwapCapacity
  <1>4. \/ /\ need_wake[live] /\ swapped' = live
           /\ futex_counter' = [futex_counter EXCEPT ![live] = @ + 1]
           /\ refs' = [refs EXCEPT ![new] = 1]
        \/ /\ ~need_wake[live] /\ swapped' = swapped
           /\ futex_counter' = futex_counter
           /\ refs' = [refs EXCEPT ![new] = 1, ![live] = @ - 1]
    BY Zenon DEF SwapCapacity
  <1>5. /\ live \in Generations /\ refs \in [Generations -> Int]
        /\ futex_counter \in [Generations -> Nat]
        /\ wake_work \in [Generations -> BOOLEAN]
        /\ DOMAIN write_pos = Generations /\ DOMAIN generation = Generations
        /\ \A g \in Generations : wake_work[g] => g <= live
    BY <1>1, Zenon DEF RingInv
  <1>6. /\ new \in Generations /\ live # new /\ 1..live \subseteq 1..new
        /\ live \in 0..new /\ 0 \in 0..new /\ new \notin 1..live /\ ~(new <= live)
        /\ \A g \in Generations : g <= live => g <= new
    BY <1>2, <1>5, GenerationFacts DEF Generations
  <1>7. ConsumerInv' BY <1>1, <1>2, <1>6, Zenon DEF ConsumerInv
  <1>8. /\ DOMAIN write_pos' = Generations /\ DOMAIN generation' = Generations
        /\ \A g \in Generations : g # new => write_pos'[g] = write_pos[g]
        /\ \A g \in Generations : g # live => generation'[g] = generation[g]
    BY <1>2, <1>3, <1>5, Zenon
  <1>9. /\ futex_counter' \in [Generations -> Nat]
        /\ need_wake[live] => futex_counter'[live] = futex_counter[live] + 1
        /\ \A g \in Generations : g # live => futex_counter'[g] = futex_counter[g]
        /\ ~need_wake[live] => futex_counter' = futex_counter
    BY <1>4, <1>5
  <1>10. /\ refs' \in [Generations -> Int] /\ refs'[new] = 1
         /\ need_wake[live] => refs'[live] = refs[live]
         /\ ~need_wake[live] => refs'[live] = refs[live] - 1
         /\ \A g \in Generations : g # live /\ g # new => refs'[g] = refs[g]
    BY <1>4, <1>5, <1>6
  <1>11. swapped' \in 0..live' BY <1>2, <1>4, <1>6, Zenon
  <1>12. RingInv'
    BY <1>1, <1>2, <1>5, <1>6, <1>8, <1>9, <1>10, <1>11, Zenon DEF RingInv, Attached
  <1>13. Attached => consumer.ring \in 1..live /\ consumer.ring \in Generations
    BY <1>1, <1>5, GenerationFacts DEF ConsumerInv, NoConsumer, Attached
  <1>14. RefInv'
    <2> SUFFICES ASSUME NEW h \in Generations PROVE refs'[h] = Holders(h)'
      BY Zenon DEF RefInv
    <2>1. refs[h] = Holders(h) BY <1>1, Zenon DEF RefInv
    <2>2. Holders(h)' = One(new = h) + One(Attached /\ consumer.ring = h)
                          + One(wake_work[h]) + One(swapped' = h)
      BY <1>2, Zenon DEF Holders, Attached, One
    <2>3. swapped # h BY <1>2, GenerationFacts, Zenon
    <2>4. One(swapped = h) = 0 BY <2>3, OneTypes, Zenon
    <2>5. CASE h = new
      <3>1. /\ ~(Attached /\ consumer.ring = h) /\ ~wake_work[h]
            /\ swapped' # h
        BY <1>2, <1>4, <1>5, <1>6, <1>13, <2>3, <2>5, Zenon
      <3>2. /\ One(new = h) = 1 /\ One(Attached /\ consumer.ring = h) = 0
            /\ One(wake_work[h]) = 0 /\ One(swapped' = h) = 0
        BY <2>5, <3>1, Zenon DEF One
      <3> QED BY <1>10, <2>2, <2>5, <3>2
    <2>6. CASE h = live
      <3>1. One(new = h) = 0 /\ One(live = h) = 1 BY <1>6, <2>6, Zenon DEF One
      <3>2. CASE need_wake[live]
        <4>1. One(swapped' = h) = 1 BY <1>4, <2>6, <3>2, Zenon DEF One
        <4> QED BY <1>10, <2>1, <2>2, <2>4, <2>6, <3>1, <3>2, <4>1, OneTypes DEF Holders
      <3>3. CASE ~need_wake[live]
        <4>1. One(swapped' = h) = 0 BY <1>4, <2>3, <3>3, Zenon DEF One
        <4> QED BY <1>10, <2>1, <2>2, <2>4, <2>6, <3>1, <3>3, <4>1, OneTypes DEF Holders
      <3> QED BY <3>2, <3>3, Zenon
    <2>7. CASE h # live /\ h # new
      <3>1. /\ One(new = h) = 0 /\ One(live = h) = 0 /\ One(swapped' = h) = 0
        BY <1>4, <2>3, <2>7, Zenon DEF One
      <3> QED BY <1>10, <2>1, <2>2, <2>4, <2>7, <3>1, OneTypes, Zenon DEF Holders
    <2> QED BY <2>5, <2>6, <2>7, Zenon
  <1>15. ASSUME Attached
         PROVE  /\ consumer.ring \in Generations
                /\ write_pos'[consumer.ring] = write_pos[consumer.ring]
                /\ consumer.ring # live =>
                      /\ futex_counter'[consumer.ring] = futex_counter[consumer.ring]
                      /\ Behind' <=> Behind
    <2>1. consumer.ring \in Generations /\ consumer.ring # new
      BY <1>6, <1>13, <1>15, Zenon
    <2>2. write_pos'[consumer.ring] = write_pos[consumer.ring] BY <1>8, <2>1, Zenon
    <2>3. ASSUME consumer.ring # live
          PROVE  /\ futex_counter'[consumer.ring] = futex_counter[consumer.ring]
                 /\ generation'[consumer.ring] = generation[consumer.ring]
      BY <1>8, <1>9, <2>1, <2>3, Zenon
    <2> QED BY <1>2, <2>1, <2>2, <2>3, Zenon DEF Behind, Stale
  <1>16. WaitInv'
    <2> SUFFICES ASSUME consumer.phase \in {"armed", "wait", "asleep"}
                 PROVE  /\ need_wake[consumer.ring]
                        /\ consumer.counter <= futex_counter'[consumer.ring]
                        /\ /\ consumer.phase = "wait" /\ Behind'
                           /\ consumer.counter = futex_counter'[consumer.ring]
                           => FALSE
      BY <1>2, Zenon DEF WaitInv
    <2>1. Attached BY Zenon DEF Attached
    <2>2. consumer.counter \in Nat
      BY <1>1 DEF ConsumerInv, NoConsumer, Waiting
    <2>3. /\ need_wake[consumer.ring]
          /\ consumer.counter <= futex_counter[consumer.ring]
          /\ ~(/\ consumer.phase = "wait" /\ Behind
               /\ consumer.counter = futex_counter[consumer.ring])
      BY <1>1, <1>2, Zenon DEF WaitInv
    <2>4. CASE consumer.ring = live
      <3>1. futex_counter[live] \in Nat BY <1>5, Zenon
      <3>2. /\ consumer.counter <= futex_counter'[live]
            /\ consumer.counter # futex_counter'[live]
        BY <1>9, <2>2, <2>3, <2>4, <3>1
      <3> QED BY <2>3, <2>4, <3>2, Zenon
    <2>5. CASE consumer.ring # live
      BY <1>15, <2>1, <2>3, <2>5, Zenon
    <2> QED BY <2>4, <2>5, Zenon
  <1>17. SleeperWillWake'
    <2> SUFFICES ASSUME consumer.phase = "asleep", Behind'
                 PROVE  \/ consumer.ring \in wakes \/ wake_work[consumer.ring]
                        \/ swapped' = consumer.ring
      BY <1>2, Zenon DEF SleeperWillWake, Behind
    <2>1. Attached BY Zenon DEF Attached
    <2>2. consumer.ring \in Generations /\ 0 \notin Generations
      BY <1>15, <2>1, GenerationFacts, Zenon
    <2>3. CASE consumer.ring = live
      BY <1>1, <1>4, <2>3, Zenon DEF WaitInv
    <2>4. CASE consumer.ring # live
      <3>1. Behind BY <1>15, <2>1, <2>4, Zenon
      <3>2. \/ consumer.ring \in wakes \/ wake_work[consumer.ring]
            \/ swapped = consumer.ring
        BY <1>1, <2>4, <3>1, Zenon DEF SleeperWillWake, Behind
      <3> QED BY <1>2, <2>2, <3>2, Zenon
    <2> QED BY <2>3, <2>4, Zenon
  <1> QED BY <1>7, <1>12, <1>14, <1>16, <1>17, Zenon DEF IndInv

-----------------------------------------------------------------------------
(* The consumer.                                                            *)

(* A step of the consumer on its ring that does not end up waiting.         *)
LEMMA ConsumerQuiet ==
    ASSUME IndInv, Attached, UNCHANGED consumerOnly,
           need_wake' \in [Generations -> BOOLEAN],
           ConsumerInv', Attached', consumer'.ring = consumer.ring,
           consumer'.phase \notin {"armed", "wait", "asleep"}
    PROVE  IndInv'
  <1>1. RingInv /\ RefInv BY Zenon DEF IndInv
  <1>2. /\ live' = live /\ refs' = refs /\ generation' = generation
        /\ write_pos' = write_pos /\ futex_counter' = futex_counter
        /\ wake_work' = wake_work /\ attach' = attach /\ swapped' = swapped
    BY Zenon DEF consumerOnly
  <1>3. RingInv' BY <1>1, <1>2, Zenon DEF RingInv
  <1>4. RefInv' BY <1>1, <1>2, SameHolders, Zenon
  <1>5. WaitInv' /\ SleeperWillWake' BY Zenon DEF WaitInv, SleeperWillWake
  <1> QED BY <1>3, <1>4, <1>5, Zenon DEF IndInv

LEMMA AttachedShape ==
    ASSUME IndInv, consumer.phase \in Phases
    PROVE  /\ Attached /\ consumer.ring \in 1..live /\ consumer.ring \in Generations
           /\ {"phase", "ring", "pos", "last"} \subseteq DOMAIN consumer
           /\ consumer.phase \in Waiting =>
                 "counter" \in DOMAIN consumer /\ consumer.counter \in Nat
           /\ consumer.phase \in {"copy", "verify"} =>
                 {"tail", "copied"} \subseteq DOMAIN consumer
           /\ need_wake \in [Generations -> BOOLEAN]
           /\ futex_counter[consumer.ring] \in Nat
  <1>1. consumer # NoConsumer BY DEF NoConsumer, Phases
  <1>2. ConsumerInv /\ RingInv BY Zenon DEF IndInv
  <1>3. Attached BY Zenon DEF Attached, Phases
  <1>4. /\ consumer.ring \in 1..live
        /\ {"phase", "ring", "pos", "last"} \subseteq DOMAIN consumer
        /\ consumer.phase \in Waiting =>
              "counter" \in DOMAIN consumer /\ consumer.counter \in Nat
        /\ consumer.phase \in {"copy", "verify"} =>
              {"tail", "copied"} \subseteq DOMAIN consumer
    BY <1>1, <1>2, Zenon DEF ConsumerInv
  <1>5. consumer.ring \in Generations BY <1>2, <1>4, GenerationFacts, Zenon DEF RingInv
  <1> QED BY <1>2, <1>3, <1>4, <1>5, Zenon DEF RingInv

(* A consumer back at the start of its loop.                                *)
LEMMA IdleShape ==
    ASSUME consumer.ring \in 1..live, live' = live, NEW p, NEW l,
           consumer' = [phase |-> "idle", ring |-> consumer.ring, pos |-> p, last |-> l]
    PROVE  /\ ConsumerInv' /\ Attached' /\ consumer'.ring = consumer.ring
           /\ consumer'.phase \notin {"armed", "wait", "asleep"}
  <1>1. consumer'.phase = "idle" /\ consumer'.ring = consumer.ring BY Zenon
  <1>2. {"phase", "ring", "pos", "last"} \subseteq DOMAIN consumer' BY Zenon
  <1>3. ConsumerInv' BY <1>1, <1>2, Zenon DEF ConsumerInv, Phases, Waiting
  <1> QED BY <1>1, <1>3, Zenon DEF Attached

(* It polls: it finds an event, or asks to be woken and remembers the       *)
(* counter.                                                                 *)
LEMMA PollStep == ASSUME IndInv, ConsumerPoll PROVE IndInv'
  <1> DEFINE g == consumer.ring
  <1>1. consumer.phase = "idle" /\ UNCHANGED consumerOnly BY Zenon DEF ConsumerPoll
  <1>2. consumer.phase \in Phases BY <1>1, Zenon DEF Phases
  <1>3. /\ Attached /\ g \in 1..live /\ g \in Generations
        /\ need_wake \in [Generations -> BOOLEAN] /\ futex_counter[g] \in Nat
    BY <1>2, AttachedShape, Zenon
  <1>4. /\ live' = live /\ refs' = refs /\ generation' = generation
        /\ write_pos' = write_pos /\ futex_counter' = futex_counter
        /\ wake_work' = wake_work /\ attach' = attach /\ swapped' = swapped
    BY <1>1, Zenon DEF consumerOnly
  <1>5. PICK p :
           \/ /\ consumer' = [phase |-> "copy", ring |-> g, pos |-> p,
                              last |-> consumer.last, tail |-> tail_pos[g],
                              copied |-> <<>>]
              /\ need_wake' = need_wake
           \/ /\ consumer' = [phase |-> "armed", ring |-> g, pos |-> p,
                              last |-> consumer.last, counter |-> futex_counter[g]]
              /\ need_wake' = [need_wake EXCEPT ![g] = TRUE]
    BY Zenon DEF ConsumerPoll
  <1>6. CASE /\ consumer' = [phase |-> "copy", ring |-> g, pos |-> p,
                             last |-> consumer.last, tail |-> tail_pos[g],
                             copied |-> <<>>]
             /\ need_wake' = need_wake
    <2>1. consumer'.phase = "copy" /\ consumer'.ring = g BY <1>6, Zenon
    <2>2. {"phase", "ring", "pos", "last", "tail", "copied"} \subseteq DOMAIN consumer'
      BY <1>6, Zenon
    <2>3. ConsumerInv' /\ Attached'
      BY <1>3, <1>4, <2>1, <2>2, Zenon DEF ConsumerInv, Phases, Waiting, Attached
    <2>4. consumer'.phase \notin {"armed", "wait", "asleep"} BY <2>1, Zenon
    <2> QED BY <1>1, <1>3, <1>6, <2>1, <2>3, <2>4, ConsumerQuiet, Zenon
  <1>7. CASE /\ consumer' = [phase |-> "armed", ring |-> g, pos |-> p,
                             last |-> consumer.last, counter |-> futex_counter[g]]
             /\ need_wake' = [need_wake EXCEPT ![g] = TRUE]
    <2>1. consumer'.phase = "armed" /\ consumer'.ring = g /\ consumer'.counter = futex_counter[g]
      BY <1>7, Zenon
    <2>2. {"phase", "ring", "pos", "last", "counter"} \subseteq DOMAIN consumer'
      BY <1>7, Zenon
    <2>3. ConsumerInv' /\ Attached'
      BY <1>3, <1>4, <2>1, <2>2, Zenon DEF ConsumerInv, Phases, Waiting, Attached
    <2>4. need_wake' \in [Generations -> BOOLEAN] /\ need_wake'[g]
      BY <1>3, <1>7, Zenon
    <2>5. RingInv /\ RefInv BY Zenon DEF IndInv
    <2>6. RingInv' BY <1>3, <1>4, <2>3, <2>4, <2>5, Zenon DEF RingInv
    <2>7. RefInv' BY <1>3, <1>4, <2>1, <2>3, <2>5, SameHolders, Zenon
    <2>8. futex_counter[g] <= futex_counter[g] BY <1>3
    <2>9. WaitInv' BY <1>4, <2>1, <2>4, <2>8, Zenon DEF WaitInv
    <2>10. SleeperWillWake' BY <2>1, Zenon DEF SleeperWillWake
    <2> QED BY <2>3, <2>6, <2>7, <2>9, <2>10, Zenon DEF IndInv
  <1> QED BY <1>5, <1>6, <1>7, Zenon

(* It copies and checks, taking no lock.                                    *)
LEMMA CopySteps == ASSUME IndInv, ConsumerCopy \/ ConsumerVerify PROVE IndInv'
  <1>1. CASE ConsumerCopy
    <2>1. /\ consumer.phase = "copy" /\ UNCHANGED consumerOnly /\ need_wake' = need_wake
          /\ \E c : \/ consumer' = [consumer EXCEPT !.copied = c, !.phase = "copy"]
                    \/ consumer' = [consumer EXCEPT !.copied = c, !.phase = "verify"]
      BY <1>1, Zenon DEF ConsumerCopy
    <2>2. PICK c : \E ph \in {"copy", "verify"} :
                consumer' = [consumer EXCEPT !.copied = c, !.phase = ph]
      BY <2>1, Zenon
    <2> PICK ph \in {"copy", "verify"} :
                consumer' = [consumer EXCEPT !.copied = c, !.phase = ph]
      BY <2>2, Zenon
    <2>3. consumer.phase \in Phases BY <2>1, Zenon DEF Phases
    <2>4. /\ Attached /\ consumer.ring \in 1..live
          /\ {"phase", "ring", "pos", "last"} \subseteq DOMAIN consumer
          /\ {"tail", "copied"} \subseteq DOMAIN consumer
          /\ need_wake \in [Generations -> BOOLEAN]
      BY <2>1, <2>3, AttachedShape, Zenon
    <2>5. /\ consumer'.phase = ph /\ consumer'.ring = consumer.ring
          /\ DOMAIN consumer' = DOMAIN consumer
      BY <2>4, Zenon
    <2>6. live' = live BY <2>1, Zenon DEF consumerOnly
    <2>7. ConsumerInv' /\ Attached'
      BY <2>4, <2>5, <2>6, Zenon DEF ConsumerInv, Phases, Waiting, Attached
    <2>8. consumer'.phase \notin {"armed", "wait", "asleep"} BY <2>5, Zenon
    <2> QED BY <2>1, <2>4, <2>5, <2>7, <2>8, ConsumerQuiet, Zenon
  <1>2. CASE ConsumerVerify
    <2>1. /\ consumer.phase = "verify" /\ UNCHANGED consumerOnly /\ need_wake' = need_wake
          /\ \E p, l : consumer' = [phase |-> "idle", ring |-> consumer.ring,
                                    pos |-> p, last |-> l]
      BY <1>2, Zenon DEF ConsumerVerify
    <2>2. consumer.phase \in Phases BY <2>1, Zenon DEF Phases
    <2>3. /\ Attached /\ consumer.ring \in 1..live
          /\ need_wake \in [Generations -> BOOLEAN]
      BY <2>2, AttachedShape, Zenon
    <2>4. live' = live BY <2>1, Zenon DEF consumerOnly
    <2>5. /\ ConsumerInv' /\ Attached' /\ consumer'.ring = consumer.ring
          /\ consumer'.phase \notin {"armed", "wait", "asleep"}
      BY <2>1, <2>3, <2>4, IdleShape, Zenon
    <2> QED BY <2>1, <2>3, <2>5, ConsumerQuiet, Zenon
  <1> QED BY <1>1, <1>2, Zenon

(* A consumer that resumes asks no longer to be woken.                      *)
LEMMA ResumeMoves ==
    ASSUME IndInv, consumer.phase \in Phases, UNCHANGED consumerOnly,
           consumer' = Resume(consumer),
           NEW b \in BOOLEAN, need_wake' = [need_wake EXCEPT ![consumer.ring] = b]
    PROVE  IndInv'
  <1>1. /\ Attached /\ consumer.ring \in 1..live
        /\ need_wake \in [Generations -> BOOLEAN]
    BY AttachedShape, Zenon
  <1>2. live' = live BY Zenon DEF consumerOnly
  <1>3. consumer' = [phase |-> "idle", ring |-> consumer.ring, pos |-> consumer.pos,
                     last |-> consumer.last]
    BY Zenon DEF Resume
  <1>4. /\ ConsumerInv' /\ Attached' /\ consumer'.ring = consumer.ring
        /\ consumer'.phase \notin {"armed", "wait", "asleep"}
    BY <1>1, <1>2, <1>3, IdleShape, Zenon
  <1>5. need_wake' \in [Generations -> BOOLEAN] BY <1>1, Zenon
  <1> QED BY <1>1, <1>4, <1>5, ConsumerQuiet, Zenon

(* A consumer that goes on to wait keeps what it remembers.                 *)
LEMMA WaitMoves ==
    ASSUME IndInv, consumer.phase \in {"armed", "wait"}, UNCHANGED consumerOnly,
           need_wake' = need_wake,
           NEW ph \in {"wait", "asleep"}, consumer' = [consumer EXCEPT !.phase = ph]
    PROVE  /\ ConsumerInv' /\ RingInv' /\ RefInv'
           /\ consumer'.phase = ph /\ consumer'.ring = consumer.ring
           /\ consumer'.counter = consumer.counter /\ consumer'.pos = consumer.pos
           /\ Behind' <=> Behind
           /\ need_wake'[consumer'.ring]
           /\ consumer'.counter <= futex_counter'[consumer'.ring]
  <1>1. consumer.phase \in Phases /\ consumer.phase \in Waiting BY Zenon DEF Phases, Waiting
  <1>2. /\ Attached /\ consumer.ring \in 1..live
        /\ {"phase", "ring", "pos", "last"} \subseteq DOMAIN consumer
        /\ "counter" \in DOMAIN consumer /\ consumer.counter \in Nat
    BY <1>1, AttachedShape, Zenon
  <1>3. /\ consumer'.phase = ph /\ consumer'.ring = consumer.ring
        /\ consumer'.counter = consumer.counter /\ consumer'.pos = consumer.pos
        /\ DOMAIN consumer' = DOMAIN consumer
    BY <1>2, Zenon
  <1>4. /\ live' = live /\ refs' = refs /\ generation' = generation
        /\ write_pos' = write_pos /\ futex_counter' = futex_counter
        /\ wake_work' = wake_work /\ attach' = attach /\ swapped' = swapped
    BY Zenon DEF consumerOnly
  <1>5. ConsumerInv' /\ Attached'
    BY <1>2, <1>3, <1>4, Zenon DEF ConsumerInv, Phases, Waiting, Attached
  <1>6. RingInv /\ RefInv /\ WaitInv BY Zenon DEF IndInv
  <1>7. RingInv' BY <1>2, <1>4, <1>5, <1>6, Zenon DEF RingInv
  <1>8. RefInv' BY <1>2, <1>3, <1>4, <1>5, <1>6, SameHolders, Zenon
  <1>9. Behind' <=> Behind BY <1>3, <1>4, Zenon DEF Behind, Stale
  <1>10. need_wake[consumer.ring] /\ consumer.counter <= futex_counter[consumer.ring]
    BY <1>6, Zenon DEF WaitInv
  <1> QED BY <1>3, <1>4, <1>5, <1>7, <1>8, <1>9, <1>10, Zenon

(* Having asked, it looks once more.                                        *)
LEMMA RecheckStep == ASSUME IndInv, ConsumerRecheck PROVE IndInv'
  <1>1. consumer.phase = "armed" /\ UNCHANGED consumerOnly BY Zenon DEF ConsumerRecheck
  <1>2. consumer.phase \in Phases BY <1>1, Zenon DEF Phases
  <1>3. /\ consumer.ring \in Generations /\ need_wake \in [Generations -> BOOLEAN]
    BY <1>2, AttachedShape, Zenon
  <1>4. CASE Behind
    <2>1. /\ consumer' = Resume(consumer)
          /\ need_wake' = [need_wake EXCEPT ![consumer.ring] = FALSE]
      BY <1>4, Zenon DEF ConsumerRecheck, Behind
    <2> QED BY <1>1, <1>2, <2>1, ResumeMoves, Zenon
  <1>5. CASE ~Behind
    <2>1. /\ consumer' = [consumer EXCEPT !.phase = "wait"]
          /\ need_wake' = [need_wake EXCEPT ![consumer.ring] = @]
      BY <1>5, Zenon DEF ConsumerRecheck, Behind
    <2>2. need_wake' = need_wake BY <1>3, <2>1, Zenon
    <2>3. /\ ConsumerInv' /\ RingInv' /\ RefInv'
          /\ consumer'.phase = "wait" /\ consumer'.ring = consumer.ring
          /\ Behind' <=> Behind
          /\ need_wake'[consumer'.ring]
          /\ consumer'.counter <= futex_counter'[consumer'.ring]
      BY <1>1, <2>1, <2>2, WaitMoves, Zenon
    <2>4. WaitInv' BY <1>5, <2>3, Zenon DEF WaitInv
    <2>5. SleeperWillWake' BY <2>3, Zenon DEF SleeperWillWake
    <2> QED BY <2>3, <2>4, <2>5, Zenon DEF IndInv
  <1> QED BY <1>4, <1>5, Zenon

(* It waits unless the counter has moved.                                   *)
LEMMA WaitStep == ASSUME IndInv, ConsumerWait PROVE IndInv'
  <1>1. consumer.phase = "wait" /\ UNCHANGED consumerOnly BY Zenon DEF ConsumerWait
  <1>2. consumer.phase \in Phases BY <1>1, Zenon DEF Phases
  <1>3. /\ consumer.ring \in Generations /\ need_wake \in [Generations -> BOOLEAN]
    BY <1>2, AttachedShape, Zenon
  <1>4. CASE futex_counter[consumer.ring] # consumer.counter
    <2>1. /\ consumer' = Resume(consumer)
          /\ need_wake' = [need_wake EXCEPT ![consumer.ring] = FALSE]
      BY <1>4, Zenon DEF ConsumerWait
    <2> QED BY <1>1, <1>2, <2>1, ResumeMoves, Zenon
  <1>5. CASE futex_counter[consumer.ring] = consumer.counter
    <2>1. /\ consumer' = [consumer EXCEPT !.phase = "asleep"]
          /\ need_wake' = [need_wake EXCEPT ![consumer.ring] = @]
      BY <1>5, Zenon DEF ConsumerWait
    <2>2. need_wake' = need_wake BY <1>3, <2>1, Zenon
    <2>3. /\ ConsumerInv' /\ RingInv' /\ RefInv'
          /\ consumer'.phase = "asleep" /\ consumer'.ring = consumer.ring
          /\ Behind' <=> Behind
          /\ need_wake'[consumer'.ring]
          /\ consumer'.counter <= futex_counter'[consumer'.ring]
      BY <1>1, <2>1, <2>2, WaitMoves, Zenon
    <2>4. WaitInv' BY <2>3, Zenon DEF WaitInv
    <2>5. Behind => writer.phase = "note" /\ live = consumer.ring
      BY <1>1, <1>5, Zenon DEF IndInv, WaitInv
    <2>6. writer' = writer /\ live' = live BY <1>1, Zenon DEF consumerOnly
    <2>7. SleeperWillWake' BY <2>3, <2>5, <2>6, Zenon DEF SleeperWillWake, Behind
    <2> QED BY <2>3, <2>4, <2>7, Zenon DEF IndInv
  <1> QED BY <1>4, <1>5, Zenon

LEMMA WokenStep == ASSUME IndInv, ConsumerWoken PROVE IndInv'
  <1>1. /\ consumer.phase = "woken" /\ UNCHANGED consumerOnly
        /\ consumer' = Resume(consumer)
        /\ need_wake' = [need_wake EXCEPT ![consumer.ring] = FALSE]
    BY Zenon DEF ConsumerWoken
  <1>2. consumer.phase \in Phases BY <1>1, Zenon DEF Phases
  <1> QED BY <1>1, <1>2, ResumeMoves, Zenon

(* The fd is closed, and its reference dropped.                             *)
LEMMA CloseStep == ASSUME IndInv, ConsumerClose PROVE IndInv'
  <1> DEFINE g == consumer.ring
  <1>1. ConsumerInv /\ RingInv /\ RefInv BY Zenon DEF IndInv
  <1>2. /\ live' = live /\ generation' = generation
        /\ write_pos' = write_pos /\ futex_counter' = futex_counter
        /\ need_wake' = need_wake /\ wake_work' = wake_work
        /\ attach' = attach /\ swapped' = swapped
        /\ Attached /\ consumer' = NoConsumer
        /\ refs' = [refs EXCEPT ![g] = @ - 1]
    BY Zenon DEF ConsumerClose, Put
  <1>3. live \in Generations /\ refs \in [Generations -> Int] BY <1>1, Zenon DEF RingInv
  <1>4. g \in Generations
    BY <1>1, <1>2, <1>3, GenerationFacts DEF ConsumerInv, NoConsumer, Attached
  <1>5. /\ refs' \in [Generations -> Int] /\ refs'[g] = refs[g] - 1
        /\ \A h \in Generations : h # g => refs'[h] = refs[h]
    BY <1>2, <1>3, <1>4
  <1>6. consumer'.phase = "detached" /\ ~Attached' BY <1>2, Zenon DEF NoConsumer, Attached
  <1>7. ConsumerInv' BY <1>2, Zenon DEF ConsumerInv
  <1>8. RingInv' BY <1>1, <1>2, <1>5, <1>6, Zenon DEF RingInv
  <1>9. RefInv'
    <2> SUFFICES ASSUME NEW h \in Generations PROVE refs'[h] = Holders(h)'
      BY Zenon DEF RefInv
    <2>1. refs[h] = Holders(h) BY <1>1, Zenon DEF RefInv
    <2>2. One(Attached' /\ consumer'.ring = h) = 0 BY <1>6, Zenon DEF One
    <2>3. Holders(h)' = One(live = h) + 0 + One(wake_work[h]) + One(swapped = h)
      BY <1>2, <2>2, Zenon DEF Holders
    <2>4. CASE h = g
      <3>1. One(Attached /\ consumer.ring = h) = 1 BY <1>2, <2>4, Zenon DEF One
      <3> QED BY <1>5, <2>1, <2>3, <2>4, <3>1, OneTypes DEF Holders
    <2>5. CASE h # g
      <3>1. One(Attached /\ consumer.ring = h) = 0 BY <2>5, Zenon DEF One
      <3> QED BY <1>5, <2>1, <2>3, <2>5, <3>1, OneTypes, Zenon DEF Holders
    <2> QED BY <2>4, <2>5, Zenon
  <1>10. WaitInv' /\ SleeperWillWake' BY <1>6, Zenon DEF WaitInv, SleeperWillWake
  <1> QED BY <1>7, <1>8, <1>9, <1>10, Zenon DEF IndInv

-----------------------------------------------------------------------------
LEMMA InitInv == Init => IndInv
  <1> SUFFICES ASSUME Init PROVE IndInv
    BY Zenon
  <1> USE GenerationFacts
  <1>1. /\ live = 1 /\ swapped = 0 /\ consumer = NoConsumer /\ attach = NoAttach
        /\ refs = [g \in Generations |-> IF g = 1 THEN 1 ELSE 0]
        /\ wake_work = [g \in Generations |-> FALSE]
        /\ need_wake = [g \in Generations |-> FALSE]
        /\ futex_counter = [g \in Generations |-> 0]
        /\ write_pos = [g \in Generations |-> 0]
        /\ generation = [g \in Generations |-> g]
    BY Zenon DEF Init
  <1>2. consumer.phase = "detached" /\ ~Attached /\ attach.phase = "idle"
    BY <1>1, Zenon DEF NoConsumer, NoAttach, Attached
  <1>3. ConsumerInv BY <1>1, Zenon DEF ConsumerInv
  <1>4. live \in Generations /\ swapped \in 0..live
    BY <1>1, RingAssumption DEF RingAssumption, Generations
  <1>5. refs \in [Generations -> Int] /\ futex_counter \in [Generations -> Nat]
    BY <1>1
  <1>6. attach.phase # "futex" BY <1>2, Zenon
  <1>7. RingInv
    BY <1>1, <1>2, <1>4, <1>5, <1>6, Zenon DEF RingInv
  <1>8. RefInv
    <2> SUFFICES ASSUME NEW g \in Generations PROVE refs[g] = Holders(g)
      BY Zenon DEF RefInv
    <2>1. One(Attached /\ consumer.ring = g) = 0 BY <1>2, Zenon DEF One
    <2>2. One(wake_work[g]) = 0 BY <1>1, Zenon DEF One
    <2>3. swapped # g BY <1>1, Zenon
    <2>4. One(swapped = g) = 0 BY <2>3, OneTypes, Zenon
    <2>5. refs[g] = One(live = g) BY <1>1, Zenon DEF One
    <2> QED BY <2>1, <2>2, <2>4, <2>5, OneTypes DEF Holders
  <1>9. WaitInv /\ SleeperWillWake BY <1>2, Zenon DEF WaitInv, SleeperWillWake
  <1> QED BY <1>3, <1>7, <1>8, <1>9, Zenon DEF IndInv

LEMMA StutterInv == ASSUME IndInv, UNCHANGED vars PROVE IndInv'
  <1>1. /\ live' = live /\ refs' = refs /\ generation' = generation
        /\ write_pos' = write_pos /\ futex_counter' = futex_counter
        /\ need_wake' = need_wake /\ wake_work' = wake_work /\ wakes' = wakes
        /\ attach' = attach /\ swapped' = swapped /\ consumer' = consumer
        /\ writer' = writer
    BY Zenon DEF vars, ringVars
  <1>2. ConsumerInv /\ RingInv /\ RefInv /\ WaitInv /\ SleeperWillWake BY Zenon DEF IndInv
  <1>3. ConsumerInv' BY <1>1, <1>2, Zenon DEF ConsumerInv
  <1>4. RingInv' BY <1>1, <1>2, Zenon DEF RingInv, Attached
  <1>5. RefInv' BY <1>1, <1>2, SameHolders, Zenon DEF Attached
  <1>6. WaitInv' BY <1>1, <1>2, Zenon DEF WaitInv, Behind, Stale
  <1>7. SleeperWillWake' BY <1>1, <1>2, Zenon DEF SleeperWillWake, Stale
  <1> QED BY <1>3, <1>4, <1>5, <1>6, <1>7, Zenon DEF IndInv

(* Every step of writers, consumer, attach and swap keeps the invariant.    *)
LEMMA NextInv == IndInv /\ [Next]_vars => IndInv'
  <1> SUFFICES ASSUME IndInv, [Next]_vars PROVE IndInv'
    BY Zenon
  <1>1. CASE \/ \E size \in KernelEvents, ctx \in Contexts : EmitKernel(size, ctx)
             \/ \E batch \in KernelBatches, ctx \in Contexts : EmitKernelBatch(batch, ctx)
             \/ \E batch \in StagedBatches : EmitStaged(batch)
             \/ WriteCell
    BY <1>1, EmitSteps, Zenon
  <1>2. CASE PublishWrite BY <1>2, PublishStep, Zenon
  <1>3. CASE NoteWake BY <1>3, NoteStep, Zenon
  <1>4. CASE \E g \in Generations : DirectWake(g) \/ WakeWork(g)
    BY <1>4, DirectStep, WakeWorkStep, Zenon
  <1>5. CASE AttachAgain BY <1>5, AttachAgainStep, Zenon
  <1>6. CASE AttachFirst \/ AttachStoreWrite \/ AttachStoreTail \/ AttachFinish
    BY <1>6, AttachSteps, Zenon
  <1>7. CASE \E cap \in Capacities : SwapCapacity(cap) BY <1>7, SwapStep, Zenon
  <1>8. CASE SwapWake BY <1>8, SwapWakeStep, Zenon
  <1>9. CASE ConsumerPoll BY <1>9, PollStep, Zenon
  <1>10. CASE ConsumerCopy \/ ConsumerVerify BY <1>10, CopySteps, Zenon
  <1>11. CASE ConsumerRecheck BY <1>11, RecheckStep, Zenon
  <1>12. CASE ConsumerWait BY <1>12, WaitStep, Zenon
  <1>13. CASE ConsumerWoken BY <1>13, WokenStep, Zenon
  <1>14. CASE ConsumerClose BY <1>14, CloseStep, Zenon
  <1>15. CASE UNCHANGED vars BY <1>15, StutterInv, Zenon
  <1> QED BY <1>1, <1>2, <1>3, <1>4, <1>5, <1>6, <1>7, <1>8, <1>9, <1>10, <1>11, <1>12,
             <1>13, <1>14, <1>15, Zenon DEF Next

LEMMA SpecInv == Spec => []IndInv
  BY InitInv, NextInv, PTL DEF Spec

(* A ring is freed when the last of the slot, the consumer's fd, the queued *)
(* wake and the swap lets go of it, and not before, whatever the writers,   *)
(* attaches and swaps do and however many rings the slot goes through.      *)
THEOREM RefsAreExact == Spec => []RefsExact
  <1>1. IndInv => RefsExact BY RefsFromHolders, Zenon DEF IndInv
  <1> QED BY <1>1, SpecInv, PTL

(* No wake is lost: a consumer asleep on a ring that holds an event it has  *)
(* not read, or that was replaced, has a writer, a work item or a swap that *)
(* is about to wake it.                                                     *)
THEOREM NoLostWake == Spec => []SleeperWillWake
  <1>1. IndInv => SleeperWillWake BY Zenon DEF IndInv
  <1> QED BY <1>1, SpecInv, PTL
=============================================================================
