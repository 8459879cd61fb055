------------------------------ MODULE KmesRing ------------------------------
(* The event ring of one CPU (kmes/kmes.c).                                 *)
(*                                                                          *)
(* Writers on the CPU, in task or softirq context, hold off preemption and  *)
(* bottom halves, so one writes at a time; consumers on other CPUs read the *)
(* ring through a shared mapping while it is being written.  A change of    *)
(* the configured capacity replaces the ring by one of the next generation  *)
(* under stop_machine.  Rings are reference counted: the slot, each         *)
(* consumer fd, a queued wake and a replaced ring that still owes a wake    *)
(* each hold a reference.                                                   *)
(*                                                                          *)
(* Sizes are counted in cells.  An event of n cells is written as the cells *)
(* <<sequence, n, 0>> .. <<sequence, n, n - 1>>; only cell 0 holds the      *)
(* event_size field the walks read.  A batch is the sequence of its events' *)
(* sizes, 0 for an event that is structurally invalid.                      *)
EXTENDS Integers, Sequences, FiniteSets, SequencesExt

CONSTANTS
    MaxGeneration,     \* bound: rings the slot goes through
    MaxSequence,       \* bound: sequence numbers handed out
    Capacities,        \* values of BufferCapacity, the first one in force
    FirstCapacity,
    KernelEvents,      \* sizes pkm_kmes_emit_kernel is called with
    KernelBatches,     \* batches pkm_kmes_emit_kernel_batch is called with
    StagedBatches,     \* batches that passed staging in the emit calls
    ConcurrentAttach   \* may a ring's first attach overlap a write to it?

Generations == 1..MaxGeneration
Contexts == {"task", "softirq"}

ASSUME RingAssumption ==
    /\ MaxGeneration \in Nat \ {0}
    /\ MaxSequence \in Nat
    /\ Capacities \subseteq Nat \ {0}
    /\ FirstCapacity \in Capacities
    /\ KernelEvents \subseteq Nat
    /\ \A b \in KernelBatches : b \in Seq(Nat) /\ b # <<>>
    /\ \A b \in StagedBatches : b \in Seq(Nat \ {0}) /\ b # <<>>
    /\ ConcurrentAttach \in BOOLEAN

VARIABLES
    live,        \* pkm_kmes_cpus[cpu].live, by the generation it was made with
    refs,        \* the fields of struct pkm_kmes_cpu_state, per ring
    generation,
    capacity,
    sequence,
    write_pos,
    tail_pos,
    dropped_events,
    futex_counter,
    data,
    producer,    \* is the shared producer page present?
    need_wake,   \* the consumer page's byte
    wake_work,   \* is the ring's work item queued?
    writer,      \* the writer that holds the CPU
    wakes,       \* rings a task writer has yet to wake after leaving
    attach,      \* the attach that holds pkm_kmes_topology_lock
    swapped,     \* the replaced ring the swap has yet to wake; 0 none
    consumer,    \* the consumer process
    log,         \* history: <<sequence, size>> of the events written
    skipped,     \* history: events the capacity swaps left behind
    torn,        \* history: a consumer took for clean what was no event
    resynced     \* history: a walk met a size it could not step over

ringVars == <<refs, generation, capacity, sequence, write_pos, tail_pos,
              dropped_events, futex_counter, data, producer, need_wake,
              wake_work>>
vars == <<live, ringVars, writer, wakes, attach, swapped, consumer, log,
          skipped, torn, resynced>>

-----------------------------------------------------------------------------
(* Cells and the events they hold.                                          *)

Cell == (0..MaxSequence) \X Nat \X Nat
Zero == <<0, 0, 0>>

EventCells(seq, size) == [i \in 1..size |-> <<seq, size, i - 1>>]

(* pkm_kmes_read_u32_at on the event_size field: the bytes of an event's    *)
(* interior are no size.                                                    *)
SizeAt(d, cap, pos) ==
    LET cell == d[pos % cap]
    IN  IF cell[3] = 0 THEN cell[2] ELSE 0

(* The guard of every walk over events: a size that can be stepped over.    *)
Steppable(size, cap, room) == size > 0 /\ size <= cap /\ size <= room

(* The sizes and sequence numbers met stepping from a position up to the    *)
(* end; a position that holds no event ends the walk with <<0, 0>>.         *)
EventsFrom(d, cap, from, end) ==
    LET walk[p \in Nat] ==
            IF p >= end THEN <<>>
            ELSE IF Steppable(SizeAt(d, cap, p), cap, end - p)
            THEN <<<<d[p % cap][1], SizeAt(d, cap, p)>>>>
                     \o walk[p + SizeAt(d, cap, p)]
            ELSE <<<<0, 0>>>>
    IN  walk[from]

Window(g) == EventsFrom(data[g], capacity[g], tail_pos[g], write_pos[g])

WellFormed(g) ==
    /\ tail_pos[g] <= write_pos[g]
    /\ write_pos[g] - tail_pos[g] <= capacity[g]
    /\ \A i \in DOMAIN Window(g) : Window(g)[i][2] > 0

-----------------------------------------------------------------------------
(* Reservation.                                                             *)

StructurallyValid(size, cap) == size > 0 /\ size <= cap \div 2

(* Bug: an event that is refused is not counted.                            *)
DropUncounted(drops) == drops

(* pkm_kmes_drop_event.                                                     *)
DropEvent(drops) == drops + 1

OwnEventSize(batch, i, cap) ==
    IF StructurallyValid(batch[i], cap) THEN batch[i] ELSE 0

(* Bug: past its own start the walk of a batch still reads sizes from the   *)
(* ring, where the batch has not been written yet.                          *)
ReserveReadsRing(g, from, pos, size, batch, limit) ==
    LET cap == capacity[g]
        walk[t \in Nat, own \in Nat, drops \in Nat] ==
            IF pos - t + size <= cap
            THEN [tail |-> t, own |-> own, drops |-> drops, resync |-> FALSE]
            ELSE IF ~Steppable(SizeAt(data[g], cap, t), cap, pos - t)
            THEN [tail |-> pos, own |-> own, drops |-> drops, resync |-> TRUE]
            ELSE walk[t + SizeAt(data[g], cap, t), own, drops + 1]
    IN  walk[from.tail, from.own, from.drops]

(* pkm_kmes_reserve_space_local: move the tail over the oldest events until *)
(* an event of the given size fits at pos.  Once the tail has passed        *)
(* write_pos, where the batch starts, it steps over the batch's own events, *)
(* of which those before index limit have been reserved.                    *)
Reserve(g, from, pos, size, batch, limit) ==
    LET cap == capacity[g]
        walk[t \in Nat, own \in Nat, drops \in Nat] ==
            IF pos - t + size <= cap
            THEN [tail |-> t, own |-> own, drops |-> drops, resync |-> FALSE]
            ELSE IF t >= write_pos[g]
            THEN IF own >= limit
                 THEN [tail |-> pos, own |-> own, drops |-> drops,
                       resync |-> TRUE]
                 ELSE LET n == OwnEventSize(batch, own + 1, cap)
                      IN  walk[t + n, own + 1, IF n = 0 THEN drops ELSE drops + 1]
            ELSE IF ~Steppable(SizeAt(data[g], cap, t), cap, pos - t)
            THEN [tail |-> pos, own |-> own, drops |-> drops, resync |-> TRUE]
            ELSE walk[t + SizeAt(data[g], cap, t), own, drops + 1]
    IN  walk[from.tail, from.own, from.drops]

(* The reservation pass over a whole batch, before anything is written.     *)
ReserveBatch(g, batch) ==
    LET cap == capacity[g]
        pass[i \in 0..Len(batch)] ==
            IF i = 0
            THEN [tail |-> tail_pos[g], own |-> 0, drops |-> 0,
                  resync |-> FALSE, pos |-> write_pos[g]]
            ELSE LET before == pass[i - 1]
                 IN  IF ~StructurallyValid(batch[i], cap)
                     THEN [before EXCEPT !.drops = DropEvent(@)]
                     ELSE LET r == Reserve(g, before, before.pos, batch[i],
                                           batch, i - 1)
                          IN  [tail |-> r.tail, own |-> r.own,
                               drops |-> r.drops,
                               resync |-> before.resync \/ r.resync,
                               pos |-> before.pos + batch[i]]
    IN  pass[Len(batch)]

(* The cells and the events the write pass puts down; an invalid event of a *)
(* batch takes a sequence number and no cells.                              *)
BatchEvents(batch, first, cap) ==
    SelectSeq([i \in DOMAIN batch |-> <<first + i - 1, batch[i]>>],
              LAMBDA e : StructurallyValid(e[2], cap))

BatchCells(batch, first, cap) ==
    FlattenSeq([i \in DOMAIN BatchEvents(batch, first, cap) |->
                   EventCells(BatchEvents(batch, first, cap)[i][1],
                              BatchEvents(batch, first, cap)[i][2])])

-----------------------------------------------------------------------------
(* Reference counts and wakes.                                              *)

(* pkm_kmes_futex_wake: every waiter on the ring's counter leaves its wait. *)
FutexWake(g, c) ==
    IF c.phase = "asleep" /\ c.ring = g THEN [c EXCEPT !.phase = "woken"] ELSE c

(* pkm_kmes_ring_put: a ring with no reference left is freed.               *)
Put(g) == refs' = [refs EXCEPT ![g] = @ - 1]

NoWriter == [phase |-> "idle"]
NoAttach == [phase |-> "idle"]
NoConsumer == [phase |-> "detached"]

Attached == consumer.phase # "detached"

Init ==
    /\ live = 1
    /\ refs = [g \in Generations |-> IF g = 1 THEN 1 ELSE 0]
    /\ generation = [g \in Generations |-> g]
    /\ capacity = [g \in Generations |-> FirstCapacity]
    /\ sequence = [g \in Generations |-> 0]
    /\ write_pos = [g \in Generations |-> 0]
    /\ tail_pos = [g \in Generations |-> 0]
    /\ dropped_events = [g \in Generations |-> 0]
    /\ futex_counter = [g \in Generations |-> 0]
    /\ data = [g \in Generations |-> [p \in 0..(FirstCapacity - 1) |-> Zero]]
    /\ producer = [g \in Generations |-> FALSE]
    /\ need_wake = [g \in Generations |-> FALSE]
    /\ wake_work = [g \in Generations |-> FALSE]
    /\ writer = NoWriter
    /\ wakes = {}
    /\ attach = NoAttach
    /\ swapped = 0
    /\ consumer = NoConsumer
    /\ log = <<>>
    /\ skipped = 0
    /\ torn = FALSE
    /\ resynced = FALSE

-----------------------------------------------------------------------------
(* Emission.  pkm_kmes_ring_enter keeps every other writer off the CPU      *)
(* until pkm_kmes_ring_exit.                                                *)

MayEnter ==
    /\ writer.phase = "idle"
    /\ ConcurrentAttach \/ attach.phase = "idle"

(* The writer between the publication of the tail and that of write_pos.    *)
Writing(kind, ctx, batch, first, cap) ==
    [phase |-> "write", kind |-> kind, ctx |-> ctx,
     cells |-> BatchCells(batch, first, cap), pos |-> write_pos[live],
     size |-> Len(BatchCells(batch, first, cap)),
     events |-> BatchEvents(batch, first, cap), seq |-> first + Len(batch) - 1]

(* pkm_kmes_emit_kernel: the sequence number is consumed whether or not the *)
(* event is valid.                                                          *)
EmitKernel(size, ctx) ==
    LET g == live
        res == Reserve(g, [tail |-> tail_pos[g], own |-> 0, drops |-> 0],
                       write_pos[g], size, <<size>>, 0)
    IN  /\ MayEnter
        /\ sequence[g] < MaxSequence
        /\ sequence' = [sequence EXCEPT ![g] = @ + 1]
        /\ IF StructurallyValid(size, capacity[g])
           THEN /\ dropped_events' = [dropped_events EXCEPT ![g] = @ + res.drops]
                /\ tail_pos' = [tail_pos EXCEPT ![g] = res.tail]
                /\ resynced' = (resynced \/ res.resync)
                /\ writer' = Writing("single", ctx, <<size>>,
                                     sequence[g] + 1, capacity[g])
           ELSE /\ dropped_events' = [dropped_events EXCEPT ![g] = DropEvent(@)]
                /\ UNCHANGED <<tail_pos, resynced, writer>>
        /\ UNCHANGED <<live, refs, generation, capacity, write_pos,
                       futex_counter, data, producer, need_wake, wake_work,
                       wakes, attach, swapped, consumer, log, skipped, torn>>

(* Bug: the tail is not published before the batch overwrites old events.   *)
BatchEnterKeepsTail(batch, ctx) ==
    LET g == live
        res == ReserveBatch(g, batch)
    IN  /\ MayEnter
        /\ sequence[g] + Len(batch) <= MaxSequence
        /\ BatchEvents(batch, 1, capacity[g]) # <<>>
        /\ dropped_events' = [dropped_events EXCEPT ![g] = @ + res.drops]
        /\ resynced' = (resynced \/ res.resync)
        /\ writer' = Writing("batch", ctx, batch, sequence[g] + 1,
                             capacity[g])
        /\ UNCHANGED <<live, refs, generation, capacity, sequence, write_pos,
                       tail_pos, futex_counter, data, producer, need_wake,
                       wake_work, wakes, attach, swapped, consumer, log,
                       skipped, torn>>

(* The common part of the two batch paths: reserve for the whole batch,     *)
(* publish the tail, then write.                                            *)
BatchEnter(batch, ctx) ==
    LET g == live
        res == ReserveBatch(g, batch)
    IN  /\ MayEnter
        /\ sequence[g] + Len(batch) <= MaxSequence
        /\ dropped_events' = [dropped_events EXCEPT ![g] = @ + res.drops]
        /\ resynced' = (resynced \/ res.resync)
        /\ IF BatchEvents(batch, 1, capacity[g]) = <<>>
           THEN /\ sequence' = [sequence EXCEPT ![g] = @ + Len(batch)]
                /\ UNCHANGED <<tail_pos, writer>>
           ELSE /\ tail_pos' = [tail_pos EXCEPT ![g] = res.tail]
                /\ writer' = Writing("batch", ctx, batch,
                                     sequence[g] + 1, capacity[g])
                /\ UNCHANGED sequence
        /\ UNCHANGED <<live, refs, generation, capacity, write_pos,
                       futex_counter, data, producer, need_wake, wake_work,
                       wakes, attach, swapped, consumer, log, skipped, torn>>

(* pkm_kmes_emit_kernel_batch.                                              *)
EmitKernelBatch(batch, ctx) == BatchEnter(batch, ctx)

(* pkm_kmes_emit_staged_events: the sizes passed staging against the        *)
(* capacity of that time; the batch is refused whole when the ring found    *)
(* here is too small for one of them.                                       *)
EmitStaged(batch) ==
    /\ \A i \in DOMAIN batch : batch[i] <= capacity[live] \div 2
    /\ BatchEnter(batch, "task")

(* pkm_kmes_write_event_at, one cell: a single event is placed where        *)
(* cpu->write_pos is at the call, a batch where it was at the start.        *)
WriteCell ==
    LET g == live
        first == writer.size = Len(writer.cells)
        pos == IF writer.kind = "single" /\ first THEN write_pos[g] ELSE writer.pos
    IN  /\ writer.phase = "write"
        /\ writer.cells # <<>>
        /\ data' = [data EXCEPT ![g][pos % capacity[g]] = Head(writer.cells)]
        /\ writer' = [writer EXCEPT !.cells = Tail(@), !.pos = pos + 1]
        /\ UNCHANGED <<live, refs, generation, capacity, sequence, write_pos,
                       tail_pos, dropped_events, futex_counter, producer,
                       need_wake, wake_work, wakes, attach, swapped, consumer,
                       log, skipped, torn, resynced>>

(* pkm_kmes_store_write_pos after the last byte: the events become visible. *)
PublishWrite ==
    LET g == live
    IN  /\ writer.phase = "write"
        /\ writer.cells = <<>>
        /\ write_pos' = [write_pos EXCEPT ![g] =
               IF writer.kind = "single" THEN @ + writer.size ELSE writer.pos]
        /\ sequence' = [sequence EXCEPT ![g] =
               IF writer.kind = "single" THEN @ ELSE writer.seq]
        /\ log' = log \o writer.events
        /\ writer' = [phase |-> "note", ctx |-> writer.ctx]
        /\ UNCHANGED <<live, refs, generation, capacity, tail_pos,
                       dropped_events, futex_counter, data, producer,
                       need_wake, wake_work, wakes, attach, swapped, consumer,
                       skipped, torn, resynced>>

(* Bug: a deferred wake takes no reference.                                 *)
DeferWakeWithoutRef(g) ==
    /\ wake_work' = [wake_work EXCEPT ![g] = TRUE]
    /\ UNCHANGED refs

(* Bug: a writer outside task context leaves the wake to the next writer.   *)
DeferWakeToNobody(g) == UNCHANGED <<wake_work, refs>>

(* A writer outside task context hands the wake, with a reference taken in  *)
(* the ring section, to the ring's work item; queue_work finds it queued    *)
(* already or not.                                                          *)
DeferWake(g) ==
    /\ wake_work' = [wake_work EXCEPT ![g] = TRUE]
    /\ refs' = [refs EXCEPT ![g] = IF wake_work[g] THEN @ ELSE @ + 1]

(* pkm_kmes_note_wake, pkm_kmes_ring_exit and pkm_kmes_wake_after_write: a  *)
(* task writer wakes the consumer itself, after leaving the ring section.   *)
NoteWake ==
    LET g == live
    IN  /\ writer.phase = "note"
        /\ IF need_wake[g]
           THEN /\ futex_counter' = [futex_counter EXCEPT ![g] = @ + 1]
                /\ IF writer.ctx = "task"
                   THEN /\ wakes' = wakes \cup {g}
                        /\ UNCHANGED <<wake_work, refs>>
                   ELSE /\ DeferWake(g)
                        /\ UNCHANGED wakes
           ELSE UNCHANGED <<futex_counter, wakes, wake_work, refs>>
        /\ writer' = NoWriter
        /\ UNCHANGED <<live, generation, capacity, sequence, write_pos,
                       tail_pos, dropped_events, data, producer, need_wake,
                       attach, swapped, consumer, log, skipped, torn,
                       resynced>>

(* The task writer's pkm_kmes_futex_wake, after the ring section.           *)
DirectWake(g) ==
    /\ g \in wakes
    /\ wakes' = wakes \ {g}
    /\ consumer' = FutexWake(g, consumer)
    /\ UNCHANGED <<live, ringVars, writer, attach, swapped, log, skipped,
                   torn, resynced>>

(* pkm_kmes_wake_workfn.                                                    *)
WakeWork(g) ==
    /\ wake_work[g]
    /\ wake_work' = [wake_work EXCEPT ![g] = FALSE]
    /\ consumer' = FutexWake(g, consumer)
    /\ Put(g)
    /\ UNCHANGED <<live, generation, capacity, sequence, write_pos, tail_pos,
                   dropped_events, futex_counter, data, producer, need_wake,
                   writer, wakes, attach, swapped, log, skipped, torn,
                   resynced>>



-----------------------------------------------------------------------------
(* Attaching a consumer, under pkm_kmes_topology_lock.                      *)

TopologyFree == attach.phase = "idle" /\ swapped = 0

(* anon_inode_getfd: the fd holds the ring, and the consumer starts at the  *)
(* oldest event.                                                            *)
OpenConsumer(g, tail) ==
    /\ refs' = [refs EXCEPT ![g] = @ + 1]
    /\ consumer' = [phase |-> "idle", ring |-> g, pos |-> tail, last |-> 0]

(* pkm_kmes_attach_core, when the ring's producer page exists already.      *)
AttachAgain ==
    /\ ~Attached
    /\ TopologyFree
    /\ producer[live]
    /\ OpenConsumer(live, tail_pos[live])
    /\ UNCHANGED <<live, generation, capacity, sequence, write_pos, tail_pos,
                   dropped_events, futex_counter, data, producer, need_wake,
                   wake_work, writer, wakes, attach, swapped, log, skipped,
                   torn, resynced>>

(* The first attach of a ring: pkm_kmes_alloc_producer_page publishes the   *)
(* shared page, then pkm_kmes_init_metadata_pages stores write_pos,         *)
(* tail_pos and futex_counter again, each read from the ring and written    *)
(* back to the ring and to both pages.                                      *)
AttachFirst ==
    /\ ~Attached
    /\ TopologyFree
    /\ ~producer[live]
    /\ ConcurrentAttach \/ writer.phase = "idle"
    /\ producer' = [producer EXCEPT ![live] = TRUE]
    /\ attach' = [phase |-> "write", value |-> write_pos[live]]
    /\ UNCHANGED <<live, refs, generation, capacity, sequence, write_pos,
                   tail_pos, dropped_events, futex_counter, data, need_wake,
                   wake_work, writer, wakes, swapped, consumer, log, skipped,
                   torn, resynced>>

AttachStoreWrite ==
    /\ attach.phase = "write"
    /\ write_pos' = [write_pos EXCEPT ![live] = attach.value]
    /\ attach' = [phase |-> "tail", value |-> tail_pos[live]]
    /\ UNCHANGED <<live, refs, generation, capacity, sequence, tail_pos,
                   dropped_events, futex_counter, data, producer, need_wake,
                   wake_work, writer, wakes, swapped, consumer, log, skipped,
                   torn, resynced>>

AttachStoreTail ==
    /\ attach.phase = "tail"
    /\ tail_pos' = [tail_pos EXCEPT ![live] = attach.value]
    /\ attach' = [phase |-> "futex", value |-> futex_counter[live]]
    /\ UNCHANGED <<live, refs, generation, capacity, sequence, write_pos,
                   dropped_events, futex_counter, data, producer, need_wake,
                   wake_work, writer, wakes, swapped, consumer, log, skipped,
                   torn, resynced>>

(* The last store, and the fd; with no fd the reference is dropped again    *)
(* and the producer page stays.                                             *)
AttachFinish ==
    /\ attach.phase = "futex"
    /\ futex_counter' = [futex_counter EXCEPT ![live] = attach.value]
    /\ attach' = NoAttach
    /\ \/ OpenConsumer(live, tail_pos[live])
       \/ UNCHANGED <<refs, consumer>>
    /\ UNCHANGED <<live, generation, capacity, sequence, write_pos, tail_pos,
                   dropped_events, data, producer, need_wake, wake_work,
                   writer, wakes, swapped, log, skipped, torn, resynced>>

-----------------------------------------------------------------------------
(* pkm_kmes_swap_capacity_locked.                                           *)

SizeOf(events) == FoldSeq(LAMBDA e, sum : e[2] + sum, 0, events)

(* Bug: a smaller ring takes the oldest events that fit.                    *)
MigratedOldest(events, cap) ==
    LET fits == {i \in 0..Len(events) : SizeOf(SubSeq(events, 1, i)) <= cap}
    IN  SubSeq(events, 1, CHOOSE i \in fits : \A j \in fits : j <= i)

(* The events pkm_kmes_prepare_swap_ring copies: it skips from the oldest   *)
(* until the rest fits.                                                     *)
Migrated(events, cap) ==
    LET fits == {i \in 1..(Len(events) + 1) :
                    SizeOf(SubSeq(events, i, Len(events))) <= cap}
    IN  SubSeq(events, CHOOSE i \in fits : \A j \in fits : i <= j, Len(events))

(* The new ring's bytes: the copied events from position 0.                 *)
MigratedData(events, cap) ==
    LET cells == FlattenSeq([i \in DOMAIN events |->
                                EventCells(events[i][1], events[i][2])])
    IN  [p \in 0..(cap - 1) |-> IF p < Len(cells) THEN cells[p + 1] ELSE Zero]

(* stop_machine waits for a writer to leave its ring section.  Every ring   *)
(* is prepared before any is published; the slot's reference moves to the   *)
(* new ring; a replaced ring whose consumer waits keeps one until it is     *)
(* woken.                                                                   *)
SwapCapacity(cap) ==
    LET old == live
        new == live + 1
        kept == Migrated(Window(old), cap)
    IN  /\ TopologyFree
        /\ writer.phase = "idle"
        /\ live < MaxGeneration
        /\ cap # capacity[old]
        /\ WellFormed(old)
        /\ live' = new
        /\ capacity' = [capacity EXCEPT ![new] = cap]
        /\ data' = [data EXCEPT ![new] = MigratedData(kept, cap)]
        /\ sequence' = [sequence EXCEPT ![new] = sequence[old]]
        /\ dropped_events' = [dropped_events EXCEPT ![new] = dropped_events[old]]
        /\ tail_pos' = [tail_pos EXCEPT ![new] = 0]
        /\ write_pos' = [write_pos EXCEPT ![new] = SizeOf(kept)]
        /\ generation' = [generation EXCEPT ![old] = new]
        /\ skipped' = skipped + Len(Window(old)) - Len(kept)
        /\ IF need_wake[old]
           THEN /\ futex_counter' = [futex_counter EXCEPT ![old] = @ + 1]
                /\ swapped' = old
                /\ refs' = [refs EXCEPT ![new] = 1]
           ELSE /\ refs' = [refs EXCEPT ![new] = 1, ![old] = @ - 1]
                /\ UNCHANGED <<futex_counter, swapped>>
        /\ UNCHANGED <<producer, need_wake, wake_work, writer, wakes, attach,
                       consumer, log, torn, resynced>>

(* After stop_machine, still under the lock: wake the replaced ring's       *)
(* consumer and drop the reference kept for it.                             *)
SwapWake ==
    /\ swapped # 0
    /\ consumer' = FutexWake(swapped, consumer)
    /\ Put(swapped)
    /\ swapped' = 0
    /\ UNCHANGED <<live, generation, capacity, sequence, write_pos, tail_pos,
                   dropped_events, futex_counter, data, producer, need_wake,
                   wake_work, writer, wakes, attach, log, skipped, torn,
                   resynced>>

-----------------------------------------------------------------------------
(* The consumer, a user process: it reads through its mapping whatever is   *)
(* there, and writes only need_wake.                                        *)

consumerOnly == <<live, refs, generation, capacity, sequence, write_pos,
                  tail_pos, dropped_events, futex_counter, data, producer,
                  wake_work, writer, wakes, attach, swapped, log, skipped,
                  resynced>>

Stale == generation[consumer.ring] # consumer.ring

(* Look for an event at or after the tail; if there is none, ask to be      *)
(* woken and remember the counter.                                          *)
ConsumerPoll ==
    LET g == consumer.ring
        pos == IF consumer.pos < tail_pos[g] THEN tail_pos[g] ELSE consumer.pos
    IN  /\ consumer.phase = "idle"
        /\ ~Stale
        /\ IF pos < write_pos[g]
           THEN /\ consumer' = [phase |-> "copy", ring |-> g, pos |-> pos,
                                last |-> consumer.last, tail |-> tail_pos[g],
                                copied |-> <<>>]
                /\ UNCHANGED need_wake
           ELSE /\ consumer' = [phase |-> "armed", ring |-> g, pos |-> pos,
                                last |-> consumer.last,
                                counter |-> futex_counter[g]]
                /\ need_wake' = [need_wake EXCEPT ![g] = TRUE]
        /\ UNCHANGED <<consumerOnly, torn>>

(* Copy the next cell of the event; its first cell says how many there are. *)
ConsumerCopy ==
    LET g == consumer.ring
        n == Len(consumer.copied)
        cell == data[g][(consumer.pos + n) % capacity[g]]
        copied == Append(consumer.copied, cell)
    IN  /\ consumer.phase = "copy"
        /\ consumer' = [consumer EXCEPT !.copied = copied,
               !.phase = IF n + 1 < copied[1][2] THEN "copy" ELSE "verify"]
        /\ UNCHANGED <<consumerOnly, need_wake, torn>>

IsEvent(copied) == copied = EventCells(copied[1][1], copied[1][2])

(* A tail that has not moved means that nothing copied was overwritten.     *)
ConsumerVerify ==
    LET g == consumer.ring
        event == <<consumer.copied[1][1], consumer.copied[1][2]>>
        clean == /\ IsEvent(consumer.copied)
                 /\ event \in ToSet(log)
                 /\ event[1] > consumer.last
    IN  /\ consumer.phase = "verify"
        /\ IF tail_pos[g] = consumer.tail
           THEN /\ torn' = (torn \/ ~clean)
                /\ consumer' = [phase |-> "idle", ring |-> g,
                                pos |-> consumer.pos + event[2],
                                last |-> event[1]]
           ELSE /\ consumer' = [phase |-> "idle", ring |-> g,
                                pos |-> consumer.pos, last |-> consumer.last]
                /\ UNCHANGED torn
        /\ UNCHANGED <<consumerOnly, need_wake>>

Resume(c) == [phase |-> "idle", ring |-> c.ring, pos |-> c.pos, last |-> c.last]

(* Having asked, look once more before waiting.                             *)
ConsumerRecheck ==
    LET g == consumer.ring
        again == Stale \/ consumer.pos < write_pos[g]
    IN  /\ consumer.phase = "armed"
        /\ consumer' = IF again THEN Resume(consumer)
                       ELSE [consumer EXCEPT !.phase = "wait"]
        /\ need_wake' = [need_wake EXCEPT ![g] = IF again THEN FALSE ELSE @]
        /\ UNCHANGED <<consumerOnly, torn>>

(* futex_wait returns at once if the counter has moved.                     *)
ConsumerWait ==
    LET g == consumer.ring
        moved == futex_counter[g] # consumer.counter
    IN  /\ consumer.phase = "wait"
        /\ consumer' = IF moved THEN Resume(consumer)
                       ELSE [consumer EXCEPT !.phase = "asleep"]
        /\ need_wake' = [need_wake EXCEPT ![g] = IF moved THEN FALSE ELSE @]
        /\ UNCHANGED <<consumerOnly, torn>>

ConsumerWoken ==
    /\ consumer.phase = "woken"
    /\ consumer' = Resume(consumer)
    /\ need_wake' = [need_wake EXCEPT ![consumer.ring] = FALSE]
    /\ UNCHANGED <<consumerOnly, torn>>

(* The fd is closed, because the ring is stale or because the process ends; *)
(* need_wake stays as it was.                                               *)
ConsumerClose ==
    /\ Attached
    /\ consumer' = NoConsumer
    /\ Put(consumer.ring)
    /\ UNCHANGED <<live, generation, capacity, sequence, write_pos, tail_pos,
                   dropped_events, futex_counter, data, producer, need_wake,
                   wake_work, writer, wakes, attach, swapped, log, skipped,
                   torn, resynced>>

-----------------------------------------------------------------------------
Next ==
    \/ \E size \in KernelEvents, ctx \in Contexts : EmitKernel(size, ctx)
    \/ \E batch \in KernelBatches, ctx \in Contexts : EmitKernelBatch(batch, ctx)
    \/ \E batch \in StagedBatches : EmitStaged(batch)
    \/ WriteCell
    \/ PublishWrite
    \/ NoteWake
    \/ \E g \in Generations : DirectWake(g) \/ WakeWork(g)
    \/ AttachAgain
    \/ AttachFirst
    \/ AttachStoreWrite
    \/ AttachStoreTail
    \/ AttachFinish
    \/ \E cap \in Capacities : SwapCapacity(cap)
    \/ SwapWake
    \/ ConsumerPoll
    \/ ConsumerCopy
    \/ ConsumerVerify
    \/ ConsumerRecheck
    \/ ConsumerWait
    \/ ConsumerWoken
    \/ ConsumerClose

Spec == Init /\ [][Next]_vars

-----------------------------------------------------------------------------
(* Properties.                                                              *)

(* Type invariant of the rings and of the roles of writer, attach and       *)
(* consumer.                                                                *)
TypeOK ==
    /\ live \in Generations
    /\ refs \in [Generations -> Nat]
    /\ generation \in [Generations -> Generations]
    /\ capacity \in [Generations -> Capacities]
    /\ sequence \in [Generations -> 0..MaxSequence]
    /\ write_pos \in [Generations -> Nat]
    /\ tail_pos \in [Generations -> Nat]
    /\ dropped_events \in [Generations -> 0..MaxSequence]
    /\ futex_counter \in [Generations -> Nat]
    /\ \A g \in Generations : data[g] \in [0..(capacity[g] - 1) -> Cell]
    /\ producer \in [Generations -> BOOLEAN]
    /\ need_wake \in [Generations -> BOOLEAN]
    /\ wake_work \in [Generations -> BOOLEAN]
    /\ writer.phase \in {"idle", "write", "note"}
    /\ wakes \subseteq Generations
    /\ attach.phase \in {"idle", "write", "tail", "futex"}
    /\ swapped \in 0..MaxGeneration
    /\ consumer.phase \in {"detached", "idle", "copy", "verify", "armed",
                           "wait", "asleep", "woken"}
    /\ torn \in BOOLEAN
    /\ resynced \in BOOLEAN

(* At every instant, the middle of a wrapping batch included, what lies     *)
(* between the published tail and the published write_pos is a run of whole *)
(* events, the newest ones written, in order: the tail is published before  *)
(* the bytes it gives up are overwritten, and write_pos after.              *)
WindowIsNewest ==
    tail_pos[live] <= write_pos[live] => IsSuffix(Window(live), log)

(* A consumer that saves the tail, copies an event and finds the tail       *)
(* unmoved has copied one whole event, newer than the last it took: the     *)
(* drain loop the comment in pkm_kmes_emit_kernel_batch describes.          *)
CleanReadsIntact == ~torn

(* The walk that makes room never meets a size it cannot step over, neither *)
(* in the ring nor past its own start in a batch longer than the ring, so   *)
(* the corruption guard never discards the surviving window.                *)
NoResync == ~resynced

(* Every sequence number is accounted for: its event is in the window, was  *)
(* counted in dropped_events, or was left behind by a capacity swap.        *)
DropsAccounted ==
    writer.phase = "idle" =>
        sequence[live] = Len(Window(live)) + dropped_events[live] + skipped

(* A ring's reference count is the number of its holders: the slot, the     *)
(* consumer's fd, the queued wake, the swap that has yet to wake it.  It is *)
(* freed when the last of them lets go and not before.                      *)
RefsExact ==
    \A g \in Generations :
        refs[g] = Cardinality({h \in {"slot", "fd", "work", "swap"} :
                     \/ h = "slot" /\ live = g
                     \/ h = "fd" /\ Attached /\ consumer.ring = g
                     \/ h = "work" /\ wake_work[g]
                     \/ h = "swap" /\ swapped = g})

(* A consumer asleep on a ring that holds events it has not read, or that   *)
(* has been replaced, is about to be woken: by the writer, which has still  *)
(* to look at need_wake or to wake, by the work item or by the swap.        *)
SleeperWillWake ==
    LET g == consumer.ring
    IN  consumer.phase = "asleep" /\ (Stale \/ consumer.pos < write_pos[g]) =>
            \/ writer.phase = "note" /\ live = g
            \/ g \in wakes
            \/ wake_work[g]
            \/ swapped = g

(* The tail of a ring moves forward only.                                   *)
TailMonotone ==
    [][\A g \in Generations : g <= live => tail_pos'[g] >= tail_pos[g]]_vars

=============================================================================
