# A TLA+ model of PKM

PKM, the Peios kernel module, is a Linux security module written in C and Rust.
This directory holds TLA+ models of the parts of it in which several threads,
user-space daemons and deferred work share state, the TLC configurations that
check them on small instances, and theorems, with proofs TLAPS checks, that hold
for every instance. `PROJECT.json` lists the components, the runs, the mutants
that show each property can fail, the lines each definition models, the findings,
the hazards and the theorems.

- [The system](#the-system)
- [The modules and the code](#the-modules-and-the-code)
- [What the runs check](#what-the-runs-check)
- [Findings](#findings)
- [What is proved](#what-is-proved)
- [What is not modelled](#what-is-not-modelled)
- [Plan](#plan)

Running it:

    tlc -workers 2 -config SourceDevice.cfg MCSourceDevice
    tlapm SourceDeviceProofs.tla

## The system

PKM has five subsystems, four of them with a core of pure functions in Rust.

| Part | State it owns | Operations | Who else touches it |
|---|---|---|---|
| **LCS**, the layered registry (`lcs/`, `crates/lcs-core`) | source slots and open source files, request queues and in-flight records, the sequence counter, transactions, key descriptors and their watches, the layer table | register, read and write of the source device; key operations; transactions; backup and restore; layer deletion | source daemons, timers, work items; NTFE and KMES watch keys of it |
| **KMES**, the event log (`kmes/`, `kacs/kmes_rate.c`) | one ring per CPU in memory shared with consumers, the rate buckets, the event policy | emit (single, batch, from system calls), attach, capacity change | consumers through a mapping and a futex; every other part emits |
| **KACS**, access control (`kacs/`, `crates/kacs-core`) | tokens, logon sessions, process state, cached descriptors, conveyed identities, reserved ports | the LSM hooks, token and descriptor system calls | every process; StrataFS during copy-up |
| **NTFE**, the network filter (`ntfe/`, `crates/ntfe`, `crates/pnp-core`) | published rule forests, counter tables, a sentence cache on each connection | packet hooks, policy ingest from the registry, reports | LCS notifies it of changes; packets on every CPU |
| **StrataFS** (`stratafs/`, `crates/stratafs-core`) | an overlay of directory trees, directory caches | lookup, open, copy-up, rename | KACS checks every access |

The rest of the repository is interface (`uapi/`), data (`evman/`, `regman/`,
`regim/`), generators (`tools/`) and the kernel patches and build
(`kernel/`, `build/`, `packages.pekit`).

How they interact, where it matters for correctness:

1. A registry operation is a *round trip*: the kernel thread queues a request on
   the file of the source that serves the hive, sleeps, and is woken by the write
   of a source thread, by the source's going down, by its deadline or by a signal.
   What the source has done after the caller left is *late* and still has to be
   published to watchers and generations, by the source's own thread.
2. A transaction is bound to one source at its first mutation. Users, a lifetime
   timer in softirq, late answers, a source that goes down and a layer deletion
   each end it; two levels of locks (`registry_lock`, `bind_lock`) are held
   across round trips.
3. Every entry a source stores carries a sequence from one counter, and the
   newest wins. A restore replays a backup at an offset of that counter and keeps
   a gate shut meanwhile.
4. Every emitter writes the ring of its CPU without a lock shared with consumers.
5. The kernel reads some registry keys itself. When a source registers, a
   *bootstrap* reads them one after the other and arms internal watches; a write
   delivers its watch events inside the writer's own call, which re-reads a key at
   once, queues a delayed re-walk, or runs the bootstrap again.
6. NTFE judges a flow once and caches the verdict on the connection. Packets read
   the cache without a lock while other CPUs rewrite it, and policies and network
   contexts are published meanwhile.
7. Every access goes through one decision of `crates/kacs-core`, a pipeline of
   privileges, labels, up to three walks of an access list and central policies,
   in which a later stage may undo what an earlier one decided.

### What must be right, and what makes it hard

| Component | It is correct when | What is hard about it |
|---|---|---|
| Sequence counter | no two undecided writes share a sequence; what is issued outranks what is stored; a read refuses only what a write or a restore stored while it ran | registrations in any order after a reboot, commits decided late, a counter captured before a round trip and used after it, the end of the 64-bit range |
| Source device | a completion only reaches a live caller; nobody waits on a lost record; the effects of a mutation happen once; the limit holds and no wakeup is lost; every round trip ends | a response is delivered in three sections, and the caller may leave, and the source go down and come back, between any two of them |
| Transactions | one final state, published at most once and only if the source committed; nothing leaked or freed early; one audit record; no deadlock | a timeout racing a late answer, walks that take every lock, failures halfway through publishing |
| Event ring | a reader never takes a torn event for a whole one; every loss is counted; no sleeper is forgotten; rings live as long as their holders | a ring overwritten while it is read, batches longer than the ring, replacement under readers |
| Rate limiter | tokens never exceed the rate; refunds do not mint tokens | reconfiguration, rounding, a 64-bit product |
| Key operations, watches | an applied change is announced or the source is taken down; queues overflow into a marker | each operation is several round trips, any of which may fail |
| Layers | a deletion reaches every source or is recovered | broadcast with partial failure |
| Access check | what trust, integrity and confinement withhold stays withheld; grants nest in the object tree; the walk agrees with first match | three walks, two merges, a fallback and rules evaluated in turn, with an early exit and two propagations |
| Conditions, resolution, rule evaluation | the result equals a reference definition | pure, but intricate |
| Keys the kernel reads | a change counted as walked was read; older content never replaces newer; a change is walked in the end | bootstraps, work items and writers refresh the same key; watches are armed last |
| Tokens, sessions, process state | references match holders; a session's end is recorded once | deferred work, fork and exec |
| Descriptor cache, policy cache | a hit is never older than an invalidation | fill racing invalidation |
| NTFE sentence cache and publication | no torn or stale verdict is applied; one owner per endpoint | lock-free readers, two published words in two orders |
| StrataFS | a copy-up is atomic to lookups | several steps on several file systems |

The hazards of this kind that the code is exposed to, with the line at which each
bites and the properties that watch it, are listed in `PROJECT.json`.

## The modules and the code

Each component has a module with its specification and properties, an `MC`
module with the symmetry sets and values TLC needs, and, where something is
proved, modules of proofs. Operators whose comment begins with *Mutant* are
deliberately wrong versions of the definition that follows; nothing uses them
except the checks that a property can fail.

The granularity is the same everywhere: an action is one section under the lock
that protects what it changes, with the lock-free steps around it that no other
thread can observe. What the code reads before an unlock and uses after it is
kept in a variable of the thread. Names are those of the source.

### SequenceGate

`lcs/source_table.c`, `source_registration.c` and the restore of `key_fd.c`.
State: the counter (`sequence_initialized`, `next_sequence`), the restore that
holds the gate mutex with its `offset` and `max_dispatched`, the sequences
`staged` in its source transaction, and, of the external sources, what they have
`persisted` and which `commits` they have not decided. Actions: `Register`,
`SourceDown`, `AllocateSequence`, the restore (`RestoreAcquire`, `RestoreValidate`,
`RestoreDispatch`, `RestoreFail`, `RestoreSendCommit`, `RestoreCommitReturns`,
`RestoreRelease`), a read, and `Reboot`, after which only `persisted` survives.
`U64_MAX` is a constant, so that overflow is reached.

An answer to a read is judged twice. The source's `write()` validates it against
the counter of that moment (`ValidateResponse`) and blames the source for an entry
at or above it. The reader then judges the frame again when it uses it
(`MaterializeResponse`), most often against a `snapshot` of the counter it took
before the round trip (`ReadBegins` with `early`), and a walk of the Events or the
Network key against one snapshot for all its round trips; path walks, symlinks,
the presence check of a create and the limits take it afterwards. A refusal there
is an -EIO of the read and blames nobody. `stored` is a history variable: what the
source held when the read began, less what a running restore had written.

### SourceDevice

`lcs/source_device.c`, `source_protocol.c`, `source_request.c`,
`source_dispatch.c`, `source_response.c`, `source_response_plan.c`,
`source_late_effect.c` and the slots of `source_table.c`. Three kinds of process:

- a *caller* goes `slot` → `admission` → `epoch` (asleep for a slot) → `dispatch`
  → `wait` → `detach` → `publish`; its waiter, on its stack, is the pair `ticket`
  and `completed`;
- a *source thread* inside `write()` accepts a response under the locks,
  validates it, completes the waiter under the locks again and deals with a late
  one: `complete`, `late`, `malformed`, `markdown`, `markdown_by_id`;
- a *file* is opened, registered (or resumes a slot that is down), read, released.

An in-flight record is a member of `in_flight` with the fields `delivered`,
`accepted`, `waiter`, `was_attached`, `op` and `late_effect`. `unsettled` is a
history variable: requests the source reported done whose effects nobody has yet
taken over. `Dispatch*` is one action for each request builder; the encoding that
makes up most of a builder is abstracted to the operation's name, so these
actions stand for many lines and say little about each. A payload is well formed
or not; the operations differ in what their late success requires.

A caller whose waiter keeps the response frame is told -ENOMEM when the frame of a
success cannot be copied (`Completions`); of the operations with effects this is
DELETE_LAYER, whose callers then return at once. `PublishReturns` is a caller that
publishes and one that meets an error at which it only returns (`key_fd.c:5236`,
5265, 5290); `PublishFails` one that takes the source down.

### Transaction

`lcs/transaction_fd.c`, with what it needs of the source slot and of the key
operations that use a transaction (`key_fd.c`) and of the layer deletion
(`source_layer_operation.c`). State: the fields of each transaction, the registry
list and the holders of `registry_lock` and `bind_lock`, the source slot with its
bound count and the *session* it is in, COMMIT requests in flight and the
source's own view of the transaction (`provider`, external). A thread runs one of
`mutate`, `touch` (a mutation that also writes the key's time), `commit`, `close`,
`down`, `delete_layer` or handles a late answer; the timer and its work item act
by themselves. `Faults` enables failures while a commit is published.
`effects`, `audits` and `staged` are history.

### KmesRing

One CPU's ring of `kmes/kmes.c`, across the generations a capacity change puts in
its place. Sizes are counted in cells, an event of n cells carries its sequence in
each, so that a torn event can be told from a whole one. A writer reserves (drops
the oldest, publishes the tail), writes cell by cell, publishes `write_pos`, looks
at `need_wake`, and wakes directly or through the work item. The consumer is the
external drain loop that the comments in `pkm_kmes_emit_kernel_batch` describe: poll, copy,
verify the tail, arm `need_wake`, check again, sleep on the futex.

### NtfeFlow and SentenceCell

One connection of `ntfe/flow.c`, with the publishers of `ntfe/policy.c` and
`ntfe/context.c` and the extension's life in `ntfe/tags.c`. State: the generation
counter, the active policy and context and a publication that is between its two
steps; the connection's two sentences with their sequence counts, `ct->lock`, the
recorded owners; for each CPU the packet it carries, its snapshot and what its
lookup has read. A packet takes its snapshot in two reads (`SnapshotPolicy`,
`SnapshotEpoch`), looks its sentence up field by field (`Lookup`), and on a miss
takes the context (`View`), attributes the endpoints (`Attribute`), judges
(`Judge`), writes the sentence field by field under the lock (`Write`), looks the
other endpoint's sentence up and applies the stricter (`Apply`). What a rule
forest decides is external: a verdict is the record of what it was judged from,
and `Drops` and `Rejects` say how strict it is. The rule hash and the reject kind
travel with the verdict; the facts `ntfe_flow_record` keeps, statistics, events,
the counter store and RCU reclaim are left out.

`SentenceCell` is the abstract specification: a slot holds one sentence, replaced
as a whole; a lookup misses or returns what the slot holds at that moment.
`NtfeFlow` implements it with `value <- Held`: while a write is open its sentence
counts already, because a reader can then only miss.

### KeyRefresh

`lcs/source_bootstrap.c`, the internal watches of `lcs/key_fd.c`,
`ntfe/ingest.c` and `kmes/event_policy.c`. Content is the number of changes made
to a key, so that older and newer can be told apart. A *writer* commits, collects
its events under the watch lock (`Dispatch`) and delivers them: `Note` and
`Queue` for a deferred key, a refresh for the others, `Rerun` for the fallback
watch. A *bootstrap* discovers and refreshes each key and arms the watches last
(`Discover`, `Reset`, `ArmFull`). A *work item* takes the pending change and
walks (`Tick`, `Work`, `Settle`). All refresh through `Walk`, `Publish` and
`NoteIngest`. Classes of keys are constants: `Deferred` (Network, Events),
`Debounced` and `Counted` (Network), `Defaulting` (Events), `Strict` (Registry).
A walk reads one version of its key, somewhere between its first and its last
round trip; a key is not deleted; which events of the Events tree are relevant,
the delivery to layers, and the partial commit of a KMES capacity change are left
out. A walk that fails counts as having refused what it found, as the comment in
`ntfe/ingest.c` counts it.

### KacsAccessCheck

`access_check_core` of `crates/kacs-core`: `privilege.rs`, `mic.rs`, `pip.rs`,
`pre_sacl.rs`, `evaluate_sd.rs`, `dacl.rs`, `object_tree.rs` and `caap.rs`. The
request is chosen by `Init`; a step is one entry of an access list (`AllowAce`,
`DenyAce`, `SkipAce`, `BadAce`, `NullGrant`), one node of the upward propagation
of grants (`Propagate`), the end of a walk with its merge (`EndNormal` with the
take-ownership fallback, `EndRestricted`, `EndConfined`) or a step of the central
policies (`NextRule`, `EffectiveResult`, `StagedResult`), each rule a whole
evaluation of its own. A mask is a set of rights; a missing object tree is a tree
of one node; a condition is its result for each of the three walks.

## What the runs check

| Run | Instance | Properties |
|---|---|---|
| `sequence_gate` | 2 sources, 2 writers, 1 restore, 1 reader, counter 0..3 | `InFlightSequencesDistinct`, `ReleaseNeverOverflows`, `AllocationOutranksPersisted`, `FutureOnlyIfConcurrent`, `GateReleased` |
| `source_device` | 1 caller, 1 source thread, 2 files, 16 operations | `WaiterIntegrity`, `WaiterReachable`, `AppliedSettled`, `EffectsOnce`, `ClosingFileIsEmpty` |
| `source_device_limit` | 2 callers, a limit of 1, SET_VALUE and BEGIN, with fairness | `TypeOK`, `InFlightBounded`, `NoLostSlotWakeup`, `RoundTripEnds` |
| `transaction` | 1 transaction, 3 threads, all operations and failures, the source resumes once | `PublishedOnce`, `RetainedOwned`, `RegistryIntegrity`, `AuditAtMostOnce`, `TerminalStable` |
| `transaction_live` | 1 transaction, 2 threads, with fairness, without `touch` | `CallsEnd`, `SourceDownReaches` |
| `kmes_ring` | rings of 4 and 2 cells, 4 sequences, 2 generations | `WindowIsNewest`, `CleanReadsIntact`, `NoResync`, `DropsAccounted`, `RefsExact`, `SleeperWillWake` |
| `ntfe_flow` | 2 CPUs, 3 packets, 2 publications or seconds, 2 candidate owners | `AppliedVerdictIsFresh`, `OwnerRefsExact`, `JudgedByRecordedOwner`, `LookupIsAtomic` (the refinement of `SentenceCell`) |
| `key_refresh` | 3 keys, 1 writer, the bootstrap and 2 work items, 1 failure, with fairness | `WalkedMeansRead`, `RefreshNeverGoesBack`, `StreamCannotPostpone`, `WalkCatchesUp` |
| `access_check` | 4 families of requests: pairs of entries, trees of 4 nodes with 3 entries, policy rules, refused calls | `TrustDenialIsAbsolute`, `IntegrityYieldsOnlyToPrivilege`, `GrantsNest`, `ConfinementIsAbsolute`, `FirstMatchDecides` |
| `transaction_touch` | as `transaction_live`, with `touch` | `SourceDownReaches` is violated |
| `transaction_audit` | 1 transaction, 2 threads | `AuditExactlyOnce` is violated |
| `kmes_attach` | first attach overlapping a write | `TailMonotone` is violated |

What each property says, and of which behaviour of the code, stands above its
definition.

**Bounds.** *Sequence counter*: four values let two writes, a restore and the end
of the range meet, with a read that begins before, between and after them; the two
backups reach the overflow check at different values of the counter.
*Source device*: a race needs a record, the caller that leaves it and a thread
that has accepted its response; a second file is needed for the source to come
back while the first is still being released. Two callers that compete, and a
late BEGIN that is aborted with a request of its own, are in
`source_device_limit`. Two source threads at once are in no run; the theorems
below cover any number of callers, threads, files and requests for all the safety
properties.
`MaxRequestId` also bounds the run: the request that would exceed it is refused,
as the code refuses an id without a successor. *Transactions*: three threads are
one in a call, one in the walk of a source that went down and one with a late
answer or a layer deletion; `MaxSession` bounds the times the source comes back.
*Ring*: with four cells and events of one and two, a batch wraps the ring, passes
its own start and drops everything before it; two generations are one swap.
*Flow*: two CPUs can overlap in every step of a lookup and a write; three packets
are one that caches, one that rewrites and one that reads; two events are two
publications of either kind, or one and a second that passes. One policy is timed
and one has no Flow forest; the second endpoint of a loopback flow resolves to
nobody in the run, and to anybody in the theorems. *Keys*: the Network key changes
twice, the second time to a content that is refused; Events is created while the
system runs, so that the fallback re-runs the bootstrap in the writer's call
beside the first one. Writes to Events are not bounded in number, which
`StreamCannotPostpone` needs. *Access check*: two entries show every order of
grant and denial, three on a tree of two levels every order of two propagations
and a third; the theorems cover every list and tree.

A run checks only one transaction at a time. Two, with two sessions of the source
and every operation, are past what a run can visit. The theorems of
`TransactionStepProofs` are about any number of them, with the list they share
under `registry_lock`; the bound count of the slot, which they share too (see the
hazards), is in no theorem.

**Deadlock.** Checked in the runs of `SequenceGate`, `SourceDevice` and `KmesRing`.
In `NtfeFlow` the connection is freed, in `KeyRefresh` nobody has to write and in
`KacsAccessCheck` the call returns: a state without a step is an end. In
`Transaction` every transaction may be destroyed, with nothing left to do, and a
thread that takes the source down under its own `bind_lock` (the first finding)
really stops. `CallsEnd` takes the place of the deadlock check, but only in a run
without the steps that lead there: `transaction_live` leaves out `touch`, the
`recover` failure (which waits for its own lock in the same way) and, to stay small,
`delete_layer`. That calls end is not shown with these. The safety properties of
`transaction` are checked with all of them.

**Fairness.** `SequenceGate`: weak fairness of the restore's own steps, each a
bounded round trip or straight-line code. `SourceDevice`: weak fairness of the
callers' steps and strong fairness of their timeouts, because a deadline that has
passed stays passed and the loop tests it in every round; nothing is assumed of
source threads, files or signals. `Transaction`: strong fairness of the threads
in the kernel, because kernel mutexes queue their waiters and round trips have
deadlines; nothing is assumed of users, sources or timers. `KeyRefresh`: the same
of threads in a call, weak fairness of a work item's window and of its start,
because the timer of a delayed work item runs out and a workqueue runs what is
due; a window that later changes restart may never pass, which is why
`WalkCatchesUp` needs the bound on writes to the Network key and
`StreamCannotPostpone` speaks of the other kind. `NtfeFlow` and `KacsAccessCheck`
state safety only.

**Symmetry** is used in safety runs only.

**Mutants.** For each property of each passing run `PROJECT.json` names a change
to one modelled definition (a dropped guard, a missing reset, a swapped order)
under which TLC finds that property violated.

## Findings

Three runs show the code doing other than what its comments or tests say. Each
is stated with its lines in `PROJECT.json`.

- `transaction_touch`: when the WRITE_KEY that ends a transactional mutation
  fails, the source is taken down with the transaction's own `bind_lock` held,
  which the walk over the transactions waits for.
- `transaction_audit`: the source goes down after it answered a COMMIT and before
  the effects are applied; they fail, and the transaction keeps
  `commit_in_flight`. It times out, its descriptor is closed and it is retained
  without a record, and the walk of the source's going down frees it without one,
  where the comment on `audit_pending` says "so there is exactly one".
- `kmes_attach`: the first attach of a ring stores positions it read earlier
  while the ring's CPU may be writing, and the tail moves back. Because of it
  `kmes_ring` runs with `ConcurrentAttach = FALSE`, so its properties are about
  rings whose first attach does not overlap a write.

## What is proved

Eight modules of proofs: `LcsProofs` for `SequenceGate` and `KeyRefresh` (which is
why `SequenceGate` has names of its own for its `GateInit`, `GateNext` and
`GateSpec`), three for `Transaction`, and one for each of the other four modules of
a component. Every theorem has the form `Spec => []P`, or says that an action
property or a refinement holds, for all values of the constants that satisfy the
named assumptions of the module (`SequenceAssumption`, `DeviceAssumption`,
`TransactionAssumption`, `RingAssumption`, `FlowAssumption`, `MappingAssumption`,
`KeyAssumption`, `RequestAssumption`: sets may be of any size, limits any positive
number, lists and trees of any length).

**SequenceGate** (first half of `LcsProofs`). `GateIndInv` is `GateTypeOK`, the
shape of the gate (`GateInv`: while a restore runs the counter stands still at its
offset), what it staged (`StagedInv`: between the offset and the recorded maximum,
which is below `U64_MAX`), `AccountedInv`: every sequence stored by a connected
source, undecided or in a response is below the counter or belongs to the restore
that holds the gate, and `ReadsInv`: what was stored when a read began is below
the counter and below the read's snapshot, and a response that passed validation
stays below the counter, which rests on the counter never moving back
(`CounterGrows`). From it follow `GateTypes`, `SequencesDistinct`,
`NoReleaseOverflow`, `AllocationOutranks` and `FutureOnlyOverlapping`.
`AccountedInv` is the point: none of the properties speaks of responses and
commits on their way, and all depend on them.

**SourceDevice** (`SourceDeviceProofs`). Three layers, each an inductive invariant
relative to the one below:

1. `Core`: types; slots and files point to each other;
   a record belongs to the file that serves a slot and to its waiter's call;
   a caller holds a request only while it waits; `WaiterIntegrity` and
   `WaiterReachable`. The two directions, record to caller and caller to record,
   are only inductive together: taking a file down completes exactly the callers
   the records name, and that must be all who wait. Theorems
   `SourceTypeCorrect`, `WaitersAreLive`, `WaitersAreReachable`.
2. `SlotsInv`: the count of a file is the cardinality of
   its set of records and at most the limit, a file that was marked down has an
   empty queue, `NoLostSlotWakeup`. Theorems `InFlightIsBounded`,
   `NoWakeupIsLost`, `ClosingFilesAreEmpty`.
3. `Effects`: what a source thread holds at each of its
   steps (`ThreadsInv`), that what is unsettled was accepted (`EffectsInv`), and
   `AppliedSettled`. Theorems `EffectsAreSettled` and `EffectsHappenOnce`. The one
   request that is forgotten, a DELETE_LAYER whose frame could not be kept, is a
   disjunct of `AppliedSettled`; how much of the effects a caller that took them
   over publishes is not claimed.

**Transaction** (`TransactionProofs`: the invariant, the frame lemmas and the actions
that move a thread on or take the source down; `TransactionCallProofs`: those that change
one transaction before its commit is settled; `TransactionStepProofs`: those that settle
a commit or change a request, and the theorems). The
properties speak of transactions, but what keeps them true is spread over threads:
a caller inside a commit, a source's thread with a late answer, a walk that takes
the source down, the release of a descriptor. `IndInv` says it from each side:

- `ThreadOK(p)`: where a thread can be and on what (`Shape`); that it holds the
  `bind_lock` of its transaction inside a mutation or a commit, and `registry_lock`
  on a walk (`LockOK`); what it knows of the transaction at each label
  (`MutateOK`, `CommitOK`, `LateOK`).
- `TxnOK(t)`: the properties themselves, and two facts they depend on. A listed
  transaction that is bound, or timed out with its commit in flight, while the
  source is down is still ahead of some walk (`Pending`); and a commit in flight
  has somebody to end it (`Owned`).
- `SlotOK(r)` and `OneToken`: a request's waiter waits for it, and the source's
  word "committed" about one transaction is in one place, a request or a thread.
  `PublishedOnce` rests on it: whoever applies the answer has the only copy.
- `Listed`: no transaction is on the registry twice.

A step of one thread is shown to keep the invariant by rely and guarantee: `Guards`
and `Relies` say what the other threads need of a step (nobody takes their locks,
revives an ended transaction, or changes what `bind_lock` protects), and each
action's lemma shows that it gives them that, that its own thread is right
afterwards, and that each transaction is, the one it works on and the others.
Theorems `TransactionTypes`, `RegistryIsSound`, `EffectsPublishedOnce`,
`AuditedAtMostOnce`, `RetainedAreOwned` and the action property `EndsAreFinal`.
They hold with the faults and operations of both findings in the model.

**KmesRing** (`KmesRingProofs`). `RefInv` counts the holders of a ring, at most one
of each kind; it needs that a ring beyond the live one has none and that an attach
meets no consumer and no swap (`RingInv`). `WaitInv` is the argument against a lost
wake-up: a consumer that is going to wait has set `need_wake`, and if there is
something to wake it for the counter it remembers is past, unless the writer has
yet to look at `need_wake`. Theorems `RefsAreExact` and `NoLostWake`, for both
values of `ConcurrentAttach`, so also where the third finding applies.

**KeyRefresh** (second half of `LcsProofs`). Whoever has read a deferred key and not yet
published holds its mutex (`LockInv`), what is in force is no newer than what that
thread has read (`ReadInv`), and the count a work item took covers changes that its
walk reads, then has read, then has judged (`CountOK`). Theorems
`KeyRefreshTypes`, `WalkedWasRead` and the action property `RefreshMonotone`.

**NtfeFlow.** `NtfeFlowProofs` proves `FlowTypeCorrect` and the refinement
`LookupRefinesCell`. The invariant it needs ties each CPU's partial read to the
slot: as long as the slot is not busy and its count is the one the lookup began
at, every field read so far equals the slot's; and while a slot is busy, the
lock's holder is writing it, and the fields written so far are those of its
sentence. A step of the lookup that succeeds is then a `Lookup` of the cell, the
step that opens a write a `Replace`, and every other step a stutter or a miss.
Its second part adds what a sentence's stamps mean: the verdict of a
sentence stamped with generation g saw a context at least as new as the one
wholly published at g, and was judged by the policy whose generation it carries.
This is where the order of the two publications and of the two reads of a
snapshot enters. Theorems `AppliedVerdictsFresh` and `OwnersAgree`.
The third part counts references. `RefInv` is `OwnerRefsExact` together with the
finiteness of the set of ends in some CPU's hands, without which a cardinality says
nothing about its change. `HandInv` says what a CPU can have in its hands: nothing
at the end it is about to identify, so that resolving it adds exactly one, and on a
flow without the extension nothing but what the packet itself resolved, so that
leaving returns all of it. Theorem `OwnerRefsHold`, for any number of CPUs.

**KacsAccessCheck.** The two labels have one argument: `Settled` says that every
result is clear of a set of rights W except for a set S, and that during the
normal walk W is decided on every node, so that no entry grants it. It is
instantiated with what trust denies and the empty set, and with what integrity
denies and the seeded privileges: `TrustDenialHolds`, `IntegrityHolds`.
`GrantsNestAlways` needs, besides the nesting of every
mask, `DenialsRise`: what is decided on a child without being granted there is
decided on its parent. Without it the upward propagation of grants could give a
parent what a child was denied. Lemmas about subtrees in a preorder list of levels
(a child's subtree lies in its parent's, a subtree holds its children) carry it.
`ConfinementHolds` rests on `WalkBacked`: during the confinement walk what is
granted is backed by an entry read so far, and what an earlier entry denied
everywhere is decided. `FirstMatchHolds` compares the walk, which stops as soon as
nothing asked for is left undecided, with a definition that looks for the first
entry of each right in the whole list. Its invariant (`Walked`) splits the rights:
a granted one has an allowing first match, one that is decided and not granted has
none, and an undecided one has met no entry that carries it (`Unmet`). The last
part is why an entry decides only what no earlier one did, and why stopping
early loses nothing.

The proofs have one lemma for each action or for actions of one shape, and frame
lemmas for what an action leaves alone.

Only model-checked:

- what a consumer of a ring reads (`WindowIsNewest`, `CleanReadsIntact`,
  `NoResync`, `DropsAccounted`) and the full type invariant of `KmesRing`: they are
  about what a walk over the events of a ring returns, which is recursive, and
  the prover has no induction over data;
- liveness (`GateReleased`, `RoundTripEnds`, `CallsEnd`, `SourceDownReaches`,
  `StreamCannotPostpone`, `WalkCatchesUp`): it needs fairness and `ENABLED`, which
  are out of the prover's reach.

## What is not modelled

Left out of the modelled parts: tracing and log text; wire formats and user-space
copies (a frame is well formed or not, a copy succeeds or the call fails); poll;
in `KmesRing` the staging of system-call events and its privilege and rate checks,
the commit of a new configuration, the counters of refusals in hard interrupts and
before initialisation, the loop of a capacity change over several CPUs, and weak
memory: the model is sequentially consistent, while the code publishes with
release stores and reads `need_wake` without a full barrier after them, so that
`SleeperWillWake` says nothing of the reordering of that store and load, which
x86 does as well. In `Transaction` reads of an object after the lock that guards it
was dropped are not told from reads of a freed one. In `KacsAccessCheck` what
`access_check_core` derives from the grants (the evaluation of the SACL and its
events, the accounting of privilege use, the success flag and what a denial
reports; `Answer` only says that an error there returns no grants), parsing of
descriptors, and the evaluation of condition expressions.

Behaviour of the modelled code that differs from what a reader may expect, known
from the models and not stated as a property of its own:

- a write stored between the moment a read captures the counter and the moment the
  source answers makes that read fail with -EIO (`key_fd.c:4203`), though nothing
  is wrong; `FutureOnlyIfConcurrent` says that nothing else does but a restore;
- a DELETE_LAYER the source has done, of whose answer no copy can be made, is
  reported as -ENOMEM with its effects unpublished and the source left up
  (`source_response.c:131`, `source_layer_operation.c:569`);
- an operation that fails between its last round trip and its publication may
  return without either publishing or taking the source down (`key_fd.c:5236`);
- a key created after the bootstrap looked it up and before the watches are armed
  is noticed by nobody until the next event (`source_bootstrap.c:144`);
- of two overlapping bootstraps the staler may reset Events to the defaults;
- refreshes of Registry, KMES configuration and port reservations take no lock
  around reading and publishing, so the older may win (`self_config.c:100`);
- `last_ingest_error` is noted after the mutex is released (`ingest.c:1146`), so a
  bootstrap's older result may overwrite that of the work item's walk;
- the comment at `key_fd.c:12101` names two keys whose absence keeps the fallback
  watch; the code keeps it for any of six;
- a publication of the counter store that fails part of the way leaves the tables
  it has migrated (`counters.c:486`), and a removed tag's entry may be renamed
  between a reader's match and its read (`tags.c:187`); neither part has a module;
- the bound count of a source slot is released without regard to the session it
  was taken in (`source_table.c:469`).

The models cover the protocols in which threads meet and the access decision; by
far most of the repository's lines have no module. Half of them are tests; the rest
are wire formats and generated types, the key operations over the answers of a
source, KACS's tokens and hooks, and StrataFS. The parts with no module are
listed, with the reason, in `PROJECT.json`. Interface declarations, manifests,
generators, kernel patches and packaging have no behaviour at run time.

## Plan

In this order; each entry is a module unless it says otherwise.

1. `KeyMutation`: the key operations as sequences of round trips, with each step
   failing, and the announcement of what was applied. `KeyWatch`: arming,
   dispatch, bounded queues and release of the watches of key descriptors.
2. `TransactionLifetime` (`source_transaction.c`): owners, sessions and leases, and
   a composition with `Transaction`.
3. `LayerOperation`: broadcast of a deletion, orphans and recovery. `Resolution`:
   which layer wins, against a reference definition.
4. `KmesRate` and the event configuration; in `KmesRing`, a store buffer for the
   publication of `write_pos`.
5. NTFE's counter store and tags; the evaluation of rule forests.
6. KACS: `TokenLifetime`, the descriptor cache, conditional expressions; StrataFS
   copy-up.
7. Abstract specifications: a *round trip* (a call that ends with the answer, an
   error or unknown) that `SourceDevice` implements and `KeyMutation` uses; an
   *atomic transaction* that `Transaction` implements; a *lossy log* that
   `KmesRing` implements.
8. Theorems: the refinements of 7.

Runs of the present modules that a later one subsumes are merged as it arrives.
