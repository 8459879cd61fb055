---------------------------- MODULE SequenceGate ----------------------------
(***************************************************************************)
(* The global sequence counter of the layered registry (LCS) and the       *)
(* sequence gate that a restore holds while it replays a backup.           *)
(*                                                                         *)
(* Every layer-qualified entry a registry source stores carries a sequence *)
(* number issued by the kernel: an ordinary mutation takes one from        *)
(* pkm_lcs_allocate_sequence, a restore maps each sequence of its backup   *)
(* to restore_sequence_offset + backup_sequence and only moves the counter *)
(* past them when it ends.  The gate is a mutex: registration, allocation  *)
(* and a whole restore exclude one another.  Reads do not take it.         *)
(*                                                                         *)
(* The sources themselves are external: what the module keeps of them is   *)
(* the sequences of the entries they have persisted, which survive a       *)
(* reboot of the kernel, and the commits they have not yet decided.        *)
(***************************************************************************)
EXTENDS Naturals, FiniteSets

CONSTANTS
    Sources,        \* registry sources (user-space daemons)
    Mutators,       \* threads performing ordinary mutations
    Restorers,      \* threads performing REG_IOC_RESTORE
    Readers,        \* threads performing a lookup or value query
    U64_MAX,        \* the largest value of the 64-bit counter
    Backups,        \* the sets of sequences a backup stream may carry
    Nil             \* no writer request, no gate holder, no reader answer

Sequence == 0..U64_MAX
Request == [source : Sources, sequence : Sequence]

ASSUME SequenceAssumption ==
    /\ U64_MAX \in Nat \ {0}
    /\ Backups \subseteq (SUBSET Nat) \ {{}}
    /\ Nil \notin Restorers \cup Sources \cup Sequence \cup Request

VARIABLES
    sequence_initialized,   \* pkm_lcs_sequence_initialized
    next_sequence,          \* pkm_lcs_next_sequence
    holder,                 \* the restore holding the gate mutex, or Nil
    phase,                  \* where that restore is, "idle" when there is none
    target,                 \* the source it writes to
    backup,                 \* the sequences of its stream not yet replayed
    offset,                 \* gate->restore_sequence_offset
    max_dispatched,         \* gate->max_dispatched_sequence, Nil if not valid
    staged,                 \* sequences it wrote in its source transaction
    active,                 \* sources whose slot is ACTIVE
    persisted,              \* per source: sequences of its stored entries
    commits,                \* restore commits a source has not decided yet
    writer,                 \* per writer: its issued, undecided request
    reading,                \* per reader: the source it reads from, Nil if idle
    snapshot,               \* per reader: the counter it captured before its
                            \* round trips, Nil if it does so after each one
    reader,                 \* per reader: the sequence in its response
    validated,              \* readers whose response was completed to them
    rejected,               \* readers whose response was judged from the future
    stored                  \* per reader: what its source held when it began and
                            \* no running restore had written (history)

counterVars == <<sequence_initialized, next_sequence>>
gateVars == <<holder, phase, target, backup, offset, max_dispatched, staged>>
sourceVars == <<active, persisted, commits>>
readerVars == <<reading, snapshot, reader, validated, rejected, stored>>
sequenceVars == <<counterVars, gateVars, sourceVars, writer, readerVars>>

PendingCommit == [source : Sources, staged : SUBSET Sequence]

(* struct pkm_lcs_restore_sequence_gate after memset: nothing is held and   *)
(* nothing was dispatched.                                                  *)
GateCleared ==
    /\ holder' = Nil
    /\ phase' = "idle"
    /\ target' = Nil
    /\ backup' = {}
    /\ offset' = 0
    /\ max_dispatched' = Nil
    /\ staged' = {}

GateInit ==
    /\ sequence_initialized = FALSE
    /\ next_sequence = 0
    /\ holder = Nil
    /\ phase = "idle"
    /\ target = Nil
    /\ backup = {}
    /\ offset = 0
    /\ max_dispatched = Nil
    /\ staged = {}
    /\ active = {}
    /\ persisted = [s \in Sources |-> {}]
    /\ commits = {}
    /\ writer = [w \in Mutators |-> Nil]
    /\ reading = [d \in Readers |-> Nil]
    /\ snapshot = [d \in Readers |-> Nil]
    /\ reader = [d \in Readers |-> Nil]
    /\ validated = {}
    /\ rejected = {}
    /\ stored = [d \in Readers |-> {}]

-----------------------------------------------------------------------------
(* Registration.                                                            *)

(* plan_source_registration_sequence_update: the counter never moves back,  *)
(* and a maximum of U64_MAX is refused because max + 1 overflows.           *)
EffectiveNextSequence(max_sequence) ==
    IF sequence_initialized /\ next_sequence > max_sequence + 1
    THEN next_sequence
    ELSE max_sequence + 1

(* A source opens the device and registers, for the first time or resuming  *)
(* its DOWN slot.  It reports a maximum no smaller than what it stores.     *)
Register(s, max_sequence) ==
    /\ holder = Nil
    /\ s \notin active
    /\ \A q \in persisted[s] : q <= max_sequence
    /\ max_sequence < U64_MAX
    /\ active' = active \cup {s}
    /\ sequence_initialized' = TRUE
    /\ next_sequence' = EffectiveNextSequence(max_sequence)
    /\ UNCHANGED <<gateVars, persisted, commits, writer, readerVars>>

(* The source's device is closed or marked down; its slot becomes DOWN.     *)
SourceDown(s) ==
    /\ s \in active
    /\ active' = active \ {s}
    /\ UNCHANGED <<counterVars, gateVars, persisted, commits, writer, readerVars>>

-----------------------------------------------------------------------------
(* Ordinary mutations.                                                      *)

(* Mutant: the counter is read without the gate, while a restore runs.      *)
AllocateWithoutGate(w, s) ==
    /\ writer[w] = Nil
    /\ s \in active
    /\ sequence_initialized
    /\ next_sequence # U64_MAX
    /\ writer' = [writer EXCEPT ![w] = [source |-> s, sequence |-> next_sequence]]
    /\ next_sequence' = next_sequence + 1
    /\ UNCHANGED <<sequence_initialized, gateVars, sourceVars, readerVars>>

(* pkm_lcs_allocate_sequence for a mutation of a key of source s.  At the   *)
(* end of the range it returns -EOVERFLOW and issues nothing.               *)
AllocateSequence(w, s) ==
    /\ writer[w] = Nil
    /\ s \in active
    /\ holder = Nil
    /\ sequence_initialized
    /\ next_sequence # U64_MAX
    /\ writer' = [writer EXCEPT ![w] = [source |-> s, sequence |-> next_sequence]]
    /\ next_sequence' = next_sequence + 1
    /\ UNCHANGED <<sequence_initialized, gateVars, sourceVars, readerVars>>

(* The source stores the entry; its answer reaches the writer or not.       *)
WriterPersists(w) ==
    /\ writer[w] # Nil
    /\ persisted' = [persisted EXCEPT ![writer[w].source] =
                         @ \cup {writer[w].sequence}]
    /\ writer' = [writer EXCEPT ![w] = Nil]
    /\ UNCHANGED <<counterVars, gateVars, active, commits, readerVars>>

(* The mutation never reaches the source, or the source refuses it.         *)
WriterFails(w) ==
    /\ writer[w] # Nil
    /\ writer' = [writer EXCEPT ![w] = Nil]
    /\ UNCHANGED <<counterVars, gateVars, sourceVars, readerVars>>

-----------------------------------------------------------------------------
(* Restore.  Only the restore that holds the gate is past its acquisition,  *)
(* so its on-stack gate structure is kept in variables of the module.       *)

(* pkm_lcs_restore_sequence_gate_acquire: the gate mutex is kept, and the   *)
(* offset is the counter's value at that moment.                            *)
RestoreAcquire(r, s, stream) ==
    /\ s \in active
    /\ holder = Nil
    /\ sequence_initialized
    /\ holder' = r
    /\ phase' = "validate"
    /\ target' = s
    /\ backup' = stream
    /\ offset' = next_sequence
    /\ UNCHANGED <<counterVars, max_dispatched, staged, sourceVars, writer,
                   readerVars>>

(* Mutant: only the addition is checked, U64_MAX itself is let through.     *)
GateValidatesUpToMax(backup_sequence) ==
    offset + backup_sequence <= U64_MAX

(* pkm_lcs_restore_sequence_gate_validate: the mapped sequence must fit,    *)
(* and must leave room for the successor of the largest one.                *)
GateValidates(backup_sequence) ==
    offset + backup_sequence < U64_MAX

(* The check of the stream's largest sequence before anything is replayed;  *)
(* a stream that does not fit takes the error exit.                         *)
RestoreValidate ==
    /\ phase = "validate"
    /\ phase' = IF \A b \in backup : GateValidates(b) THEN "replay" ELSE "release"
    /\ UNCHANGED <<counterVars, holder, target, backup, offset, max_dispatched,
                   staged, sourceVars, writer, readerVars>>

(* pkm_lcs_restore_sequence_gate_record_dispatched and the write inside the *)
(* restore's source transaction.                                            *)
RestoreDispatch(b) ==
    /\ phase = "replay"
    /\ GateValidates(b)
    /\ backup' = backup \ {b}
    /\ staged' = staged \cup {offset + b}
    /\ max_dispatched' =
           IF max_dispatched = Nil \/ offset + b > max_dispatched
           THEN offset + b ELSE max_dispatched
    /\ UNCHANGED <<counterVars, holder, phase, target, offset, sourceVars, writer,
                   readerVars>>

(* Mutant: a failed step leaves without releasing the gate.                 *)
RestoreFailKeepsGate ==
    /\ phase = "replay"
    /\ phase' = "idle"
    /\ UNCHANGED <<counterVars, holder, target, backup, offset, max_dispatched,
                   staged, sourceVars, writer, readerVars>>

(* A replay step fails: the transaction is aborted and the gate released.   *)
RestoreFail ==
    /\ phase = "replay"
    /\ phase' = "release"
    /\ UNCHANGED <<counterVars, holder, target, backup, offset, max_dispatched,
                   staged, sourceVars, writer, readerVars>>

(* The whole stream is replayed and the COMMIT is sent.                     *)
RestoreSendCommit ==
    /\ phase = "replay"
    /\ backup = {}
    /\ phase' = "commit"
    /\ commits' = commits \cup {[source |-> target, staged |-> staged]}
    /\ UNCHANGED <<counterVars, holder, target, backup, offset, max_dispatched,
                   staged, active, persisted, writer, readerVars>>

(* The source commits the transaction, at any time after it was asked: the  *)
(* restore may still wait for the answer or have given up on it.            *)
SourceCommits(c) ==
    /\ commits' = commits \ {c}
    /\ persisted' = [persisted EXCEPT ![c.source] = @ \cup c.staged]
    /\ UNCHANGED <<counterVars, gateVars, active, writer, readerVars>>

(* The source refuses the commit or dies with it undone.                    *)
SourceDropsCommit(c) ==
    /\ commits' = commits \ {c}
    /\ UNCHANGED <<counterVars, gateVars, active, persisted, writer, readerVars>>

(* The commit round trip returns: the answer, a timeout or a dead source.   *)
(* On success the watch effects are published before the gate is released.  *)
RestoreCommitReturns ==
    /\ phase = "commit"
    /\ phase' = "release"
    /\ UNCHANGED <<counterVars, holder, target, backup, offset, max_dispatched,
                   staged, sourceVars, writer, readerVars>>

(* Mutant: the counter is advanced to the largest dispatched sequence, not  *)
(* past it.                                                                 *)
RestoreReleaseOffByOne ==
    /\ phase = "release"
    /\ next_sequence' =
           IF max_dispatched # Nil /\ next_sequence < max_dispatched
           THEN max_dispatched ELSE next_sequence
    /\ GateCleared
    /\ UNCHANGED <<sequence_initialized, sourceVars, writer, readerVars>>

(* pkm_lcs_restore_sequence_gate_release_terminal: the counter moves past   *)
(* everything dispatched, whether or not it was committed; on overflow it   *)
(* is left where it is.                                                     *)
RestoreRelease ==
    /\ phase = "release"
    /\ next_sequence' =
           IF /\ max_dispatched # Nil
              /\ max_dispatched < U64_MAX
              /\ next_sequence < max_dispatched + 1
           THEN max_dispatched + 1 ELSE next_sequence
    /\ GateCleared
    /\ UNCHANGED <<sequence_initialized, sourceVars, writer, readerVars>>

-----------------------------------------------------------------------------
(* Reads.                                                                   *)

(* A read of a key of source s begins.  Most reads capture the counter      *)
(* before their round trip, and a walk of the Events or the Network key     *)
(* once for all its round trips; path walks, symlinks, the presence check   *)
(* of a create and the limits capture it after each (early = FALSE).        *)
ReadBegins(d, s, early) ==
    /\ reading[d] = Nil
    /\ sequence_initialized
    /\ reading' = [reading EXCEPT ![d] = s]
    /\ snapshot' = [snapshot EXCEPT ![d] = IF early THEN next_sequence ELSE Nil]
    /\ stored' = [stored EXCEPT ![d] = IF s \in active THEN persisted[s] \ staged ELSE {}]
    /\ UNCHANGED <<counterVars, gateVars, sourceVars, writer, reader, validated,
                   rejected>>

(* The source composes a response holding one of its entries.               *)
SourceAnswers(d, q) ==
    /\ reading[d] \in active
    /\ reader[d] = Nil
    /\ q \in persisted[reading[d]]
    /\ reader' = [reader EXCEPT ![d] = q]
    /\ UNCHANGED <<counterVars, gateVars, sourceVars, writer, reading, snapshot,
                   validated, rejected, stored>>

(* Mutant: an entry equal to the counter minus one is rejected as well.     *)
IsFutureOffByOne(sequence, counter) == sequence + 1 >= counter

(* validate_rsi_source_sequence.                                            *)
IsFuture(sequence, counter) == sequence >= counter

(* The source's write validates the response against the counter as it is   *)
(* now.  An entry at or above it makes the response malformed: the source   *)
(* is blamed and the read is told -EIO; otherwise the read gets the frame.  *)
ValidateResponse(d) ==
    /\ reader[d] # Nil
    /\ d \notin validated \cup rejected
    /\ IF IsFuture(reader[d], next_sequence)
       THEN rejected' = rejected \cup {d} /\ UNCHANGED validated
       ELSE validated' = validated \cup {d} /\ UNCHANGED rejected
    /\ UNCHANGED <<counterVars, gateVars, sourceVars, writer, reading, snapshot,
                   reader, stored>>

(* The read judges the frame again, against the counter it captured before  *)
(* the round trip or captures now, and ends with -EIO or uses the entry.    *)
MaterializeResponse(d) ==
    LET counter == IF snapshot[d] = Nil THEN next_sequence ELSE snapshot[d] IN
    /\ d \in validated \ rejected
    /\ IF IsFuture(reader[d], counter)
       THEN rejected' = rejected \cup {d} /\ UNCHANGED <<reader, validated>>
       ELSE /\ reader' = [reader EXCEPT ![d] = Nil]
            /\ validated' = validated \ {d}
            /\ UNCHANGED rejected
    /\ UNCHANGED <<counterVars, gateVars, sourceVars, writer, reading, snapshot,
                   stored>>

(* The read returns: after its last response, with -EIO, or because a round *)
(* trip failed or timed out.                                                *)
ReadEnds(d) ==
    /\ reading[d] # Nil
    /\ reading' = [reading EXCEPT ![d] = Nil]
    /\ snapshot' = [snapshot EXCEPT ![d] = Nil]
    /\ reader' = [reader EXCEPT ![d] = Nil]
    /\ validated' = validated \ {d}
    /\ rejected' = rejected \ {d}
    /\ stored' = [stored EXCEPT ![d] = {}]
    /\ UNCHANGED <<counterVars, gateVars, sourceVars, writer>>

-----------------------------------------------------------------------------
(* The machine restarts: the kernel's statics and every thread are gone,    *)
(* the sources keep what they persisted.                                    *)
Reboot ==
    /\ sequence_initialized
    /\ sequence_initialized' = FALSE
    /\ next_sequence' = 0
    /\ GateCleared
    /\ active' = {}
    /\ commits' = {}
    /\ writer' = [w \in Mutators |-> Nil]
    /\ reading' = [d \in Readers |-> Nil]
    /\ snapshot' = [d \in Readers |-> Nil]
    /\ reader' = [d \in Readers |-> Nil]
    /\ validated' = {}
    /\ rejected' = {}
    /\ stored' = [d \in Readers |-> {}]
    /\ UNCHANGED persisted

RestoreStep ==
    \/ RestoreValidate
    \/ \E b \in backup : RestoreDispatch(b)
    \/ RestoreFail
    \/ RestoreSendCommit
    \/ RestoreCommitReturns
    \/ RestoreRelease

GateNext ==
    \/ \E s \in Sources, m \in Sequence : Register(s, m)
    \/ \E s \in Sources : SourceDown(s)
    \/ \E w \in Mutators, s \in Sources : AllocateSequence(w, s)
    \/ \E w \in Mutators : WriterPersists(w) \/ WriterFails(w)
    \/ \E r \in Restorers, s \in Sources, stream \in Backups :
           RestoreAcquire(r, s, stream)
    \/ RestoreStep
    \/ \E c \in commits : SourceCommits(c) \/ SourceDropsCommit(c)
    \/ \E d \in Readers, s \in Sources, early \in BOOLEAN : ReadBegins(d, s, early)
    \/ \E d \in Readers, q \in Sequence : SourceAnswers(d, q)
    \/ \E d \in Readers : ValidateResponse(d) \/ MaterializeResponse(d) \/ ReadEnds(d)
    \/ Reboot

GateSpec == GateInit /\ [][GateNext]_sequenceVars

(* Every step of a restore is a bounded round trip or straight-line code,   *)
(* so a restore that holds the gate keeps moving.                           *)
FairGateSpec == GateSpec /\ WF_sequenceVars(RestoreStep)

-----------------------------------------------------------------------------
(* Properties.                                                              *)

(* The variables keep their types; in particular the counter never leaves   *)
(* the 64-bit range (next_sequence in source_table.c).                      *)
GateTypeOK ==
    /\ sequence_initialized \in BOOLEAN
    /\ next_sequence \in Sequence
    /\ holder \in Restorers \cup {Nil}
    /\ phase \in {"idle", "validate", "replay", "commit", "release"}
    /\ target \in Sources \cup {Nil}
    /\ backup \subseteq Nat
    /\ offset \in Sequence
    /\ max_dispatched \in Sequence \cup {Nil}
    /\ staged \subseteq Sequence
    /\ active \subseteq Sources
    /\ persisted \in [Sources -> SUBSET Sequence]
    /\ commits \subseteq PendingCommit
    /\ writer \in [Mutators -> Request \cup {Nil}]
    /\ reading \in [Readers -> Sources \cup {Nil}]
    /\ snapshot \in [Readers -> Sequence \cup {Nil}]
    /\ reader \in [Readers -> Sequence \cup {Nil}]
    /\ validated \subseteq Readers
    /\ rejected \subseteq Readers
    /\ stored \in [Readers -> SUBSET Sequence]

(* A sequence issued to an ordinary mutation outranks every entry stored by *)
(* any connected source, whatever registrations, restores, late commits and *)
(* reboots came before: the newest write wins layer resolution.             *)
AllocationOutranksPersisted ==
    [][\A w \in Mutators : \A s \in active :
           (writer[w] = Nil /\ writer'[w] # Nil) =>
               \A q \in persisted[s] : q < writer'[w].sequence]_sequenceVars

(* Two undecided requests never carry the same sequence: not two writers,   *)
(* and not a writer and an undecided restore commit (allocate_sequence and  *)
(* restore_sequence_gate_release_terminal).                                 *)
InFlightSequencesDistinct ==
    \A w \in Mutators : writer[w] # Nil =>
        /\ \A x \in Mutators \ {w} :
               writer[x] # Nil => writer[w].sequence # writer[x].sequence
        /\ \A c \in commits : writer[w].sequence \notin c.staged

(* The overflow exit of restore_sequence_gate_release_terminal, which would *)
(* leave dispatched sequences above the counter, is never taken: validate   *)
(* kept U64_MAX out.                                                        *)
ReleaseNeverOverflows == max_dispatched # U64_MAX

(* A read never refuses as "from the future" an entry its source held when  *)
(* the read began, unless a restore was then replaying it: only writes and  *)
(* restores that overlap the read can fail it.  Validation, which blames    *)
(* the source, refuses only what the restore holding the gate dispatched;   *)
(* and a read that captures the counter after its round trip refuses        *)
(* nothing that validation let pass.                                        *)
FutureOnlyIfConcurrent ==
    [][\A d \in Readers :
           (d \notin rejected /\ d \in rejected') =>
               /\ reader[d] \notin stored[d]
               /\ d \notin validated => holder # Nil /\ reader[d] \in staged
               /\ d \in validated => snapshot[d] # Nil]_sequenceVars

(* A restore never keeps the gate for ever, so allocation and registration  *)
(* are not blocked for ever.                                                *)
GateReleased == \A r \in Restorers : (holder = r) ~> (holder = Nil)

-----------------------------------------------------------------------------
(* The inductive invariant behind the safety properties.                    *)

(* A sequence at or above the counter exists legitimately only if the       *)
(* restore holding the gate has dispatched it.                              *)
Accounted(q) == q < next_sequence \/ q \in staged

(* A restore is past its acquisition exactly while it holds the gate, the   *)
(* counter has stood still since then, and the gate structure is cleared    *)
(* otherwise.                                                               *)
GateInv ==
    /\ phase # "idle" <=> holder # Nil
    /\ phase # "idle" => target # Nil /\ offset = next_sequence
    /\ phase \in {"idle", "validate"} => max_dispatched = Nil
    /\ ~sequence_initialized => active = {} /\ holder = Nil /\ next_sequence = 0

(* What a restore staged lies between its offset and its recorded maximum.  *)
StagedInv ==
    /\ max_dispatched # Nil => max_dispatched < U64_MAX
    /\ \A q \in staged : max_dispatched # Nil /\ offset <= q /\ q <= max_dispatched

(* Every sequence in a connected source, in an undecided request or in a    *)
(* response is below the counter or inside the restore window.              *)
AccountedInv ==
    /\ \A s \in active : \A q \in persisted[s] : Accounted(q)
    /\ \A c \in commits : \A q \in c.staged : Accounted(q)
    /\ \A w \in Mutators : writer[w] # Nil => writer[w].sequence < next_sequence
    /\ \A d \in Readers : reader[d] # Nil => Accounted(reader[d])

(* The counter has not moved back since a read began: what its source held  *)
(* then is below the counter it captured, what was validated is below the   *)
(* counter.                                                                 *)
ReadsInv ==
    \A d \in Readers :
        /\ snapshot[d] # Nil => snapshot[d] <= next_sequence
        /\ \A q \in stored[d] : q < next_sequence /\ (snapshot[d] # Nil => q < snapshot[d])
        /\ d \in validated => reader[d] # Nil /\ reader[d] < next_sequence

GateIndInv ==
    /\ GateTypeOK /\ GateInv /\ StagedInv
    /\ AccountedInv /\ ReadsInv /\ InFlightSequencesDistinct
=============================================================================
