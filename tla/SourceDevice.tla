---------------------------- MODULE SourceDevice ----------------------------
(***************************************************************************)
(* The request protocol between the kernel's layered registry (LCS) and    *)
(* its sources: user-space daemons that hold an open /dev/pkm_registry     *)
(* file, read requests from it and write responses to it.                  *)
(*                                                                         *)
(* A kernel thread (a caller) performs a round trip: it waits until fewer  *)
(* than max_concurrent_rsi_requests are in flight, enqueues its request on *)
(* the source's file with a waiter that lives on its own stack, and sleeps *)
(* until the waiter is completed, its deadline passes or a signal arrives. *)
(* A source thread delivers the response in several steps: it is accepted  *)
(* under the locks, validated without them, and completed under them       *)
(* again.  A response whose caller has gone is late: its effects are       *)
(* published by the source's own write, and if that is impossible the      *)
(* source is taken down.                                                   *)
(*                                                                         *)
(* Every action is one section under the source table mutex and the file's *)
(* queue_lock, or one lock-free step between two such sections.            *)
(***************************************************************************)
EXTENDS Integers, Sequences, FiniteSets

CONSTANTS
    Sources,        \* source slots
    Files,          \* open files of the source device (struct source_fd)
    Callers,        \* kernel threads performing a round trip
    Threads,        \* source threads inside write()
    Ops,            \* RSI operations the callers perform
    Limit,          \* max_concurrent_rsi_requests
    MaxRequestId,   \* the last value of the 64-bit request id
    None

RequestId == 0..MaxRequestId
Request == Files \X RequestId

(* The RSI operations, by what a late success of theirs calls for.          *)
ReadOps == {"LOOKUP", "ENUM_CHILDREN", "READ_KEY", "QUERY_VALUES"}
QuietOps == ReadOps \cup {"FLUSH", "ABORT"}
KeyMutationOps == {"SET_VALUE", "WRITE_KEY"}
BareMutationOps ==
    {"CREATE_ENTRY", "HIDE_ENTRY", "DELETE_ENTRY", "CREATE_KEY", "DROP_KEY",
     "DELETE_VALUE_ENTRY", "SET_BLANKET_TOMBSTONE", "DELETE_LAYER"}
AllOps == QuietOps \cup KeyMutationOps \cup BareMutationOps \cup {"BEGIN", "COMMIT"}

(* pkm_lcs_source_late_success_requires_mutation_effects.                   *)
RequiresMutationEffects == KeyMutationOps \cup BareMutationOps

(* Operations whose waiter retains the response frame.                      *)
RetainingOps == ReadOps \cup {"DELETE_LAYER"}

(* Operations whose success somebody has to act on.                         *)
EffectOps == RequiresMutationEffects \cup {"BEGIN", "COMMIT"}

ASSUME DeviceAssumption ==
    /\ Ops \subseteq AllOps
    /\ Limit \in Nat \ {0}
    /\ MaxRequestId \in Nat
    /\ None \notin Sources
    /\ None \notin Files
    /\ None \notin Callers
    /\ None \notin Request
    /\ None \notin AllOps
    /\ None \notin {"OK", "ERROR", "EIO", "ENOMEM"}

VARIABLES
    status,             \* per slot: "FREE", "ACTIVE" or "DOWN"
    active_fd,          \* per slot: the file serving it, or None
    fd_state,           \* per file: "NONE", "UNREGISTERED", "ACTIVE", "RELEASED"
    fd_source,          \* per file: source_id
    closing,            \* files that were marked down
    queue,              \* per file: ids of the requests not yet read
    next_request_id,    \* per file
    in_flight_count,    \* per file: in_flight_request_count
    in_flight,          \* requests that have an in-flight record, and in it:
    delivered,          \*   record->delivered
    accepted,           \*   record->response_accepted
    waiter,             \*   record->waiter
    was_attached,       \*   record->waiter_was_attached
    op,                 \*   record->op_code
    late_effect,        \*   record->late_effect is not NONE
    pc,                 \* per caller
    call_op,            \* per caller: the operation
    call_source,        \* per caller: the slot it is for
    call_late,          \* callers that supply a late effect
    ticket,             \* per caller: waiter->request_id, on its file
    completed,          \* per caller: waiter->response_errno once completed
    epoch_seen,         \* callers whose slot_wait_epoch snapshot is current
    tpc,                \* per source thread
    tfile,              \* per source thread: the file it writes to
    treq,               \* per source thread: result->request_id, on its file
    tstatus,            \* per source thread: the verdict on the response
    top,                \* per source thread: result->request_op_code
    tdetached,          \* threads with result->caller_waiter_detached
    tlate,              \* threads that hold a result->late_effect
    unsettled           \* requests the source reported done and whose effects
                        \* the caller or the late response has yet to take over
                        \* or to give up

slotVars == <<status, active_fd>>
fileVars == <<fd_state, fd_source, closing>>
recordVars == <<in_flight_count, in_flight, delivered, accepted, waiter,
                was_attached, op, late_effect>>
requestVars == <<queue, next_request_id, recordVars>>
callVars == <<call_op, call_source, call_late, ticket>>
callerVars == <<pc, callVars, completed, epoch_seen>>
threadVars == <<tpc, tfile, treq, tstatus, top, tdetached, tlate>>
vars == <<slotVars, fileVars, requestVars, callerVars, threadVars, unsettled>>

Init ==
    /\ status = [s \in Sources |-> "FREE"]
    /\ active_fd = [s \in Sources |-> None]
    /\ fd_state = [f \in Files |-> "NONE"]
    /\ fd_source = [f \in Files |-> None]
    /\ closing = {}
    /\ queue = [f \in Files |-> <<>>]
    /\ next_request_id = [f \in Files |-> 0]
    /\ in_flight_count = [f \in Files |-> 0]
    /\ in_flight = {}
    /\ delivered = {}
    /\ accepted = {}
    /\ waiter = [r \in Request |-> None]
    /\ was_attached = {}
    /\ op = [r \in Request |-> None]
    /\ late_effect = {}
    /\ pc = [c \in Callers |-> "idle"]
    /\ call_op = [c \in Callers |-> None]
    /\ call_source = [c \in Callers |-> None]
    /\ call_late = {}
    /\ ticket = [c \in Callers |-> None]
    /\ completed = [c \in Callers |-> None]
    /\ epoch_seen = {}
    /\ tpc = [t \in Threads |-> "idle"]
    /\ tfile = [t \in Threads |-> None]
    /\ treq = [t \in Threads |-> None]
    /\ tstatus = [t \in Threads |-> None]
    /\ top = [t \in Threads |-> None]
    /\ tdetached = {}
    /\ tlate = {}
    /\ unsettled = {}

-----------------------------------------------------------------------------
(* Files and slots.                                                         *)

IsActive(f) ==
    /\ fd_state[f] = "ACTIVE"
    /\ status[fd_source[f]] = "ACTIVE"
    /\ active_fd[fd_source[f]] = f

IsOpen(f) == fd_state[f] \in {"UNREGISTERED", "ACTIVE"}

(* open("/dev/pkm_registry") by a TCB process.                              *)
OpenFile(f) ==
    /\ fd_state[f] = "NONE"
    /\ fd_state' = [fd_state EXCEPT ![f] = "UNREGISTERED"]
    /\ UNCHANGED <<slotVars, fd_source, closing, requestVars,
                   callerVars, threadVars, unsettled>>

(* REG_SRC_REGISTER: a free slot is taken, or a DOWN slot is resumed.       *)
RegisterFile(f, s) ==
    /\ fd_state[f] = "UNREGISTERED"
    /\ status[s] \in {"FREE", "DOWN"}
    /\ status' = [status EXCEPT ![s] = "ACTIVE"]
    /\ active_fd' = [active_fd EXCEPT ![s] = f]
    /\ fd_state' = [fd_state EXCEPT ![f] = "ACTIVE"]
    /\ fd_source' = [fd_source EXCEPT ![f] = s]
    /\ UNCHANGED <<closing, requestVars, callerVars, threadVars, unsettled>>

(* The records of R are unlinked and freed.                                 *)
FreeRecords(R) ==
    /\ in_flight' = in_flight \ R
    /\ delivered' = delivered \ R
    /\ accepted' = accepted \ R
    /\ waiter' = [r \in Request |-> IF r \in R THEN None ELSE waiter[r]]
    /\ was_attached' = was_attached \ R
    /\ op' = [r \in Request |-> IF r \in R THEN None ELSE op[r]]
    /\ late_effect' = late_effect \ R

(* Mutant: a file taken down frees its records and completes nobody.        *)
InFlightDestroyForgetsWaiters(f) ==
    LET R == {r \in in_flight : r[1] = f} IN
    /\ FreeRecords(R)
    /\ in_flight_count' = [in_flight_count EXCEPT ![f] = 0]
    /\ epoch_seen' = IF in_flight_count[f] # 0 THEN {} ELSE epoch_seen
    /\ UNCHANGED completed

(* pkm_lcs_source_in_flight_destroy_locked: every attached waiter is        *)
(* completed with -EIO, every record freed, callers waiting for a free slot *)
(* are woken.                                                               *)
InFlightDestroy(f) ==
    LET R == {r \in in_flight : r[1] = f} IN
    /\ FreeRecords(R)
    /\ completed' = [c \in Callers |->
                         IF \E r \in R : waiter[r] = c THEN "EIO" ELSE completed[c]]
    /\ in_flight_count' = [in_flight_count EXCEPT ![f] = 0]
    /\ epoch_seen' = IF in_flight_count[f] # 0 THEN {} ELSE epoch_seen

(* Mutant: requests queued on a file that is taken down stay queued.        *)
FdMarkDownKeepsQueue(f) ==
    /\ closing' = closing \cup {f}
    /\ InFlightDestroy(f)
    /\ IF IsActive(f)
       THEN /\ status' = [status EXCEPT ![fd_source[f]] = "DOWN"]
            /\ active_fd' = [active_fd EXCEPT ![fd_source[f]] = None]
       ELSE UNCHANGED slotVars
    /\ UNCHANGED <<queue, fd_source, next_request_id>>

(* pkm_lcs_source_fd_mark_down_locked: the file is closing, its queue and   *)
(* records are destroyed, and the slot it serves, if any, goes DOWN.        *)
FdMarkDown(f) ==
    /\ closing' = closing \cup {f}
    /\ queue' = [queue EXCEPT ![f] = <<>>]
    /\ InFlightDestroy(f)
    /\ IF IsActive(f)
       THEN /\ status' = [status EXCEPT ![fd_source[f]] = "DOWN"]
            /\ active_fd' = [active_fd EXCEPT ![fd_source[f]] = None]
       ELSE UNCHANGED slotVars
    /\ UNCHANGED <<fd_source, next_request_id>>

NoMarkDown ==
    UNCHANGED <<slotVars, closing, fd_source, requestVars, completed, epoch_seen>>

(* pkm_lcs_source_mark_down_by_id: whichever file serves the slot now.      *)
MarkDownById(s) ==
    IF status[s] = "ACTIVE" /\ active_fd[s] # None
    THEN FdMarkDown(active_fd[s])
    ELSE NoMarkDown

(* The last reference to the file is gone, so no thread is writing to it.   *)
ReleaseFile(f) ==
    /\ IsOpen(f)
    /\ \A t \in Threads : tfile[t] # f
    /\ FdMarkDown(f)
    /\ fd_state' = [fd_state EXCEPT ![f] = "RELEASED"]
    /\ UNCHANGED <<pc, callVars, threadVars, unsettled>>

(* The source reads the oldest queued request.  record->delivered is set    *)
(* before the copy to user space; a fault clears it under the same lock and *)
(* leaves the request queued, which is no step here.                        *)
ReadFile(f) ==
    /\ IsOpen(f)
    /\ queue[f] # <<>>
    /\ <<f, Head(queue[f])>> \in in_flight
    /\ delivered' = delivered \cup {<<f, Head(queue[f])>>}
    /\ queue' = [queue EXCEPT ![f] = Tail(@)]
    /\ UNCHANGED <<slotVars, fileVars, next_request_id, in_flight_count,
                   in_flight, accepted, waiter, was_attached, op, late_effect,
                   callerVars, threadVars, unsettled>>

-----------------------------------------------------------------------------
(* The caller's round trip.                                                 *)

Goto(c, label) == pc' = [pc EXCEPT ![c] = label]

(* The round trip is over and its waiter's stack frame dies.                *)
Returned(c) ==
    /\ Goto(c, "idle")
    /\ call_op' = [call_op EXCEPT ![c] = None]
    /\ call_source' = [call_source EXCEPT ![c] = None]
    /\ call_late' = call_late \ {c}
    /\ ticket' = [ticket EXCEPT ![c] = None]
    /\ completed' = [completed EXCEPT ![c] = None]
    /\ epoch_seen' = epoch_seen \ {c}

ReturnOnly(c) ==
    /\ Returned(c)
    /\ UNCHANGED <<slotVars, fileVars, requestVars, threadVars, unsettled>>

GotoOnly(c, label) ==
    /\ Goto(c, label)
    /\ UNCHANGED <<slotVars, fileVars, requestVars, callVars, completed,
                   epoch_seen, threadVars, unsettled>>

(* A key fd, transaction fd or restore operation starts a round trip.  Only *)
(* SET_VALUE, WRITE_KEY and a restore's COMMIT supply a late effect.        *)
StartRoundTrip(c, o, s, late) ==
    /\ pc[c] = "idle"
    /\ late => o \in KeyMutationOps \cup {"COMMIT"}
    /\ Goto(c, "slot")
    /\ call_op' = [call_op EXCEPT ![c] = o]
    /\ call_source' = [call_source EXCEPT ![c] = s]
    /\ call_late' = IF late THEN call_late \cup {c} ELSE call_late
    /\ UNCHANGED <<slotVars, fileVars, requestVars, ticket, completed,
                   epoch_seen, threadVars, unsettled>>

(* pkm_lcs_source_wait_for_slot, top of the loop: the epoch is read, then   *)
(* the deadline is tested.  Time is not modelled: a test of the deadline    *)
(* may find that it has passed.                                             *)
SnapshotEpoch(c) ==
    /\ pc[c] = "slot"
    /\ Goto(c, "admission")
    /\ epoch_seen' = epoch_seen \cup {c}
    /\ UNCHANGED <<slotVars, fileVars, requestVars, callVars, completed,
                   threadVars, unsettled>>

SlotTimeout(c) ==
    /\ pc[c] = "slot"
    /\ ReturnOnly(c)

(* The slot is served by an active file, as admission and dispatch test it. *)
Served(s) ==
    /\ status[s] = "ACTIVE"
    /\ active_fd[s] # None
    /\ active_fd[s] \notin closing
    /\ fd_state[active_fd[s]] = "ACTIVE"
    /\ fd_source[active_fd[s]] = s

AtLimit(f) == in_flight_count[f] >= Limit

(* pkm_lcs_source_slot_admission_state: 0, -EIO or -EAGAIN.  The slot is    *)
(* not reserved; dispatch tests again.                                      *)
Admission(c) ==
    LET s == call_source[c] IN
    /\ pc[c] = "admission"
    /\ \/ /\ ~Served(s)
          /\ ReturnOnly(c)
       \/ /\ Served(s)
          /\ ~AtLimit(active_fd[s])
          /\ GotoOnly(c, "dispatch")
       \/ /\ Served(s)
          /\ AtLimit(active_fd[s])
          /\ GotoOnly(c, "epoch")

(* The deadline is tested again and the caller sleeps until the epoch       *)
(* differs from its snapshot, its deadline passes or a signal arrives.      *)
EpochChanged(c) ==
    /\ pc[c] = "epoch"
    /\ c \notin epoch_seen
    /\ GotoOnly(c, "slot")

EpochTimeout(c) ==
    /\ pc[c] = "epoch"
    /\ c \in epoch_seen
    /\ ReturnOnly(c)

EpochSignal(c) ==
    /\ pc[c] = "epoch"
    /\ c \in epoch_seen
    /\ ReturnOnly(c)

(* pkm_lcs_source_in_flight_insert_locked and the tail of every dispatch:   *)
(* the record is filled in, the request queued, the id consumed.            *)
Enqueue(f, o, w, late) ==
    LET r == <<f, next_request_id[f]>> IN
    /\ in_flight' = in_flight \cup {r}
    /\ in_flight_count' = [in_flight_count EXCEPT ![f] = @ + 1]
    /\ waiter' = [waiter EXCEPT ![r] = w]
    /\ was_attached' = IF w # None THEN was_attached \cup {r} ELSE was_attached
    /\ op' = [op EXCEPT ![r] = o]
    /\ late_effect' = IF late THEN late_effect \cup {r} ELSE late_effect
    /\ queue' = [queue EXCEPT ![f] = Append(@, next_request_id[f])]
    /\ next_request_id' = [next_request_id EXCEPT ![f] = @ + 1]
    /\ UNCHANGED <<delivered, accepted>>

(* Mutant: the id wraps without notice.                                     *)
IdsNeverExhausted(f) == FALSE

(* pkm_lcs_source_request_id_successor fails.                               *)
IdsExhausted(f) == next_request_id[f] = MaxRequestId

(* Mutant: dispatch relies on the admission test.                           *)
DispatchTrustsAdmission(c) ==
    LET s == call_source[c]
        f == active_fd[s] IN
    /\ pc[c] = "dispatch"
    /\ Served(s)
    /\ ~IdsExhausted(f)
    /\ Enqueue(f, call_op[c], c, c \in call_late)
    /\ Goto(c, "wait")
    /\ ticket' = [ticket EXCEPT ![c] = <<f, next_request_id[f]>>]
    /\ UNCHANGED <<slotVars, fileVars, call_op, call_source, call_late,
                   completed, epoch_seen, threadVars, unsettled>>

(* The request is enqueued with the caller's waiter.                        *)
DispatchSends(c) ==
    LET s == call_source[c]
        f == active_fd[s] IN
    /\ pc[c] = "dispatch"
    /\ Served(s)
    /\ ~AtLimit(f)
    /\ ~IdsExhausted(f)
    /\ Enqueue(f, call_op[c], c, c \in call_late)
    /\ Goto(c, "wait")
    /\ ticket' = [ticket EXCEPT ![c] = <<f, next_request_id[f]>>]
    /\ UNCHANGED <<slotVars, fileVars, call_op, call_source, call_late,
                   completed, epoch_seen, threadVars, unsettled>>

(* pkm_lcs_source_dispatch_<operation>_request_with_waiter, one per request *)
(* the protocol knows.                                                      *)
DispatchLookup(c) == call_op[c] = "LOOKUP" /\ DispatchSends(c)
DispatchReadKey(c) == call_op[c] = "READ_KEY" /\ DispatchSends(c)
DispatchEnumChildren(c) == call_op[c] = "ENUM_CHILDREN" /\ DispatchSends(c)
DispatchQueryValues(c) == call_op[c] = "QUERY_VALUES" /\ DispatchSends(c)
DispatchSetValue(c) == call_op[c] = "SET_VALUE" /\ DispatchSends(c)
DispatchDeleteValueEntry(c) == call_op[c] = "DELETE_VALUE_ENTRY" /\ DispatchSends(c)
DispatchSetBlanketTombstone(c) == call_op[c] = "SET_BLANKET_TOMBSTONE" /\ DispatchSends(c)
DispatchDropKey(c) == call_op[c] = "DROP_KEY" /\ DispatchSends(c)
DispatchCreateEntry(c) == call_op[c] = "CREATE_ENTRY" /\ DispatchSends(c)
DispatchHideDeleteEntry(c) == call_op[c] \in {"HIDE_ENTRY", "DELETE_ENTRY"} /\ DispatchSends(c)
DispatchCreateKey(c) == call_op[c] = "CREATE_KEY" /\ DispatchSends(c)
DispatchWriteKey(c) == call_op[c] = "WRITE_KEY" /\ DispatchSends(c)
DispatchTransaction(c) == call_op[c] \in {"BEGIN", "COMMIT", "ABORT"} /\ DispatchSends(c)
DispatchFlush(c) == call_op[c] = "FLUSH" /\ DispatchSends(c)
DispatchDeleteLayer(c) == call_op[c] = "DELETE_LAYER" /\ DispatchSends(c)

DispatchRequest(c) ==
    \/ DispatchLookup(c)
    \/ DispatchReadKey(c)
    \/ DispatchEnumChildren(c)
    \/ DispatchQueryValues(c)
    \/ DispatchSetValue(c)
    \/ DispatchDeleteValueEntry(c)
    \/ DispatchSetBlanketTombstone(c)
    \/ DispatchDropKey(c)
    \/ DispatchCreateEntry(c)
    \/ DispatchHideDeleteEntry(c)
    \/ DispatchCreateKey(c)
    \/ DispatchWriteKey(c)
    \/ DispatchTransaction(c)
    \/ DispatchFlush(c)
    \/ DispatchDeleteLayer(c)

(* -EIO, -EOVERFLOW, or a failure before the record is inserted.            *)
DispatchFails(c) ==
    /\ pc[c] = "dispatch"
    /\ ReturnOnly(c)

(* The record is inserted, then its late effect cannot be copied or the     *)
(* transaction cannot be bound: it is released again, which wakes everyone  *)
(* waiting for a slot.  The id is not consumed.                             *)
DispatchBacksOut(c) ==
    LET s == call_source[c] IN
    /\ pc[c] = "dispatch"
    /\ Served(s)
    /\ ~AtLimit(active_fd[s])
    /\ ~IdsExhausted(active_fd[s])
    /\ \/ call_op[c] \in KeyMutationOps /\ c \in call_late
       \/ call_op[c] = "BEGIN"
    /\ Goto(c, "idle")
    /\ call_op' = [call_op EXCEPT ![c] = None]
    /\ call_source' = [call_source EXCEPT ![c] = None]
    /\ call_late' = call_late \ {c}
    /\ epoch_seen' = {}
    /\ UNCHANGED <<slotVars, fileVars, requestVars, ticket, completed,
                   threadVars, unsettled>>

(* -EAGAIN: another caller took the slot; start over or time out.           *)
DispatchLosesSlot(c) ==
    LET s == call_source[c] IN
    /\ pc[c] = "dispatch"
    /\ Served(s)
    /\ AtLimit(active_fd[s])
    /\ GotoOnly(c, "slot")

DispatchTimeout(c) ==
    LET s == call_source[c] IN
    /\ pc[c] = "dispatch"
    /\ Served(s)
    /\ AtLimit(active_fd[s])
    /\ ReturnOnly(c)

(* The response is taken: the waiter is gone, and after a success that has  *)
(* effects the caller goes on to publish them.  After -ENOMEM it returns    *)
(* and gives them up.                                                       *)
TakeResponse(c) ==
    LET effects == completed[c] = "OK" /\ call_op[c] \in EffectOps IN
    /\ Goto(c, IF effects THEN "publish" ELSE "idle")
    /\ call_op' = [call_op EXCEPT ![c] = None]
    /\ call_source' = IF effects THEN call_source
                      ELSE [call_source EXCEPT ![c] = None]
    /\ call_late' = call_late \ {c}
    /\ ticket' = [ticket EXCEPT ![c] = None]
    /\ completed' = [completed EXCEPT ![c] = None]
    /\ epoch_seen' = epoch_seen \ {c}
    /\ unsettled' = IF effects \/ completed[c] = "ENOMEM"
                    THEN unsettled \ {ticket[c]} ELSE unsettled
    /\ UNCHANGED <<slotVars, fileVars, requestVars, threadVars>>

(* pkm_lcs_source_response_waiter_wait_until sees waiter->completed.        *)
WaitCompletes(c) ==
    /\ pc[c] = "wait"
    /\ completed[c] # None
    /\ TakeResponse(c)

(* Mutant: the wait has no deadline.                                        *)
WaitForever(c) == FALSE

WaitTimeout(c) ==
    /\ pc[c] = "wait"
    /\ completed[c] = None
    /\ GotoOnly(c, "detach")

WaitSignal(c) ==
    /\ pc[c] = "wait"
    /\ completed[c] = None
    /\ GotoOnly(c, "detach")

(* Mutant: a waiter that gave up returns and leaves record->waiter behind.  *)
DetachKeepsRecord(c) ==
    /\ pc[c] = "detach"
    /\ IF completed[c] # None THEN TakeResponse(c) ELSE ReturnOnly(c)

(* pkm_lcs_source_response_waiter_detach, then the last look at ->completed:*)
(* completion beats the deadline and the signal.  The record is looked up   *)
(* in the file that serves the slot now.                                    *)
Detach(c) ==
    LET r == <<active_fd[call_source[c]], ticket[c][2]>> IN
    /\ pc[c] = "detach"
    /\ \/ /\ completed[c] # None
          /\ TakeResponse(c)
       \/ /\ completed[c] = None
          /\ Returned(c)
          /\ waiter' = IF r \in in_flight /\ waiter[r] = c
                       THEN [waiter EXCEPT ![r] = None]
                       ELSE waiter
          /\ UNCHANGED <<slotVars, fileVars, queue, next_request_id,
                         in_flight_count, in_flight, delivered, accepted,
                         was_attached, op, late_effect, threadVars, unsettled>>

(* The caller's generation, audit and watch effects follow the response.    *)
(* It publishes them, or meets an error at which it only returns, or fails  *)
(* where the code takes the source down.                                    *)
PublishReturns(c) ==
    /\ pc[c] = "publish"
    /\ ReturnOnly(c)

PublishFails(c) ==
    /\ pc[c] = "publish"
    /\ MarkDownById(call_source[c])
    /\ Goto(c, "idle")
    /\ call_source' = [call_source EXCEPT ![c] = None]
    /\ UNCHANGED <<fd_state, call_op, call_late, ticket, threadVars, unsettled>>

-----------------------------------------------------------------------------
(* A source thread writes a response.                                       *)

ThreadIdle(t) ==
    /\ tpc' = [tpc EXCEPT ![t] = "idle"]
    /\ tfile' = [tfile EXCEPT ![t] = None]
    /\ treq' = [treq EXCEPT ![t] = None]
    /\ tstatus' = [tstatus EXCEPT ![t] = None]
    /\ top' = [top EXCEPT ![t] = None]
    /\ tdetached' = tdetached \ {t}
    /\ tlate' = tlate \ {t}

ThreadOnly ==
    UNCHANGED <<slotVars, fileVars, requestVars, callerVars, unsettled>>

(* Mutant: a released record wakes nobody.                                  *)
ReleaseRecordQuietly(r) ==
    /\ FreeRecords({r})
    /\ in_flight_count' = [in_flight_count EXCEPT ![r[1]] = @ - 1]
    /\ UNCHANGED epoch_seen

(* pkm_lcs_source_in_flight_release_locked: the record is freed and callers *)
(* waiting for a slot are woken.                                            *)
ReleaseRecord(r) ==
    /\ FreeRecords({r})
    /\ in_flight_count' = [in_flight_count EXCEPT ![r[1]] =
                               IF @ > 0 THEN @ - 1 ELSE @]
    /\ epoch_seen' = IF in_flight_count[r[1]] > 0 THEN {} ELSE epoch_seen

(* A record without a waiter is released, and the thread that answered it   *)
(* takes its late effect along.                                             *)
ReleaseUnwaited(t, r) ==
    /\ tpc' = [tpc EXCEPT ![t] = "late"]
    /\ tdetached' = IF r \in was_attached THEN tdetached \cup {t} ELSE tdetached
    /\ tlate' = IF r \in late_effect THEN tlate \cup {t} ELSE tlate
    /\ ReleaseRecord(r)

(* pkm_lcs_source_validate_accepted_response_payload: success, a known      *)
(* error status, or malformed data; a response that carries registry        *)
(* entries can also fail to be validated for lack of memory.                *)
Verdicts(o) ==
    {"OK", "ERROR", "MALFORMED"} \cup (IF o \in ReadOps THEN {"FAILED"} ELSE {})

Acceptable(f, r) ==
    /\ f \notin closing
    /\ IsActive(f)
    /\ r \in in_flight
    /\ r \in delivered
    /\ r \notin accepted

(* pkm_lcs_source_accept_response_file: an attached record is only marked,  *)
(* a record without a waiter is released at once.                           *)
AcceptResponse(t, f, id, v) ==
    LET r == <<f, id>> IN
    /\ tpc[t] = "idle"
    /\ Acceptable(f, r)
    /\ v \in Verdicts(op[r])
    /\ tfile' = [tfile EXCEPT ![t] = f]
    /\ treq' = [treq EXCEPT ![t] = r]
    /\ tstatus' = [tstatus EXCEPT ![t] = v]
    /\ top' = [top EXCEPT ![t] = op[r]]
    /\ unsettled' = IF v = "OK" /\ op[r] \in EffectOps
                    THEN unsettled \cup {r} ELSE unsettled
    /\ \/ /\ waiter[r] # None
          /\ tpc' = [tpc EXCEPT ![t] = "complete"]
          /\ accepted' = accepted \cup {r}
          /\ UNCHANGED <<in_flight_count, in_flight, delivered, waiter,
                         was_attached, op, late_effect, epoch_seen, tdetached, tlate>>
       \/ /\ waiter[r] = None
          /\ ReleaseUnwaited(t, r)
    /\ UNCHANGED <<slotVars, fileVars, queue, next_request_id, pc, callVars, completed>>

(* A short frame, a bad length, an unknown, undelivered or already answered *)
(* id, or the wrong operation code: -EINVAL.                                *)
RejectResponse(t, f) ==
    /\ tpc[t] = "idle"
    /\ IsOpen(f)
    /\ tpc' = [tpc EXCEPT ![t] = "malformed"]
    /\ tfile' = [tfile EXCEPT ![t] = f]
    /\ UNCHANGED <<treq, tstatus, top, tdetached, tlate>>
    /\ ThreadOnly

(* pkm_lcs_source_device_mark_malformed_protocol_file, after the locks were *)
(* dropped: only if the file still serves its slot.                         *)
MarkMalformed(t) ==
    /\ tpc[t] = "malformed"
    /\ IF IsActive(tfile[t]) THEN FdMarkDown(tfile[t]) ELSE NoMarkDown
    /\ ThreadIdle(t)
    /\ UNCHANGED <<fd_state, pc, callVars, unsettled>>

(* What the caller is told.                                                 *)
CallerErrno(v) == IF v \in {"OK", "ERROR"} THEN v ELSE "EIO"

(* pkm_lcs_source_response_waiter_complete_with_frame: a waiter that        *)
(* retains the frame is told -ENOMEM if the frame of a success cannot be    *)
(* copied.                                                                  *)
Completions(v, o) ==
    {CallerErrno(v)} \cup (IF v = "OK" /\ o \in RetainingOps THEN {"ENOMEM"} ELSE {})

(* Mutant: late or not is decided by what accept saw, so a caller that      *)
(* detached in between leaves its effects to nobody.                        *)
CompleteWaiterTrustsAccept(t) ==
    LET r == treq[t] IN
    /\ tpc[t] = "complete"
    /\ IF r \in in_flight /\ r \in accepted
       THEN /\ completed' = [c \in Callers |->
                   IF waiter[r] = c THEN CallerErrno(tstatus[t]) ELSE completed[c]]
            /\ ReleaseRecord(r)
       ELSE UNCHANGED <<recordVars, completed, epoch_seen>>
    /\ ThreadIdle(t)
    /\ UNCHANGED <<slotVars, fileVars, queue, next_request_id, pc, callVars, unsettled>>

(* Mutant: the late effects run whether the caller was completed or not.    *)
CompleteWaiterThenLate(t) ==
    LET r == treq[t] IN
    /\ tpc[t] = "complete"
    /\ r \in in_flight
    /\ completed' = [c \in Callers |->
                         IF waiter[r] = c THEN CallerErrno(tstatus[t]) ELSE completed[c]]
    /\ ReleaseUnwaited(t, r)
    /\ UNCHANGED <<slotVars, fileVars, queue, next_request_id, pc, callVars,
                   tfile, treq, tstatus, top, unsettled>>

(* pkm_lcs_source_complete_waiter_file: the record may be gone, or the      *)
(* caller is completed, or it has detached since accept.                    *)
CompleteWaiter(t) ==
    LET r == treq[t] IN
    /\ tpc[t] = "complete"
    /\ \/ /\ r \notin in_flight \/ r \notin accepted
          /\ ThreadIdle(t)
          /\ UNCHANGED <<recordVars, completed, epoch_seen>>
       \/ /\ r \in in_flight
          /\ r \in accepted
          /\ waiter[r] # None
          /\ \E errno \in Completions(tstatus[t], op[r]) :
                 completed' = [completed EXCEPT ![waiter[r]] = errno]
          /\ ReleaseRecord(r)
          /\ ThreadIdle(t)
       \/ /\ r \in in_flight
          /\ r \in accepted
          /\ waiter[r] = None
          /\ ReleaseUnwaited(t, r)
          /\ UNCHANGED <<completed, tfile, treq, tstatus, top>>
    /\ UNCHANGED <<slotVars, fileVars, queue, next_request_id, pc, callVars, unsettled>>

-----------------------------------------------------------------------------
(* pkm_lcs_source_handle_late_response_effects_file.                        *)

(* The caller was told -ETIMEDOUT or was interrupted.                       *)
IsLate(t) ==
    /\ tpc[t] = "late"
    /\ t \in tdetached

LateGoto(t, label) ==
    /\ tpc' = [tpc EXCEPT ![t] = label]
    /\ UNCHANGED <<tfile, treq, tstatus, top, tdetached, tlate>>
    /\ ThreadOnly

(* Asynchronous requests, failed validation, malformed data of anything but *)
(* COMMIT, errors of anything but a transaction's COMMIT, and operations    *)
(* that change nothing.                                                     *)
LateNothing(t) ==
    /\ tpc[t] = "late"
    /\ \/ t \notin tdetached
       \/ tstatus[t] = "FAILED"
       \/ tstatus[t] = "MALFORMED" /\ top[t] # "COMMIT"
       \/ tstatus[t] = "ERROR" /\ (top[t] # "COMMIT" \/ t \in tlate)
       \/ tstatus[t] = "OK" /\ top[t] \notin EffectOps
    /\ ThreadIdle(t)
    /\ ThreadOnly

LateCommitMalformed(t) ==
    /\ IsLate(t)
    /\ tstatus[t] = "MALFORMED"
    /\ top[t] = "COMMIT"
    /\ LateGoto(t, "markdown")

(* A transaction nobody waits for was begun: an asynchronous ABORT goes to  *)
(* the file that serves the slot now.                                       *)
LateBeginAborts(t) ==
    LET s == fd_source[tfile[t]]
        f == active_fd[s] IN
    /\ IsLate(t)
    /\ tstatus[t] = "OK"
    /\ top[t] = "BEGIN"
    /\ Served(s)
    /\ ~AtLimit(f)
    /\ ~IdsExhausted(f)
    /\ Enqueue(f, "ABORT", None, FALSE)
    /\ unsettled' = unsettled \ {treq[t]}
    /\ ThreadIdle(t)
    /\ UNCHANGED <<slotVars, fileVars, callerVars>>

LateBeginFails(t) ==
    /\ IsLate(t)
    /\ tstatus[t] = "OK"
    /\ top[t] = "BEGIN"
    /\ LateGoto(t, "markdown")

(* A transaction's COMMIT: the transaction fd is settled with its status.   *)
LateCommitSettles(t) ==
    /\ IsLate(t)
    /\ tstatus[t] \in {"OK", "ERROR"}
    /\ top[t] = "COMMIT"
    /\ t \notin tlate
    /\ unsettled' = unsettled \ {treq[t]}
    /\ ThreadIdle(t)
    /\ UNCHANGED <<slotVars, fileVars, requestVars, callerVars>>

LateCommitFails(t) ==
    /\ IsLate(t)
    /\ tstatus[t] \in {"OK", "ERROR"}
    /\ top[t] = "COMMIT"
    /\ t \notin tlate
    /\ LateGoto(t, "markdown")

(* A key mutation or a restore's COMMIT whose effects were retained.        *)
LatePublishes(t) ==
    /\ IsLate(t)
    /\ tstatus[t] = "OK"
    /\ top[t] \in EffectOps \ {"BEGIN"}
    /\ t \in tlate
    /\ unsettled' = unsettled \ {treq[t]}
    /\ ThreadIdle(t)
    /\ UNCHANGED <<slotVars, fileVars, requestVars, callerVars>>

(* A restore's publication takes the slot's current file down by itself     *)
(* before the file of the late response is taken down.                      *)
LatePublishFails(t) ==
    /\ IsLate(t)
    /\ tstatus[t] = "OK"
    /\ top[t] \in EffectOps \ {"BEGIN"}
    /\ t \in tlate
    /\ LateGoto(t, IF top[t] = "COMMIT" THEN "markdown_by_id" ELSE "markdown")

(* A mutation without retained effects cannot be published.                 *)
LateMutationUnpublishable(t) ==
    /\ IsLate(t)
    /\ tstatus[t] = "OK"
    /\ top[t] \in RequiresMutationEffects
    /\ t \notin tlate
    /\ LateGoto(t, "markdown")

LatePublishMarksDown(t) ==
    /\ tpc[t] = "markdown_by_id"
    /\ MarkDownById(fd_source[tfile[t]])
    /\ tpc' = [tpc EXCEPT ![t] = "markdown"]
    /\ UNCHANGED <<fd_state, pc, callVars, tfile, treq, tstatus, top,
                   tdetached, tlate, unsettled>>

(* pkm_lcs_source_device_mark_down_file.                                    *)
MarkDownFile(t) ==
    /\ tpc[t] = "markdown"
    /\ FdMarkDown(tfile[t])
    /\ ThreadIdle(t)
    /\ UNCHANGED <<fd_state, pc, callVars, unsettled>>

-----------------------------------------------------------------------------
CallerStep(c) ==
    \/ SnapshotEpoch(c) \/ Admission(c) \/ EpochChanged(c)
    \/ DispatchRequest(c) \/ DispatchFails(c) \/ DispatchLosesSlot(c)
    \/ WaitCompletes(c) \/ Detach(c) \/ PublishReturns(c) \/ PublishFails(c)

CallerTimeout(c) ==
    \/ SlotTimeout(c) \/ EpochTimeout(c) \/ DispatchTimeout(c) \/ WaitTimeout(c)

CallerInput(c) ==
    \/ \E o \in Ops, s \in Sources, late \in BOOLEAN : StartRoundTrip(c, o, s, late)
    \/ EpochSignal(c) \/ WaitSignal(c) \/ DispatchBacksOut(c)

ThreadStep(t) ==
    \/ MarkMalformed(t) \/ CompleteWaiter(t)
    \/ LateNothing(t) \/ LateCommitMalformed(t)
    \/ LateBeginAborts(t) \/ LateBeginFails(t)
    \/ LateCommitSettles(t) \/ LateCommitFails(t)
    \/ LatePublishes(t) \/ LatePublishFails(t) \/ LateMutationUnpublishable(t)
    \/ LatePublishMarksDown(t) \/ MarkDownFile(t)

ThreadInput(t) ==
    \E f \in Files :
        \/ RejectResponse(t, f)
        \/ \E id \in RequestId, v \in {"OK", "ERROR", "MALFORMED", "FAILED"} :
               AcceptResponse(t, f, id, v)

FileStep(f) ==
    \/ OpenFile(f) \/ ReleaseFile(f) \/ ReadFile(f)
    \/ \E s \in Sources : RegisterFile(f, s)

Next ==
    \/ \E c \in Callers : CallerStep(c) \/ CallerTimeout(c) \/ CallerInput(c)
    \/ \E t \in Threads : ThreadStep(t) \/ ThreadInput(t)
    \/ \E f \in Files : FileStep(f)

Spec == Init /\ [][Next]_vars

(* A caller that can step is scheduled.  Its deadline passes and stays      *)
(* passed, so of the tests it makes again and again one must find it so:    *)
(* hence strong fairness.  Nothing is assumed of the source.                *)
FairSpec ==
    /\ Spec
    /\ \A c \in Callers : WF_vars(CallerStep(c)) /\ SF_vars(CallerTimeout(c))

-----------------------------------------------------------------------------
FileTypes ==
    /\ status \in [Sources -> {"FREE", "ACTIVE", "DOWN"}]
    /\ active_fd \in [Sources -> Files \cup {None}]
    /\ fd_state \in [Files -> {"NONE", "UNREGISTERED", "ACTIVE", "RELEASED"}]
    /\ fd_source \in [Files -> Sources \cup {None}]
    /\ closing \subseteq Files

QueueTypes ==
    /\ queue \in [Files -> Seq(RequestId)]
    /\ next_request_id \in [Files -> RequestId]

RecordTypes ==
    /\ in_flight_count \in [Files -> Nat]
    /\ in_flight \subseteq Request
    /\ delivered \subseteq Request
    /\ accepted \subseteq Request
    /\ waiter \in [Request -> Callers \cup {None}]
    /\ was_attached \subseteq Request
    /\ op \in [Request -> AllOps \cup {None}]
    /\ late_effect \subseteq Request

CallTypes ==
    /\ pc \in [Callers -> {"idle", "slot", "admission", "epoch", "dispatch",
                            "wait", "detach", "publish"}]
    /\ call_op \in [Callers -> Ops \cup {None}]
    /\ call_source \in [Callers -> Sources \cup {None}]
    /\ call_late \subseteq Callers
    /\ ticket \in [Callers -> Request \cup {None}]

WakeTypes ==
    /\ completed \in [Callers -> {"OK", "ERROR", "EIO", "ENOMEM", None}]
    /\ epoch_seen \subseteq Callers

ThreadTypes ==
    /\ tpc \in [Threads -> {"idle", "complete", "late", "malformed", "markdown",
                             "markdown_by_id"}]
    /\ tfile \in [Threads -> Files \cup {None}]
    /\ treq \in [Threads -> Request \cup {None}]
    /\ tstatus \in [Threads -> {"OK", "ERROR", "MALFORMED", "FAILED", None}]
    /\ top \in [Threads -> AllOps \cup {None}]
    /\ tdetached \subseteq Threads
    /\ tlate \subseteq Threads

(* Every variable keeps its type.                                           *)
TypeOK ==
    /\ FileTypes /\ QueueTypes /\ RecordTypes
    /\ CallTypes /\ WakeTypes /\ ThreadTypes
    /\ unsettled \subseteq Request

(* A waiter lives on its caller's stack.  Whoever completes a request       *)
(* follows record->waiter, so the record may point only to a caller that is *)
(* still inside the wait for this very request and is not completed yet.    *)
WaiterIntegrity ==
    \A r \in in_flight :
        waiter[r] # None =>
            /\ pc[waiter[r]] \in {"wait", "detach"}
            /\ ticket[waiter[r]] = r
            /\ completed[waiter[r]] = None

(* A caller that waits and was not completed is attached to a record of the *)
(* file that serves its slot: every way to lose the record completes it,    *)
(* and the detach, which looks only in that file, finds it.                 *)
WaiterReachable ==
    \A c \in Callers :
        pc[c] \in {"wait", "detach"} /\ completed[c] = None =>
            /\ ticket[c] \in in_flight
            /\ waiter[ticket[c]] = c
            /\ active_fd[call_source[c]] = ticket[c][1]

(* The counter that admission tests is the number of records, and no file   *)
(* has more of them than max_concurrent_rsi_requests.                       *)
InFlightBounded ==
    \A f \in Files :
        /\ in_flight_count[f] = Cardinality({r \in in_flight : r[1] = f})
        /\ in_flight_count[f] <= Limit

(* Who is to act on the success of request r: the caller that was completed *)
(* with it, or the thread whose response came late.                         *)
CallerOwes(c, r) ==
    /\ pc[c] \in {"wait", "detach"}
    /\ ticket[c] = r
    /\ completed[c] = "OK"
    /\ call_op[c] \in EffectOps

ThreadOwes(t, r) ==
    /\ IsLate(t)
    /\ treq[t] = r
    /\ tstatus[t] = "OK"
    /\ top[t] \in EffectOps

(* The caller of a DELETE_LAYER whose orphan list could not be copied is    *)
(* about to return -ENOMEM.                                                 *)
CallerGivesUp(c, r) ==
    /\ pc[c] \in {"wait", "detach"}
    /\ ticket[c] = r
    /\ completed[c] = "ENOMEM"
    /\ call_op[c] = "DELETE_LAYER"

(* A request the source reported done is forgotten in one case only: until  *)
(* its effects are taken over, its caller or a source thread is about to do *)
(* so, or the file it was done through has been taken down, or it is a      *)
(* DELETE_LAYER whose response frame could not be kept, which its caller    *)
(* reports as -ENOMEM and leaves at that.  How much of the effects the      *)
(* caller that takes them over then publishes is not part of this claim.    *)
AppliedSettled ==
    \A r \in unsettled :
        \/ r[1] \in closing
        \/ \E c \in Callers : CallerOwes(c, r) \/ CallerGivesUp(c, r)
        \/ \E t \in Threads : treq[t] = r

(* The effects of a request are taken over at most once: whoever owes them  *)
(* finds them unsettled, and nobody else owes them.                         *)
EffectsOnce ==
    /\ \A c \in Callers, r \in Request : CallerOwes(c, r) =>
           /\ r \in unsettled
           /\ \A d \in Callers \ {c} : ~CallerOwes(d, r)
           /\ \A t \in Threads : ~ThreadOwes(t, r)
    /\ \A t \in Threads, r \in Request : ThreadOwes(t, r) =>
           /\ r \in unsettled
           /\ \A u \in Threads \ {t} : ~ThreadOwes(u, r)

(* A caller that sleeps on an unchanged epoch sleeps for a reason: the file *)
(* that serves its slot is at its limit.  A release, or a source that goes  *)
(* down and is resumed, between the failed admission and the sleep is       *)
(* noticed.                                                                 *)
NoLostSlotWakeup ==
    \A c \in Callers :
        pc[c] = "epoch" /\ c \in epoch_seen =>
            /\ active_fd[call_source[c]] # None
            /\ AtLimit(active_fd[call_source[c]])

(* A file that serves a slot is not closing; a file that was marked down    *)
(* serves none and keeps no request.                                        *)
ClosingFileIsEmpty ==
    \A f \in closing :
        /\ queue[f] = <<>>
        /\ \A r \in in_flight : r[1] # f
        /\ \A s \in Sources : active_fd[s] # f

(* Whatever the source does, a round trip ends.                             *)
RoundTripEnds == \A c \in Callers : pc[c] # "idle" ~> pc[c] = "idle"

-----------------------------------------------------------------------------
(* What makes these properties inductive, part by part: the proofs combine  *)
(* them.                                                                    *)

(* What a caller is told of a request that the source reported done.        *)
Successes == {"OK", "ENOMEM"}

(* Requests whose id was given out.                                         *)
Issued == {r \in Request : r[2] < next_request_id[r[1]]}

(* A slot and the file that serves it point to each other.                  *)
FilesInv ==
    /\ \A s \in Sources : active_fd[s] # None =>
           /\ status[s] = "ACTIVE"
           /\ fd_state[active_fd[s]] = "ACTIVE"
           /\ fd_source[active_fd[s]] = s
           /\ active_fd[s] \notin closing
    /\ \A f \in Files : fd_state[f] = "ACTIVE" => fd_source[f] \in Sources
    /\ \A f \in Files : fd_source[f] # None => fd_state[f] \in {"ACTIVE", "RELEASED"}
    /\ \A f \in closing : fd_state[f] \in {"ACTIVE", "RELEASED"}

(* A record belongs to a file that serves a slot, and to its waiter's call. *)
RecordsInv ==
    /\ \A r \in in_flight :
           /\ r \in Issued
           /\ IsActive(r[1])
           /\ op[r] \in EffectOps => r \in was_attached
           /\ waiter[r] # None => op[r] = call_op[waiter[r]]
    /\ \A r \in Request \ in_flight : waiter[r] = None
    /\ accepted \subseteq in_flight

(* A caller holds a request only while it waits, and its own.               *)
CallersInv ==
    /\ \A c \in Callers :
           /\ pc[c] # "idle" => call_source[c] \in Sources
           /\ pc[c] \notin {"idle", "publish"} => call_op[c] \in Ops
           /\ pc[c] \in {"wait", "detach"} => ticket[c] \in Request /\ ticket[c] \in Issued
           /\ pc[c] \notin {"wait", "detach"} => ticket[c] = None /\ completed[c] = None
           /\ completed[c] # None => ticket[c] \notin in_flight
    /\ \A c, d \in Callers : ticket[c] = ticket[d] /\ ticket[c] # None => c = d

(* A source thread holds the request of the response it brought: with a     *)
(* record until it is completed, without one afterwards.                    *)
ThreadInv(t) ==
    /\ tpc[t] # "idle" => tfile[t] \in Files
    /\ tpc[t] \in {"idle", "malformed"} => treq[t] = None
    /\ tpc[t] \notin {"idle", "malformed"} =>
           /\ treq[t] \in Request
           /\ treq[t] \in Issued
           /\ treq[t][1] = tfile[t]
           /\ fd_source[tfile[t]] \in Sources
           /\ treq[t] \in unsettled <=> tstatus[t] = "OK" /\ top[t] \in EffectOps
    /\ tpc[t] = "complete" =>
           \/ treq[t] \in accepted /\ op[treq[t]] = top[t]
           \/ treq[t][1] \in closing
    /\ tpc[t] \in {"late", "markdown", "markdown_by_id"} => treq[t] \notin in_flight
    /\ tpc[t] = "late" /\ top[t] \in EffectOps => t \in tdetached
    /\ \A c \in Callers : completed[c] \in Successes => ticket[c] # treq[t]

ThreadsInv ==
    /\ \A t \in Threads : ThreadInv(t)
    /\ \A t, u \in Threads : treq[t] = treq[u] /\ treq[t] # None => t = u

(* What the source reported done had its response accepted.                 *)
EffectsInv ==
    /\ \A r \in unsettled : r \in Issued /\ (r \in in_flight => r \in accepted)
    /\ \A c \in Callers :
           pc[c] \in {"wait", "detach"} /\ completed[c] \in Successes /\ call_op[c] \in EffectOps
               => ticket[c] \in unsettled
=============================================================================
