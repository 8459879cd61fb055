------------------------- MODULE SourceDeviceProofs -------------------------
(***************************************************************************)
(* Proofs about SourceDevice, for any number of sources, files, callers    *)
(* and source threads and any limits.                                      *)
(*                                                                         *)
(* Core is inductive: the waiters on callers' stacks and the records that  *)
(* point to them.  There is one lemma per way a step can change the state  *)
(* (a caller moves, a record is inserted, released, a file is taken down), *)
(* and the actions are instances of them.                                  *)
(*                                                                         *)
(* Relative to Core, two more are.  Effects: each request that a source    *)
(* has reported done has exactly one party that will act on it, its caller *)
(* or the thread that brought the late response, unless the file it was    *)
(* done through has been taken down.  SlotsInv: the counter that admission *)
(* and dispatch test is the number of records, it never passes the limit   *)
(* although admission reserves nothing, and a caller that sleeps for a     *)
(* slot sleeps only while there is none.                                   *)
(***************************************************************************)
EXTENDS SourceDevice, FiniteSetTheorems, TLAPS

(* Zenon proves a leaf unless it names another prover.                      *)
USE Zenon, DeviceAssumption DEF DeviceAssumption

(* A source thread writes to a file, which had registered if it accepted    *)
(* the response.                                                            *)
ThreadFiles ==
    \A t \in Threads :
        /\ tpc[t] # "idle" => tfile[t] \in Files
        /\ tpc[t] \notin {"idle", "malformed"} => fd_source[tfile[t]] \in Sources

(* The inductive invariant.                                                 *)
Core ==
    /\ TypeOK /\ FilesInv /\ RecordsInv /\ CallersInv /\ ThreadFiles
    /\ WaiterIntegrity /\ WaiterReachable

(* Core holds when no file is open and no call is made.                     *)
LEMMA InitCore == Init => Core
<1> SUFFICES ASSUME Init PROVE Core
    OBVIOUS
<1>1. TypeOK
  BY SMT DEF Init, TypeOK, RequestId, Request, FileTypes, QueueTypes, RecordTypes, CallTypes, WakeTypes,
     ThreadTypes
<1>2. FilesInv /\ CallersInv /\ ThreadFiles
  BY DEF Init, FilesInv, CallersInv, ThreadFiles
<1>3. RecordsInv /\ WaiterIntegrity /\ WaiterReachable
  BY DEF Init, RecordsInv, WaiterIntegrity, WaiterReachable
<1> QED BY <1>1, <1>2, <1>3 DEF Core

(* Core depends on nothing but the variables.                               *)
LEMMA Stutters == ASSUME Core, UNCHANGED vars PROVE Core'
<1> USE DEF vars, slotVars, fileVars, requestVars, recordVars, callerVars, callVars, threadVars
<1>1. TypeOK'
  BY DEF Core, TypeOK, FileTypes, QueueTypes, RecordTypes, CallTypes, WakeTypes, ThreadTypes
<1>2. FilesInv' /\ CallersInv' /\ ThreadFiles'
  BY DEF Core, FilesInv, CallersInv, ThreadFiles, Issued
<1>3. RecordsInv' /\ WaiterIntegrity' /\ WaiterReachable'
  BY DEF Core, RecordsInv, WaiterIntegrity, WaiterReachable, Issued, IsActive
<1> QED BY <1>1, <1>2, <1>3 DEF Core

(* A caller that has no record moves on its own.                            *)
LEMMA CallerAlone ==
  ASSUME Core, NEW c \in Callers,
         UNCHANGED <<slotVars, fileVars, requestVars, threadVars>>,
         pc[c] \notin {"wait", "detach"} \/ completed[c] # None,
         pc'[c] \notin {"wait", "detach"},
         pc'[c] # "idle" => call_source'[c] \in Sources,
         pc'[c] \notin {"idle", "publish"} => call_op'[c] \in Ops,
         ticket'[c] = None,
         completed'[c] = None,
         \A d \in Callers \ {c} :
            /\ pc'[d] = pc[d] /\ call_op'[d] = call_op[d] /\ call_source'[d] = call_source[d]
            /\ ticket'[d] = ticket[d] /\ completed'[d] = completed[d],
         CallTypes', WakeTypes', unsettled' \subseteq Request
  PROVE  Core'
<1> USE DEF slotVars, fileVars, requestVars, recordVars, threadVars
<1>1. TypeOK'
  BY DEF Core, TypeOK, FileTypes, QueueTypes, RecordTypes, ThreadTypes
<1>2. FilesInv' /\ ThreadFiles'
  BY DEF Core, FilesInv, ThreadFiles
<1>3. \A r \in in_flight : waiter[r] # c
  BY SMT DEF Core, TypeOK, RecordTypes, WaiterIntegrity
<1>4. CallersInv'
  BY SMT DEF Core, CallersInv, Issued
<1>5. RecordsInv'
  BY <1>3, SMT DEF Core, TypeOK, RecordTypes, RecordsInv, Issued, IsActive
<1>6. WaiterIntegrity'
  BY <1>3, SMT DEF Core, TypeOK, RecordTypes, WaiterIntegrity
<1>7. WaiterReachable'
  BY SMT DEF Core, WaiterReachable
<1> QED BY <1>1, <1>2, <1>4, <1>5, <1>6, <1>7 DEF Core

(* A call that returns leaves the callers well typed.                       *)
LEMMA ReturnedTypes ==
  ASSUME CallTypes, WakeTypes, NEW c \in Callers, Returned(c)
  PROVE CallTypes' /\ WakeTypes'
BY DEF CallTypes, WakeTypes, Returned, Goto

(* A caller that has no record returns.                                     *)
LEMMA Returns ==
  ASSUME Core, NEW c \in Callers, ReturnOnly(c),
         pc[c] \notin {"wait", "detach"} \/ completed[c] # None
  PROVE Core'
<1>1. CallTypes' /\ WakeTypes'
  BY ReturnedTypes DEF Core, TypeOK, ReturnOnly
<1>2. UNCHANGED <<slotVars, fileVars, requestVars, threadVars, unsettled>>
  BY DEF ReturnOnly
<1>3. pc'[c] = "idle" /\ ticket'[c] = None /\ completed'[c] = None
  BY DEF ReturnOnly, Returned, Goto, Core, TypeOK, CallTypes, WakeTypes
<1>4. \A d \in Callers \ {c} :
            /\ pc'[d] = pc[d] /\ call_op'[d] = call_op[d] /\ call_source'[d] = call_source[d]
            /\ ticket'[d] = ticket[d] /\ completed'[d] = completed[d]
  BY DEF ReturnOnly, Returned, Goto, Core, TypeOK, CallTypes, WakeTypes
<1> QED BY <1>1, <1>2, <1>3, <1>4, CallerAlone DEF Core, TypeOK

(* A caller that has no record goes on to its next step.                    *)
LEMMA Goes ==
  ASSUME Core, NEW c \in Callers, NEW l \in {"slot", "admission", "epoch", "dispatch"},
         pc[c] \in {"slot", "admission", "epoch", "dispatch"},
         Goto(c, l), epoch_seen' \subseteq Callers,
         UNCHANGED <<slotVars, fileVars, requestVars, callVars, completed, threadVars, unsettled>>
  PROVE Core'
<1>1. CallTypes' /\ WakeTypes'
  BY DEF Core, TypeOK, CallTypes, WakeTypes, Goto, callVars
<1>2. pc'[c] = l /\ ticket'[c] = None /\ completed'[c] = None
      /\ call_source'[c] \in Sources /\ call_op'[c] \in Ops
  BY DEF Goto, Core, TypeOK, CallTypes, WakeTypes, callVars, CallersInv
<1>3. \A d \in Callers \ {c} :
            /\ pc'[d] = pc[d] /\ call_op'[d] = call_op[d] /\ call_source'[d] = call_source[d]
            /\ ticket'[d] = ticket[d] /\ completed'[d] = completed[d]
  BY DEF Goto, Core, TypeOK, CallTypes, callVars
<1> QED BY <1>1, <1>2, <1>3, CallerAlone DEF Core, TypeOK

-----------------------------------------------------------------------------
(* The wait.                                                                *)

(* The deadline passes or a signal arrives while the caller waits.          *)
LEMMA GivesUp ==
  ASSUME Core, NEW c \in Callers, pc[c] = "wait", completed[c] = None, GotoOnly(c, "detach")
  PROVE Core'
<1> USE DEF GotoOnly, Goto, slotVars, fileVars, requestVars, recordVars, threadVars, callVars
<1>1. TypeOK'
  BY DEF Core, TypeOK, FileTypes, QueueTypes, RecordTypes, ThreadTypes, CallTypes, WakeTypes
<1>2. FilesInv' /\ ThreadFiles'
  BY DEF Core, FilesInv, ThreadFiles
<1>4. CallersInv'
  BY DEF Core, TypeOK, CallTypes, CallersInv, Issued
<1>5. RecordsInv'
  BY DEF Core, RecordsInv, Issued, IsActive
<1>6. WaiterIntegrity'
  BY SMT DEF Core, TypeOK, RecordTypes, CallTypes, WaiterIntegrity
<1>7. WaiterReachable'
  BY DEF Core, TypeOK, CallTypes, WaiterReachable
<1> QED BY <1>1, <1>2, <1>4, <1>5, <1>6, <1>7 DEF Core

(* A completed caller takes its response; its waiter is in no record.       *)
LEMMA Takes ==
  ASSUME Core, NEW c \in Callers, pc[c] \in {"wait", "detach"}, completed[c] # None, TakeResponse(c)
  PROVE Core'
<1>1. CallTypes' /\ WakeTypes' /\ unsettled' \subseteq Request
  BY DEF Core, TypeOK, CallTypes, WakeTypes, TakeResponse, Goto
<1>2. UNCHANGED <<slotVars, fileVars, requestVars, threadVars>>
  BY DEF TakeResponse
<1>3. /\ pc'[c] \in {"idle", "publish"} /\ ticket'[c] = None /\ completed'[c] = None
      /\ pc'[c] # "idle" => call_source'[c] \in Sources
  BY SMT DEF TakeResponse, Goto, Core, TypeOK, CallTypes, WakeTypes, CallersInv
<1>4. \A d \in Callers \ {c} :
            /\ pc'[d] = pc[d] /\ call_op'[d] = call_op[d] /\ call_source'[d] = call_source[d]
            /\ ticket'[d] = ticket[d] /\ completed'[d] = completed[d]
  BY DEF TakeResponse, Goto, Core, TypeOK, CallTypes, WakeTypes
<1> QED BY <1>1, <1>2, <1>3, <1>4, CallerAlone

(* A caller that gives up finds its record in the file that serves the slot *)
(* and takes its waiter out, unless it was completed first.                 *)
LEMMA Detaches ==
  ASSUME Core, NEW c \in Callers, Detach(c)
  PROVE Core'
<1>1. CASE completed[c] # None
  BY <1>1, Takes DEF Detach
<1>2. CASE completed[c] = None
  <2> DEFINE r == ticket[c]
  <2>1. /\ r \in in_flight /\ waiter[r] = c /\ pc[c] = "detach"
        /\ <<active_fd[call_source[c]], ticket[c][2]>> = r
    BY <1>2, SMT DEF Detach, Core, WaiterReachable, TypeOK, RecordTypes, Request
  <2>2. /\ Returned(c)
        /\ waiter' = [waiter EXCEPT ![r] = None]
        /\ UNCHANGED <<slotVars, fileVars, queue, next_request_id,
                         in_flight_count, in_flight, delivered, accepted,
                         was_attached, op, late_effect, threadVars, unsettled>>
    BY <1>2, <2>1 DEF Detach
  <2> HIDE DEF r
  <2>3. \A s \in in_flight : waiter[s] = c => s = r
    BY DEF Core, WaiterIntegrity, r
  <2> USE DEF slotVars, fileVars, threadVars
  <2>4. TypeOK'
    BY <2>1, <2>2, ReturnedTypes DEF Core, TypeOK, FileTypes, QueueTypes, RecordTypes,
       ThreadTypes
  <2>5. FilesInv' /\ ThreadFiles'
    BY <2>2 DEF Core, FilesInv, ThreadFiles
  <2>6. /\ pc'[c] = "idle" /\ ticket'[c] = None /\ completed'[c] = None
        /\ \A d \in Callers \ {c} :
            /\ pc'[d] = pc[d] /\ call_op'[d] = call_op[d] /\ call_source'[d] = call_source[d]
            /\ ticket'[d] = ticket[d] /\ completed'[d] = completed[d]
    BY <2>2 DEF Returned, Goto, Core, TypeOK, CallTypes, WakeTypes
  <2>7. CallersInv'
    BY <2>2, <2>6, SMT DEF Core, CallersInv, Issued
  <2>8. /\ waiter'[r] = None
        /\ \A s \in Request \ {r} : waiter'[s] = waiter[s]
    BY <2>1, <2>2 DEF Core, TypeOK, RecordTypes
  <2>9. RecordsInv'
    <3>1. \A s \in in_flight : s \in Issued' /\ IsActive(s[1])' /\ (op'[s] \in EffectOps => s \in was_attached')
      BY <2>2 DEF Core, RecordsInv, Issued, IsActive
    <3>2. \A s \in in_flight : waiter'[s] # None => op'[s] = call_op'[waiter'[s]]
      BY <2>2, <2>3, <2>6, <2>8, SMT DEF Core, RecordsInv, TypeOK, RecordTypes
    <3>3. (\A s \in Request \ in_flight' : waiter'[s] = None) /\ accepted' \subseteq in_flight'
      BY <2>1, <2>2, <2>8 DEF Core, RecordsInv
    <3> QED BY <2>2, <3>1, <3>2, <3>3 DEF RecordsInv
  <2>10. WaiterIntegrity'
    BY <2>2, <2>3, <2>6, <2>8, SMT DEF Core, WaiterIntegrity, TypeOK, RecordTypes
  <2>11. \A d \in Callers \ {c} : ticket[d] # r
    BY <2>1 DEF Core, CallersInv, TypeOK, RecordTypes, r
  <2>12. WaiterReachable'
    BY <2>2, <2>6, <2>8, <2>11, SMT DEF Core, WaiterReachable, TypeOK, RecordTypes
  <2> QED BY <2>4, <2>5, <2>7, <2>9, <2>10, <2>12 DEF Core
<1> QED BY <1>1, <1>2

(* A call starts.                                                           *)
LEMMA Starts ==
  ASSUME Core, NEW c \in Callers, NEW o \in Ops, NEW s \in Sources, NEW late \in BOOLEAN,
         StartRoundTrip(c, o, s, late)
  PROVE Core'
<1>1. CallTypes' /\ WakeTypes'
  BY DEF Core, TypeOK, CallTypes, WakeTypes, StartRoundTrip, Goto
<1>2. UNCHANGED <<slotVars, fileVars, requestVars, threadVars, unsettled>>
  BY DEF StartRoundTrip
<1>3. /\ pc[c] = "idle" /\ pc'[c] = "slot" /\ ticket'[c] = None /\ completed'[c] = None
      /\ call_source'[c] \in Sources /\ call_op'[c] \in Ops
  BY DEF StartRoundTrip, Goto, Core, TypeOK, CallTypes, WakeTypes, CallersInv
<1>4. \A d \in Callers \ {c} :
            /\ pc'[d] = pc[d] /\ call_op'[d] = call_op[d] /\ call_source'[d] = call_source[d]
            /\ ticket'[d] = ticket[d] /\ completed'[d] = completed[d]
  BY DEF StartRoundTrip, Goto, Core, TypeOK, CallTypes, WakeTypes
<1> QED BY <1>1, <1>2, <1>3, <1>4, CallerAlone DEF Core, TypeOK

(* A dispatch that fails after the record was inserted takes it back.       *)
LEMMA BacksOut ==
  ASSUME Core, NEW c \in Callers, DispatchBacksOut(c)
  PROVE Core'
<1>1. CallTypes' /\ WakeTypes'
  BY DEF Core, TypeOK, CallTypes, WakeTypes, DispatchBacksOut, Goto
<1>2. UNCHANGED <<slotVars, fileVars, requestVars, threadVars, unsettled>>
  BY DEF DispatchBacksOut
<1>3. pc[c] = "dispatch" /\ pc'[c] = "idle" /\ ticket'[c] = None /\ completed'[c] = None
  BY DEF DispatchBacksOut, Goto, Core, TypeOK, CallTypes, WakeTypes, CallersInv
<1>4. \A d \in Callers \ {c} :
            /\ pc'[d] = pc[d] /\ call_op'[d] = call_op[d] /\ call_source'[d] = call_source[d]
            /\ ticket'[d] = ticket[d] /\ completed'[d] = completed[d]
  BY DEF DispatchBacksOut, Goto, Core, TypeOK, CallTypes, WakeTypes
<1> QED BY <1>1, <1>2, <1>3, <1>4, CallerAlone DEF Core, TypeOK

-----------------------------------------------------------------------------
(* Enqueue.                                                                 *)

(* Served, the test of admission and dispatch, implies IsActive.            *)
LEMMA ServedActive ==
  ASSUME FileTypes, NEW s \in Sources, Served(s)
  PROVE  active_fd[s] \in Files /\ IsActive(active_fd[s])
BY DEF FileTypes, Served, IsActive

(* Enqueue keeps the types of the queue and the records.                    *)
LEMMA EnqueueTypes ==
  ASSUME QueueTypes, RecordTypes, NEW f \in Files, ~IdsExhausted(f),
         NEW o \in AllOps, NEW w \in Callers \cup {None}, NEW late,
         Enqueue(f, o, w, late)
  PROVE  QueueTypes' /\ RecordTypes' /\ <<f, next_request_id[f]>> \in Request
<1>1. next_request_id[f] \in RequestId /\ next_request_id[f] + 1 \in RequestId
  BY SMT DEF QueueTypes, IdsExhausted, RequestId
<1>2. <<f, next_request_id[f]>> \in Request
  BY <1>1 DEF Request
<1>3. queue' \in [Files -> Seq(RequestId)]
  <2>1. Append(queue[f], next_request_id[f]) \in Seq(RequestId)
    BY <1>1, SMT DEF QueueTypes
  <2>2. queue' = [queue EXCEPT ![f] = Append(queue[f], next_request_id[f])]
    BY DEF Enqueue, QueueTypes
  <2> QED BY <2>1, <2>2 DEF QueueTypes
<1>4. next_request_id' \in [Files -> RequestId]
  BY <1>1 DEF QueueTypes, Enqueue
<1>5. RecordTypes'
  <2>1. in_flight_count' \in [Files -> Nat]
    BY SMT DEF RecordTypes, Enqueue
  <2>2. in_flight' \subseteq Request /\ delivered' \subseteq Request /\ accepted' \subseteq Request
    BY <1>2 DEF RecordTypes, Enqueue
  <2>3. was_attached' \subseteq Request /\ late_effect' \subseteq Request
    BY <1>2 DEF RecordTypes, Enqueue
  <2>4. waiter' \in [Request -> Callers \cup {None}] /\ op' \in [Request -> AllOps \cup {None}]
    BY <1>2 DEF RecordTypes, Enqueue
  <2> QED BY <2>1, <2>2, <2>3, <2>4 DEF RecordTypes
<1> QED BY <1>2, <1>3, <1>4, <1>5 DEF QueueTypes

(* What Enqueue does to the records: r is new, and holds operation o of w.  *)
NewRecord(r, o, w) ==
    /\ r \in Request /\ r \notin in_flight /\ r \notin Issued /\ r \in Issued'
    /\ in_flight' = in_flight \cup {r} /\ waiter'[r] = w /\ op'[r] = o
    /\ w # None => r \in was_attached'
    /\ was_attached \subseteq was_attached'
    /\ accepted' = accepted
    /\ \A q \in Request \ {r} : waiter'[q] = waiter[q] /\ op'[q] = op[q]
    /\ Issued \subseteq Issued'

(* Enqueue makes one new record.                                            *)
LEMMA EnqueueEffect ==
  ASSUME Core, NEW f \in Files, ~IdsExhausted(f),
         NEW o \in AllOps, NEW w \in Callers \cup {None}, NEW late,
         Enqueue(f, o, w, late), NEW r \in {<<f, next_request_id[f]>>}
  PROVE  NewRecord(r, o, w)
<1>1. r \in Request
  BY EnqueueTypes DEF Core, TypeOK
<1>2. next_request_id[f] \in Int /\ next_request_id'[f] = next_request_id[f] + 1
      /\ \A g \in Files \ {f} : next_request_id'[g] = next_request_id[g]
  BY SMT DEF Enqueue, Core, TypeOK, QueueTypes, RequestId
<1>3. r \notin Issued /\ r \in Issued'
  BY <1>1, <1>2, SMT DEF Issued
<1>4. r \notin in_flight
  BY <1>3 DEF Core, RecordsInv
<1>5. Issued \subseteq Issued'
  <2> SUFFICES ASSUME NEW q \in Issued PROVE q \in Issued'
    OBVIOUS
  <2>1. q \in Request /\ q[1] \in Files /\ q[2] \in Int /\ q[2] < next_request_id[q[1]]
    BY SMT DEF Issued, Request, RequestId
  <2>2. CASE q[1] = f
    BY <1>2, <2>1, <2>2, SMT DEF Issued
  <2>3. CASE q[1] # f
    BY <1>2, <2>1, <2>3 DEF Issued
  <2> QED BY <2>2, <2>3
<1>6. /\ in_flight' = in_flight \cup {r} /\ waiter'[r] = w /\ op'[r] = o
      /\ w # None => r \in was_attached'
      /\ was_attached \subseteq was_attached'
      /\ accepted' = accepted
      /\ \A q \in Request \ {r} : waiter'[q] = waiter[q] /\ op'[q] = op[q]
  BY <1>1 DEF Enqueue, Core, TypeOK, RecordTypes
<1> QED BY <1>1, <1>3, <1>4, <1>5, <1>6 DEF NewRecord

(* A request is enqueued with its caller as the waiter.                     *)
LEMMA Sends ==
  ASSUME Core, NEW c \in Callers, DispatchSends(c)
  PROVE  Core'
<1> DEFINE s == call_source[c]
<1> DEFINE f == active_fd[s]
<1> DEFINE r == <<f, next_request_id[f]>>
<1>1. s \in Sources /\ call_op[c] \in Ops /\ ticket[c] = None /\ completed[c] = None /\ pc[c] = "dispatch"
  BY DEF DispatchSends, Core, CallersInv
<1>2. f \in Files /\ IsActive(f)
  BY <1>1, ServedActive DEF DispatchSends, Core, TypeOK
<1>3. /\ ~IdsExhausted(f) /\ Enqueue(f, call_op[c], c, c \in call_late)
      /\ pc' = [pc EXCEPT ![c] = "wait"]
      /\ ticket' = [ticket EXCEPT ![c] = r]
      /\ UNCHANGED <<status, active_fd, fd_state, fd_source, closing, call_op, call_source, call_late,
                   completed, epoch_seen, tpc, tfile, treq, tstatus, top, tdetached, tlate, unsettled>>
  BY DEF DispatchSends, Goto, slotVars, fileVars, threadVars
<1>4. call_op[c] \in AllOps /\ (c \in call_late) \in BOOLEAN
  BY <1>1, SMT
<1>r. r \in {<<f, next_request_id[f]>>} /\ r[1] = f
  OBVIOUS
<1> HIDE DEF s, f, r
<1>e. NewRecord(r, call_op[c], c)
  BY <1>2, <1>3, <1>4, <1>r, EnqueueEffect, SMT
<1>5. /\ r \in Request /\ r \notin in_flight /\ r \notin Issued /\ r \in Issued'
      /\ in_flight' = in_flight \cup {r} /\ waiter'[r] = c /\ op'[r] = call_op[c]
      /\ r \in was_attached' /\ was_attached \subseteq was_attached'
      /\ accepted' = accepted
      /\ \A q \in Request \ {r} : waiter'[q] = waiter[q] /\ op'[q] = op[q]
      /\ Issued \subseteq Issued'
  BY <1>e DEF NewRecord
<1>6. r[1] = f
  BY <1>r
<1>7. /\ pc'[c] = "wait" /\ ticket'[c] = r
      /\ \A d \in Callers \ {c} : pc'[d] = pc[d] /\ ticket'[d] = ticket[d]
  BY <1>3 DEF Core, TypeOK, CallTypes
<1>8. TypeOK'
  <2>1. QueueTypes' /\ RecordTypes'
    BY <1>2, <1>3, <1>4, EnqueueTypes DEF Core, TypeOK
  <2>2. CallTypes' /\ WakeTypes'
    BY <1>3, <1>5 DEF Core, TypeOK, CallTypes, WakeTypes
  <2> QED BY <1>3, <2>1, <2>2 DEF Core, TypeOK, FileTypes, ThreadTypes
<1>9. FilesInv' /\ ThreadFiles'
  BY <1>3 DEF Core, FilesInv, ThreadFiles
<1>10. \A d \in Callers : ticket[d] # r
  BY <1>5, SMT DEF Core, CallersInv
<1>11. CallersInv'
  <2>1. \A d \in Callers :
           /\ pc'[d] # "idle" => call_source'[d] \in Sources
           /\ pc'[d] \notin {"idle", "publish"} => call_op'[d] \in Ops
           /\ pc'[d] \notin {"wait", "detach"} => ticket'[d] = None /\ completed'[d] = None
    BY <1>1, <1>3, <1>7 DEF Core, CallersInv, s
  <2>2. \A d \in Callers : pc'[d] \in {"wait", "detach"} => ticket'[d] \in Request /\ ticket'[d] \in Issued'
    BY <1>5, <1>7 DEF Core, CallersInv, Issued
  <2>3. \A d \in Callers : completed'[d] # None => ticket'[d] \notin in_flight'
    BY <1>1, <1>3, <1>5, <1>7, <1>10, SMT DEF Core, CallersInv
  <2>4. \A d, e \in Callers : ticket'[d] = ticket'[e] /\ ticket'[d] # None => d = e
    BY <1>5, <1>7, <1>10, SMT DEF Core, CallersInv
  <2> QED BY <2>1, <2>2, <2>3, <2>4 DEF CallersInv
<1>12. \A q \in in_flight : waiter[q] # c
  BY <1>1 DEF Core, WaiterIntegrity
<1>13. RecordsInv'
  <2>1. \A q \in in_flight' : q \in Issued' /\ IsActive(q[1])'
    BY <1>2, <1>3, <1>5, <1>6 DEF Core, TypeOK, RecordTypes, RecordsInv, IsActive, Issued
  <2>2. \A q \in in_flight' : op'[q] \in EffectOps => q \in was_attached'
    BY <1>5 DEF Core, TypeOK, RecordTypes, RecordsInv
  <2>3. \A q \in in_flight' : waiter'[q] # None => op'[q] = call_op'[waiter'[q]]
    BY <1>3, <1>5 DEF Core, TypeOK, RecordTypes, RecordsInv
  <2>4. (\A q \in Request \ in_flight' : waiter'[q] = None) /\ accepted' \subseteq in_flight'
    BY <1>5 DEF Core, RecordsInv
  <2> QED BY <2>1, <2>2, <2>3, <2>4 DEF RecordsInv
<1>14. WaiterIntegrity'
  BY <1>1, <1>3, <1>5, <1>7, <1>12, SMTT(30) DEF Core, TypeOK, RecordTypes, WaiterIntegrity
<1>15. WaiterReachable'
  BY <1>3, <1>5, <1>6, <1>7, <1>10, SMT DEF Core, TypeOK, RecordTypes, WaiterReachable, s, f
<1> QED BY <1>8, <1>9, <1>11, <1>13, <1>14, <1>15 DEF Core

-----------------------------------------------------------------------------
(* Mark down.                                                               *)

(* Taking a file down keeps the types.                                      *)
LEMMA MarkDownTypes ==
  ASSUME Core, NEW f \in Files, FdMarkDown(f),
         fd_state' \in [Files -> {"NONE", "UNREGISTERED", "ACTIVE", "RELEASED"}]
  PROVE  FileTypes' /\ QueueTypes' /\ RecordTypes' /\ WakeTypes'
<1> USE DEF Core, TypeOK
<1>1. FileTypes'
  BY SMT DEF FileTypes, FdMarkDown, FilesInv, IsActive, slotVars
<1>2. QueueTypes'
  BY SMT DEF QueueTypes, FdMarkDown
<1>3. RecordTypes'
  BY DEF RecordTypes, FdMarkDown, InFlightDestroy, FreeRecords
<1>4. WakeTypes'
  BY DEF WakeTypes, FdMarkDown, InFlightDestroy
<1> QED BY <1>1, <1>2, <1>3, <1>4

(* Taking a file down completes every caller its records point to, so none  *)
(* is left behind without a record.                                         *)
LEMMA MarksDown ==
  ASSUME Core, NEW f \in Files, FdMarkDown(f),
         \/ UNCHANGED fd_state
         \/ fd_state' = [fd_state EXCEPT ![f] = "RELEASED"],
         fd_state'[f] \in {"ACTIVE", "RELEASED"},
         UNCHANGED <<call_op, ticket>>,
         \A d \in Callers :
             \/ pc'[d] = pc[d] /\ call_source'[d] = call_source[d]
             \/ pc[d] = "publish" /\ pc'[d] = "idle",
         CallTypes', ThreadTypes', ThreadFiles', UNCHANGED unsettled
  PROVE  Core'
<1> DEFINE R == {r \in in_flight : r[1] = f}
<1>1. TypeOK'
  <2>1. fd_state' \in [Files -> {"NONE", "UNREGISTERED", "ACTIVE", "RELEASED"}]
    BY DEF Core, TypeOK, FileTypes
  <2> QED BY <2>1, MarkDownTypes DEF Core, TypeOK
<1>2. /\ in_flight' = in_flight \ R
      /\ \A q \in Request : waiter'[q] = IF q \in R THEN None ELSE waiter[q]
      /\ \A q \in Request : op'[q] = IF q \in R THEN None ELSE op[q]
      /\ was_attached' = was_attached \ R
      /\ accepted' = accepted \ R
      /\ \A d \in Callers : completed'[d] = IF \E r \in R : waiter[r] = d THEN "EIO" ELSE completed[d]
  BY DEF FdMarkDown, InFlightDestroy, FreeRecords
<1>3. /\ closing' = closing \cup {f}
      /\ UNCHANGED <<fd_source, next_request_id>>
      /\ \A g \in Files \ {f} : fd_state'[g] = fd_state[g]
      /\ \A s \in Sources : \/ status'[s] = status[s] /\ active_fd'[s] = active_fd[s] /\ active_fd[s] # f
                            \/ active_fd[s] = f /\ active_fd'[s] = None
  BY SMT DEF FdMarkDown, IsActive, slotVars, Core, FilesInv, TypeOK, FileTypes
<1>4. Issued' = Issued
  BY <1>3 DEF Issued
<1>5. FilesInv'
  BY <1>3, SMT DEF Core, FilesInv, TypeOK, FileTypes
<1>6. \A q \in in_flight' : q \in in_flight /\ q \in Request /\ q \notin R /\ q[1] # f
  BY <1>2 DEF Core, TypeOK, RecordTypes
<1> HIDE DEF R
<1>7. \A q \in in_flight' : IsActive(q[1])'
  <2> SUFFICES ASSUME NEW q \in in_flight' PROVE IsActive(q[1])'
    OBVIOUS
  <2>1. q[1] \in Files /\ q[1] # f /\ IsActive(q[1])
    BY <1>6 DEF Core, RecordsInv, Request
  <2>2. fd_source[q[1]] \in Sources
    BY <2>1 DEF Core, FilesInv, IsActive
  <2> QED BY <1>3, <1>6, <2>1, <2>2 DEF IsActive
<1>8. RecordsInv'
  BY <1>2, <1>4, <1>6, <1>7, SMT DEF Core, RecordsInv
<1>9. \A r \in R : r \in in_flight /\ r[1] = f
  BY DEF R
<1>10. \A r \in R, d \in Callers : waiter[r] = d => pc[d] \in {"wait", "detach"} /\ ticket[d] = r
  BY <1>9, SMT DEF Core, WaiterIntegrity
<1>11. CallersInv'
  <2>1. \A d \in Callers :
           /\ pc'[d] # "idle" => call_source'[d] \in Sources
           /\ pc'[d] \notin {"idle", "publish"} => call_op'[d] \in Ops
           /\ pc'[d] \in {"wait", "detach"} => ticket'[d] \in Request /\ ticket'[d] \in Issued'
           /\ pc'[d] \notin {"wait", "detach"} => ticket'[d] = None
    BY <1>4 DEF Core, CallersInv
  <2>2. \A d \in Callers : pc'[d] \notin {"wait", "detach"} => completed'[d] = None
    BY <1>2, <1>10, SMT DEF Core, CallersInv
  <2>3. \A d \in Callers : completed'[d] # None => ticket'[d] \notin in_flight'
    BY <1>2, <1>10, SMT DEF Core, CallersInv
  <2> QED BY <2>1, <2>2, <2>3 DEF Core, CallersInv
<1>12. WaiterIntegrity'
  <2> SUFFICES ASSUME NEW q \in in_flight', waiter'[q] # None
               PROVE /\ pc'[waiter'[q]] \in {"wait", "detach"}
                     /\ ticket'[waiter'[q]] = q
                     /\ completed'[waiter'[q]] = None
    BY DEF WaiterIntegrity
  <2>1. q \in in_flight /\ waiter'[q] = waiter[q] /\ waiter[q] \in Callers /\ q \notin R
    BY <1>2, <1>6, SMT DEF Core, TypeOK, RecordTypes
  <2>2. pc[waiter[q]] \in {"wait", "detach"} /\ ticket[waiter[q]] = q /\ completed[waiter[q]] = None
    BY <2>1 DEF Core, WaiterIntegrity
  <2>3. ~ \E r \in R : waiter[r] = waiter[q]
    BY <1>10, <2>1, <2>2, SMTT(30)
  <2> QED BY <1>2, <2>1, <2>2, <2>3, SMT
<1>13. WaiterReachable'
  <2> SUFFICES ASSUME NEW d \in Callers, pc'[d] \in {"wait", "detach"}, completed'[d] = None
               PROVE /\ ticket'[d] \in in_flight'
                     /\ waiter'[ticket'[d]] = d
                     /\ active_fd'[call_source'[d]] = ticket'[d][1]
    BY DEF WaiterReachable
  <2>1. pc[d] \in {"wait", "detach"} /\ call_source'[d] = call_source[d] /\ call_source[d] \in Sources
    BY DEF Core, CallersInv
  <2>2. completed[d] = None /\ ~ \E r \in R : waiter[r] = d
    BY <1>2 DEF Core, TypeOK, WakeTypes
  <2>3. /\ ticket[d] \in in_flight /\ waiter[ticket[d]] = d /\ ticket[d] \in Request
        /\ active_fd[call_source[d]] = ticket[d][1]
    BY <2>1, <2>2 DEF Core, WaiterReachable, TypeOK, RecordTypes
  <2>4. ticket[d] \notin R
    BY <2>2, <2>3
  <2>5. ticket[d][1] # f
    BY <2>3, <2>4 DEF R
  <2>6. ticket[d][1] \in Files
    BY <2>3 DEF Request
  <2> QED BY <1>2, <1>3, <2>1, <2>3, <2>4, <2>5, <2>6, SMT
<1> QED BY <1>1, <1>5, <1>8, <1>11, <1>12, <1>13 DEF Core

(* A source thread moves without touching a record.                         *)
LEMMA ThreadAlone ==
  ASSUME Core, UNCHANGED <<slotVars, fileVars, requestVars, callerVars>>,
         ThreadTypes', ThreadFiles', unsettled' \subseteq Request
  PROVE  Core'
<1> USE DEF slotVars, fileVars, requestVars, recordVars, callerVars, callVars
<1>1. TypeOK'
  BY DEF Core, TypeOK, FileTypes, QueueTypes, RecordTypes, CallTypes, WakeTypes
<1>2. FilesInv' /\ CallersInv'
  BY DEF Core, FilesInv, CallersInv, Issued
<1>3. RecordsInv' /\ WaiterIntegrity' /\ WaiterReachable'
  BY DEF Core, RecordsInv, WaiterIntegrity, WaiterReachable, Issued, IsActive
<1> QED BY <1>1, <1>2, <1>3 DEF Core

(* A source thread that is done is well typed.                              *)
LEMMA IdleThread ==
  ASSUME ThreadTypes, ThreadFiles, NEW t \in Threads, ThreadIdle(t), UNCHANGED fd_source
  PROVE  ThreadTypes' /\ ThreadFiles'
<1>1. ThreadTypes'
  BY DEF ThreadTypes, ThreadIdle
<1>2. ThreadFiles'
  BY DEF ThreadTypes, ThreadFiles, ThreadIdle
<1> QED BY <1>1, <1>2

(* A source thread is done and touched no record.                           *)
LEMMA Finishes ==
  ASSUME Core, NEW t \in Threads, ThreadIdle(t), unsettled' \subseteq Request,
         UNCHANGED <<slotVars, fileVars, requestVars, callerVars>>
  PROVE  Core'
<1>1. ThreadTypes' /\ ThreadFiles'
  BY IdleThread DEF Core, TypeOK, fileVars
<1> QED BY <1>1, ThreadAlone

(* A source thread with a late response goes on to its next step.           *)
LEMMA LateGoes ==
  ASSUME Core, NEW t \in Threads, tpc[t] = "late",
         NEW l \in {"markdown", "markdown_by_id"}, LateGoto(t, l)
  PROVE  Core'
<1>1. ThreadTypes'
  BY DEF Core, TypeOK, ThreadTypes, LateGoto
<1>2. ThreadFiles'
  BY DEF Core, TypeOK, ThreadTypes, ThreadFiles, LateGoto, ThreadOnly, fileVars
<1>3. UNCHANGED <<slotVars, fileVars, requestVars, callerVars, unsettled>>
  BY DEF LateGoto, ThreadOnly
<1> QED BY <1>1, <1>2, <1>3, ThreadAlone DEF Core, TypeOK

-----------------------------------------------------------------------------
(* Release of a record.                                                     *)

(* A record without a waiter, or whose waiter is completed by the same      *)
(* step, is released.                                                       *)
LEMMA Releases ==
  ASSUME Core, NEW r \in in_flight, ReleaseRecord(r), NEW v \in {"OK", "ERROR", "EIO", "ENOMEM"},
         \/ waiter[r] = None /\ completed' = completed
         \/ waiter[r] # None /\ completed' = [completed EXCEPT ![waiter[r]] = v],
         UNCHANGED <<slotVars, fileVars, queue, next_request_id, pc, callVars>>,
         ThreadTypes', ThreadFiles', unsettled' \subseteq Request
  PROVE  Core'
<1> USE DEF slotVars, fileVars, callVars
<1>1. r \in Request /\ r[1] \in Files
  BY DEF Core, TypeOK, RecordTypes, Request
<1>2. /\ in_flight' = in_flight \ {r}
      /\ waiter'[r] = None
      /\ \A q \in Request \ {r} : waiter'[q] = waiter[q] /\ op'[q] = op[q]
      /\ was_attached' = was_attached \ {r}
      /\ accepted' = accepted \ {r}
  BY <1>1 DEF ReleaseRecord, FreeRecords, Core, TypeOK, RecordTypes
<1>3. TypeOK'
  <2>1. in_flight_count' \in [Files -> Nat]
    BY <1>1, SMT DEF ReleaseRecord, Core, TypeOK, RecordTypes
  <2>2. RecordTypes'
    BY <2>1 DEF ReleaseRecord, FreeRecords, Core, TypeOK, RecordTypes
  <2>3. completed' \in [Callers -> {"OK", "ERROR", "EIO", "ENOMEM", None}]
    BY DEF Core, TypeOK, WakeTypes, RecordTypes
  <2>4. WakeTypes'
    BY <2>3 DEF Core, TypeOK, WakeTypes, ReleaseRecord
  <2> QED BY <2>2, <2>4 DEF Core, TypeOK, FileTypes, QueueTypes, CallTypes
<1>4. FilesInv'
  BY DEF Core, FilesInv
<1>5. Issued' = Issued
  BY DEF Issued
<1>6. RecordsInv'
  BY <1>2, <1>5, SMT DEF Core, TypeOK, RecordTypes, RecordsInv, IsActive
<1>7. \A d \in Callers :
         \/ completed'[d] = completed[d] /\ waiter[r] # d
         \/ /\ completed'[d] # None /\ waiter[r] = d /\ ticket[d] = r
            /\ pc[d] \in {"wait", "detach"}
  <2>1. CASE waiter[r] = None
    BY <2>1
  <2>2. CASE waiter[r] # None
    <3>1. /\ waiter[r] \in Callers /\ ticket[waiter[r]] = r
          /\ pc[waiter[r]] \in {"wait", "detach"}
      BY <1>1, <2>2, SMT DEF Core, TypeOK, RecordTypes, WaiterIntegrity
    <3>2. completed' = [completed EXCEPT ![waiter[r]] = v] /\ v # None
      BY <2>2
    <3> QED BY <3>1, <3>2 DEF Core, TypeOK, WakeTypes
  <2> QED BY <2>1, <2>2
<1>8. CallersInv'
  BY <1>2, <1>5, <1>7 DEF Core, CallersInv
<1>9. WaiterIntegrity'
  BY <1>2, <1>7, SMT DEF Core, TypeOK, RecordTypes, WaiterIntegrity
<1>10. WaiterReachable'
  BY <1>1, <1>2, <1>7, SMT DEF Core, TypeOK, RecordTypes, WaiterReachable
<1> QED BY <1>3, <1>4, <1>6, <1>8, <1>9, <1>10 DEF Core

(* A late BEGIN enqueues an ABORT that nobody waits for.                    *)
LEMMA Aborts ==
  ASSUME Core, NEW t \in Threads, LateBeginAborts(t)
  PROVE  Core'
<1> DEFINE s == fd_source[tfile[t]]
<1> DEFINE f == active_fd[s]
<1> DEFINE r == <<f, next_request_id[f]>>
<1>1. s \in Sources
  BY DEF LateBeginAborts, IsLate, Core, ThreadFiles
<1>2. f \in Files /\ IsActive(f)
  BY <1>1, ServedActive DEF LateBeginAborts, Core, TypeOK
<1>3. /\ ~IdsExhausted(f) /\ Enqueue(f, "ABORT", None, FALSE)
      /\ unsettled' \subseteq unsettled
      /\ ThreadIdle(t)
      /\ UNCHANGED <<slotVars, fileVars, callerVars>>
  BY DEF LateBeginAborts
<1>4. "ABORT" \in AllOps /\ "ABORT" \notin EffectOps /\ None \in Callers \cup {None}
  BY DEF AllOps, QuietOps, EffectOps, RequiresMutationEffects, KeyMutationOps, BareMutationOps
<1>r. r \in {<<f, next_request_id[f]>>} /\ r[1] = f
  OBVIOUS
<1> HIDE DEF s, f, r
<1>e. NewRecord(r, "ABORT", None)
  <2>1. PICK o \in AllOps, w \in Callers \cup {None}, late \in BOOLEAN :
            o = "ABORT" /\ w = None /\ late = FALSE
    BY <1>4
  <2>2. ~IdsExhausted(f) /\ Enqueue(f, o, w, late)
    BY <1>3, <2>1
  <2>3. NewRecord(r, o, w)
    BY <1>2, <1>r, <2>2, EnqueueEffect
  <2> QED BY <2>1, <2>3
<1>5. /\ r \in Request /\ r \notin in_flight /\ r \in Issued'
      /\ in_flight' = in_flight \cup {r} /\ waiter'[r] = None /\ op'[r] = "ABORT"
      /\ was_attached \subseteq was_attached' /\ accepted' = accepted
      /\ \A q \in Request \ {r} : waiter'[q] = waiter[q] /\ op'[q] = op[q]
      /\ Issued \subseteq Issued' /\ r \notin Issued
  BY <1>e DEF NewRecord
<1> USE DEF slotVars, fileVars, callerVars, callVars
<1>6. TypeOK' /\ ThreadFiles'
  <2>1. QueueTypes' /\ RecordTypes'
    BY <1>2, <1>3, <1>4, EnqueueTypes DEF Core, TypeOK
  <2>2. ThreadTypes' /\ ThreadFiles'
    BY <1>3, IdleThread DEF Core, TypeOK
  <2> QED BY <1>3, <2>1, <2>2 DEF Core, TypeOK, FileTypes, CallTypes, WakeTypes
<1>7. FilesInv'
  BY <1>3 DEF Core, FilesInv
<1>8. CallersInv'
  BY <1>3, <1>5, SMT DEF Core, CallersInv, TypeOK, CallTypes
<1>9. RecordsInv'
  <2>1. \A q \in in_flight' : q \in Issued' /\ IsActive(q[1])'
    BY <1>2, <1>3, <1>5, <1>r DEF Core, TypeOK, RecordTypes, RecordsInv, IsActive
  <2>2. \A q \in in_flight' : op'[q] \in EffectOps => q \in was_attached'
    BY <1>4, <1>5, SMT DEF Core, TypeOK, RecordTypes, RecordsInv
  <2>3. \A q \in in_flight' : waiter'[q] # None => op'[q] = call_op'[waiter'[q]]
    BY <1>3, <1>5 DEF Core, TypeOK, RecordTypes, RecordsInv
  <2>4. (\A q \in Request \ in_flight' : waiter'[q] = None) /\ accepted' \subseteq in_flight'
    BY <1>5 DEF Core, RecordsInv
  <2> QED BY <2>1, <2>2, <2>3, <2>4 DEF RecordsInv
<1>10. WaiterIntegrity'
  BY <1>3, <1>5, SMTT(30) DEF Core, TypeOK, RecordTypes, WaiterIntegrity
<1>11. WaiterReachable'
  BY <1>3, <1>5, SMT DEF Core, TypeOK, RecordTypes, WaiterReachable
<1> QED BY <1>6, <1>7, <1>8, <1>9, <1>10, <1>11 DEF Core

-----------------------------------------------------------------------------
(* Files.                                                                   *)

(* A file opens or registers, and no record changes.                        *)
LEMMA FileAlone ==
  ASSUME Core, UNCHANGED <<in_flight, accepted, waiter, was_attached, op, next_request_id,
                           callerVars, threadVars, unsettled>>,
         FileTypes', QueueTypes', RecordTypes', FilesInv', ThreadFiles',
         \A g \in Files : IsActive(g) => IsActive(g)',
         \A s \in Sources : active_fd[s] # None => active_fd'[s] = active_fd[s]
  PROVE  Core'
<1> USE DEF callerVars, callVars, threadVars
<1>1. TypeOK'
  BY DEF Core, TypeOK, CallTypes, WakeTypes, ThreadTypes
<1>2. Issued' = Issued
  BY DEF Issued
<1>3. CallersInv' /\ WaiterIntegrity'
  BY <1>2 DEF Core, CallersInv, WaiterIntegrity
<1>4. RecordsInv'
  <2>1. \A r \in in_flight : r[1] \in Files
    BY DEF Core, TypeOK, RecordTypes, Request
  <2>2. \A r \in in_flight : IsActive(r[1])'
    BY <2>1 DEF Core, RecordsInv
  <2> QED BY <1>2, <2>2 DEF Core, RecordsInv
<1>5. WaiterReachable'
  <2> SUFFICES ASSUME NEW c \in Callers, pc[c] \in {"wait", "detach"}, completed[c] = None
               PROVE  /\ ticket[c] \in in_flight
                      /\ waiter[ticket[c]] = c
                      /\ active_fd'[call_source[c]] = ticket[c][1]
    BY DEF WaiterReachable
  <2>1. call_source[c] \in Sources /\ ticket[c][1] \in Files
    BY DEF Core, CallersInv, Request
  <2>2. /\ ticket[c] \in in_flight
        /\ waiter[ticket[c]] = c
        /\ active_fd[call_source[c]] = ticket[c][1]
    BY DEF Core, WaiterReachable
  <2>3. ticket[c][1] # None
    BY <2>1
  <2> QED BY <2>1, <2>2, <2>3
<1> QED BY <1>1, <1>3, <1>4, <1>5 DEF Core

(* Every step of a file.                                                    *)
LEMMA FileSteps ==
  ASSUME Core, NEW f \in Files, FileStep(f)
  PROVE  Core'
<1>1. CASE OpenFile(f)
  <2> USE <1>1 DEF OpenFile, slotVars, requestVars, recordVars, threadVars
  <2>1. FileTypes' /\ QueueTypes' /\ RecordTypes'
    BY DEF Core, TypeOK, FileTypes, QueueTypes, RecordTypes
  <2>2. FilesInv' /\ ThreadFiles'
    BY SMT DEF Core, TypeOK, FileTypes, FilesInv, ThreadFiles
  <2>3. \A g \in Files : IsActive(g) => IsActive(g)'
    BY DEF Core, TypeOK, FileTypes, IsActive
  <2> QED BY <2>1, <2>2, <2>3, FileAlone
<1>2. CASE \E s \in Sources : RegisterFile(f, s)
  <2> PICK s \in Sources : RegisterFile(f, s)
    BY <1>2
  <2> USE DEF RegisterFile, requestVars, recordVars, threadVars
  <2>1. active_fd[s] = None
    BY DEF Core, FilesInv
  <2>2. FileTypes' /\ QueueTypes' /\ RecordTypes'
    BY DEF Core, TypeOK, FileTypes, QueueTypes, RecordTypes
  <2>3. FilesInv'
    BY SMT DEF Core, TypeOK, FileTypes, FilesInv
  <2>4. ThreadFiles'
    BY DEF Core, TypeOK, FileTypes, ThreadFiles
  <2>5. \A g \in Files : IsActive(g) => IsActive(g)'
    BY <2>1, SMT DEF Core, TypeOK, FileTypes, FilesInv, IsActive
  <2>6. \A p \in Sources : active_fd[p] # None => active_fd'[p] = active_fd[p]
    BY <2>1 DEF Core, TypeOK, FileTypes
  <2> QED BY <2>2, <2>3, <2>4, <2>5, <2>6, FileAlone
<1>3. CASE ReadFile(f)
  <2> USE <1>3 DEF ReadFile, slotVars, fileVars, threadVars
  <2>1. QueueTypes'
    <3>1. Tail(queue[f]) \in Seq(RequestId)
      BY SMT DEF Core, TypeOK, QueueTypes
    <3>2. queue' = [queue EXCEPT ![f] = Tail(queue[f])]
      BY DEF Core, TypeOK, QueueTypes
    <3> QED BY <3>1, <3>2 DEF Core, TypeOK, QueueTypes
  <2>2. FileTypes' /\ RecordTypes'
    BY DEF Core, TypeOK, FileTypes, RecordTypes
  <2>3. FilesInv' /\ ThreadFiles'
    BY DEF Core, FilesInv, ThreadFiles
  <2>4. \A g \in Files : IsActive(g) => IsActive(g)'
    BY DEF IsActive
  <2> QED BY <2>1, <2>2, <2>3, <2>4, FileAlone
<1>4. CASE ReleaseFile(f)
  <2> USE <1>4 DEF ReleaseFile, callVars, threadVars
  <2>1. CallTypes' /\ ThreadTypes'
    BY DEF Core, TypeOK, CallTypes, ThreadTypes
  <2>2. ThreadFiles' /\ fd_state'[f] = "RELEASED"
    BY DEF Core, TypeOK, FileTypes, ThreadFiles, FdMarkDown
  <2> QED BY <2>1, <2>2, MarksDown
<1> QED BY <1>1, <1>2, <1>3, <1>4 DEF FileStep

-----------------------------------------------------------------------------
(* Source threads.                                                          *)

(* A source thread takes a file down.                                       *)
LEMMA MarksDownThread ==
  ASSUME Core, NEW t \in Threads, NEW f \in Files, fd_source[f] \in Sources,
         FdMarkDown(f), UNCHANGED <<fd_state, pc, callVars, unsettled>>,
         ThreadTypes', ThreadFiles'
  PROVE  Core'
<1>1. CallTypes'
  BY DEF Core, TypeOK, CallTypes, callVars
<1>2. fd_state'[f] \in {"ACTIVE", "RELEASED"}
  BY DEF Core, FilesInv
<1> QED BY <1>1, <1>2, MarksDown DEF callVars

(* A source thread finds nothing to take down.                              *)
LEMMA NothingMarked ==
  ASSUME Core, NoMarkDown, UNCHANGED <<fd_state, pc, callVars, unsettled>>,
         ThreadTypes', ThreadFiles'
  PROVE  Core'
<1>1. UNCHANGED <<slotVars, fileVars, requestVars, callerVars>>
  BY DEF NoMarkDown, fileVars, callerVars
<1> QED BY <1>1, ThreadAlone DEF Core, TypeOK

(* A malformed response takes down the file it came through, if that file   *)
(* still serves its slot.                                                   *)
LEMMA Malformed ==
  ASSUME Core, NEW t \in Threads, MarkMalformed(t)
  PROVE  Core'
<1>1. tfile[t] \in Files
  BY DEF Core, ThreadFiles, MarkMalformed
<1>2. CASE IsActive(tfile[t])
  <2>1. FdMarkDown(tfile[t]) /\ ThreadIdle(t) /\ UNCHANGED <<fd_state, pc, callVars, unsettled, fd_source>>
    BY <1>2 DEF MarkMalformed, FdMarkDown
  <2>2. fd_source[tfile[t]] \in Sources
    BY <1>1, <1>2 DEF IsActive, Core, FilesInv
  <2>3. ThreadTypes' /\ ThreadFiles'
    BY <2>1, IdleThread DEF Core, TypeOK
  <2> QED BY <1>1, <2>1, <2>2, <2>3, MarksDownThread
<1>3. CASE ~IsActive(tfile[t])
  <2>1. NoMarkDown /\ ThreadIdle(t) /\ UNCHANGED <<fd_state, pc, callVars, unsettled, fd_source>>
    BY <1>3 DEF MarkMalformed, NoMarkDown
  <2>2. ThreadTypes' /\ ThreadFiles'
    BY <2>1, IdleThread DEF Core, TypeOK
  <2> QED BY <2>1, <2>2, NothingMarked
<1> QED BY <1>2, <1>3

(* A late response that cannot be handled takes its own file down.          *)
LEMMA MarksDownFile ==
  ASSUME Core, NEW t \in Threads, MarkDownFile(t)
  PROVE  Core'
<1>1. tfile[t] \in Files /\ fd_source[tfile[t]] \in Sources
  BY DEF Core, ThreadFiles, MarkDownFile
<1>2. FdMarkDown(tfile[t]) /\ ThreadIdle(t) /\ UNCHANGED <<fd_state, pc, callVars, unsettled, fd_source>>
  BY DEF MarkDownFile, FdMarkDown
<1>3. ThreadTypes' /\ ThreadFiles'
  BY <1>2, IdleThread DEF Core, TypeOK
<1> QED BY <1>1, <1>2, <1>3, MarksDownThread

(* A late restore that cannot be published takes down the file that serves  *)
(* the slot now.                                                            *)
LEMMA PublishMarksDown ==
  ASSUME Core, NEW t \in Threads, LatePublishMarksDown(t)
  PROVE  Core'
<1> DEFINE s == fd_source[tfile[t]]
<1>1. s \in Sources /\ tfile[t] \in Files
  BY DEF Core, ThreadFiles, LatePublishMarksDown
<1>2. fd_source' = fd_source
  BY DEF LatePublishMarksDown, MarkDownById, FdMarkDown, NoMarkDown
<1>3. ThreadTypes' /\ ThreadFiles'
  <2>1. ThreadTypes'
    BY DEF LatePublishMarksDown, Core, TypeOK, ThreadTypes
  <2>2. ThreadFiles'
    BY <1>2 DEF LatePublishMarksDown, Core, TypeOK, ThreadTypes, ThreadFiles
  <2> QED BY <2>1, <2>2
<1>4. UNCHANGED <<fd_state, pc, callVars, unsettled>>
  BY DEF LatePublishMarksDown
<1>5. CASE status[s] = "ACTIVE" /\ active_fd[s] # None
  <2>1. FdMarkDown(active_fd[s])
    BY <1>5 DEF LatePublishMarksDown, MarkDownById
  <2>2. active_fd[s] \in Files /\ fd_source[active_fd[s]] \in Sources
    BY <1>1, <1>5, SMT DEF Core, FilesInv, TypeOK, FileTypes
  <2> QED BY <1>3, <1>4, <2>1, <2>2, MarksDownThread
<1>6. CASE ~(status[s] = "ACTIVE" /\ active_fd[s] # None)
  <2>1. NoMarkDown
    BY <1>6 DEF LatePublishMarksDown, MarkDownById
  <2> QED BY <1>3, <1>4, <2>1, NothingMarked
<1> QED BY <1>5, <1>6

(* A caller whose effects cannot be published takes the source down.        *)
LEMMA FailsToPublish ==
  ASSUME Core, NEW c \in Callers, PublishFails(c)
  PROVE  Core'
<1> DEFINE s == call_source[c]
<1>1. s \in Sources /\ pc[c] = "publish"
  BY DEF Core, CallersInv, PublishFails
<1>2. /\ pc' = [pc EXCEPT ![c] = "idle"]
      /\ call_source' = [call_source EXCEPT ![c] = None]
      /\ UNCHANGED <<fd_state, call_op, call_late, ticket, threadVars, unsettled>>
  BY DEF PublishFails, Goto
<1>3. CallTypes'
  BY <1>2 DEF Core, TypeOK, CallTypes
<1>4. \A d \in Callers :
         \/ pc'[d] = pc[d] /\ call_source'[d] = call_source[d]
         \/ pc[d] = "publish" /\ pc'[d] = "idle"
  BY <1>1, <1>2 DEF Core, TypeOK, CallTypes
<1>5. CASE status[s] = "ACTIVE" /\ active_fd[s] # None
  <2>1. FdMarkDown(active_fd[s])
    BY <1>5 DEF PublishFails, MarkDownById
  <2>2. active_fd[s] \in Files /\ fd_state[active_fd[s]] = "ACTIVE"
    BY <1>1, <1>5, SMT DEF Core, FilesInv, TypeOK, FileTypes
  <2>3. ThreadTypes' /\ ThreadFiles'
    BY <1>2, <2>1 DEF Core, TypeOK, ThreadTypes, ThreadFiles, threadVars, FdMarkDown
  <2> QED BY <1>2, <1>3, <1>4, <2>1, <2>2, <2>3, MarksDown
<1>6. CASE ~(status[s] = "ACTIVE" /\ active_fd[s] # None)
  <2>1. NoMarkDown
    BY <1>6 DEF PublishFails, MarkDownById
  <2>2. UNCHANGED <<slotVars, fileVars, requestVars, threadVars>> /\ WakeTypes'
    BY <1>2, <2>1 DEF NoMarkDown, fileVars, Core, TypeOK, WakeTypes
  <2>3. pc'[c] = "idle" /\ ticket'[c] = None /\ completed'[c] = None
    BY <1>1, <1>2, <2>1 DEF Core, TypeOK, CallTypes, CallersInv, NoMarkDown
  <2>4. \A d \in Callers \ {c} :
            /\ pc'[d] = pc[d] /\ call_op'[d] = call_op[d] /\ call_source'[d] = call_source[d]
            /\ ticket'[d] = ticket[d] /\ completed'[d] = completed[d]
    BY <1>2, <2>1 DEF Core, TypeOK, CallTypes, NoMarkDown
  <2> QED BY <1>1, <1>2, <1>3, <2>2, <2>3, <2>4, CallerAlone DEF Core, TypeOK
<1> QED BY <1>5, <1>6

(* A malformed frame is rejected and holds no request.                      *)
LEMMA Rejects ==
  ASSUME Core, NEW t \in Threads, NEW f \in Files, RejectResponse(t, f)
  PROVE  Core'
<1>1. ThreadTypes'
  BY DEF Core, TypeOK, ThreadTypes, RejectResponse
<1>2. ThreadFiles'
  BY DEF Core, TypeOK, ThreadTypes, ThreadFiles, RejectResponse, ThreadOnly, fileVars
<1>3. UNCHANGED <<slotVars, fileVars, requestVars, callerVars, unsettled>>
  BY DEF RejectResponse, ThreadOnly
<1> QED BY <1>1, <1>2, <1>3, ThreadAlone DEF Core, TypeOK

(* A response is accepted: an attached record is marked, a record without a *)
(* waiter is released.                                                      *)
LEMMA Accepts ==
  ASSUME Core, NEW t \in Threads, NEW f \in Files, NEW id \in RequestId,
         NEW v \in {"OK", "ERROR", "MALFORMED", "FAILED"}, AcceptResponse(t, f, id, v)
  PROVE  Core'
<1> DEFINE r == <<f, id>>
<1>1. r \in Request /\ r \in in_flight /\ IsActive(f)
  BY DEF AcceptResponse, Acceptable, Request
<1>2. fd_source[f] \in Sources
  BY <1>1 DEF IsActive, Core, FilesInv
<1>3. unsettled' \subseteq Request
  BY <1>1 DEF AcceptResponse, Core, TypeOK
<1>4. ThreadTypes'
  <2>1. /\ tfile' \in [Threads -> Files \cup {None}]
        /\ treq' \in [Threads -> Request \cup {None}]
        /\ tstatus' \in [Threads -> {"OK", "ERROR", "MALFORMED", "FAILED", None}]
        /\ top' \in [Threads -> AllOps \cup {None}]
    BY <1>1 DEF AcceptResponse, Core, TypeOK, ThreadTypes, RecordTypes
  <2>2. /\ tpc' \in [Threads -> {"idle", "complete", "late", "malformed", "markdown",
                                 "markdown_by_id"}]
        /\ tdetached' \subseteq Threads /\ tlate' \subseteq Threads
    BY DEF AcceptResponse, ReleaseUnwaited, Core, TypeOK, ThreadTypes
  <2> QED BY <2>1, <2>2 DEF ThreadTypes
<1>5. ThreadFiles'
  <2>1. tfile'[t] = f /\ UNCHANGED fd_source /\ \A u \in Threads \ {t} : tfile'[u] = tfile[u] /\ tpc'[u] = tpc[u]
    BY DEF AcceptResponse, ReleaseUnwaited, Core, TypeOK, ThreadTypes, fileVars
  <2> QED BY <1>2, <2>1 DEF Core, ThreadFiles
<1>6. CASE waiter[r] = None
  <2>1. ReleaseRecord(r)
    BY <1>6 DEF AcceptResponse, ReleaseUnwaited
  <2>2. UNCHANGED <<slotVars, fileVars, queue, next_request_id, pc, callVars, completed>>
    BY DEF AcceptResponse
  <2> HIDE DEF r
  <2> QED BY <1>1, <1>3, <1>4, <1>5, <1>6, <2>1, <2>2, Releases
<1>7. CASE waiter[r] # None
  <2>1. /\ accepted' = accepted \cup {r}
        /\ UNCHANGED <<in_flight_count, in_flight, delivered, waiter, was_attached, op, late_effect,
                      epoch_seen, slotVars, fileVars, queue, next_request_id, pc, callVars, completed>>
    BY <1>7 DEF AcceptResponse
  <2> HIDE DEF r
  <2> USE DEF slotVars, fileVars, callVars
  <2>2. TypeOK'
    BY <1>1, <1>3, <1>4, <2>1 DEF Core, TypeOK, FileTypes, QueueTypes, RecordTypes,
       CallTypes, WakeTypes
  <2>3. FilesInv' /\ CallersInv'
    BY <2>1 DEF Core, FilesInv, CallersInv, Issued
  <2>4. RecordsInv'
    BY <1>1, <2>1 DEF Core, RecordsInv, Issued, IsActive
  <2>5. WaiterIntegrity' /\ WaiterReachable'
    BY <2>1 DEF Core, WaiterIntegrity, WaiterReachable
  <2> QED BY <1>5, <2>2, <2>3, <2>4, <2>5 DEF Core
<1> QED BY <1>6, <1>7

(* A response is completed.                                                 *)
LEMMA Completes ==
  ASSUME Core, NEW t \in Threads, CompleteWaiter(t)
  PROVE  Core'
<1> DEFINE r == treq[t]
<1>1. UNCHANGED <<slotVars, fileVars, queue, next_request_id, pc, callVars, unsettled>>
  BY DEF CompleteWaiter
<1>2. unsettled' \subseteq Request /\ fd_source' = fd_source
  BY <1>1 DEF Core, TypeOK, fileVars
<1>3. CASE /\ r \notin in_flight \/ r \notin accepted
           /\ ThreadIdle(t)
           /\ UNCHANGED <<recordVars, completed, epoch_seen>>
  <2>1. UNCHANGED <<slotVars, fileVars, requestVars, callerVars>>
    BY <1>1, <1>3 DEF requestVars, callerVars
  <2> QED BY <1>2, <1>3, <2>1, Finishes
<1>4. CASE /\ r \in in_flight
           /\ waiter[r] # None
           /\ \E errno \in Completions(tstatus[t], op[r]) :
                  completed' = [completed EXCEPT ![waiter[r]] = errno]
           /\ ReleaseRecord(r)
           /\ ThreadIdle(t)
  <2>0. PICK errno \in Completions(tstatus[t], op[r]) :
            completed' = [completed EXCEPT ![waiter[r]] = errno]
    BY <1>4
  <2>1. errno \in {"OK", "ERROR", "EIO", "ENOMEM"}
    BY DEF Completions, CallerErrno
  <2>2. ThreadTypes' /\ ThreadFiles'
    BY <1>2, <1>4, IdleThread DEF Core, TypeOK
  <2> HIDE DEF r
  <2> QED BY <1>1, <1>2, <1>4, <2>0, <2>1, <2>2, Releases
<1>5. CASE /\ r \in in_flight
           /\ waiter[r] = None
           /\ ReleaseUnwaited(t, r)
           /\ UNCHANGED <<completed, tfile, treq, tstatus, top>>
  <2>1. tpc[t] = "complete"
    BY DEF CompleteWaiter
  <2>2. ThreadTypes'
    BY <1>5 DEF ReleaseUnwaited, Core, TypeOK, ThreadTypes
  <2>3. ThreadFiles'
    BY <1>2, <1>5, <2>1 DEF ReleaseUnwaited, Core, TypeOK, ThreadTypes, ThreadFiles
  <2>4. ReleaseRecord(r)
    BY <1>5 DEF ReleaseUnwaited
  <2> HIDE DEF r
  <2> QED BY <1>1, <1>2, <1>5, <2>2, <2>3, <2>4, Releases
<1> QED BY <1>3, <1>4, <1>5 DEF CompleteWaiter

-----------------------------------------------------------------------------
(* All together.                                                            *)

(* Every step of a caller.                                                  *)
LEMMA CallerSteps ==
  ASSUME Core, NEW c \in Callers, CallerStep(c) \/ CallerTimeout(c) \/ CallerInput(c)
  PROVE  Core'
<1>1. CASE SnapshotEpoch(c)
  <2>1. epoch_seen' \subseteq Callers
    BY <1>1 DEF SnapshotEpoch, Core, TypeOK, WakeTypes
  <2> QED BY <1>1, <2>1, Goes DEF SnapshotEpoch
<1>2. CASE Admission(c)
  <2>1. CASE ReturnOnly(c)
    BY <1>2, <2>1, Returns DEF Admission
  <2>2. CASE GotoOnly(c, "dispatch") \/ GotoOnly(c, "epoch")
    BY <1>2, <2>2, Goes DEF Admission, GotoOnly, Core, TypeOK, WakeTypes
  <2> QED BY <1>2, <2>1, <2>2 DEF Admission
<1>3. CASE EpochChanged(c) \/ DispatchLosesSlot(c)
  BY <1>3, Goes DEF EpochChanged, DispatchLosesSlot, GotoOnly, Core, TypeOK, WakeTypes
<1>4. CASE SlotTimeout(c) \/ EpochTimeout(c) \/ DispatchTimeout(c) \/ EpochSignal(c)
           \/ DispatchFails(c) \/ PublishReturns(c)
  BY <1>4, Returns DEF SlotTimeout, EpochTimeout, DispatchTimeout, EpochSignal,
     DispatchFails,
                       PublishReturns
<1>5. CASE DispatchRequest(c)
  BY <1>5, Sends DEF DispatchRequest, DispatchLookup, DispatchReadKey, DispatchEnumChildren,
     DispatchQueryValues, DispatchSetValue, DispatchDeleteValueEntry, DispatchSetBlanketTombstone,
     DispatchDropKey, DispatchCreateEntry, DispatchHideDeleteEntry, DispatchCreateKey,
     DispatchWriteKey, DispatchTransaction, DispatchFlush, DispatchDeleteLayer
<1>6. CASE WaitTimeout(c) \/ WaitSignal(c)
  BY <1>6, GivesUp DEF WaitTimeout, WaitSignal
<1>7. CASE WaitCompletes(c)
  BY <1>7, Takes DEF WaitCompletes
<1>8. CASE \E o \in Ops, s \in Sources, late \in BOOLEAN : StartRoundTrip(c, o, s, late)
  BY <1>8, Starts
<1> QED BY <1>1, <1>2, <1>3, <1>4, <1>5, <1>6, <1>7, <1>8, Detaches, FailsToPublish, BacksOut
        DEF CallerStep, CallerTimeout, CallerInput

(* Every step of a source thread.                                           *)
LEMMA ThreadSteps ==
  ASSUME Core, NEW t \in Threads, ThreadStep(t) \/ ThreadInput(t)
  PROVE  Core'
<1>1. CASE LateNothing(t)
  BY <1>1, Finishes DEF LateNothing, ThreadOnly, Core, TypeOK
<1>2. CASE LateCommitMalformed(t) \/ LateBeginFails(t) \/ LateCommitFails(t)
           \/ LateMutationUnpublishable(t)
  BY <1>2, LateGoes DEF LateCommitMalformed, LateBeginFails, LateCommitFails,
                        LateMutationUnpublishable, IsLate
<1>3. CASE LatePublishFails(t)
  BY <1>3, LateGoes DEF LatePublishFails, IsLate
<1>4. CASE LateCommitSettles(t) \/ LatePublishes(t)
  BY <1>4, Finishes DEF LateCommitSettles, LatePublishes, Core, TypeOK
<1>5. CASE ThreadInput(t)
  BY <1>5, Rejects, Accepts DEF ThreadInput
<1> QED BY <1>1, <1>2, <1>3, <1>4, <1>5, Malformed, Completes, Aborts, PublishMarksDown,
           MarksDownFile DEF ThreadStep

(* Core is an invariant of the device, whatever the number of sources,      *)
(* files, callers and source threads, whatever they do.                     *)
THEOREM CoreInvariant == Spec => []Core
<1>1. Core /\ [Next]_vars => Core'
  <2> SUFFICES ASSUME Core, [Next]_vars PROVE Core'
    OBVIOUS
  <2>1. CASE UNCHANGED vars
    BY <2>1, Stutters
  <2>2. CASE Next
    BY <2>2, CallerSteps, ThreadSteps, FileSteps DEF Next
  <2> QED BY <2>1, <2>2
<1> QED BY <1>1, InitCore, PTL DEF Spec

(* Every variable keeps its type; in particular no request id passes the    *)
(* last one, because dispatch tests for exhaustion.                         *)
THEOREM SourceTypeCorrect == Spec => []TypeOK
BY CoreInvariant, PTL DEF Core

(* Completion never follows a record to a stack frame that is gone, to a    *)
(* caller that waits for another request or to one completed before.        *)
THEOREM WaitersAreLive == Spec => []WaiterIntegrity
BY CoreInvariant, PTL DEF Core

(* A caller that waits and was not completed has its record in the file     *)
(* that serves its slot, where a response, the file's end and its own       *)
(* detach will find it.                                                     *)
THEOREM WaitersAreReachable == Spec => []WaiterReachable
BY CoreInvariant, PTL DEF Core

-----------------------------------------------------------------------------
Effects == ThreadsInv /\ EffectsInv /\ AppliedSettled

(* What a step does to the records, R apart, when it leaves the threads     *)
(* that hold a response their hold on it.                                   *)
RecordsKept(R) ==
    /\ closing \subseteq closing'
    /\ \A f \in Files : fd_source[f] \in Sources => fd_source'[f] \in Sources
    /\ Issued \subseteq Issued'
    /\ in_flight' \cap Issued \subseteq in_flight
    /\ accepted \cap in_flight' \subseteq accepted'
    /\ \A r \in accepted \ R : (r \in accepted' /\ op'[r] = op[r]) \/ r[1] \in closing'

(* No caller is completed with a success, and none that was takes it.       *)
SuccessKept ==
    \A c \in Callers :
        /\ completed[c] \in Successes \/ completed'[c] \in Successes =>
               completed'[c] = completed[c]
        /\ completed[c] \in Successes => /\ pc'[c] = pc[c]
                                         /\ ticket'[c] = ticket[c]
                                         /\ call_op'[c] = call_op[c]

(* Which completions are successes.                                         *)
LEMMA SuccessFacts ==
  /\ None \notin Successes /\ "EIO" \notin Successes
  /\ "OK" \in Successes /\ "ENOMEM" \in Successes
BY DeviceAssumption DEF Successes

(* Nothing is owed at first.                                                *)
LEMMA InitEffects == Init => Effects
<1> SUFFICES ASSUME Init PROVE Effects
  OBVIOUS
<1>1. ThreadsInv
  BY SuccessFacts DEF Init, ThreadsInv, ThreadInv
<1>2. EffectsInv /\ AppliedSettled
  BY DEF Init, EffectsInv, AppliedSettled
<1> QED BY <1>1, <1>2 DEF Effects

(* A success that stays where it is stays owed.                             *)
LEMMA OwesKept ==
  ASSUME Effects, SuccessKept, NEW c \in Callers, NEW r
  PROVE  /\ CallerOwes(c, r) => CallerOwes(c, r)'
         /\ CallerGivesUp(c, r) => CallerGivesUp(c, r)'
BY SuccessFacts DEF SuccessKept, CallerOwes, CallerGivesUp

(* A thread that a step leaves alone keeps its hold on its response.        *)
LEMMA ThreadStays ==
  ASSUME Core, NEW u \in Threads, NEW R, ThreadInv(u), RecordsKept(R),
         tpc'[u] = tpc[u], tfile'[u] = tfile[u], treq'[u] = treq[u],
         tstatus'[u] = tstatus[u], top'[u] = top[u], u \in tdetached => u \in tdetached',
         tpc[u] \notin {"idle", "malformed"} =>
             treq[u] \notin R /\ (treq[u] \in unsettled' <=> treq[u] \in unsettled),
         \A c \in Callers : completed'[c] \in Successes => ticket'[c] # treq[u]
  PROVE  ThreadInv(u)'
<1>1. tpc'[u] # "idle" => tfile'[u] \in Files
  BY DEF ThreadInv
<1>2. tpc'[u] \in {"idle", "malformed"} => treq'[u] = None
  BY DEF ThreadInv
<1>3. ASSUME tpc[u] \notin {"idle", "malformed"}
      PROVE  /\ treq'[u] \in Request
             /\ treq'[u] \in Issued'
             /\ treq'[u][1] = tfile'[u]
             /\ fd_source'[tfile'[u]] \in Sources
             /\ treq'[u] \in unsettled' <=> tstatus'[u] = "OK" /\ top'[u] \in EffectOps
  BY <1>3 DEF ThreadInv, RecordsKept
<1>4. ASSUME tpc[u] = "complete"
      PROVE  \/ treq'[u] \in accepted' /\ op'[treq'[u]] = top'[u]
             \/ treq'[u][1] \in closing'
  <2>1. treq[u] \notin R
    BY <1>4
  <2>2. CASE treq[u] \in accepted /\ op[treq[u]] = top[u]
    BY <2>1, <2>2 DEF RecordsKept
  <2>3. CASE treq[u][1] \in closing
    BY <2>3 DEF RecordsKept
  <2> QED BY <1>4, <2>2, <2>3 DEF ThreadInv
<1>5. ASSUME tpc[u] \in {"late", "markdown", "markdown_by_id"}
      PROVE  treq'[u] \notin in_flight'
  <2>1. treq[u] \in Issued /\ treq[u] \notin in_flight
    BY <1>5 DEF ThreadInv
  <2> QED BY <2>1 DEF RecordsKept
<1>6. tpc'[u] = "late" /\ top'[u] \in EffectOps => u \in tdetached'
  BY DEF ThreadInv
<1> QED BY <1>1, <1>2, <1>3, <1>4, <1>5, <1>6 DEF ThreadInv

(* The successes stay apart from what a thread holds.                       *)
LEMMA SuccessesApart ==
  ASSUME Effects, SuccessKept, NEW u \in Threads
  PROVE  /\ ThreadInv(u)
         /\ \A c \in Callers : completed'[c] \in Successes => ticket'[c] # treq[u]
<1>1. ThreadInv(u)
  BY DEF Effects, ThreadsInv
<1>2. \A c \in Callers : completed[c] \in Successes => ticket[c] # treq[u]
  BY <1>1 DEF ThreadInv
<1> QED BY <1>1, <1>2 DEF SuccessKept

(* The threads hold what they held.                                         *)
LEMMA EffectsFrame ==
  ASSUME Core, Effects, RecordsKept({}), SuccessKept, UNCHANGED <<threadVars, unsettled>>
  PROVE  Effects'
<1>1. UNCHANGED <<tpc, tfile, treq, tstatus, top, tdetached>>
  BY DEF threadVars
<1>2. ThreadsInv'
  <2>1. ASSUME NEW u \in Threads PROVE ThreadInv(u)'
    <3>1. ThreadInv(u) /\ \A c \in Callers : completed'[c] \in Successes => ticket'[c] # treq[u]
      BY SuccessesApart
    <3> QED BY <1>1, <3>1, ThreadStays
  <2> QED BY <1>1, <2>1 DEF Effects, ThreadsInv
<1>3. EffectsInv'
  BY DEF Effects, EffectsInv, RecordsKept, SuccessKept
<1>4. AppliedSettled'
  BY <1>1, OwesKept DEF Effects, AppliedSettled, RecordsKept
<1> QED BY <1>2, <1>3, <1>4 DEF Effects

(* A thread is done with its request: its effects were taken over, or the   *)
(* file is taken down.                                                      *)
LEMMA EffectsFinish ==
  ASSUME Core, Effects, NEW t \in Threads, RecordsKept({treq[t]}), SuccessKept, ThreadIdle(t),
         unsettled' = unsettled \/ unsettled' = unsettled \ {treq[t]},
         treq[t] \in unsettled' => treq[t][1] \in closing'
  PROVE  Effects'
<1>1. /\ tpc'[t] = "idle" /\ treq'[t] = None
      /\ \A u \in Threads \ {t} :
            /\ tpc'[u] = tpc[u] /\ tfile'[u] = tfile[u] /\ treq'[u] = treq[u]
            /\ tstatus'[u] = tstatus[u] /\ top'[u] = top[u]
            /\ u \in tdetached' <=> u \in tdetached
  BY DEF ThreadIdle, Core, TypeOK, ThreadTypes
<1>2. \A u \in Threads \ {t} : treq[u] # None => treq[u] # treq[t]
  BY DEF Effects, ThreadsInv, ThreadInv
<1>3. ThreadsInv'
  <2>1. ASSUME NEW u \in Threads, NEW v \in Threads, treq'[u] = treq'[v], treq'[u] # None
        PROVE  u = v
    <3>1. u # t /\ v # t BY <1>1, <2>1
    <3>2. treq[u] = treq[v] /\ treq[u] # None BY <1>1, <2>1, <3>1
    <3> QED BY <3>2 DEF Effects, ThreadsInv
  <2> SUFFICES ASSUME NEW u \in Threads PROVE ThreadInv(u)'
    BY <2>1 DEF ThreadsInv
  <2>2. CASE u = t
    BY <1>1, <2>2, SuccessFacts DEF ThreadInv, Core, CallersInv, SuccessKept
  <2>3. CASE u # t
    <3>1. /\ ThreadInv(u) /\ None \notin Request
          /\ \A c \in Callers : completed'[c] \in Successes => ticket'[c] # treq[u]
      BY SuccessesApart DEF Core, RecordsInv
    <3>2. tpc[u] \notin {"idle", "malformed"} => treq[u] \notin {treq[t]}
      BY <1>2, <2>3, <3>1 DEF ThreadInv
    <3> QED BY <1>1, <2>3, <3>1, <3>2, ThreadStays
  <2> QED BY <2>2, <2>3
<1>4. EffectsInv'
  <2>1. \A c \in Callers : completed[c] \in Successes => ticket[c] # treq[t]
    BY DEF Effects, ThreadsInv, ThreadInv
  <2> QED BY <2>1 DEF Effects, EffectsInv, RecordsKept, SuccessKept
<1>5. AppliedSettled'
  <2> SUFFICES ASSUME NEW r \in unsettled', r[1] \notin closing'
               PROVE \/ \E c \in Callers : (CallerOwes(c, r) \/ CallerGivesUp(c, r))'
                     \/ \E u \in Threads : treq'[u] = r
    BY DEF AppliedSettled
  <2>1. r \in unsettled /\ r[1] \notin closing /\ r # treq[t]
    BY DEF RecordsKept
  <2>2. CASE \E c \in Callers : CallerOwes(c, r) \/ CallerGivesUp(c, r)
    BY <2>2, OwesKept
  <2>3. CASE \E u \in Threads : treq[u] = r
    BY <1>1, <2>1, <2>3
  <2> QED BY <2>1, <2>2, <2>3 DEF Effects, AppliedSettled
<1> QED BY <1>3, <1>4, <1>5 DEF Effects

(* A thread with a late response goes on to take the source down.           *)
LEMMA EffectsMoves ==
  ASSUME Core, Effects, NEW t \in Threads, NEW l \in {"markdown", "markdown_by_id"},
         tpc[t] \in {"late", "markdown_by_id"}, tpc' = [tpc EXCEPT ![t] = l],
         UNCHANGED <<tfile, treq, tstatus, top, tdetached, unsettled>>,
         RecordsKept({}), SuccessKept
  PROVE  Effects'
<1>1. tpc'[t] = l /\ \A u \in Threads \ {t} : tpc'[u] = tpc[u]
  BY DEF Core, TypeOK, ThreadTypes
<1>2. ThreadsInv'
  <2>1. \A c \in Callers, u \in Threads : completed'[c] \in Successes => ticket'[c] # treq[u]
    BY SuccessesApart
  <2>2. ASSUME NEW u \in Threads PROVE ThreadInv(u)'
    <3>1. CASE u = t
      <4>1. /\ ThreadInv(t) /\ tpc'[t] \notin {"idle", "malformed", "complete", "late"}
            /\ tpc[t] \notin {"idle", "malformed"}
        BY <1>1 DEF Effects, ThreadsInv
      <4>2. treq[t] \in Issued /\ treq[t] \notin in_flight
        BY <4>1 DEF ThreadInv
      <4>3. treq[t] \notin in_flight' /\ treq[t] \in Issued'
        BY <4>2 DEF RecordsKept
      <4> QED BY <2>1, <3>1, <4>1, <4>3 DEF ThreadInv, RecordsKept
    <3>2. CASE u # t
      BY <1>1, <2>1, <3>2, ThreadStays DEF Effects, ThreadsInv
    <3> QED BY <3>1, <3>2
  <2> QED BY <2>2 DEF Effects, ThreadsInv
<1>3. EffectsInv'
  BY DEF Effects, EffectsInv, RecordsKept, SuccessKept
<1>4. AppliedSettled'
  BY OwesKept DEF Effects, AppliedSettled, RecordsKept
<1> QED BY <1>2, <1>3, <1>4 DEF Effects

-----------------------------------------------------------------------------
(* What the steps do to the records and to the successes.                   *)

(* A step that touches no record and no file.                               *)
LEMMA KeptAlone ==
  ASSUME UNCHANGED <<fileVars, requestVars>>
  PROVE  \A R : RecordsKept(R)
BY DEF fileVars, requestVars, recordVars, RecordsKept, Issued

(* A new request has no record yet, and no response.                        *)
LEMMA KeptEnqueue ==
  ASSUME Core, NEW f \in Files, ~IdsExhausted(f), NEW o \in AllOps,
         NEW w \in Callers \cup {None}, NEW late, Enqueue(f, o, w, late), UNCHANGED fileVars
  PROVE  \A R : RecordsKept(R)
<1> DEFINE r == <<f, next_request_id[f]>>
<1>1. NewRecord(r, o, w)
  BY EnqueueEffect
<1>2. accepted \subseteq in_flight /\ in_flight \subseteq Request
  BY DEF Core, RecordsInv, TypeOK, RecordTypes
<1> HIDE DEF r
<1> QED BY <1>1, <1>2 DEF NewRecord, RecordsKept, fileVars

(* The records of a file taken down are lost, and it is closing.            *)
LEMMA KeptMarkDown ==
  ASSUME Core, NEW f \in Files, FdMarkDown(f)
  PROVE  /\ \A R : RecordsKept(R)
         /\ \A c \in Callers : completed[c] \in Successes \/ completed'[c] \in Successes =>
                               completed'[c] = completed[c]
         /\ f \in closing'
<1> DEFINE R == {r \in in_flight : r[1] = f}
<1>1. /\ in_flight' = in_flight \ R
      /\ \A q \in Request : op'[q] = IF q \in R THEN None ELSE op[q]
      /\ accepted' = accepted \ R
      /\ \A d \in Callers : completed'[d] = IF \E r \in R : waiter[r] = d THEN "EIO" ELSE completed[d]
  BY DEF FdMarkDown, InFlightDestroy, FreeRecords
<1>2. closing' = closing \cup {f} /\ UNCHANGED <<fd_source, next_request_id>>
  BY DEF FdMarkDown
<1>3. accepted \subseteq in_flight /\ in_flight \subseteq Request
  BY DEF Core, RecordsInv, TypeOK, RecordTypes
<1>4. \A r \in R : waiter[r] # None => completed[waiter[r]] = None
  BY DEF Core, WaiterIntegrity
<1>5. \A d \in Callers : completed[d] \in Successes \/ completed'[d] \in Successes =>
                               completed'[d] = completed[d]
  <2> SUFFICES ASSUME NEW d \in Callers PROVE completed[d] \in Successes \/ completed'[d] \in Successes =>
                                                     completed'[d] = completed[d]
    OBVIOUS
  <2>1. CASE \E r \in R : waiter[r] = d
    <3>1. completed[d] = None
      BY <1>4, <2>1
    <3> QED BY <1>1, <2>1, <3>1, SuccessFacts
  <2>2. CASE ~\E r \in R : waiter[r] = d
    BY <1>1, <2>2
  <2> QED BY <2>1, <2>2
<1> QED BY <1>1, <1>2, <1>3, <1>5 DEF RecordsKept, Issued

(* Taking the slot's file down, whichever it is, or nothing.                *)
LEMMA KeptMarkDownById ==
  ASSUME Core, NEW s \in Sources, MarkDownById(s)
  PROVE  /\ \A R : RecordsKept(R)
         /\ \A c \in Callers : completed[c] \in Successes \/ completed'[c] \in Successes =>
                               completed'[c] = completed[c]
<1>1. CASE status[s] = "ACTIVE" /\ active_fd[s] # None
  <2>1. FdMarkDown(active_fd[s]) /\ active_fd[s] \in Files
    BY <1>1 DEF MarkDownById, Core, TypeOK, FileTypes
  <2> QED BY <2>1, KeptMarkDown
<1>2. CASE ~(status[s] = "ACTIVE" /\ active_fd[s] # None)
  <2>1. UNCHANGED <<closing, fd_source, requestVars, completed>>
    BY <1>2 DEF MarkDownById, NoMarkDown
  <2> QED BY <2>1 DEF requestVars, recordVars, RecordsKept, Issued
<1> QED BY <1>1, <1>2

(* A released record is lost; the others are kept.                          *)
LEMMA KeptRelease ==
  ASSUME Core, NEW r \in in_flight, ReleaseRecord(r), UNCHANGED <<fileVars, next_request_id>>
  PROVE  RecordsKept({r}) /\ r \notin in_flight'
<1>1. /\ in_flight' = in_flight \ {r} /\ accepted' = accepted \ {r}
      /\ \A q \in Request : op'[q] = IF q = r THEN None ELSE op[q]
  BY DEF ReleaseRecord, FreeRecords
<1>2. accepted \subseteq in_flight /\ in_flight \subseteq Request
  BY DEF Core, RecordsInv, TypeOK, RecordTypes
<1> QED BY <1>1, <1>2 DEF RecordsKept, Issued, fileVars

-----------------------------------------------------------------------------
(* The callers.                                                             *)

(* A caller moves that was not completed with a success.                    *)
LEMMA EffectsAlone ==
  ASSUME Core, Effects, NEW c \in Callers, completed[c] \notin Successes,
         completed'[c] \notin Successes,
         \A d \in Callers \ {c} :
             /\ pc'[d] = pc[d] /\ ticket'[d] = ticket[d] /\ call_op'[d] = call_op[d]
             /\ completed[d] \in Successes \/ completed'[d] \in Successes =>
                    completed'[d] = completed[d],
         RecordsKept({}), UNCHANGED <<threadVars, unsettled>>
  PROVE  Effects'
<1>1. SuccessKept
  BY DEF SuccessKept
<1> QED BY <1>1, EffectsFrame

(* A caller returns without a response.                                     *)
LEMMA EffectsReturns ==
  ASSUME Core, Effects, NEW c \in Callers, ReturnOnly(c), pc[c] \notin {"wait", "detach"}
  PROVE  Effects'
<1>1. completed[c] = None /\ None \notin Successes
  BY SuccessFacts DEF Core, CallersInv
<1>2. /\ completed'[c] = None
      /\ \A d \in Callers \ {c} : /\ pc'[d] = pc[d] /\ ticket'[d] = ticket[d]
                                    /\ call_op'[d] = call_op[d] /\ completed'[d] = completed[d]
  BY DEF ReturnOnly, Returned, Goto, Core, TypeOK, CallTypes, WakeTypes
<1>3. RecordsKept({}) /\ UNCHANGED <<threadVars, unsettled>>
  BY KeptAlone DEF ReturnOnly
<1> QED BY <1>1, <1>2, <1>3, EffectsAlone

(* A caller that was not completed moves on.                                *)
LEMMA EffectsGoes ==
  ASSUME Core, Effects, NEW c \in Callers, NEW l, Goto(c, l), completed[c] = None,
         UNCHANGED <<fileVars, requestVars, callVars, completed, threadVars, unsettled>>
  PROVE  Effects'
<1>1. \A d \in Callers \ {c} : /\ pc'[d] = pc[d] /\ ticket'[d] = ticket[d]
                                 /\ call_op'[d] = call_op[d] /\ completed'[d] = completed[d]
  BY DEF Goto, callVars, Core, TypeOK, CallTypes
<1>2. completed'[c] \notin Successes /\ completed[c] \notin Successes
  BY SuccessFacts
<1> QED BY <1>1, <1>2, KeptAlone, EffectsAlone

(* A caller takes its response, and with a success its effects.             *)
LEMMA EffectsTakes ==
  ASSUME Core, Effects, NEW c \in Callers, TakeResponse(c), pc[c] \in {"wait", "detach"}
  PROVE  Effects'
<1> DEFINE ends == (completed[c] = "OK" /\ call_op[c] \in EffectOps) \/ completed[c] = "ENOMEM"
<1>1. /\ completed'[c] = None /\ ticket'[c] = None
      /\ \A d \in Callers \ {c} : /\ pc'[d] = pc[d] /\ ticket'[d] = ticket[d]
                                    /\ call_op'[d] = call_op[d] /\ completed'[d] = completed[d]
  BY DEF TakeResponse, Goto, Core, TypeOK, CallTypes, WakeTypes
<1>2. UNCHANGED <<tpc, tfile, treq, tstatus, top, tdetached, closing, fd_source, in_flight, accepted, op,
                  next_request_id>>
  BY DEF TakeResponse, threadVars, fileVars, requestVars, recordVars
<1>3. Issued' = Issued
  BY <1>2 DEF Issued
<1>4. unsettled' = IF ends THEN unsettled \ {ticket[c]} ELSE unsettled
  BY DEF TakeResponse
<1>5. ends => \A t \in Threads : treq[t] # ticket[c]
  BY SuccessFacts DEF Effects, ThreadsInv, ThreadInv
<1>6. \A d \in Callers \ {c} : ticket[d] # None => ticket[d] # ticket[c]
  BY DEF Core, CallersInv
<1>7. ThreadsInv'
  <2>1. \A u, v \in Threads : treq'[u] = treq'[v] /\ treq'[u] # None => u = v
    BY <1>2 DEF Effects, ThreadsInv
  <2> SUFFICES ASSUME NEW u \in Threads PROVE ThreadInv(u)'
    BY <2>1 DEF ThreadsInv
  <2>2. ThreadInv(u)
    BY DEF Effects, ThreadsInv
  <2>3. RecordsKept({})
    BY <1>2, <1>3 DEF RecordsKept
  <2>4. treq[u] \in unsettled' <=> treq[u] \in unsettled
    BY <1>4, <1>5
  <2>5. \A d \in Callers : completed'[d] \in Successes => ticket'[d] # treq[u]
    BY <1>1, <2>2, SuccessFacts DEF ThreadInv
  <2> QED BY <1>2, <2>2, <2>3, <2>4, <2>5, ThreadStays
<1>8. EffectsInv'
  <2>1. \A r \in unsettled' : r \in Issued' /\ (r \in in_flight' => r \in accepted')
    BY <1>2, <1>3, <1>4 DEF Effects, EffectsInv
  <2>2. \A d \in Callers : pc'[d] \in {"wait", "detach"} /\ completed'[d] \in Successes
                              /\ call_op'[d] \in EffectOps => ticket'[d] \in unsettled'
    <3> SUFFICES ASSUME NEW d \in Callers, pc'[d] \in {"wait", "detach"}, completed'[d] \in Successes,
                        call_op'[d] \in EffectOps
                 PROVE  ticket'[d] \in unsettled'
      OBVIOUS
    <3>1. d # c
      BY <1>1, SuccessFacts
    <3>2. ticket[d] \in unsettled /\ ticket[d] # None
      BY <1>1, <3>1 DEF Effects, EffectsInv, Core, CallersInv
    <3> QED BY <1>1, <1>4, <1>6, <3>1, <3>2
  <2> QED BY <2>1, <2>2 DEF EffectsInv
<1>9. AppliedSettled'
  <2> SUFFICES ASSUME NEW r \in unsettled', r[1] \notin closing'
               PROVE \/ \E d \in Callers : (CallerOwes(d, r) \/ CallerGivesUp(d, r))'
                     \/ \E u \in Threads : treq'[u] = r
    BY DEF AppliedSettled
  <2>1. r \in unsettled /\ r[1] \notin closing
    BY <1>2, <1>4
  <2>2. ~CallerOwes(c, r) /\ ~CallerGivesUp(c, r)
    BY <1>4 DEF CallerOwes, CallerGivesUp
  <2>3. CASE \E d \in Callers : CallerOwes(d, r) \/ CallerGivesUp(d, r)
    BY <1>1, <2>2, <2>3 DEF CallerOwes, CallerGivesUp
  <2>4. CASE \E u \in Threads : treq[u] = r
    BY <1>2, <2>4
  <2> QED BY <2>1, <2>3, <2>4 DEF Effects, AppliedSettled
<1> QED BY <1>7, <1>8, <1>9 DEF Effects

(* A caller that gives up leaves its record behind without a waiter, unless *)
(* it was completed in time.                                                *)
LEMMA EffectsDetaches ==
  ASSUME Core, Effects, NEW c \in Callers, Detach(c)
  PROVE  Effects'
<1>1. CASE completed[c] # None
  BY <1>1, EffectsTakes DEF Detach
<1>2. CASE completed[c] = None
  <2>1. /\ completed'[c] = None
        /\ \A d \in Callers \ {c} : /\ pc'[d] = pc[d] /\ ticket'[d] = ticket[d]
                                      /\ call_op'[d] = call_op[d] /\ completed'[d] = completed[d]
    <3>1. Returned(c) /\ CallTypes /\ WakeTypes
      BY <1>2 DEF Detach, Core, TypeOK
    <3> QED BY <3>1 DEF Returned, Goto, CallTypes, WakeTypes
  <2>2. /\ UNCHANGED <<closing, fd_source, in_flight, accepted, op, next_request_id>>
        /\ UNCHANGED <<threadVars, unsettled>>
    BY <1>2 DEF Detach, fileVars
  <2>3. RecordsKept({})
    BY <2>2 DEF RecordsKept, Issued
  <2> QED BY <1>2, <2>1, <2>2, <2>3, EffectsAlone, SuccessFacts
<1> QED BY <1>1, <1>2

(* A request is sent.                                                       *)
LEMMA EffectsSends ==
  ASSUME Core, Effects, NEW c \in Callers, DispatchSends(c)
  PROVE  Effects'
<1> DEFINE f == active_fd[call_source[c]]
<1>1. call_source[c] \in Sources /\ call_op[c] \in Ops /\ completed[c] = None
  BY DEF Core, CallersInv, DispatchSends
<1>2. f \in Files /\ ~IdsExhausted(f) /\ call_op[c] \in AllOps
  BY <1>1, ServedActive DEF DispatchSends, Core, TypeOK
<1>3. Enqueue(f, call_op[c], c, c \in call_late) /\ UNCHANGED fileVars
  BY DEF DispatchSends
<1>4. /\ completed' = completed /\ UNCHANGED <<threadVars, unsettled>>
      /\ \A d \in Callers \ {c} : /\ pc'[d] = pc[d] /\ ticket'[d] = ticket[d]
                                    /\ call_op'[d] = call_op[d]
  BY DEF DispatchSends, Goto, Core, TypeOK, CallTypes
<1> HIDE DEF f
<1>5. RecordsKept({})
  BY <1>2, <1>3, KeptEnqueue
<1> QED BY <1>1, <1>4, <1>5, EffectsAlone, SuccessFacts

(* A caller whose effects cannot be published takes the source down.        *)
LEMMA EffectsPublishFails ==
  ASSUME Core, Effects, NEW c \in Callers, PublishFails(c)
  PROVE  Effects'
<1>1. call_source[c] \in Sources /\ completed[c] = None
  BY DEF Core, CallersInv, PublishFails
<1>2. /\ RecordsKept({})
      /\ \A d \in Callers : completed[d] \in Successes \/ completed'[d] \in Successes =>
                               completed'[d] = completed[d]
  BY <1>1, KeptMarkDownById DEF PublishFails
<1>3. /\ UNCHANGED <<threadVars, unsettled>>
      /\ \A d \in Callers \ {c} : /\ pc'[d] = pc[d] /\ ticket'[d] = ticket[d]
                                    /\ call_op'[d] = call_op[d]
  BY DEF PublishFails, Goto, Core, TypeOK, CallTypes
<1>4. completed[c] \notin Successes /\ completed'[c] \notin Successes
  BY <1>1, <1>2, SuccessFacts
<1> QED BY <1>2, <1>3, <1>4, EffectsAlone

(* Every step of a caller.                                                  *)
LEMMA EffectsCallerSteps ==
  ASSUME Core, Effects, NEW c \in Callers, CallerStep(c) \/ CallerTimeout(c) \/ CallerInput(c)
  PROVE  Effects'
<1>1. CASE \/ SnapshotEpoch(c) \/ EpochChanged(c) \/ DispatchLosesSlot(c)
           \/ WaitTimeout(c) \/ WaitSignal(c)
  <2>1. /\ UNCHANGED <<fileVars, requestVars, callVars, completed, threadVars, unsettled>>
        /\ completed[c] = None
        /\ \E l \in {"admission", "slot", "detach"} : Goto(c, l)
    BY <1>1 DEF SnapshotEpoch, EpochChanged, DispatchLosesSlot, WaitTimeout, WaitSignal,
       GotoOnly,
                Core, CallersInv
  <2> QED BY <2>1, EffectsGoes
<1>2. CASE \/ SlotTimeout(c) \/ EpochTimeout(c) \/ DispatchTimeout(c) \/ EpochSignal(c)
           \/ DispatchFails(c) \/ PublishReturns(c)
  BY <1>2, EffectsReturns DEF SlotTimeout, EpochTimeout, DispatchTimeout, EpochSignal,
                              DispatchFails, PublishReturns
<1>3. CASE Admission(c)
  <2>1. CASE ReturnOnly(c)
    BY <1>3, <2>1, EffectsReturns DEF Admission
  <2>2. CASE \E l \in {"dispatch", "epoch"} : GotoOnly(c, l)
    BY <1>3, <2>2, EffectsGoes DEF Admission, GotoOnly, Core, CallersInv
  <2> QED BY <1>3, <2>1, <2>2 DEF Admission
<1>4. CASE DispatchRequest(c)
  BY <1>4, EffectsSends DEF DispatchRequest, DispatchLookup, DispatchReadKey,
     DispatchEnumChildren,
     DispatchQueryValues, DispatchSetValue, DispatchDeleteValueEntry, DispatchSetBlanketTombstone,
     DispatchDropKey, DispatchCreateEntry, DispatchHideDeleteEntry, DispatchCreateKey,
     DispatchWriteKey, DispatchTransaction, DispatchFlush, DispatchDeleteLayer
<1>5. CASE WaitCompletes(c)
  BY <1>5, EffectsTakes DEF WaitCompletes
<1>6. CASE \/ \E o \in Ops, s \in Sources, late \in BOOLEAN : StartRoundTrip(c, o, s, late)
           \/ DispatchBacksOut(c)
  <2>1. /\ completed[c] = None /\ completed' = completed
        /\ UNCHANGED <<fileVars, requestVars, threadVars, unsettled>>
    BY <1>6 DEF StartRoundTrip, DispatchBacksOut, Core, CallersInv
  <2>2. \A d \in Callers \ {c} : pc'[d] = pc[d] /\ ticket'[d] = ticket[d] /\ call_op'[d] = call_op[d]
    BY <1>6 DEF StartRoundTrip, DispatchBacksOut, Goto, Core, TypeOK, CallTypes
  <2> QED BY <2>1, <2>2, KeptAlone, EffectsAlone, SuccessFacts
<1> QED BY <1>1, <1>2, <1>3, <1>4, <1>5, <1>6, EffectsDetaches, EffectsPublishFails
        DEF CallerStep, CallerTimeout, CallerInput

-----------------------------------------------------------------------------
(* The source threads.                                                      *)

(* A response is accepted: from now on the thread holds the request.        *)
LEMMA EffectsAccepts ==
  ASSUME Core, Effects, NEW t \in Threads, NEW f \in Files, NEW id \in RequestId,
         NEW v \in {"OK", "ERROR", "MALFORMED", "FAILED"}, AcceptResponse(t, f, id, v)
  PROVE  Effects'
<1> DEFINE r == <<f, id>>
<1>1. /\ r \in Request /\ r \in in_flight /\ r \notin accepted /\ r \in Issued /\ r[1] = f
      /\ f \notin closing /\ fd_source[f] \in Sources
  BY DEF AcceptResponse, Acceptable, Request, Core, RecordsInv, IsActive, FilesInv
<1>2. /\ tfile'[t] = f /\ treq'[t] = r /\ tstatus'[t] = v /\ top'[t] = op[r]
      /\ unsettled' = IF v = "OK" /\ op[r] \in EffectOps THEN unsettled \cup {r} ELSE unsettled
      /\ \A u \in Threads \ {t} : /\ tfile'[u] = tfile[u] /\ treq'[u] = treq[u]
                                    /\ tstatus'[u] = tstatus[u] /\ top'[u] = top[u]
  BY DEF AcceptResponse, Core, TypeOK, ThreadTypes
<1>3. UNCHANGED <<closing, fd_source, next_request_id, pc, ticket, call_op, completed>>
  BY DEF AcceptResponse, fileVars, callVars
<1>4. Issued' = Issued
  BY <1>3 DEF Issued
<1>5. r \notin unsettled /\ treq[t] = None /\ tpc[t] = "idle"
  BY <1>1 DEF AcceptResponse, Effects, EffectsInv, ThreadsInv, ThreadInv
<1>6. \A u \in Threads : treq[u] # r
  <2> SUFFICES ASSUME NEW u \in Threads, treq[u] = r PROVE FALSE
    OBVIOUS
  <2>1. treq[u] # None
    BY <1>1
  <2>2. /\ ThreadInv(u)
        /\ tpc[u] \in {"idle", "complete", "late", "malformed", "markdown", "markdown_by_id"}
    BY DEF Effects, ThreadsInv, Core, TypeOK, ThreadTypes
  <2>3. tpc[u] \notin {"idle", "malformed"}
    BY <2>1, <2>2 DEF ThreadInv
  <2>4. tpc[u] # "complete"
    BY <1>1, <2>2 DEF ThreadInv
  <2>5. tpc[u] \notin {"late", "markdown", "markdown_by_id"}
    BY <1>1, <2>2 DEF ThreadInv
  <2> QED BY <2>2, <2>3, <2>4, <2>5
<1>7. \A c \in Callers : completed[c] # None => ticket[c] # r
  BY <1>1 DEF Core, CallersInv
<1>8. AppliedSettled'
  <2> SUFFICES ASSUME NEW q \in unsettled', q[1] \notin closing'
               PROVE \/ \E d \in Callers : (CallerOwes(d, q) \/ CallerGivesUp(d, q))'
                     \/ \E u \in Threads : treq'[u] = q
    BY DEF AppliedSettled
  <2>1. CASE q = r
    BY <1>2, <2>1
  <2>2. CASE \E d \in Callers : CallerOwes(d, q) \/ CallerGivesUp(d, q)
    BY <1>3, <2>2 DEF CallerOwes, CallerGivesUp
  <2>3. CASE q # r /\ \E u \in Threads : treq[u] = q
    <3>1. q # None
      BY <2>3, <1>2 DEF Effects, EffectsInv, Issued
    <3> QED BY <1>2, <1>5, <2>3, <3>1
  <2> QED BY <1>2, <1>3, <2>1, <2>2, <2>3 DEF Effects, AppliedSettled
<1> HIDE DEF r
<1>9. CASE waiter[r] # None
  <2>1. /\ tpc'[t] = "complete" /\ accepted' = accepted \cup {r}
        /\ UNCHANGED <<in_flight, op, tdetached>>
        /\ \A u \in Threads \ {t} : tpc'[u] = tpc[u]
    BY <1>9 DEF AcceptResponse, Core, TypeOK, ThreadTypes, r
  <2>2. ThreadsInv'
    <3>1. \A u, w \in Threads : treq'[u] = treq'[w] /\ treq'[u] # None => u = w
      <4>1. \A u \in Threads \ {t} : treq'[u] = treq[u] /\ treq'[u] # treq'[t]
        BY <1>2, <1>6
      <4> QED BY <4>1 DEF Effects, ThreadsInv
    <3>2. ASSUME NEW u \in Threads PROVE ThreadInv(u)'
      <4>1. CASE u = t
        BY <1>1, <1>2, <1>3, <1>4, <1>5, <1>7, <2>1, <4>1, SuccessFacts DEF ThreadInv
      <4>2. CASE u # t
        <5>1. RecordsKept({r})
          BY <1>3, <1>4, <2>1 DEF RecordsKept
        <5>2. ThreadInv(u) /\ treq[u] # r
          BY <1>6 DEF Effects, ThreadsInv
        <5>3. \A c \in Callers : completed'[c] \in Successes => ticket'[c] # treq[u]
          BY <1>3, <5>2 DEF ThreadInv
        <5> QED BY <1>2, <2>1, <4>2, <5>1, <5>2, <5>3, ThreadStays
      <4> QED BY <4>1, <4>2
    <3> QED BY <3>1, <3>2 DEF ThreadsInv
  <2>3. EffectsInv'
    BY <1>1, <1>2, <1>3, <1>4, <2>1 DEF Effects, EffectsInv
  <2> QED BY <1>8, <2>2, <2>3 DEF Effects
<1>10. CASE waiter[r] = None
  <2>1. ReleaseUnwaited(t, r)
    BY <1>10 DEF AcceptResponse, r
  <2>2. /\ tpc'[t] = "late"
        /\ r \in was_attached => t \in tdetached'
        /\ \A u \in Threads \ {t} : tpc'[u] = tpc[u]
        /\ tdetached \subseteq tdetached'
    BY <2>1 DEF ReleaseUnwaited, Core, TypeOK, ThreadTypes
  <2>3. op[r] \in EffectOps => r \in was_attached
    BY <1>1 DEF Core, RecordsInv
  <2>4. UNCHANGED <<fileVars, next_request_id>>
    BY DEF AcceptResponse
  <2>5. RecordsKept({r}) /\ r \notin in_flight'
    BY <1>1, <2>1, <2>4, KeptRelease DEF ReleaseUnwaited
  <2>6. ThreadsInv'
    <3>1. \A u, w \in Threads : treq'[u] = treq'[w] /\ treq'[u] # None => u = w
      <4>1. \A u \in Threads \ {t} : treq'[u] = treq[u] /\ treq'[u] # treq'[t]
        BY <1>2, <1>6
      <4> QED BY <4>1 DEF Effects, ThreadsInv
    <3> SUFFICES ASSUME NEW u \in Threads PROVE ThreadInv(u)'
      BY <3>1 DEF ThreadsInv
    <3>2. CASE u = t
      BY <1>1, <1>2, <1>3, <1>4, <1>5, <1>7, <2>2, <2>3, <2>5, <3>2, SuccessFacts DEF ThreadInv
    <3>3. CASE u # t
      <4>1. ThreadInv(u) /\ treq[u] # r
        BY <1>6 DEF Effects, ThreadsInv
      <4>2. \A c \in Callers : completed'[c] \in Successes => ticket'[c] # treq[u]
        BY <1>3, <4>1 DEF ThreadInv
      <4> QED BY <1>2, <2>2, <2>5, <3>3, <4>1, <4>2, ThreadStays
    <3> QED BY <3>2, <3>3
  <2>7. EffectsInv'
    BY <1>1, <1>2, <1>3, <1>4, <2>5 DEF Effects, EffectsInv, RecordsKept
  <2> QED BY <1>8, <2>6, <2>7 DEF Effects
<1> QED BY <1>9, <1>10

(* A response is completed.  If the record is gone, its file was taken      *)
(* down; if the caller is still there it gets the status and owes the       *)
(* effects; if it has detached since accept, the thread does.               *)
LEMMA EffectsCompletes ==
  ASSUME Core, Effects, NEW t \in Threads, CompleteWaiter(t)
  PROVE  Effects'
<1> DEFINE r == treq[t]
<1>1. /\ tpc[t] = "complete" /\ r \in Request /\ r \in Issued /\ r[1] = tfile[t] /\ tfile[t] \in Files
      /\ fd_source[tfile[t]] \in Sources
      /\ r \in unsettled <=> tstatus[t] = "OK" /\ top[t] \in EffectOps
      /\ \/ r \in accepted /\ op[r] = top[t]
         \/ r[1] \in closing
  BY DEF CompleteWaiter, Effects, ThreadsInv, ThreadInv
<1>2. UNCHANGED <<fileVars, next_request_id, pc, ticket, call_op, unsettled>>
  BY DEF CompleteWaiter, callVars
<1>3. accepted \subseteq in_flight /\ None \notin Request
  BY DEF Core, RecordsInv
<1>4. CASE r \notin in_flight \/ r \notin accepted
  <2>1. ThreadIdle(t) /\ UNCHANGED <<recordVars, completed>>
    BY <1>4 DEF CompleteWaiter
  <2>2. RecordsKept({r}) /\ SuccessKept
    BY <1>2, <2>1 DEF RecordsKept, SuccessKept, Issued, recordVars, fileVars
  <2>3. r[1] \in closing'
    BY <1>1, <1>2, <1>3, <1>4 DEF fileVars
  <2> QED BY <1>2, <2>1, <2>2, <2>3, EffectsFinish
<1>5. CASE r \in in_flight /\ r \in accepted /\ waiter[r] # None
  <2>0. PICK w \in Callers : w = waiter[r]
    BY <1>5 DEF Core, TypeOK, RecordTypes
  <2>1. /\ pc[w] \in {"wait", "detach"} /\ ticket[w] = r /\ completed[w] = None
        /\ call_op[w] = op[r] /\ r[1] \notin closing
    BY <1>5, <2>0, SMT DEF Core, WaiterIntegrity, RecordsInv, IsActive, FilesInv, TypeOK, RecordTypes,
       FileTypes
  <2>2. /\ ReleaseRecord(r) /\ ThreadIdle(t)
        /\ \E errno \in Completions(tstatus[t], op[r]) :
               completed' = [completed EXCEPT ![w] = errno]
    BY <1>5, <2>0 DEF CompleteWaiter
  <2>10. PICK errno \in Completions(tstatus[t], op[r]) :
             completed' = [completed EXCEPT ![w] = errno]
    BY <2>2
  <2>3. completed'[w] = errno /\ \A c \in Callers \ {w} : completed'[c] = completed[c]
    BY <2>10 DEF Core, TypeOK, WakeTypes
  <2>11. /\ errno \in Successes <=> tstatus[t] = "OK"
         /\ errno = "ENOMEM" => op[r] \in RetainingOps
    BY DEF Completions, CallerErrno, Successes
  <2>4. RecordsKept({r}) /\ r \notin in_flight'
    BY <1>2, <1>5, <2>2, KeptRelease
  <2>5. /\ tpc'[t] = "idle" /\ treq'[t] = None
        /\ \A u \in Threads \ {t} :
              /\ tpc'[u] = tpc[u] /\ tfile'[u] = tfile[u] /\ treq'[u] = treq[u]
              /\ tstatus'[u] = tstatus[u] /\ top'[u] = top[u]
              /\ u \in tdetached' <=> u \in tdetached
    BY <2>2 DEF ThreadIdle, Core, TypeOK, ThreadTypes
  <2>6. \A u \in Threads \ {t} : treq[u] # r
    BY <1>1, <1>3 DEF Effects, ThreadsInv
  <2> HIDE DEF r
  <2>7. ThreadsInv'
    <3>1. ASSUME NEW u \in Threads, NEW v \in Threads, treq'[u] = treq'[v], treq'[u] # None
          PROVE  u = v
      <4>1. u # t /\ v # t BY <2>5, <3>1
      <4>2. treq[u] = treq[v] /\ treq[u] # None BY <2>5, <3>1, <4>1
      <4> QED BY <4>2 DEF Effects, ThreadsInv
    <3> SUFFICES ASSUME NEW u \in Threads PROVE ThreadInv(u)'
      BY <3>1 DEF ThreadsInv
    <3>2. \A c \in Callers : completed'[c] \in Successes => ticket[c] # None
      BY <1>1, <1>3, <2>1, <2>3, SuccessFacts DEF Core, CallersInv
    <3>3. CASE u = t
      BY <1>2, <2>5, <3>2, <3>3 DEF ThreadInv
    <3>4. CASE u # t
      <4>1. ThreadInv(u) /\ treq[u] # r
        BY <2>6, <3>4 DEF Effects, ThreadsInv
      <4>2. \A c \in Callers : completed'[c] \in Successes => ticket'[c] # treq[u]
        BY <1>2, <2>1, <2>3, <4>1 DEF ThreadInv
      <4> QED BY <1>2, <2>4, <2>5, <3>4, <4>1, <4>2, ThreadStays
    <3> QED BY <3>3, <3>4
  <2>8. EffectsInv'
    <3>1. \A q \in unsettled' : q \in Issued' /\ (q \in in_flight' => q \in accepted')
      BY <1>2, <2>4 DEF Effects, EffectsInv, RecordsKept
    <3>2. \A c \in Callers : pc'[c] \in {"wait", "detach"} /\ completed'[c] \in Successes
                                /\ call_op'[c] \in EffectOps => ticket'[c] \in unsettled'
      BY <1>1, <1>2, <2>1, <2>3, <2>11 DEF Effects, EffectsInv, r
    <3> QED BY <3>1, <3>2 DEF EffectsInv
  <2>9. AppliedSettled'
    <3> SUFFICES ASSUME NEW q \in unsettled', q[1] \notin closing'
                 PROVE \/ \E d \in Callers : (CallerOwes(d, q) \/ CallerGivesUp(d, q))'
                       \/ \E u \in Threads : treq'[u] = q
      BY DEF AppliedSettled
    <3>1. q \in unsettled /\ q[1] \notin closing
      BY <1>2 DEF fileVars
    <3>2. CASE q = r
      <4>1. tstatus[t] = "OK" /\ call_op[w] \in EffectOps
        BY <1>1, <2>1, <3>1, <3>2 DEF r
      <4>2. CASE errno = "OK"
        BY <1>2, <2>1, <2>3, <3>2, <4>1, <4>2 DEF CallerOwes
      <4>3. CASE errno = "ENOMEM"
        <5>1. call_op[w] = "DELETE_LAYER"
          BY <2>1, <2>11, <4>1, <4>3
             DEF RetainingOps, ReadOps, EffectOps, RequiresMutationEffects, KeyMutationOps,
                 BareMutationOps
        <5> QED BY <1>2, <2>1, <2>3, <3>2, <4>3, <5>1 DEF CallerGivesUp
      <4> QED BY <2>11, <4>1, <4>2, <4>3 DEF Successes
    <3>3. CASE \E d \in Callers : CallerOwes(d, q) \/ CallerGivesUp(d, q)
      BY <1>2, <2>1, <2>3, <3>3 DEF CallerOwes, CallerGivesUp
    <3>4. CASE q # r /\ \E u \in Threads : treq[u] = q
      BY <2>5, <3>4 DEF r
    <3> QED BY <3>1, <3>2, <3>3, <3>4 DEF Effects, AppliedSettled
  <2> QED BY <2>7, <2>8, <2>9 DEF Effects
<1>6. CASE r \in in_flight /\ r \in accepted /\ waiter[r] = None
  <2>1. ReleaseUnwaited(t, r) /\ UNCHANGED <<completed, tfile, treq, tstatus, top>>
    BY <1>6 DEF CompleteWaiter
  <2>2. /\ tpc'[t] = "late"
        /\ r \in was_attached => t \in tdetached'
        /\ tdetached \subseteq tdetached'
        /\ \A u \in Threads \ {t} : tpc'[u] = tpc[u]
    BY <2>1 DEF ReleaseUnwaited, Core, TypeOK, ThreadTypes
  <2>3. RecordsKept({r}) /\ r \notin in_flight'
    BY <1>2, <1>6, <2>1, KeptRelease DEF ReleaseUnwaited
  <2>4. SuccessKept
    BY <1>2, <2>1 DEF SuccessKept
  <2>5. top[t] = op[r] /\ (op[r] \in EffectOps => r \in was_attached)
    BY <1>1, <1>6, SMT DEF Core, RecordsInv, IsActive, FilesInv, TypeOK, FileTypes
  <2>6. \A u \in Threads \ {t} : treq[u] # r
    BY <1>1, <1>3 DEF Effects, ThreadsInv
  <2> HIDE DEF r
  <2>7. ThreadsInv'
    <3>1. \A u, v \in Threads : treq'[u] = treq'[v] /\ treq'[u] # None => u = v
      BY <2>1 DEF Effects, ThreadsInv
    <3> SUFFICES ASSUME NEW u \in Threads PROVE ThreadInv(u)'
      BY <3>1 DEF ThreadsInv
    <3>2. CASE u = t
      BY <1>1, <1>2, <2>1, <2>2, <2>3, <2>5, <3>2
         DEF ThreadInv, Effects, ThreadsInv, RecordsKept, r, fileVars
    <3>3. CASE u # t
      <4>1. ThreadInv(u) /\ treq[u] # r
        BY <2>6, <3>3 DEF Effects, ThreadsInv
      <4>2. \A c \in Callers : completed'[c] \in Successes => ticket'[c] # treq[u]
        BY <1>2, <2>1, <4>1 DEF ThreadInv
      <4> QED BY <1>2, <2>1, <2>2, <2>3, <3>3, <4>1, <4>2, ThreadStays
    <3> QED BY <3>2, <3>3
  <2>8. EffectsInv'
    BY <1>2, <2>1, <2>3 DEF Effects, EffectsInv, RecordsKept
  <2>9. AppliedSettled'
    BY <1>2, <2>1, <2>3, <2>4, OwesKept DEF Effects, AppliedSettled, RecordsKept
  <2> QED BY <2>7, <2>8, <2>9 DEF Effects
<1> QED BY <1>4, <1>5, <1>6

(* A rejected response holds no request.                                    *)
LEMMA EffectsRejects ==
  ASSUME Core, Effects, NEW t \in Threads, NEW f \in Files, RejectResponse(t, f)
  PROVE  Effects'
<1>1. /\ tpc[t] = "idle" /\ tpc'[t] = "malformed" /\ tfile'[t] = f
      /\ \A u \in Threads \ {t} : tpc'[u] = tpc[u] /\ tfile'[u] = tfile[u]
      /\ UNCHANGED <<treq, tstatus, top, tdetached>>
  BY DEF RejectResponse, Core, TypeOK, ThreadTypes
<1>2. RecordsKept({}) /\ SuccessKept /\ UNCHANGED unsettled
  BY KeptAlone DEF RejectResponse, ThreadOnly, callerVars, callVars, SuccessKept
<1>3. ThreadsInv'
  <2>1. \A c \in Callers, u \in Threads : completed'[c] \in Successes => ticket'[c] # treq[u]
    BY <1>2, SuccessesApart
  <2>2. ASSUME NEW u \in Threads PROVE ThreadInv(u)'
    <3>1. CASE u = t
      BY <1>1, <2>1, <3>1 DEF Effects, ThreadsInv, ThreadInv
    <3>2. CASE u # t
      BY <1>1, <1>2, <2>1, <3>2, ThreadStays DEF Effects, ThreadsInv
    <3> QED BY <3>1, <3>2
  <2> QED BY <1>1, <2>2 DEF Effects, ThreadsInv
<1>4. EffectsInv'
  BY <1>2 DEF Effects, EffectsInv, RecordsKept, SuccessKept
<1>5. AppliedSettled'
  BY <1>1, <1>2, OwesKept DEF Effects, AppliedSettled, RecordsKept
<1> QED BY <1>3, <1>4, <1>5 DEF Effects

(* Every step of a source thread.                                           *)
LEMMA EffectsThreadSteps ==
  ASSUME Core, Effects, NEW t \in Threads, ThreadStep(t) \/ ThreadInput(t)
  PROVE  Effects'
<1>1. CASE LateNothing(t)
  <2>1. RecordsKept({treq[t]}) /\ SuccessKept /\ ThreadIdle(t) /\ UNCHANGED unsettled
    BY <1>1, KeptAlone DEF LateNothing, ThreadOnly, callerVars, callVars, SuccessKept
  <2>2. treq[t] \notin unsettled
    BY <1>1 DEF LateNothing, Effects, ThreadsInv, ThreadInv
  <2> QED BY <2>1, <2>2, EffectsFinish
<1>2. CASE LateCommitSettles(t) \/ LatePublishes(t)
  <2>1. /\ RecordsKept({treq[t]}) /\ SuccessKept /\ ThreadIdle(t)
        /\ unsettled' = unsettled \ {treq[t]}
    BY <1>2, KeptAlone DEF LateCommitSettles, LatePublishes, callerVars, callVars,
       SuccessKept
  <2> QED BY <2>1, EffectsFinish
<1>3. CASE \/ LateCommitMalformed(t) \/ LateBeginFails(t) \/ LateCommitFails(t)
           \/ LatePublishFails(t) \/ LateMutationUnpublishable(t)
  <2>1. tpc[t] = "late" /\ \E l \in {"markdown", "markdown_by_id"} : LateGoto(t, l)
    BY <1>3 DEF LateCommitMalformed, LateBeginFails, LateCommitFails, LatePublishFails,
                LateMutationUnpublishable, IsLate
  <2> PICK l \in {"markdown", "markdown_by_id"} : LateGoto(t, l)
    BY <2>1
  <2>2. RecordsKept({}) /\ SuccessKept
    BY KeptAlone DEF LateGoto, ThreadOnly, callerVars, callVars, SuccessKept
  <2> QED BY <2>1, <2>2, EffectsMoves DEF LateGoto, ThreadOnly
<1>4. CASE LateBeginAborts(t)
  <2> DEFINE s == fd_source[tfile[t]]
             f == active_fd[s]
  <2>1. s \in Sources
    BY <1>4 DEF LateBeginAborts, IsLate, Core, ThreadFiles
  <2>2. f \in Files /\ ~IdsExhausted(f)
    BY <1>4, <2>1, ServedActive DEF LateBeginAborts, Core, TypeOK
  <2>3. Enqueue(f, "ABORT", None, FALSE) /\ UNCHANGED <<fileVars, callerVars>>
    BY <1>4 DEF LateBeginAborts
  <2>4. "ABORT" \in AllOps /\ None \in Callers \cup {None}
    BY DEF AllOps, QuietOps
  <2> HIDE DEF f, s
  <2>5. RecordsKept({treq[t]})
    BY <2>2, <2>3, <2>4, KeptEnqueue
  <2>6. SuccessKept /\ ThreadIdle(t) /\ unsettled' = unsettled \ {treq[t]}
    BY <1>4 DEF LateBeginAborts, callerVars, callVars, SuccessKept
  <2> QED BY <2>5, <2>6, EffectsFinish
<1>5. CASE LatePublishMarksDown(t)
  <2>1. fd_source[tfile[t]] \in Sources
    BY <1>5 DEF LatePublishMarksDown, Core, ThreadFiles
  <2>2. RecordsKept({}) /\ SuccessKept
    BY <1>5, <2>1, KeptMarkDownById DEF LatePublishMarksDown, callVars, SuccessKept
  <2> QED BY <1>5, <2>2, EffectsMoves DEF LatePublishMarksDown
<1>6. CASE MarkDownFile(t)
  <2>1. tfile[t] \in Files /\ treq[t][1] = tfile[t] /\ FdMarkDown(tfile[t])
    BY <1>6 DEF MarkDownFile, Effects, ThreadsInv, ThreadInv
  <2>2. RecordsKept({treq[t]}) /\ SuccessKept /\ treq[t][1] \in closing'
    BY <1>6, <2>1, KeptMarkDown DEF MarkDownFile, callVars, SuccessKept
  <2> QED BY <1>6, <2>2, EffectsFinish DEF MarkDownFile
<1>7. CASE MarkMalformed(t)
  <2>1. tfile[t] \in Files /\ treq[t] = None /\ None \notin unsettled
    BY <1>7 DEF MarkMalformed, Effects, ThreadsInv, ThreadInv, EffectsInv, Issued
  <2>2. ThreadIdle(t) /\ UNCHANGED <<pc, callVars, unsettled>>
    BY <1>7 DEF MarkMalformed
  <2>3. CASE FdMarkDown(tfile[t])
    <3>1. RecordsKept({treq[t]}) /\ SuccessKept
      BY <2>1, <2>2, <2>3, KeptMarkDown DEF callVars, SuccessKept
    <3> QED BY <2>1, <2>2, <3>1, EffectsFinish
  <2>4. CASE NoMarkDown
    <3>1. RecordsKept({treq[t]}) /\ SuccessKept
      BY <2>2, <2>4 DEF NoMarkDown, callVars, SuccessKept, RecordsKept, Issued, requestVars,
         recordVars
    <3> QED BY <2>1, <2>2, <3>1, EffectsFinish
  <2> QED BY <1>7, <2>3, <2>4 DEF MarkMalformed
<1>8. CASE ThreadInput(t)
  BY <1>8, EffectsRejects, EffectsAccepts DEF ThreadInput
<1> QED BY <1>1, <1>2, <1>3, <1>4, <1>5, <1>6, <1>7, <1>8, EffectsCompletes DEF ThreadStep

-----------------------------------------------------------------------------
(* Every step of a file.                                                    *)
LEMMA EffectsFileSteps ==
  ASSUME Core, Effects, NEW f \in Files, FileStep(f)
  PROVE  Effects'
<1>1. CASE OpenFile(f) \/ (\E s \in Sources : RegisterFile(f, s)) \/ ReadFile(f)
  <2>1. /\ UNCHANGED <<closing, in_flight, accepted, op, next_request_id, callerVars, threadVars, unsettled>>
        /\ \A g \in Files : fd_source[g] \in Sources => fd_source'[g] \in Sources
    BY <1>1 DEF OpenFile, RegisterFile, ReadFile, fileVars, requestVars, recordVars, Core, TypeOK,
       FileTypes
  <2>2. RecordsKept({}) /\ SuccessKept
    BY <2>1 DEF RecordsKept, SuccessKept, Issued, callerVars, callVars
  <2> QED BY <2>1, <2>2, EffectsFrame
<1>2. CASE ReleaseFile(f)
  <2>1. FdMarkDown(f) /\ UNCHANGED <<pc, callVars, threadVars, unsettled>>
    BY <1>2 DEF ReleaseFile
  <2>2. RecordsKept({}) /\ SuccessKept
    BY <2>1, KeptMarkDown DEF SuccessKept, callVars
  <2> QED BY <2>1, <2>2, EffectsFrame
<1> QED BY <1>1, <1>2 DEF FileStep

(* Effects is an invariant, relative to Core.                               *)
THEOREM EffectsInvariant == Spec => []Effects
<1>1. Core /\ Effects /\ [Next]_vars => Effects'
  <2> SUFFICES ASSUME Core, Effects, [Next]_vars PROVE Effects'
    OBVIOUS
  <2>1. CASE UNCHANGED vars
    <3>1. RecordsKept({}) /\ SuccessKept
      BY <2>1, KeptAlone DEF vars, callerVars, callVars, SuccessKept
    <3> QED BY <2>1, <3>1, EffectsFrame DEF vars
  <2>2. CASE Next
    BY <2>2, EffectsCallerSteps, EffectsThreadSteps, EffectsFileSteps DEF Next
  <2> QED BY <2>1, <2>2
<1> QED BY <1>1, InitEffects, CoreInvariant, PTL DEF Spec

(* A request the source reported done is forgotten in one case only: its    *)
(* caller or the thread with the late response will act on it, or its file  *)
(* is down, or it is a DELETE_LAYER whose response frame could not be       *)
(* copied for its caller.                                                   *)
THEOREM EffectsAreSettled == Spec => []AppliedSettled
BY EffectsInvariant, PTL DEF Effects

(* Nobody acts on it twice.                                                 *)
THEOREM EffectsHappenOnce == Spec => []EffectsOnce
<1>1. Core /\ Effects => EffectsOnce
  <2> SUFFICES ASSUME Core, Effects PROVE EffectsOnce
    OBVIOUS
  <2>1. \A c \in Callers, r \in Request : CallerOwes(c, r) =>
            /\ r \in unsettled
            /\ \A d \in Callers \ {c} : ~CallerOwes(d, r)
            /\ \A t \in Threads : ~ThreadOwes(t, r)
    <3> SUFFICES ASSUME NEW c \in Callers, NEW r \in Request, CallerOwes(c, r)
                 PROVE  /\ r \in unsettled
                        /\ \A d \in Callers \ {c} : ~CallerOwes(d, r)
                        /\ \A t \in Threads : ~ThreadOwes(t, r)
      OBVIOUS
    <3>1. r \in unsettled
      BY SuccessFacts DEF CallerOwes, Effects, EffectsInv
    <3>2. \A d \in Callers \ {c} : ~CallerOwes(d, r)
      BY DEF CallerOwes, Core, CallersInv
    <3>3. \A t \in Threads : ~ThreadOwes(t, r)
      BY SuccessFacts DEF CallerOwes, ThreadOwes, Effects, ThreadsInv, ThreadInv
    <3> QED BY <3>1, <3>2, <3>3
  <2>2. \A t \in Threads, r \in Request : ThreadOwes(t, r) =>
            /\ r \in unsettled
            /\ \A u \in Threads \ {t} : ~ThreadOwes(u, r)
    BY DEF ThreadOwes, IsLate, Effects, ThreadsInv, ThreadInv
  <2> QED BY <2>1, <2>2 DEF EffectsOnce
<1> QED BY <1>1, CoreInvariant, EffectsInvariant, PTL
-----------------------------------------------------------------------------


(* The records a file holds.                                                *)
RecordsOf(f) == {r \in in_flight : r[1] = f}

(* in_flight_request_count counts them, up to the limit.                    *)
CountsExact ==
    \A f \in Files :
        /\ IsFiniteSet(RecordsOf(f))
        /\ in_flight_count[f] = Cardinality(RecordsOf(f))
        /\ in_flight_count[f] <= Limit

(* The invariant.                                                           *)
SlotsInv ==
    /\ \A f \in closing : queue[f] = <<>>
    /\ NoLostSlotWakeup
    /\ CountsExact

(* At first no slot is in use.                                              *)
LEMMA InitSlots == Init => SlotsInv
<1> SUFFICES ASSUME Init PROVE SlotsInv
  OBVIOUS
<1>1. \A f \in Files : RecordsOf(f) = {}
  BY DEF Init, RecordsOf
<1>2. CountsExact
  <2> SUFFICES ASSUME NEW f \in Files
               PROVE /\ IsFiniteSet(RecordsOf(f))
                     /\ in_flight_count[f] = Cardinality(RecordsOf(f))
                     /\ in_flight_count[f] <= Limit
    BY DEF CountsExact
  <2>1. RecordsOf(f) = {} /\ in_flight_count[f] = 0
    BY <1>1 DEF Init
  <2> QED BY <2>1, FS_EmptySet, SMT
<1>3. (\A f \in closing : queue[f] = <<>>) /\ NoLostSlotWakeup
  BY DEF Init, NoLostSlotWakeup
<1> QED BY <1>2, <1>3 DEF SlotsInv

(* No record, no file and no sleeper changes.                               *)
LEMMA SlotsQuiet ==
  ASSUME SlotsInv, UNCHANGED <<closing, queue, in_flight, in_flight_count, active_fd>>,
         \A c \in Callers : pc'[c] = "epoch" /\ c \in epoch_seen' =>
             /\ active_fd[call_source'[c]] # None
             /\ AtLimit(active_fd[call_source'[c]])
  PROVE  SlotsInv'
<1>1. CountsExact'
  BY DEF SlotsInv, CountsExact, RecordsOf
<1>2. NoLostSlotWakeup'
  BY DEF NoLostSlotWakeup, AtLimit
<1> QED BY <1>1, <1>2 DEF SlotsInv

(* Taking a file down frees all its slots at once, and wakes whoever waits  *)
(* for one.                                                                 *)
LEMMA SlotsMarkDown ==
  ASSUME Core, SlotsInv, NEW f \in Files, FdMarkDown(f),
         \A c \in Callers : pc'[c] = "epoch" => pc[c] = "epoch" /\ call_source'[c] = call_source[c]
  PROVE  SlotsInv'
<1>1. \A g \in closing' : queue'[g] = <<>>
  BY DEF FdMarkDown, SlotsInv, Core, TypeOK, FileTypes, QueueTypes
<1>2. /\ in_flight' = {r \in in_flight : r[1] # f}
      /\ in_flight_count' = [in_flight_count EXCEPT ![f] = 0]
      /\ epoch_seen' = IF in_flight_count[f] # 0 THEN {} ELSE epoch_seen
  BY DEF FdMarkDown, InFlightDestroy, FreeRecords
<1>3. CountsExact'
  <2>1. RecordsOf(f)' = {} /\ in_flight_count'[f] = 0
    BY <1>2 DEF RecordsOf, Core, TypeOK, RecordTypes
  <2>2. \A g \in Files \ {f} : RecordsOf(g)' = RecordsOf(g) /\ in_flight_count'[g] = in_flight_count[g]
    BY <1>2 DEF RecordsOf, Core, TypeOK, RecordTypes
  <2> SUFFICES ASSUME NEW g \in Files
               PROVE /\ IsFiniteSet(RecordsOf(g)')
                     /\ in_flight_count'[g] = Cardinality(RecordsOf(g)')
                     /\ in_flight_count'[g] <= Limit
    BY DEF CountsExact
  <2>3. CASE g = f
    BY <2>1, <2>3, FS_EmptySet, SMT
  <2>4. CASE g # f
    BY <2>2, <2>4 DEF CountsExact, SlotsInv
  <2> QED BY <2>3, <2>4
<1>4. NoLostSlotWakeup'
  <2> SUFFICES ASSUME NEW c \in Callers, pc'[c] = "epoch", c \in epoch_seen'
               PROVE /\ active_fd'[call_source'[c]] # None
                     /\ AtLimit(active_fd[call_source[c]])'
    BY DEF NoLostSlotWakeup
  <2> DEFINE s == call_source[c]
  <2>1. pc[c] = "epoch" /\ call_source'[c] = s /\ c \in epoch_seen /\ in_flight_count[f] = 0
    BY <1>2
  <2>2. s \in Sources /\ active_fd[s] # None /\ active_fd[s] \in Files /\ AtLimit(active_fd[s])
    BY <2>1, SMT DEF Core, CallersInv, SlotsInv, NoLostSlotWakeup, TypeOK, FileTypes
  <2>3. active_fd[s] # f
    BY <2>1, <2>2, SMT DEF AtLimit
  <2>4. active_fd'[s] = active_fd[s]
    BY <2>2, <2>3, SMT DEF FdMarkDown, IsActive, slotVars, Core, FilesInv, TypeOK, FileTypes
  <2> QED BY <1>2, <2>1, <2>2, <2>3, <2>4 DEF AtLimit, Core, TypeOK, RecordTypes
<1> QED BY <1>1, <1>3, <1>4 DEF SlotsInv

(* A request takes one slot, which its dispatch found free.                 *)
LEMMA SlotsEnqueue ==
  ASSUME Core, SlotsInv, NEW f \in Files, f \notin closing, ~AtLimit(f), ~IdsExhausted(f),
         NEW o \in AllOps, NEW w \in Callers \cup {None}, NEW late, Enqueue(f, o, w, late),
         UNCHANGED <<closing, active_fd, epoch_seen, call_source>>,
         \A c \in Callers : pc'[c] = "epoch" => pc[c] = "epoch"
  PROVE  SlotsInv'
<1> DEFINE r == <<f, next_request_id[f]>>
<1>1. \A g \in closing' : queue'[g] = <<>>
  BY DEF Enqueue, SlotsInv, Core, TypeOK, FileTypes, QueueTypes
<1>2. /\ in_flight' = in_flight \cup {r} /\ r \notin in_flight /\ r[1] = f
      /\ in_flight_count' = [in_flight_count EXCEPT ![f] = in_flight_count[f] + 1]
  <2>1. NewRecord(r, o, w)
    BY EnqueueEffect
  <2> QED BY <2>1 DEF Enqueue, NewRecord, Core, TypeOK, RecordTypes
<1> HIDE DEF r
<1>3. CountsExact'
  <2>1. RecordsOf(f)' = RecordsOf(f) \cup {r} /\ r \notin RecordsOf(f)
    BY <1>2 DEF RecordsOf
  <2>2. in_flight_count'[f] = in_flight_count[f] + 1
    BY <1>2 DEF Core, TypeOK, RecordTypes
  <2>3. \A g \in Files \ {f} : RecordsOf(g)' = RecordsOf(g) /\ in_flight_count'[g] = in_flight_count[g]
    BY <1>2 DEF RecordsOf, Core, TypeOK, RecordTypes
  <2>4. IsFiniteSet(RecordsOf(f)) /\ in_flight_count[f] = Cardinality(RecordsOf(f))
    BY DEF SlotsInv, CountsExact
  <2>5. IsFiniteSet(RecordsOf(f)') /\ Cardinality(RecordsOf(f)') = in_flight_count[f] + 1
    BY <2>1, <2>4, FS_AddElement, SMT
  <2>6. in_flight_count'[f] <= Limit
    BY <2>2, SMT DEF AtLimit, Core, TypeOK, RecordTypes
  <2> SUFFICES ASSUME NEW g \in Files
               PROVE /\ IsFiniteSet(RecordsOf(g)')
                     /\ in_flight_count'[g] = Cardinality(RecordsOf(g)')
                     /\ in_flight_count'[g] <= Limit
    BY DEF CountsExact
  <2>7. CASE g = f
    BY <2>2, <2>5, <2>6, <2>7
  <2>8. CASE g # f
    BY <2>3, <2>8 DEF CountsExact, SlotsInv
  <2> QED BY <2>7, <2>8
<1>4. NoLostSlotWakeup'
  <2>1. \A g \in Files : AtLimit(g) => AtLimit(g)'
    BY <1>2 DEF AtLimit, Core, TypeOK, RecordTypes
  <2>2. ASSUME NEW c \in Callers, pc'[c] = "epoch", c \in epoch_seen'
        PROVE  /\ active_fd'[call_source'[c]] # None
               /\ AtLimit(active_fd[call_source[c]])'
    <3>1. /\ active_fd[call_source[c]] # None
          /\ AtLimit(active_fd[call_source[c]])
      BY <2>2 DEF SlotsInv, NoLostSlotWakeup
    <3>2. active_fd[call_source[c]] \in Files
      <4>1. pc[c] # "idle" /\ FileTypes
        BY <2>2 DEF Core, TypeOK
      <4>2. call_source[c] \in Sources
        BY <4>1 DEF Core, CallersInv
      <4> QED BY <3>1, <4>1, <4>2 DEF FileTypes
    <3> QED BY <2>1, <3>1, <3>2 DEF AtLimit
  <2> QED BY <2>2 DEF NoLostSlotWakeup
<1> QED BY <1>1, <1>3, <1>4 DEF SlotsInv

(* A released record frees one slot and wakes whoever waits for one.        *)
LEMMA SlotsRelease ==
  ASSUME Core, SlotsInv, NEW r \in in_flight, ReleaseRecord(r),
         UNCHANGED <<closing, queue, active_fd, pc, call_source>>
  PROVE  SlotsInv'
<1> DEFINE f == r[1]
<1>1. r \in Request /\ f \in Files
  BY DEF Core, TypeOK, RecordTypes, Request
<1>2. /\ in_flight' = in_flight \ {r}
      /\ in_flight_count' = [in_flight_count EXCEPT ![f] = IF in_flight_count[f] > 0 THEN in_flight_count[f] - 1
                                                          ELSE in_flight_count[f]]
      /\ epoch_seen' = IF in_flight_count[f] > 0 THEN {} ELSE epoch_seen
  BY <1>1 DEF ReleaseRecord, FreeRecords, Core, TypeOK, RecordTypes
<1>3. r \in RecordsOf(f)
  BY DEF RecordsOf
<1> HIDE DEF f
<1>4. /\ IsFiniteSet(RecordsOf(f)) /\ in_flight_count[f] = Cardinality(RecordsOf(f))
      /\ in_flight_count[f] <= Limit
  BY <1>1 DEF SlotsInv, CountsExact
<1>5. RecordsOf(f)' = RecordsOf(f) \ {r}
  BY <1>2 DEF RecordsOf
<1>6. /\ IsFiniteSet(RecordsOf(f)') /\ Cardinality(RecordsOf(f)') = in_flight_count[f] - 1
  BY <1>3, <1>4, <1>5, FS_RemoveElement
<1>7. in_flight_count[f] > 0
  BY <1>3, <1>4, FS_EmptySet, <1>1, <1>6, FS_CardinalityType, SMT DEF Core, TypeOK, RecordTypes
<1>8. CountsExact'
  <2>1. in_flight_count'[f] = in_flight_count[f] - 1
    BY <1>1, <1>2, <1>7 DEF Core, TypeOK, RecordTypes
  <2>2. \A g \in Files \ {f} : RecordsOf(g)' = RecordsOf(g) /\ in_flight_count'[g] = in_flight_count[g]
    BY <1>2 DEF RecordsOf, Core, TypeOK, RecordTypes, f
  <2> SUFFICES ASSUME NEW g \in Files
               PROVE /\ IsFiniteSet(RecordsOf(g)')
                     /\ in_flight_count'[g] = Cardinality(RecordsOf(g)')
                     /\ in_flight_count'[g] <= Limit
    BY DEF CountsExact
  <2>3. CASE g = f
    BY <1>1, <1>4, <1>6, <1>7, <2>1, <2>3, SMTT(30) DEF Core, TypeOK, RecordTypes
  <2>4. CASE g # f
    BY <2>2, <2>4 DEF CountsExact, SlotsInv
  <2> QED BY <2>3, <2>4
<1>9. epoch_seen' = {}
  BY <1>2, <1>7
<1> QED BY <1>8, <1>9 DEF SlotsInv, NoLostSlotWakeup

(* A caller that is not going to sleep moves on its own.                    *)
LEMMA SlotsMoves ==
  ASSUME Core, SlotsInv, NEW c \in Callers, UNCHANGED <<slotVars, fileVars, requestVars>>,
         pc'[c] # "epoch", epoch_seen' \subseteq epoch_seen \cup {c},
         \A d \in Callers \ {c} : pc'[d] = pc[d] /\ call_source'[d] = call_source[d]
  PROVE  SlotsInv'
<1>1. UNCHANGED <<closing, queue, in_flight, in_flight_count, active_fd>>
  BY DEF slotVars, fileVars, requestVars, recordVars
<1>2. \A d \in Callers : pc'[d] = "epoch" /\ d \in epoch_seen' =>
             /\ active_fd[call_source'[d]] # None
             /\ AtLimit(active_fd[call_source'[d]])
  BY DEF SlotsInv, NoLostSlotWakeup
<1> QED BY <1>1, <1>2, SlotsQuiet

(* A caller returns.                                                        *)
LEMMA SlotsReturns ==
  ASSUME Core, SlotsInv, NEW c \in Callers, ReturnOnly(c)
  PROVE  SlotsInv'
<1>1. /\ UNCHANGED <<slotVars, fileVars, requestVars>> /\ pc'[c] # "epoch"
      /\ epoch_seen' \subseteq epoch_seen \cup {c}
      /\ \A d \in Callers \ {c} : pc'[d] = pc[d] /\ call_source'[d] = call_source[d]
  BY DEF ReturnOnly, Returned, Goto, Core, TypeOK, CallTypes
<1> QED BY <1>1, SlotsMoves

(* A caller goes on to its next step.                                       *)
LEMMA SlotsGoes ==
  ASSUME Core, SlotsInv, NEW c \in Callers, NEW l \in {"slot", "admission", "dispatch", "detach"},
         Goto(c, l), epoch_seen' \subseteq epoch_seen \cup {c},
         UNCHANGED <<slotVars, fileVars, requestVars, callVars>>
  PROVE  SlotsInv'
<1>1. /\ pc'[c] # "epoch"
      /\ \A d \in Callers \ {c} : pc'[d] = pc[d] /\ call_source'[d] = call_source[d]
  BY DEF Goto, Core, TypeOK, CallTypes, callVars
<1> QED BY <1>1, SlotsMoves

(* A completed caller takes its response.                                   *)
LEMMA SlotsTakes ==
  ASSUME Core, SlotsInv, NEW c \in Callers, TakeResponse(c)
  PROVE  SlotsInv'
<1>1. /\ UNCHANGED <<slotVars, fileVars, requestVars>> /\ pc'[c] # "epoch"
      /\ epoch_seen' \subseteq epoch_seen \cup {c}
      /\ \A d \in Callers \ {c} : pc'[d] = pc[d] /\ call_source'[d] = call_source[d]
  BY DEF TakeResponse, Goto, Core, TypeOK, CallTypes
<1> QED BY <1>1, SlotsMoves

(* A caller that gives up leaves its record, and the slot, behind.          *)
LEMMA SlotsDetaches ==
  ASSUME Core, SlotsInv, NEW c \in Callers, Detach(c)
  PROVE  SlotsInv'
<1>1. CASE completed[c] # None
  BY <1>1, SlotsTakes DEF Detach
<1>2. CASE completed[c] = None
  <2>1. /\ UNCHANGED <<closing, queue, in_flight, in_flight_count, active_fd>>
        /\ pc'[c] # "epoch" /\ epoch_seen' \subseteq epoch_seen
        /\ \A d \in Callers \ {c} : pc'[d] = pc[d] /\ call_source'[d] = call_source[d]
    BY <1>2, SMT DEF Detach, Returned, Goto, Core, TypeOK, CallTypes, slotVars, fileVars
  <2>2. \A d \in Callers : pc'[d] = "epoch" /\ d \in epoch_seen' =>
             /\ active_fd[call_source'[d]] # None
             /\ AtLimit(active_fd[call_source'[d]])
    BY <2>1 DEF SlotsInv, NoLostSlotWakeup
  <2> QED BY <2>1, <2>2, SlotsQuiet
<1> QED BY <1>1, <1>2

(* A caller goes to sleep only when it found the file at its limit, and its *)
(* snapshot of the epoch is older than that.                                *)
LEMMA SlotsAdmission ==
  ASSUME Core, SlotsInv, NEW c \in Callers, Admission(c)
  PROVE  SlotsInv'
<1>1. CASE ReturnOnly(c)
  BY <1>1, SlotsReturns
<1>2. CASE GotoOnly(c, "dispatch")
  BY <1>2, SlotsGoes DEF GotoOnly
<1>3. CASE Served(call_source[c]) /\ AtLimit(active_fd[call_source[c]]) /\ GotoOnly(c, "epoch")
  <2>1. /\ UNCHANGED <<closing, queue, in_flight, in_flight_count, active_fd, call_source, epoch_seen>>
        /\ \A d \in Callers \ {c} : pc'[d] = pc[d]
    BY <1>3 DEF GotoOnly, Goto, Core, TypeOK, CallTypes, slotVars, fileVars, requestVars,
       recordVars, callVars
  <2>2. \A d \in Callers : pc'[d] = "epoch" /\ d \in epoch_seen' =>
             /\ active_fd[call_source'[d]] # None
             /\ AtLimit(active_fd[call_source'[d]])
    BY <1>3, <2>1 DEF SlotsInv, NoLostSlotWakeup, Served
  <2> QED BY <2>1, <2>2, SlotsQuiet
<1> QED BY <1>1, <1>2, <1>3 DEF Admission

(* A request is sent.                                                       *)
LEMMA SlotsSends ==
  ASSUME Core, SlotsInv, NEW c \in Callers, DispatchSends(c)
  PROVE  SlotsInv'
<1> DEFINE f == active_fd[call_source[c]]
<1>1. call_source[c] \in Sources /\ call_op[c] \in Ops
  BY DEF Core, CallersInv, DispatchSends
<1>2. f \in Files /\ f \notin closing /\ ~AtLimit(f) /\ ~IdsExhausted(f) /\ call_op[c] \in AllOps
  BY <1>1, ServedActive DEF DispatchSends, Core, TypeOK, Served
<1>3. /\ Enqueue(f, call_op[c], c, c \in call_late)
      /\ UNCHANGED <<closing, active_fd, epoch_seen, call_source>>
      /\ \A d \in Callers : pc'[d] = "epoch" => pc[d] = "epoch"
  BY DEF DispatchSends, slotVars, fileVars, Goto, Core, TypeOK, CallTypes
<1> HIDE DEF f
<1> QED BY <1>2, <1>3, SlotsEnqueue

(* Every step of a caller.                                                  *)
LEMMA SlotsCallerSteps ==
  ASSUME Core, SlotsInv, NEW c \in Callers, CallerStep(c) \/ CallerTimeout(c) \/ CallerInput(c)
  PROVE  SlotsInv'
<1>1. CASE SnapshotEpoch(c)
  BY <1>1, SlotsGoes DEF SnapshotEpoch
<1>2. CASE EpochChanged(c) \/ DispatchLosesSlot(c) \/ WaitTimeout(c) \/ WaitSignal(c)
  BY <1>2, SlotsGoes DEF EpochChanged, DispatchLosesSlot, WaitTimeout, WaitSignal, GotoOnly
<1>3. CASE SlotTimeout(c) \/ EpochTimeout(c) \/ DispatchTimeout(c) \/ EpochSignal(c)
           \/ DispatchFails(c) \/ PublishReturns(c)
  BY <1>3, SlotsReturns DEF SlotTimeout, EpochTimeout, DispatchTimeout, EpochSignal,
                            DispatchFails, PublishReturns
<1>4. CASE DispatchRequest(c)
  BY <1>4, SlotsSends DEF DispatchRequest, DispatchLookup, DispatchReadKey,
     DispatchEnumChildren,
     DispatchQueryValues, DispatchSetValue, DispatchDeleteValueEntry, DispatchSetBlanketTombstone,
     DispatchDropKey, DispatchCreateEntry, DispatchHideDeleteEntry, DispatchCreateKey,
     DispatchWriteKey, DispatchTransaction, DispatchFlush, DispatchDeleteLayer
<1>5. CASE WaitCompletes(c)
  BY <1>5, SlotsTakes DEF WaitCompletes
<1>6. CASE \E o \in Ops, s \in Sources, late \in BOOLEAN : StartRoundTrip(c, o, s, late)
  <2>1. /\ UNCHANGED <<slotVars, fileVars, requestVars>> /\ pc'[c] # "epoch"
        /\ epoch_seen' \subseteq epoch_seen \cup {c}
        /\ \A d \in Callers \ {c} : pc'[d] = pc[d] /\ call_source'[d] = call_source[d]
    <3>1. PICK o \in Ops, s \in Sources, late \in BOOLEAN : StartRoundTrip(c, o, s, late)
      BY <1>6
    <3> QED BY <3>1 DEF StartRoundTrip, Goto, Core, TypeOK, CallTypes
  <2> QED BY <2>1, SlotsMoves
<1>7. CASE DispatchBacksOut(c)
  <2>1. /\ UNCHANGED <<slotVars, fileVars, requestVars>> /\ pc'[c] # "epoch"
        /\ epoch_seen' \subseteq epoch_seen \cup {c}
        /\ \A d \in Callers \ {c} : pc'[d] = pc[d] /\ call_source'[d] = call_source[d]
    BY <1>7 DEF DispatchBacksOut, Goto, Core, TypeOK, CallTypes
  <2> QED BY <2>1, SlotsMoves
<1>8. CASE PublishFails(c)
  <2> DEFINE s == call_source[c]
  <2>1. s \in Sources
    BY <1>8 DEF Core, CallersInv, PublishFails
  <2>2. \A d \in Callers : pc'[d] = "epoch" => pc[d] = "epoch" /\ call_source'[d] = call_source[d]
    BY <1>8 DEF PublishFails, Goto, Core, TypeOK, CallTypes
  <2>3. CASE status[s] = "ACTIVE" /\ active_fd[s] # None
    <3>1. FdMarkDown(active_fd[s]) /\ active_fd[s] \in Files
      BY <1>8, <2>1, <2>3 DEF PublishFails, MarkDownById, Core, TypeOK, FileTypes
    <3> QED BY <2>2, <3>1, SlotsMarkDown
  <2>4. CASE ~(status[s] = "ACTIVE" /\ active_fd[s] # None)
    <3>1. NoMarkDown
      BY <1>8, <2>4 DEF PublishFails, MarkDownById
    <3>2. UNCHANGED <<closing, queue, in_flight, in_flight_count, active_fd, epoch_seen>>
      BY <3>1 DEF NoMarkDown, slotVars, requestVars, recordVars
    <3> QED BY <2>2, <3>2, SlotsQuiet DEF SlotsInv, NoLostSlotWakeup
  <2> QED BY <2>3, <2>4
<1> QED BY <1>1, <1>2, <1>3, <1>4, <1>5, <1>6, <1>7, <1>8, SlotsAdmission, SlotsDetaches
        DEF CallerStep, CallerTimeout, CallerInput

(* A source thread that touches no record.                                  *)
LEMMA SlotsThread ==
  ASSUME SlotsInv, UNCHANGED <<slotVars, fileVars, requestVars, callerVars>>
  PROVE  SlotsInv'
<1>1. UNCHANGED <<closing, queue, in_flight, in_flight_count, active_fd, pc, call_source, epoch_seen>>
  BY DEF slotVars, fileVars, requestVars, recordVars, callerVars, callVars
<1> QED BY <1>1, SlotsQuiet DEF SlotsInv, NoLostSlotWakeup

(* A source thread that finds nothing to take down.                         *)
LEMMA SlotsNothingMarked ==
  ASSUME SlotsInv, NoMarkDown, UNCHANGED <<pc, callVars>>
  PROVE  SlotsInv'
<1>1. UNCHANGED <<closing, queue, in_flight, in_flight_count, active_fd, pc, call_source, epoch_seen>>
  BY DEF NoMarkDown, slotVars, requestVars, recordVars, callVars
<1> QED BY <1>1, SlotsQuiet DEF SlotsInv, NoLostSlotWakeup

(* Every step of a source thread.                                           *)
LEMMA SlotsThreadSteps ==
  ASSUME Core, SlotsInv, NEW t \in Threads, ThreadStep(t) \/ ThreadInput(t)
  PROVE  SlotsInv'
<1>1. CASE \/ LateNothing(t) \/ LateCommitMalformed(t) \/ LateBeginFails(t) \/ LateCommitSettles(t)
           \/ LateCommitFails(t) \/ LatePublishes(t) \/ LatePublishFails(t)
           \/ LateMutationUnpublishable(t)
  BY <1>1, SlotsThread DEF LateNothing, LateCommitMalformed, LateBeginFails,
     LateCommitSettles,
     LateCommitFails, LatePublishes, LatePublishFails, LateMutationUnpublishable, LateGoto, ThreadOnly
<1>2. CASE \E f \in Files : RejectResponse(t, f)
  BY <1>2, SlotsThread DEF RejectResponse, ThreadOnly
<1>3. CASE \E f \in Files, id \in RequestId, v \in {"OK", "ERROR", "MALFORMED", "FAILED"} :
              AcceptResponse(t, f, id, v)
  <2> PICK f \in Files, id \in RequestId, v \in {"OK", "ERROR", "MALFORMED", "FAILED"} :
          AcceptResponse(t, f, id, v)
    BY <1>3
  <2>1. UNCHANGED <<closing, queue, active_fd, pc, call_source>>
    BY DEF AcceptResponse, slotVars, fileVars, callVars
  <2>2. CASE waiter[<<f, id>>] = None
    <3>1. ReleaseRecord(<<f, id>>) /\ <<f, id>> \in in_flight
      BY <2>2 DEF AcceptResponse, ReleaseUnwaited, Acceptable
    <3> QED BY <2>1, <3>1, SlotsRelease
  <2>3. CASE waiter[<<f, id>>] # None
    <3>1. UNCHANGED <<in_flight, in_flight_count, epoch_seen>>
      BY <2>3 DEF AcceptResponse
    <3> QED BY <2>1, <3>1, SlotsQuiet DEF SlotsInv, NoLostSlotWakeup
  <2> QED BY <2>2, <2>3
<1>4. CASE CompleteWaiter(t)
  <2>1. UNCHANGED <<closing, queue, active_fd, pc, call_source>>
    BY <1>4 DEF CompleteWaiter, slotVars, fileVars, callVars
  <2>2. CASE treq[t] \in in_flight /\ ReleaseRecord(treq[t])
    BY <2>1, <2>2, SlotsRelease
  <2>3. CASE UNCHANGED <<recordVars, completed, epoch_seen>>
    BY <2>1, <2>3, SlotsQuiet DEF SlotsInv, NoLostSlotWakeup, recordVars
  <2> QED BY <1>4, <2>2, <2>3 DEF CompleteWaiter, ReleaseUnwaited
<1>5. CASE LateBeginAborts(t)
  <2> DEFINE s == fd_source[tfile[t]]
  <2> DEFINE f == active_fd[s]
  <2>1. s \in Sources
    BY <1>5 DEF LateBeginAborts, IsLate, Core, ThreadFiles
  <2>2. f \in Files /\ f \notin closing /\ ~AtLimit(f) /\ ~IdsExhausted(f)
    BY <1>5, <2>1, ServedActive DEF LateBeginAborts, Core, TypeOK, Served
  <2>3. /\ Enqueue(f, "ABORT", None, FALSE)
        /\ UNCHANGED <<closing, active_fd, epoch_seen, call_source, pc>>
    BY <1>5 DEF LateBeginAborts, slotVars, fileVars, callerVars, callVars
  <2>4. "ABORT" \in AllOps /\ None \in Callers \cup {None}
    BY DEF AllOps, QuietOps
  <2> HIDE DEF f
  <2> QED BY <2>2, <2>3, <2>4, SlotsEnqueue
<1>6. CASE MarkMalformed(t)
  <2>1. tfile[t] \in Files /\ UNCHANGED <<pc, callVars>>
    BY <1>6 DEF MarkMalformed, Core, ThreadFiles
  <2>2. CASE FdMarkDown(tfile[t])
    BY <2>1, <2>2, SlotsMarkDown DEF callVars
  <2>3. CASE NoMarkDown
    BY <2>1, <2>3, SlotsNothingMarked
  <2> QED BY <1>6, <2>2, <2>3 DEF MarkMalformed
<1>7. CASE MarkDownFile(t)
  <2>1. tfile[t] \in Files /\ FdMarkDown(tfile[t]) /\ UNCHANGED <<pc, callVars>>
    BY <1>7 DEF MarkDownFile, Core, ThreadFiles
  <2> QED BY <2>1, SlotsMarkDown DEF callVars
<1>8. CASE LatePublishMarksDown(t)
  <2> DEFINE s == fd_source[tfile[t]]
  <2>1. s \in Sources /\ MarkDownById(s) /\ UNCHANGED <<pc, callVars>>
    BY <1>8 DEF LatePublishMarksDown, Core, ThreadFiles
  <2>2. CASE status[s] = "ACTIVE" /\ active_fd[s] # None
    <3>1. FdMarkDown(active_fd[s]) /\ active_fd[s] \in Files
      BY <2>1, <2>2 DEF MarkDownById, Core, TypeOK, FileTypes
    <3> QED BY <2>1, <3>1, SlotsMarkDown DEF callVars
  <2>3. CASE ~(status[s] = "ACTIVE" /\ active_fd[s] # None)
    BY <2>1, <2>3, SlotsNothingMarked DEF MarkDownById
  <2> QED BY <2>2, <2>3
<1> QED BY <1>1, <1>2, <1>3, <1>4, <1>5, <1>6, <1>7, <1>8 DEF ThreadStep, ThreadInput

(* Every step of a file.                                                    *)
LEMMA SlotsFileSteps ==
  ASSUME Core, SlotsInv, NEW f \in Files, FileStep(f)
  PROVE  SlotsInv'
<1>1. CASE OpenFile(f)
  <2>1. UNCHANGED <<closing, queue, in_flight, in_flight_count, active_fd, pc, call_source, epoch_seen>>
    BY <1>1 DEF OpenFile, slotVars, requestVars, recordVars, callerVars, callVars
  <2> QED BY <2>1, SlotsQuiet DEF SlotsInv, NoLostSlotWakeup
<1>2. CASE \E s \in Sources : RegisterFile(f, s)
  <2> PICK s \in Sources : RegisterFile(f, s)
    BY <1>2
  <2>1. UNCHANGED <<closing, queue, in_flight, in_flight_count, pc, call_source, epoch_seen>>
    BY DEF RegisterFile, requestVars, recordVars, callerVars, callVars
  <2>2. active_fd[s] = None /\ \A p \in Sources \ {s} : active_fd'[p] = active_fd[p]
    BY SMT DEF RegisterFile, Core, FilesInv, TypeOK, FileTypes
  <2>3. CountsExact'
    BY <2>1 DEF SlotsInv, CountsExact, RecordsOf
  <2>4. NoLostSlotWakeup'
    BY <2>1, <2>2 DEF SlotsInv, NoLostSlotWakeup, AtLimit, Core, CallersInv
  <2> QED BY <2>1, <2>3, <2>4 DEF SlotsInv
<1>3. CASE ReadFile(f)
  <2>1. UNCHANGED <<closing, in_flight, in_flight_count, active_fd, pc, call_source, epoch_seen>>
    BY <1>3 DEF ReadFile, slotVars, fileVars, callerVars, callVars
  <2>2. \A g \in closing' : queue'[g] = <<>>
    BY <1>3, <2>1 DEF ReadFile, SlotsInv, Core, TypeOK, QueueTypes, FileTypes
  <2>3. CountsExact'
    BY <2>1 DEF SlotsInv, CountsExact, RecordsOf
  <2>4. NoLostSlotWakeup'
    BY <2>1 DEF SlotsInv, NoLostSlotWakeup, AtLimit
  <2> QED BY <2>2, <2>3, <2>4 DEF SlotsInv
<1>4. CASE ReleaseFile(f)
  BY <1>4, SlotsMarkDown DEF ReleaseFile, callVars
<1> QED BY <1>1, <1>2, <1>3, <1>4 DEF FileStep

(* SlotsInv is an invariant, relative to Core.                              *)
THEOREM SlotsInvariant == Spec => []SlotsInv
<1>1. Core /\ SlotsInv /\ [Next]_vars => SlotsInv'
  <2> SUFFICES ASSUME Core, SlotsInv, [Next]_vars PROVE SlotsInv'
    OBVIOUS
  <2>1. CASE UNCHANGED vars
    BY <2>1, SlotsThread DEF vars
  <2>2. CASE Next
    BY <2>2, SlotsCallerSteps, SlotsThreadSteps, SlotsFileSteps DEF Next
  <2> QED BY <2>1, <2>2
<1> QED BY <1>1, InitSlots, CoreInvariant, PTL DEF Spec

(* What the invariant says of limits, sleepers and closing files.           *)
LEMMA SlotsImplies ==
  ASSUME Core, SlotsInv
  PROVE  InFlightBounded /\ NoLostSlotWakeup /\ ClosingFileIsEmpty
<1>1. InFlightBounded
  BY DEF SlotsInv, CountsExact, RecordsOf, InFlightBounded
<1>2. ClosingFileIsEmpty
  <2>1. \A r \in in_flight : r[1] \in Files /\ r[1] \notin closing
    BY SMT DEF Core, TypeOK, RecordTypes, Request, RecordsInv, IsActive, FilesInv
  <2> QED BY <2>1, SMT DEF ClosingFileIsEmpty, SlotsInv, Core, FilesInv, TypeOK, FileTypes
<1> QED BY <1>1, <1>2 DEF SlotsInv

(* The limit max_concurrent_rsi_requests is kept: dispatch tests it again   *)
(* under the lock, so callers that passed the same admission cannot exceed  *)
(* it, and every release is counted once.                                   *)
THEOREM InFlightIsBounded == Spec => []InFlightBounded
BY SlotsImplies, CoreInvariant, SlotsInvariant, PTL

(* No wakeup is lost between a failed admission and the sleep: the epoch    *)
(* was read first, and every release and every resumed source advances it.  *)
THEOREM NoWakeupIsLost == Spec => []NoLostSlotWakeup
BY SlotsImplies, CoreInvariant, SlotsInvariant, PTL

(* A file that was taken down keeps no request and serves no slot.          *)
THEOREM ClosingFilesAreEmpty == Spec => []ClosingFileIsEmpty
BY SlotsImplies, CoreInvariant, SlotsInvariant, PTL
=============================================================================
