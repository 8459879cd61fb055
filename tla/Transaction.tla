---------------------------- MODULE Transaction ----------------------------
(***************************************************************************)
(* Registry transactions: the objects behind the descriptors returned by   *)
(* reg_begin_transaction (lcs/transaction_fd.c), all of them used on one   *)
(* source.                                                                 *)
(*                                                                         *)
(* A transaction is changed by its users (mutations, commit, close), by    *)
(* its lifetime timer (in softirq, under txn->lock only) and the timer's   *)
(* work item, and by three walks of the registry of all transactions: the  *)
(* source went down, the source answered a COMMIT nobody waits for any     *)
(* more, a layer is being deleted.  A walk holds registry_lock and takes   *)
(* every transaction's bind_lock in turn; a user holds bind_lock across    *)
(* round trips to the source.                                              *)
(*                                                                         *)
(* Every action is one section under txn->lock or under the source table   *)
(* mutex, with the steps around it that no other thread can observe.       *)
(***************************************************************************)
EXTENDS Integers, Sequences, FiniteSets

CONSTANTS
    Txns,           \* transactions ever begun
    Procs,          \* kernel threads: users, source threads, layer deletion
    Layers,         \* layers a mutation may write to
    Base,           \* the layer that cannot be deleted
    Ops,            \* the operations the threads perform ("touch": mutations
                    \* that also write the key's last write time)
    Faults,         \* steps of publishing a commit that may fail
    Cap,            \* max_bound_transactions_per_source
    LogCapacity,    \* mutation_log_capacity
    Slots,          \* COMMIT requests in flight at a time
    MaxSession,     \* times the source registers
    None

ASSUME TransactionAssumption ==
    /\ Base \in Layers
    /\ Ops \subseteq {"mutate", "touch", "commit", "close", "down", "delete_layer"}
    /\ Faults \subseteq {"effects", "recover"}
    /\ Cap \in Nat \ {0}
    /\ LogCapacity \in Nat \ {0}
    /\ MaxSession \in Nat \ {0}
    /\ None \notin Txns
    /\ None \notin Procs
    /\ None \notin Layers
    /\ None \notin {"queued", "ok", "error"}

VARIABLES
    life,                   \* "unborn", "open", "released" or "destroyed"
    state,                  \* txn->state
    commit_in_flight,       \* transactions with txn->commit_in_flight
    timeout_abort_pending,  \* transactions with txn->timeout_abort_pending
    timer,                  \* transactions whose timeout_timer is armed
    mutation_log,           \* per transaction: the layers its entries write to
    audit_pending,          \* transactions with txn->audit_pending
    bind_lock,              \* per transaction: the thread that holds it
    registry,               \* pkm_lcs_transaction_registry
    registry_lock,          \* the thread that holds it
    active,                 \* the source slot is ACTIVE
    session,                \* which registration of the source this is
    bound_count,            \* slot->bound_transaction_count
    provider,               \* the source's own view: "none", "open", "committed"
    req_txn,                \* per slot: the transaction of a COMMIT request
    req_owner,              \* per slot: the thread that waits for the answer
    req_status,             \* per slot: "queued", or the answer
    pc,                     \* per thread
    cur,                    \* per thread: the transaction it works on
    verdict,                \* per thread: the answer it applies
    late,                   \* threads that handle a late COMMIT response,
    late_session,           \* and the session whose file it was written to
    visited,                \* per thread: transactions its walk is done with
    layer,                  \* per thread: the layer it deletes
    after,                  \* per thread: where it goes after a walk
    effects,                \* per transaction: times its commit was published
    audits,                 \* per transaction: audit records written
    staged                  \* transactions that staged a recorded write

flagVars == <<life, state, commit_in_flight, timeout_abort_pending, timer>>
txnVars == <<flagVars, mutation_log, audit_pending, bind_lock>>
registryVars == <<registry, registry_lock>>
sourceVars == <<active, session, bound_count, provider>>
requestVars == <<req_txn, req_owner, req_status>>
procVars == <<pc, cur, verdict, late, late_session, visited, layer, after>>
historyVars == <<effects, audits, staged>>
vars == <<txnVars, registryVars, sourceVars, requestVars, procVars, historyVars>>

Active == {"UNBOUND", "BOUND"}
Terminal == {"COMMITTED", "ABORTED", "TIMED_OUT", "SOURCE_DOWN"}

Init ==
    /\ life = [t \in Txns |-> "unborn"]
    /\ state = [t \in Txns |-> "UNBOUND"]
    /\ commit_in_flight = {}
    /\ timeout_abort_pending = {}
    /\ timer = {}
    /\ mutation_log = [t \in Txns |-> <<>>]
    /\ audit_pending = {}
    /\ bind_lock = [t \in Txns |-> None]
    /\ registry = <<>>
    /\ registry_lock = None
    /\ active = TRUE
    /\ session = 1
    /\ bound_count = 0
    /\ provider = [t \in Txns |-> "none"]
    /\ req_txn = [r \in Slots |-> None]
    /\ req_owner = [r \in Slots |-> None]
    /\ req_status = [r \in Slots |-> None]
    /\ pc = [p \in Procs |-> "idle"]
    /\ cur = [p \in Procs |-> None]
    /\ verdict = [p \in Procs |-> None]
    /\ late = {}
    /\ late_session = [p \in Procs |-> 0]
    /\ visited = [p \in Procs |-> {}]
    /\ layer = [p \in Procs |-> None]
    /\ after = [p \in Procs |-> None]
    /\ effects = [t \in Txns |-> 0]
    /\ audits = [t \in Txns |-> 0]
    /\ staged = {}

-----------------------------------------------------------------------------
(* Helpers.                                                                 *)

Goto(p, label) == pc' = [pc EXCEPT ![p] = label]

(* The thread returns to user space; nothing of its call remains.          *)
Return(p) ==
    /\ pc' = [pc EXCEPT ![p] = "idle"]
    /\ cur' = [cur EXCEPT ![p] = None]
    /\ verdict' = [verdict EXCEPT ![p] = None]
    /\ late' = late \ {p}
    /\ late_session' = [late_session EXCEPT ![p] = 0]
    /\ visited' = [visited EXCEPT ![p] = {}]
    /\ layer' = [layer EXCEPT ![p] = None]
    /\ after' = [after EXCEPT ![p] = None]

Lock(p, t) == bind_lock[t] = None /\ bind_lock' = [bind_lock EXCEPT ![t] = p]
Unlock(t) == bind_lock' = [bind_lock EXCEPT ![t] = None]

callVars == <<cur, verdict, late, late_session, visited, layer, after>>

(* A descriptor is released when its last user is done with it; a late    *)
(* response reaches a transaction through the registry, not through a      *)
(* descriptor.                                                             *)
InUse(t) == \E p \in Procs : cur[p] = t /\ p \notin late

(* Whether a transaction is on the registry, and list_del_init of its link. *)
Linked(t) == \E i \in 1..Len(registry) : registry[i] = t

Unlink(t) ==
    LET i == CHOOSE i \in 1..Len(registry) : registry[i] = t
    IN registry' = IF Linked(t)
                   THEN SubSeq(registry, 1, i - 1) \o SubSeq(registry, i + 1, Len(registry))
                   ELSE registry

BoundRelease == bound_count' = IF bound_count > 0 THEN bound_count - 1 ELSE 0

(* An ABORT request is queued if the source is up; nobody waits for the    *)
(* answer.  The source forgets the transaction unless it has committed it. *)
ProviderAbort(t) ==
    provider' = IF active /\ provider[t] = "open"
                THEN [provider EXCEPT ![t] = "none"] ELSE provider

EmitAudit(t) ==
    /\ audit_pending' = audit_pending \ {t}
    /\ audits' = IF t \in audit_pending
                 THEN [audits EXCEPT ![t] = @ + 1] ELSE audits

-----------------------------------------------------------------------------
(* Beginning, timing out and closing a transaction.                         *)

Publish(t) ==
    /\ life[t] = "unborn"
    /\ registry_lock = None
    /\ life' = [life EXCEPT ![t] = "open"]
    /\ timer' = timer \cup {t}
    /\ registry' = Append(registry, t)
    /\ UNCHANGED <<state, commit_in_flight, timeout_abort_pending, mutation_log,
                   audit_pending, bind_lock, registry_lock, sourceVars,
                   requestVars, procVars, historyVars>>

(* anon_inode_getfd fails: the transaction leaves the registry again.       *)
PublishFails(t) ==
    /\ life[t] = "unborn"
    /\ registry_lock = None
    /\ life' = [life EXCEPT ![t] = "destroyed"]
    /\ UNCHANGED <<state, commit_in_flight, timeout_abort_pending, timer,
                   mutation_log, audit_pending, bind_lock, registryVars,
                   sourceVars, requestVars, procVars, historyVars>>

Timeout(t) ==
    /\ t \in timer
    /\ timer' = timer \ {t}
    /\ state' = [state EXCEPT ![t] = IF @ \in Active THEN "TIMED_OUT" ELSE @]
    /\ timeout_abort_pending' =
           IF state[t] = "BOUND" /\ t \notin commit_in_flight
           THEN timeout_abort_pending \cup {t} ELSE timeout_abort_pending
    /\ UNCHANGED <<life, commit_in_flight, mutation_log, audit_pending,
                   bind_lock, registryVars, sourceVars, requestVars, procVars,
                   historyVars>>

(* Mutant: the work item writes the record and leaves it owed.              *)
TimeoutWorkStillOwes(t) ==
    /\ life[t] = "open"
    /\ t \in timeout_abort_pending
    /\ bind_lock[t] = None
    /\ timeout_abort_pending' = timeout_abort_pending \ {t}
    /\ ProviderAbort(t)
    /\ BoundRelease
    /\ mutation_log' = [mutation_log EXCEPT ![t] = <<>>]
    /\ audits' = IF t \in audit_pending
                 THEN [audits EXCEPT ![t] = @ + 1] ELSE audits
    /\ UNCHANGED <<life, state, commit_in_flight, timer, bind_lock,
                   audit_pending, registryVars, active, session,
                   requestVars, procVars, effects, staged>>

(* timeout_work, under bind_lock; cancelled when the descriptor goes.       *)
TimeoutWork(t) ==
    /\ life[t] = "open"
    /\ t \in timeout_abort_pending
    /\ bind_lock[t] = None
    /\ timeout_abort_pending' = timeout_abort_pending \ {t}
    /\ ProviderAbort(t)
    /\ BoundRelease
    /\ mutation_log' = [mutation_log EXCEPT ![t] = <<>>]
    /\ EmitAudit(t)
    /\ UNCHANGED <<life, state, commit_in_flight, timer, bind_lock,
                   registryVars, active, session, requestVars,
                   procVars, effects, staged>>

(* The release section under txn->lock.  verdict records what is left to   *)
(* do: "ok" to abort at the source and give the count back, "error" not    *)
(* to, None when the transaction is retained for its outstanding COMMIT.   *)
Close(p, t) ==
    /\ "close" \in Ops
    /\ pc[p] = "idle"
    /\ life[t] = "open" /\ ~InUse(t)
    /\ life' = [life EXCEPT ![t] = "released"]
    /\ timer' = timer \ {t}
    /\ state' = [state EXCEPT ![t] = IF @ \in Active THEN "ABORTED" ELSE @]
    /\ timeout_abort_pending' = timeout_abort_pending \ {t}
    /\ LET undo == state[t] = "BOUND" \/ t \in timeout_abort_pending
           retain == ~undo /\ state[t] = "TIMED_OUT" /\ t \in commit_in_flight
       IN /\ verdict' = [verdict EXCEPT ![p] = IF retain THEN None
                                               ELSE IF undo THEN "ok" ELSE "error"]
          /\ IF retain THEN UNCHANGED <<audit_pending, audits>> ELSE EmitAudit(t)
    /\ cur' = [cur EXCEPT ![p] = t]
    /\ Goto(p, "close_end")
    /\ UNCHANGED <<commit_in_flight, mutation_log, bind_lock, registryVars,
                   sourceVars, requestVars, late, late_session, visited, layer,
                   after, effects, staged>>

(* source_transaction_end(txn->transaction_id); a retained transaction is   *)
(* then left to the walk that ends its commit.                              *)
CloseEnd(p) ==
    /\ pc[p] = "close_end"
    /\ IF verdict[p] = None
       THEN Return(p)
       ELSE Goto(p, "close_remove") /\ UNCHANGED callVars
    /\ UNCHANGED <<txnVars, registryVars, sourceVars, requestVars, historyVars>>

(* Mutant: the object is freed and stays in the registry.                   *)
CloseKeepsLink(p) ==
    LET t == cur[p] IN
    /\ pc[p] = "close_remove"
    /\ registry_lock = None
    /\ IF verdict[p] = "ok"
       THEN ProviderAbort(t) /\ BoundRelease
       ELSE UNCHANGED <<provider, bound_count>>
    /\ life' = [life EXCEPT ![t] = "destroyed"]
    /\ mutation_log' = [mutation_log EXCEPT ![t] = <<>>]
    /\ Return(p)
    /\ UNCHANGED <<state, commit_in_flight, timeout_abort_pending, timer,
                   audit_pending, bind_lock, registryVars, active, session,
                   requestVars, historyVars>>

CloseRemove(p) ==
    LET t == cur[p] IN
    /\ pc[p] = "close_remove"
    /\ registry_lock = None
    /\ Unlink(t)
    /\ IF verdict[p] = "ok"
       THEN ProviderAbort(t) /\ BoundRelease
       ELSE UNCHANGED <<provider, bound_count>>
    /\ life' = [life EXCEPT ![t] = "destroyed"]
    /\ mutation_log' = [mutation_log EXCEPT ![t] = <<>>]
    /\ Return(p)
    /\ UNCHANGED <<state, commit_in_flight, timeout_abort_pending, timer,
                   audit_pending, bind_lock, registry_lock, active, session,
                   requestVars, historyVars>>

-----------------------------------------------------------------------------
(* The source goes down and comes back.                                     *)

(* fd_mark_down_locked: requests are dropped, threads that wait for one are *)
(* woken with -EIO, the count is cleared.  A source that lost its file has  *)
(* lost the transactions it had not committed.                              *)
SourceGoesDown ==
    /\ active' = FALSE
    /\ bound_count' = 0
    /\ provider' = [t \in Txns |-> IF provider[t] = "open" THEN "none" ELSE provider[t]]
    /\ req_txn' = [r \in Slots |-> None]
    /\ req_owner' = [r \in Slots |-> None]
    /\ req_status' = [r \in Slots |-> None]
    /\ UNCHANGED session

Waiting == {req_owner[r] : r \in Slots} \ {None}

(* The callers that wait for a dropped request continue with -EIO.          *)
DownGoto(p, label) ==
    pc' = [q \in Procs |-> IF q = p THEN label
                           ELSE IF q \in Waiting THEN "commit_fails" ELSE pc[q]]

(* mark_down_by_id, mark_down_file: the slot goes down if it is up, and     *)
(* then, without the table lock, the transactions bound to it are visited.  *)
MarkDown(p, up, label) ==
    IF up
    THEN /\ SourceGoesDown
         /\ DownGoto(p, "down_lock")
         /\ after' = [after EXCEPT ![p] = label]
         /\ visited' = [visited EXCEPT ![p] = {}]
         /\ UNCHANGED <<cur, verdict, late, late_session, layer>>
    ELSE /\ IF label = "idle" THEN Return(p) ELSE Goto(p, label) /\ UNCHANGED callVars
         /\ UNCHANGED <<sourceVars, requestVars>>

(* The source's file is released, or the source broke the protocol.         *)
SourceDown(p) ==
    /\ "down" \in Ops
    /\ pc[p] = "idle"
    /\ active
    /\ MarkDown(p, TRUE, "idle")
    /\ UNCHANGED <<txnVars, registryVars, historyVars>>

SourceResumes ==
    /\ ~active
    /\ session < MaxSession
    /\ active' = TRUE
    /\ session' = session + 1
    /\ UNCHANGED <<txnVars, registryVars, bound_count, provider,
                   requestVars, procVars, historyVars>>

(* A walk of the registry, in list order: it visits t next, or has passed   *)
(* the whole list.                                                          *)
NextVisit(p, t) ==
    \E i \in 1..Len(registry) :
       /\ registry[i] = t /\ t \notin visited[p]
       /\ \A j \in 1..(i - 1) : registry[j] \in visited[p]

WalkedAll(p) == \A i \in 1..Len(registry) : registry[i] \in visited[p]

WalkLock(p, from, to) ==
    /\ pc[p] = from
    /\ registry_lock = None
    /\ registry_lock' = p
    /\ visited' = [visited EXCEPT ![p] = {}]
    /\ Goto(p, to)
    /\ UNCHANGED <<txnVars, registry, sourceVars, requestVars, cur, verdict,
                   late, late_session, layer, after, historyVars>>

DownLock(p) == WalkLock(p, "down_lock", "down_walk")

(* Mutant: a transaction that waits for its COMMIT is passed over.          *)
DownVisitPassesRetained(p) ==
    /\ pc[p] = "down_walk"
    /\ \E t \in Txns :
       /\ NextVisit(p, t)
       /\ bind_lock[t] = None
       /\ state' = [state EXCEPT ![t] = IF @ = "BOUND" THEN "SOURCE_DOWN" ELSE @]
       /\ IF state[t] = "BOUND"
          THEN /\ commit_in_flight' = commit_in_flight \ {t}
               /\ timeout_abort_pending' = timeout_abort_pending \ {t}
               /\ mutation_log' = [mutation_log EXCEPT ![t] = <<>>]
               /\ timer' = timer \ {t}
          ELSE UNCHANGED <<commit_in_flight, timeout_abort_pending, mutation_log,
                           timer>>
       /\ visited' = [visited EXCEPT ![p] = @ \cup {t}]
    /\ UNCHANGED <<life, audit_pending, bind_lock, registryVars, sourceVars,
                   requestVars, pc, cur, verdict, late, late_session, layer,
                   after, historyVars>>

(* Mutant: a transaction that is busy is passed over.                       *)
DownVisitSkipsBusy(p) ==
    /\ pc[p] = "down_walk"
    /\ \E t \in Txns :
       /\ NextVisit(p, t)
       /\ state' = [state EXCEPT ![t] =
                       IF @ = "BOUND" /\ bind_lock[t] = None THEN "SOURCE_DOWN" ELSE @]
       /\ visited' = [visited EXCEPT ![p] = @ \cup {t}]
    /\ UNCHANGED <<life, commit_in_flight, timeout_abort_pending, timer,
                   mutation_log, audit_pending, bind_lock, registryVars,
                   sourceVars, requestVars, pc, cur, verdict, late, late_session,
                   layer, after, historyVars>>

(* One transaction of mark_source_down.                                     *)
DownVisit(p) ==
    /\ pc[p] = "down_walk"
    /\ \E t \in Txns :
       LET bound == state[t] = "BOUND"
           outstanding == state[t] = "TIMED_OUT" /\ t \in commit_in_flight
           gone == outstanding /\ life[t] = "released"
       IN /\ NextVisit(p, t)
          /\ bind_lock[t] = None
          /\ state' = [state EXCEPT ![t] = IF bound THEN "SOURCE_DOWN" ELSE @]
          /\ IF bound \/ outstanding
             THEN /\ commit_in_flight' = commit_in_flight \ {t}
                  /\ timeout_abort_pending' = timeout_abort_pending \ {t}
                  /\ mutation_log' = [mutation_log EXCEPT ![t] = <<>>]
             ELSE UNCHANGED <<commit_in_flight, timeout_abort_pending, mutation_log>>
          /\ timer' = IF bound THEN timer \ {t} ELSE timer
          /\ IF gone THEN Unlink(t) ELSE UNCHANGED registry
          /\ life' = IF gone THEN [life EXCEPT ![t] = "destroyed"] ELSE life
          /\ visited' = [visited EXCEPT ![p] = @ \cup {t}]
    /\ UNCHANGED <<audit_pending, bind_lock, registry_lock, sourceVars,
                   requestVars, pc, cur, verdict, late, late_session, layer,
                   after, historyVars>>

DownDone(p) ==
    /\ pc[p] = "down_walk"
    /\ WalkedAll(p)
    /\ registry_lock' = None
    /\ IF after[p] = "idle" THEN Return(p)
       ELSE /\ Goto(p, after[p])
            /\ after' = [after EXCEPT ![p] = None]
            /\ visited' = [visited EXCEPT ![p] = {}]
            /\ UNCHANGED <<cur, verdict, late, late_session, layer>>
    /\ UNCHANGED <<txnVars, registry, sourceVars, requestVars, historyVars>>

-----------------------------------------------------------------------------
(* A mutation in a transaction.  bind_lock is held from its admission to   *)
(* commit_mutation or cancel_mutation.                                     *)

MutateStart(p, t) ==
    /\ "mutate" \in Ops
    /\ pc[p] = "idle"
    /\ life[t] = "open"
    /\ cur' = [cur EXCEPT ![p] = t]
    /\ Goto(p, "mutate_lock")
    /\ UNCHANGED <<txnVars, registryVars, sourceVars, requestVars, verdict, late,
                   late_session, visited, layer, after, historyVars>>

(* The first mutation also takes one of the source's Cap places.            *)
MutateAdmitted(p) ==
    LET t == cur[p] IN
    /\ pc[p] = "mutate_lock"
    /\ Len(mutation_log[t]) < LogCapacity
    /\ Lock(p, t)
    /\ \/ /\ state[t] = "BOUND"
          /\ Goto(p, "mutate_op")
          /\ UNCHANGED bound_count
       \/ /\ state[t] = "UNBOUND"
          /\ active /\ bound_count < Cap
          /\ bound_count' = bound_count + 1
          /\ Goto(p, "mutate_begin")
    /\ UNCHANGED <<flagVars, mutation_log, audit_pending, registryVars, active,
                   session, provider, requestVars, callVars, historyVars>>

MutateRefused(p) ==
    LET t == cur[p] IN
    /\ pc[p] = "mutate_lock"
    /\ bind_lock[t] = None
    /\ \/ state[t] \in Terminal
       \/ Len(mutation_log[t]) >= LogCapacity
       \/ state[t] = "UNBOUND" /\ ~(active /\ bound_count < Cap)
    /\ Return(p)
    /\ UNCHANGED <<txnVars, registryVars, sourceVars, requestVars, historyVars>>

BeginSucceeds(p) ==
    /\ pc[p] = "mutate_begin"
    /\ active
    /\ provider' = [provider EXCEPT ![cur[p]] = "open"]
    /\ Goto(p, "mutate_bind")
    /\ UNCHANGED <<txnVars, registryVars, active, session, bound_count,
                   requestVars, callVars, historyVars>>

BeginFails(p) ==
    /\ pc[p] = "mutate_begin"
    /\ BoundRelease
    /\ Unlock(cur[p])
    /\ Return(p)
    /\ UNCHANGED <<flagVars, mutation_log, audit_pending, registryVars, active,
                   session, provider, requestVars, historyVars>>

(* Mutant: the first bind does not look at the state again.                 *)
CompleteFirstBindBlindly(p) ==
    LET t == cur[p] IN
    /\ pc[p] = "mutate_bind"
    /\ state' = [state EXCEPT ![t] = "BOUND"]
    /\ Goto(p, "mutate_op")
    /\ UNCHANGED <<life, commit_in_flight, timeout_abort_pending, timer,
                   mutation_log, audit_pending, bind_lock, registryVars,
                   sourceVars, requestVars, callVars, historyVars>>

(* complete_first_bind; the timer may have been first.                      *)
CompleteFirstBind(p) ==
    LET t == cur[p] IN
    /\ pc[p] = "mutate_bind"
    /\ IF state[t] = "UNBOUND"
       THEN /\ state' = [state EXCEPT ![t] = "BOUND"]
            /\ Goto(p, "mutate_op")
            /\ UNCHANGED <<bind_lock, bound_count, provider, callVars>>
       ELSE /\ ProviderAbort(t)
            /\ BoundRelease
            /\ Unlock(t)
            /\ Return(p)
            /\ UNCHANGED state
    /\ UNCHANGED <<life, commit_in_flight, timeout_abort_pending, timer,
                   mutation_log, audit_pending, registryVars, active, session,
                   requestVars, historyVars>>

(* The mutation's own round trip; all but HIDE_KEY then write the key's     *)
(* last write time.                                                         *)
MutateApplied(p) ==
    /\ pc[p] = "mutate_op"
    /\ active /\ provider[cur[p]] = "open"
    /\ \/ "touch" \in Ops /\ Goto(p, "mutate_touch")
       \/ Goto(p, "mutate_log")
    /\ UNCHANGED <<txnVars, registryVars, sourceVars, requestVars, callVars,
                   historyVars>>

MutateFails(p) ==
    /\ pc[p] = "mutate_op"
    /\ Goto(p, "mutate_cancel")
    /\ UNCHANGED <<txnVars, registryVars, sourceVars, requestVars, callVars,
                   historyVars>>

MutateTouched(p) ==
    /\ pc[p] = "mutate_touch"
    /\ active /\ provider[cur[p]] = "open"
    /\ Goto(p, "mutate_log")
    /\ UNCHANGED <<txnVars, registryVars, sourceVars, requestVars, callVars,
                   historyVars>>

(* The source has the value but not the time: it is taken down, with the    *)
(* transaction's bind_lock still held.                                      *)
MutateTouchFails(p) ==
    /\ pc[p] = "mutate_touch"
    /\ MarkDown(p, active, "mutate_cancel")
    /\ UNCHANGED <<txnVars, registryVars, historyVars>>

(* commit_mutation: the entry is logged, and recorded for the audit trail   *)
(* if the caller's writes are audited.                                      *)
MutateLog(p) ==
    LET t == cur[p] IN
    /\ pc[p] = "mutate_log"
    /\ \E l \in Layers : mutation_log' = [mutation_log EXCEPT ![t] = Append(@, l)]
    /\ \/ audit_pending' = audit_pending \cup {t} /\ staged' = staged \cup {t}
       \/ UNCHANGED <<audit_pending, staged>>
    /\ Unlock(t)
    /\ Return(p)
    /\ UNCHANGED <<flagVars, registryVars, sourceVars, requestVars, effects, audits>>

MutateCancel(p) ==
    /\ pc[p] = "mutate_cancel"
    /\ Unlock(cur[p])
    /\ Return(p)
    /\ UNCHANGED <<flagVars, mutation_log, audit_pending, registryVars,
                   sourceVars, requestVars, historyVars>>

-----------------------------------------------------------------------------
(* REG_IOC_COMMIT.                                                          *)

CommitStart(p, t) ==
    /\ "commit" \in Ops
    /\ pc[p] = "idle"
    /\ life[t] = "open"
    /\ cur' = [cur EXCEPT ![p] = t]
    /\ Goto(p, "commit_lock")
    /\ UNCHANGED <<txnVars, registryVars, sourceVars, requestVars, verdict, late,
                   late_session, visited, layer, after, historyVars>>

CommitAdmitted(p) ==
    LET t == cur[p] IN
    /\ pc[p] = "commit_lock"
    /\ state[t] = "BOUND"
    /\ Lock(p, t)
    /\ commit_in_flight' = commit_in_flight \cup {t}
    /\ Goto(p, "commit_send")
    /\ UNCHANGED <<life, state, timeout_abort_pending, timer, mutation_log,
                   audit_pending, registryVars, sourceVars, requestVars,
                   callVars, historyVars>>

CommitRefused(p) ==
    LET t == cur[p] IN
    /\ pc[p] = "commit_lock"
    /\ state[t] # "BOUND"
    /\ bind_lock[t] = None
    /\ Goto(p, "commit_audit")
    /\ UNCHANGED <<txnVars, registryVars, sourceVars, requestVars, callVars,
                   historyVars>>

CommitSent(p) ==
    /\ pc[p] = "commit_send"
    /\ active
    /\ \E r \in Slots :
          /\ req_txn[r] = None
          /\ req_txn' = [req_txn EXCEPT ![r] = cur[p]]
          /\ req_owner' = [req_owner EXCEPT ![r] = p]
          /\ req_status' = [req_status EXCEPT ![r] = "queued"]
    /\ Goto(p, "commit_wait")
    /\ UNCHANGED <<txnVars, registryVars, sourceVars, callVars, historyVars>>

(* No slot before the deadline, a signal, or the source is down.            *)
CommitNotSent(p) ==
    /\ pc[p] = "commit_send"
    /\ Goto(p, "commit_fails")
    /\ UNCHANGED <<txnVars, registryVars, sourceVars, requestVars, callVars,
                   historyVars>>

(* The source commits, or refuses and keeps the transaction open.           *)
ProviderAnswers(r) ==
    LET t == req_txn[r] IN
    /\ req_status[r] = "queued"
    /\ \/ /\ provider[t] = "open"
          /\ provider' = [provider EXCEPT ![t] = "committed"]
          /\ req_status' = [req_status EXCEPT ![r] = "ok"]
       \/ /\ req_status' = [req_status EXCEPT ![r] = "error"]
          /\ UNCHANGED provider
    /\ UNCHANGED <<txnVars, registryVars, active, session, bound_count,
                   req_txn, req_owner, procVars, historyVars>>

FreeSlot(r) ==
    /\ req_txn' = [req_txn EXCEPT ![r] = None]
    /\ req_owner' = [req_owner EXCEPT ![r] = None]
    /\ req_status' = [req_status EXCEPT ![r] = None]

CommitAnswered(r) ==
    LET p == req_owner[r] IN
    /\ p # None
    /\ req_status[r] \in {"ok", "error"}
    /\ verdict' = [verdict EXCEPT ![p] = req_status[r]]
    /\ Goto(p, "apply")
    /\ FreeSlot(r)
    /\ UNCHANGED <<txnVars, registryVars, sourceVars, cur, late, late_session,
                   visited, layer, after, historyVars>>

Detach(p) == req_owner' = [r \in Slots |-> IF req_owner[r] = p THEN None ELSE req_owner[r]]

(* Mutant: the wait for the answer has no deadline.                         *)
CommitWaitsForever(p) == pc[p] = "commit_wait" /\ FALSE /\ UNCHANGED vars

(* mark_commit_request_timeout: the request stays in flight without a       *)
(* waiter, the transaction is over for its users.                           *)
CommitTimeout(p) ==
    LET t == cur[p] IN
    /\ pc[p] = "commit_wait"
    /\ Detach(p)
    /\ state' = [state EXCEPT ![t] = IF @ = "BOUND" THEN "TIMED_OUT" ELSE @]
    /\ timeout_abort_pending' = timeout_abort_pending \ {t}
    /\ timer' = timer \ {t}
    /\ Unlock(t)
    /\ Goto(p, "commit_audit")
    /\ UNCHANGED <<life, commit_in_flight, mutation_log, audit_pending,
                   registryVars, sourceVars, req_txn, req_status, callVars,
                   historyVars>>

(* A signal: also in flight without a waiter, but the transaction stays as  *)
(* it is.                                                                   *)
CommitSignal(p) ==
    /\ pc[p] = "commit_wait"
    /\ Detach(p)
    /\ Goto(p, "commit_fails")
    /\ UNCHANGED <<txnVars, registryVars, sourceVars, req_txn, req_status,
                   callVars, historyVars>>

CommitFails(p) ==
    LET t == cur[p] IN
    /\ pc[p] = "commit_fails"
    /\ commit_in_flight' = commit_in_flight \ {t}
    /\ Unlock(t)
    /\ Goto(p, "commit_audit")
    /\ UNCHANGED <<life, state, timeout_abort_pending, timer, mutation_log,
                   audit_pending, registryVars, sourceVars, requestVars,
                   callVars, historyVars>>

(* commit_audit: whoever leaves the transaction terminal writes its record. *)
CommitAudit(p) ==
    LET t == cur[p] IN
    /\ pc[p] = "commit_audit"
    /\ bind_lock[t] = None
    /\ IF state[t] \in Terminal THEN EmitAudit(t) ELSE UNCHANGED <<audit_pending, audits>>
    /\ Return(p)
    /\ UNCHANGED <<flagVars, mutation_log, bind_lock, registryVars, sourceVars,
                   requestVars, effects, staged>>

-----------------------------------------------------------------------------
(* apply_commit_response_under_bind, for the caller that waited and for a   *)
(* late response.                                                           *)

(* The effects of a commit: layer metadata, the hive's generation, orphaned *)
(* keys, the watch events.                                                  *)
Publishable(t) ==
    /\ t \in commit_in_flight
    /\ state[t] \in {"BOUND", "TIMED_OUT"}
    /\ active

ApplyEffects(p) ==
    LET t == cur[p] IN
    /\ pc[p] = "apply"
    /\ verdict[p] = "ok"
    /\ Publishable(t)
    /\ effects' = [effects EXCEPT ![t] = @ + 1]
    /\ Goto(p, "final")
    /\ UNCHANGED <<txnVars, registryVars, sourceVars, requestVars, callVars,
                   audits, staged>>

(* Mutant: the effects are published whatever the source answered.          *)
ApplyRefusalPublishes(p) ==
    /\ pc[p] = "apply"
    /\ verdict[p] = "error"
    /\ effects' = [effects EXCEPT ![cur[p]] = @ + 1]
    /\ Goto(p, "final")
    /\ UNCHANGED <<txnVars, registryVars, sourceVars, requestVars, callVars,
                   audits, staged>>

ApplyRefusal(p) ==
    /\ pc[p] = "apply"
    /\ verdict[p] = "error"
    /\ Goto(p, "final")
    /\ UNCHANGED <<txnVars, registryVars, sourceVars, requestVars, callVars,
                   historyVars>>

(* A step of the effects fails, before or after the watchers saw some.      *)
ApplyFails(p) ==
    LET t == cur[p] IN
    /\ pc[p] = "apply"
    /\ verdict[p] = "ok"
    /\ "effects" \in Faults \/ ~Publishable(t)
    /\ \/ Publishable(t) /\ effects' = [effects EXCEPT ![t] = @ + 1]
       \/ UNCHANGED effects
    /\ Goto(p, "broken")
    /\ UNCHANGED <<txnVars, registryVars, sourceVars, requestVars, callVars,
                   audits, staged>>

(* Layer recovery takes the source down itself, with bind_lock held and, in *)
(* a late response, registry_lock.                                          *)
ApplyRecoveryFails(p) ==
    LET t == cur[p] IN
    /\ pc[p] = "apply"
    /\ verdict[p] = "ok"
    /\ "recover" \in Faults
    /\ Publishable(t)
    /\ effects' = [effects EXCEPT ![t] = @ + 1]
    /\ MarkDown(p, active, "broken")
    /\ UNCHANGED <<txnVars, registryVars, audits, staged>>

(* source_down_required: the locks are given up and the source taken down. *)
ApplyBroken(p) ==
    /\ pc[p] = "broken"
    /\ Unlock(cur[p])
    /\ IF p \in late
       THEN /\ registry_lock' = None
            /\ MarkDown(p, active /\ session = late_session[p], "idle")
       ELSE /\ MarkDown(p, active, "commit_audit")
            /\ UNCHANGED registry_lock
    /\ UNCHANGED <<flagVars, mutation_log, audit_pending, registry, historyVars>>

(* The transition under txn->lock that ends the commit.                     *)
Ends(p) ==
    LET t == cur[p] IN
    \/ state[t] = "TIMED_OUT"
    \/ state[t] = "BOUND" /\ (verdict[p] = "ok" \/ p \in late)

Settle(p) ==
    LET t == cur[p] IN
    /\ commit_in_flight' = commit_in_flight \ {t}
    /\ timeout_abort_pending' = timeout_abort_pending \ {t}
    /\ IF Ends(p)
       THEN /\ state' = [state EXCEPT ![t] =
                            IF @ = "BOUND" /\ verdict[p] = "ok"
                            THEN "COMMITTED" ELSE "TIMED_OUT"]
            /\ timer' = timer \ {t}
            /\ mutation_log' = [mutation_log EXCEPT ![t] = <<>>]
       ELSE UNCHANGED <<state, timer, mutation_log>>

(* In the caller: the state, the count, and then the locks.                 *)
CommitSettles(p) ==
    /\ pc[p] = "final"
    /\ p \notin late
    /\ Settle(p)
    /\ IF Ends(p)
       THEN Goto(p, "commit_release") /\ UNCHANGED bind_lock
       ELSE Goto(p, "commit_audit") /\ Unlock(cur[p])
    /\ UNCHANGED <<life, audit_pending, registryVars, sourceVars, requestVars,
                   callVars, historyVars>>

CommitReleases(p) ==
    /\ pc[p] = "commit_release"
    /\ BoundRelease
    /\ Unlock(cur[p])
    /\ Goto(p, IF verdict[p] = "ok" THEN "commit_layers" ELSE "commit_audit")
    /\ UNCHANGED <<flagVars, mutation_log, audit_pending, registryVars, active,
                   session, provider, requestVars, callVars,
                   historyVars>>

(* The commit may have removed a layer's metadata: the layer is deleted.    *)
CommitLayers(p) ==
    /\ pc[p] = "commit_layers"
    /\ \/ Goto(p, "commit_audit") /\ UNCHANGED <<layer, after>>
       \/ /\ "delete_layer" \in Ops
          /\ \E l \in Layers \ {Base} : layer' = [layer EXCEPT ![p] = l]
          /\ after' = [after EXCEPT ![p] = "commit_audit"]
          /\ Goto(p, "abort_lock")
    /\ UNCHANGED <<txnVars, registryVars, sourceVars, requestVars, cur, verdict,
                   late, late_session, visited, historyVars>>

-----------------------------------------------------------------------------
(* handle_late_commit_response, in a thread of the source.                  *)

LateStart(p, r) ==
    /\ pc[p] = "idle"
    /\ req_owner[r] = None
    /\ req_status[r] \in {"ok", "error"}
    /\ cur' = [cur EXCEPT ![p] = req_txn[r]]
    /\ verdict' = [verdict EXCEPT ![p] = req_status[r]]
    /\ late' = late \cup {p}
    /\ late_session' = [late_session EXCEPT ![p] = session]
    /\ FreeSlot(r)
    /\ Goto(p, "late_lock")
    /\ UNCHANGED <<txnVars, registryVars, sourceVars, visited, layer, after,
                   historyVars>>

LateLock(p) == WalkLock(p, "late_lock", "late_walk")

LateVisit(p) ==
    /\ pc[p] = "late_walk"
    /\ \E t \in Txns :
       /\ NextVisit(p, t)
       /\ bind_lock[t] = None
       /\ IF t = cur[p]
          THEN Lock(p, t) /\ Goto(p, "apply") /\ UNCHANGED visited
          ELSE /\ visited' = [visited EXCEPT ![p] = @ \cup {t}]
               /\ UNCHANGED <<bind_lock, pc>>
    /\ UNCHANGED <<flagVars, mutation_log, audit_pending, registryVars,
                   sourceVars, requestVars, cur, verdict, late, late_session,
                   layer, after, historyVars>>

(* Nobody knows the transaction: -ENOENT, and the source is taken down.     *)
LateUnknown(p) ==
    /\ pc[p] = "late_walk"
    /\ WalkedAll(p)
    /\ registry_lock' = None
    /\ MarkDown(p, active /\ session = late_session[p], "idle")
    /\ UNCHANGED <<txnVars, registry, historyVars>>

(* The commit it answers was given up (-ENOENT).                            *)
LateUnexpected(p) ==
    /\ pc[p] = "final"
    /\ p \in late
    /\ cur[p] \notin commit_in_flight
    /\ Unlock(cur[p])
    /\ registry_lock' = None
    /\ MarkDown(p, active /\ session = late_session[p], "idle")
    /\ UNCHANGED <<flagVars, mutation_log, audit_pending, registry, historyVars>>

(* The last section under both locks; a retained transaction leaves the     *)
(* registry.                                                                *)
LateSettles(p) ==
    LET t == cur[p] IN
    /\ pc[p] = "final"
    /\ p \in late
    /\ t \in commit_in_flight
    /\ Settle(p)
    /\ IF life[t] = "released" THEN Unlink(t) ELSE UNCHANGED registry
    /\ Unlock(t)
    /\ registry_lock' = None
    /\ Goto(p, "late_release")
    /\ UNCHANGED <<life, audit_pending, sourceVars, requestVars, callVars,
                   historyVars>>

(* The count, the retained object, and the layers the commit removed.       *)
LateReleases(p) ==
    LET t == cur[p] IN
    /\ pc[p] = "late_release"
    /\ BoundRelease
    /\ life' = IF life[t] = "released" /\ ~Linked(t)
               THEN [life EXCEPT ![t] = "destroyed"] ELSE life
    /\ \/ Return(p)
       \/ /\ "delete_layer" \in Ops /\ verdict[p] = "ok"
          /\ \E l \in Layers \ {Base} : layer' = [layer EXCEPT ![p] = l]
          /\ after' = [after EXCEPT ![p] = "idle"]
          /\ cur' = [cur EXCEPT ![p] = None]
          /\ visited' = [visited EXCEPT ![p] = {}]
          /\ Goto(p, "abort_lock")
          /\ UNCHANGED <<verdict, late, late_session>>
    /\ UNCHANGED <<state, commit_in_flight, timeout_abort_pending, timer,
                   mutation_log, audit_pending, bind_lock, registryVars, active,
                   session, provider, requestVars, historyVars>>

-----------------------------------------------------------------------------
(* abort_layer_writers: the first step of deleting a layer.                 *)

DeleteLayer(p, l) ==
    /\ "delete_layer" \in Ops
    /\ pc[p] = "idle"
    /\ l # Base
    /\ layer' = [layer EXCEPT ![p] = l]
    /\ after' = [after EXCEPT ![p] = "idle"]
    /\ Goto(p, "abort_lock")
    /\ UNCHANGED <<txnVars, registryVars, sourceVars, requestVars, cur, verdict,
                   late, late_session, visited, historyVars>>

AbortLock(p) == WalkLock(p, "abort_lock", "abort_walk")

Touches(t, l) == \E i \in 1..Len(mutation_log[t]) : mutation_log[t][i] = l

AbortVisit(p) ==
    /\ pc[p] = "abort_walk"
    /\ \E t \in Txns :
       LET hit == state[t] = "BOUND" /\ Touches(t, layer[p])
       IN /\ NextVisit(p, t)
          /\ bind_lock[t] = None
          /\ visited' = [visited EXCEPT ![p] = @ \cup {t}]
          /\ IF hit
             THEN /\ state' = [state EXCEPT ![t] = "ABORTED"]
                  /\ commit_in_flight' = commit_in_flight \ {t}
                  /\ timeout_abort_pending' = timeout_abort_pending \ {t}
                  /\ timer' = timer \ {t}
                  /\ mutation_log' = [mutation_log EXCEPT ![t] = <<>>]
                  /\ Goto(p, "abort_undo")
             ELSE UNCHANGED <<state, commit_in_flight, timeout_abort_pending,
                              timer, mutation_log, pc>>
    /\ UNCHANGED <<life, audit_pending, bind_lock, registryVars, sourceVars,
                   requestVars, cur, verdict, late, late_session, layer, after,
                   historyVars>>

(* What the visit leaves to do for the transaction it aborted, with         *)
(* registry_lock held and the transaction's bind_lock free again: the ABORT *)
(* request and the count.  The walk ends at the first error.                *)
LastVisited(p) == registry[Cardinality(visited[p])]

AbortUndo(p) ==
    /\ pc[p] = "abort_undo"
    /\ ProviderAbort(LastVisited(p))
    /\ BoundRelease
    /\ Goto(p, IF active /\ bound_count > 0 THEN "abort_walk" ELSE "abort_failed")
    /\ UNCHANGED <<txnVars, registryVars, active, session, requestVars,
                   callVars, historyVars>>

AbortDone(p) ==
    /\ pc[p] = "abort_walk"
    /\ WalkedAll(p)
    /\ registry_lock' = None
    /\ IF after[p] = "idle" THEN Return(p)
       ELSE /\ Goto(p, after[p])
            /\ after' = [after EXCEPT ![p] = None]
            /\ visited' = [visited EXCEPT ![p] = {}]
            /\ layer' = [layer EXCEPT ![p] = None]
            /\ UNCHANGED <<cur, verdict, late, late_session>>
    /\ UNCHANGED <<txnVars, registry, sourceVars, requestVars, historyVars>>

(* The deletion fails; if a commit asked for it the source is taken down.   *)
AbortFails(p) ==
    /\ pc[p] = "abort_failed"
    /\ registry_lock' = None
    /\ CASE p \in late -> MarkDown(p, active /\ session = late_session[p], "idle")
         [] after[p] = "commit_audit" -> MarkDown(p, active, "commit_audit")
         [] OTHER -> Return(p) /\ UNCHANGED <<sourceVars, requestVars>>
    /\ UNCHANGED <<txnVars, registry, historyVars>>

-----------------------------------------------------------------------------
(* What a thread does once it entered the kernel, and what the outside does *)
(* to it.                                                                   *)
Step(p) ==
    \/ CloseEnd(p) \/ CloseRemove(p)
    \/ DownLock(p) \/ DownVisit(p) \/ DownDone(p)
    \/ MutateAdmitted(p) \/ MutateRefused(p) \/ BeginSucceeds(p) \/ BeginFails(p)
    \/ CompleteFirstBind(p) \/ MutateApplied(p) \/ MutateFails(p)
    \/ MutateTouched(p) \/ MutateTouchFails(p) \/ MutateLog(p) \/ MutateCancel(p)
    \/ CommitAdmitted(p) \/ CommitRefused(p) \/ CommitSent(p) \/ CommitNotSent(p)
    \/ CommitTimeout(p) \/ CommitFails(p) \/ CommitAudit(p)
    \/ ApplyEffects(p) \/ ApplyRefusal(p) \/ ApplyFails(p) \/ ApplyRecoveryFails(p)
    \/ ApplyBroken(p) \/ CommitSettles(p) \/ CommitReleases(p) \/ CommitLayers(p)
    \/ LateLock(p) \/ LateVisit(p) \/ LateUnknown(p) \/ LateUnexpected(p)
    \/ LateSettles(p) \/ LateReleases(p)
    \/ AbortLock(p) \/ AbortVisit(p) \/ AbortUndo(p) \/ AbortDone(p) \/ AbortFails(p)

Input(p) ==
    \/ \E t \in Txns : Close(p, t) \/ MutateStart(p, t) \/ CommitStart(p, t)
    \/ CommitSignal(p)
    \/ SourceDown(p)
    \/ \E r \in Slots : LateStart(p, r)
    \/ \E l \in Layers : DeleteLayer(p, l)

Next ==
    \/ \E t \in Txns : Publish(t) \/ PublishFails(t) \/ Timeout(t) \/ TimeoutWork(t)
    \/ \E p \in Procs : Step(p) \/ Input(p)
    \/ \E r \in Slots : ProviderAnswers(r) \/ CommitAnswered(r)
    \/ SourceResumes

Spec == Init /\ [][Next]_vars

(* A thread in the kernel keeps running: its round trips end by their       *)
(* deadline, and a mutex it waits for is handed to it (kernel mutexes queue *)
(* their waiters), which needs strong fairness.  Nothing obliges users, the *)
(* source or the timer to act.                                              *)
FairSpec == Spec /\ \A p \in Procs : SF_vars(Step(p))

-----------------------------------------------------------------------------
(* Properties.                                                              *)

Labels ==
    {"idle", "close_end", "close_remove", "down_lock", "down_walk",
     "mutate_lock", "mutate_begin", "mutate_bind", "mutate_op", "mutate_touch",
     "mutate_log", "mutate_cancel", "commit_lock", "commit_send", "commit_wait",
     "commit_fails", "commit_audit", "commit_release", "commit_layers", "apply",
     "final", "broken", "late_lock", "late_walk", "late_release", "abort_lock",
     "abort_walk", "abort_undo", "abort_failed"}

(* Every variable has its type; the count stays within the source's limit. *)
TypeOK ==
    /\ life \in [Txns -> {"unborn", "open", "released", "destroyed"}]
    /\ state \in [Txns -> Active \cup Terminal]
    /\ commit_in_flight \subseteq Txns
    /\ timeout_abort_pending \subseteq Txns
    /\ timer \subseteq Txns
    /\ mutation_log \in [Txns -> Seq(Layers)]
    /\ \A t \in Txns : Len(mutation_log[t]) <= LogCapacity
    /\ audit_pending \subseteq Txns
    /\ bind_lock \in [Txns -> Procs \cup {None}]
    /\ registry \in Seq(Txns)
    /\ registry_lock \in Procs \cup {None}
    /\ active \in BOOLEAN
    /\ session \in 1..MaxSession
    /\ bound_count \in 0..Cap
    /\ provider \in [Txns -> {"none", "open", "committed"}]
    /\ req_txn \in [Slots -> Txns \cup {None}]
    /\ req_owner \in [Slots -> Procs \cup {None}]
    /\ req_status \in [Slots -> {"queued", "ok", "error", None}]
    /\ pc \in [Procs -> Labels]
    /\ cur \in [Procs -> Txns \cup {None}]
    /\ verdict \in [Procs -> {"ok", "error", None}]
    /\ late \subseteq Procs
    /\ late_session \in [Procs -> 0..MaxSession]
    /\ visited \in [Procs -> SUBSET Txns]
    /\ layer \in [Procs -> Layers \cup {None}]
    /\ after \in [Procs -> {"idle", "mutate_cancel", "commit_audit", "broken", None}]
    /\ effects \in [Txns -> Nat]
    /\ audits \in [Txns -> Nat]
    /\ staged \subseteq Txns

(* A transaction that reached a final state keeps it: a late answer, the    *)
(* timer, a source that goes down, a layer deletion and the release of the  *)
(* descriptor race for the last word, and the first one has it.             *)
TerminalStable ==
    [][\A t \in Txns : state[t] \in Terminal => state'[t] = state[t]]_vars

(* A commit is published at most once, only if the source committed, and a *)
(* transaction that reports COMMITTED was published: whichever of the       *)
(* waiting caller and the late response applies the answer.                 *)
PublishedOnce ==
    \A t \in Txns :
       /\ effects[t] <= 1
       /\ effects[t] = 1 => provider[t] = "committed"
       /\ state[t] = "COMMITTED" => effects[t] = 1

(* Somebody is still going to end the outstanding commit of t.              *)
CommitOutstanding(t) ==
    \/ \E r \in Slots : req_txn[r] = t /\ req_owner[r] = None
    \/ \E p \in late : cur[p] = t
    \/ \E p \in Procs : \/ pc[p] = "down_lock"
                        \/ pc[p] = "down_walk" /\ t \notin visited[p]

(* A transaction that outlives its descriptor is retained for a COMMIT that *)
(* timed out, and somebody will free it: the request is still at the        *)
(* source, its answer is being handled, or the source went down and the     *)
(* walk has not passed it yet.                                              *)
RetainedOwned ==
    \A t \in Txns :
       (life[t] = "released" /\ ~\E p \in Procs : cur[p] = t) =>
          /\ Linked(t)
          /\ state[t] = "TIMED_OUT" /\ t \in commit_in_flight
          /\ CommitOutstanding(t)

(* The registry lists exactly the transactions that exist, except the one   *)
(* being freed, and whoever holds a transaction's bind_lock holds it on an  *)
(* object that exists.                                                      *)
RegistryIntegrity ==
    \A t \in Txns :
       /\ Linked(t) => life[t] \in {"open", "released"}
       /\ life[t] = "open" => Linked(t)
       /\ bind_lock[t] # None => Linked(t)

(* No transaction has two audit records, although the commit, the timeout   *)
(* work and the release of the descriptor each write it.                    *)
AuditAtMostOnce == \A t \in Txns : audits[t] <= 1

(* "so there is exactly one" (the comment on audit_pending): a transaction  *)
(* that staged a recorded write has its audit record when it is gone.       *)
AuditExactlyOnce ==
    \A t \in staged : life[t] = "destroyed" => audits[t] = 1

(* Every call ends: threads that hold bind_lock across round trips, and     *)
(* walks that hold registry_lock and wait for every bind_lock, never wait   *)
(* for each other for ever.                                                 *)
CallsEnd == \A p \in Procs : pc[p] # "idle" ~> pc[p] = "idle"

(* When the source goes down, the transactions bound to it leave BOUND,     *)
(* without the help of their timers.                                        *)
SourceDownReaches ==
    \A t \in Txns : (~active /\ state[t] = "BOUND") ~> state[t] # "BOUND"
=============================================================================
