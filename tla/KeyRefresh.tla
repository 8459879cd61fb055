----------------------------- MODULE KeyRefresh -----------------------------
(***************************************************************************)
(* How the kernel keeps up with the registry keys it reads itself: the     *)
(* bootstrap refresh (lcs/source_bootstrap.c), the internal self-watch and *)
(* its delivery (lcs/key_fd.c), and the coalesced re-walks of NTFE's       *)
(* Network key (ntfe/ingest.c) and of KMES's Events key                    *)
(* (kmes/event_policy.c).                                                  *)
(*                                                                         *)
(* A write commits in its source, then collects the internal watch events  *)
(* under the watch registry lock, then delivers them, all inside the       *)
(* writer's system call.  A key refreshed at once is re-read there and     *)
(* then; a deferred key is marked pending and a delayed work item is       *)
(* queued; the creation of a key under a missing one's fallback watch      *)
(* re-runs the whole bootstrap.  The bootstrap discovers and refreshes one *)
(* key after the other and arms the watches last.  Nothing serialises two  *)
(* bootstraps, or a bootstrap and a work item, but each key's own mutex.   *)
(*                                                                         *)
(* What a key holds is the number of changes made to it.  A walk reads a   *)
(* number somewhere between its first and its last round trip.             *)
(***************************************************************************)
EXTENDS Integers, Sequences, FiniteSets

CONSTANTS
    Keys,           \* the kernel-read keys under Machine
    Order,          \* the sequence in which the bootstrap takes them
    Deferred,       \* those re-walked by a delayed work item
    Debounced,      \* deferred keys whose window each change restarts (Network)
    Counted,        \* deferred keys that report their progress (Network)
    Defaulting,     \* keys whose absence restores the defaults (Events)
    Strict,         \* keys whose refresh may fail the bootstrap
    Refused,        \* the contents no refresh accepts, as <<key, change>>
    Seeded,         \* the sets of keys there may be when the source registers
    Writers,        \* threads that write registry keys
    Boot,           \* the bootstrap work queued by the source's registration
    None,           \* nobody holds the mutex
    MaxContent,     \* bound, per key: its changes
    MaxWrites,      \* bound: writes to keys other than the undebounced ones
    MaxFaults       \* bound: failed round trips and allocations

ASSUME KeyAssumption ==
    /\ Order \in Seq(Keys) /\ Len(Order) > 0
    /\ Deferred \cup Defaulting \cup Strict \subseteq Keys
    /\ Debounced \cup Counted \subseteq Deferred
    /\ Strict \cap Deferred = {}
    /\ MaxContent \in [Keys -> Nat]
    /\ MaxWrites \in Nat /\ MaxFaults \in Nat
    /\ Seeded \subseteq SUBSET Keys
    /\ Refused \subseteq Keys \X (Nat \ {0})
    /\ Boot \notin Writers \cup Keys
    /\ Writers \cap Keys = {}
    /\ None \notin Writers \cup Keys \cup {Boot}

Procs == Writers \cup {Boot} \cup Deferred     \* a deferred key: its work item

VARIABLES
    content,    \* per key: changes committed in the source, 0: no key
    writes,     \* writes so far to the keys whose writes are bounded
    faults,     \* failures so far
    armed,      \* keys with a targeted internal watch
    fallback,   \* the machine-root fallback watch is armed
    mutex,      \* per key: who is refreshing it
    inforce,    \* per key: the content in force
    table,      \* per counted key: the content its network context is from
    judged,     \* history: the newest content published or refused (a walk that
                \* fails refuses: what is in force stays, and the walk says why)
    pending,    \* per deferred key: a change waits for the re-walk
    timer,      \* per deferred key: 2 delayed, 1 due, 0 not queued
    noted,      \* per counted key: peios_ntfe_changes_noted
    walked,     \* per counted key: peios_ntfe_changes_walked
    changes,    \* history, per counted key: the content at each note
    ingest,     \* per counted key: last_ingest_error is an error
    pc,         \* per thread: where it is
    task,       \* per thread: what its refresh is for
    key,        \* per thread: the key it is at
    subkey,     \* per writer: its change created a key
    rerun,      \* per writer: it has a fallback event to deliver
    step,       \* per thread: the position of its bootstrap in Order
    present,    \* per thread: the keys its bootstrap has discovered
    got,        \* per thread: the content its walk read
    ok,         \* per thread: its walk (of the rules) succeeded
    contextOk,  \* per thread: its walk of the network context succeeded
    taken       \* per counted key: the count its work item started from

treeVars == <<content, writes>>
watchVars == <<armed, fallback>>
forceVars == <<inforce, table, judged>>
queueVars == <<pending, timer>>
countVars == <<noted, changes>>
writeVars == <<subkey, rerun>>
bootVars == <<step, present>>
walkVars == <<got, ok, contextOk>>
vars == <<treeVars, faults, watchVars, mutex, forceVars, queueVars, countVars,
          walked, ingest, pc, task, key, writeVars, bootVars, walkVars, taken>>

Init ==
    /\ content \in {[k \in Keys |-> IF k \in S THEN 1 ELSE 0] : S \in Seeded}
    /\ writes = 0
    /\ faults = 0
    /\ armed = {}
    /\ fallback = FALSE
    /\ mutex = [k \in Keys |-> None]
    /\ inforce = [k \in Keys |-> 0]
    /\ table = [k \in Counted |-> 0]
    /\ judged = [k \in Keys |-> 0]
    /\ pending = [k \in Deferred |-> FALSE]
    /\ timer = [k \in Deferred |-> 0]
    /\ noted = [k \in Counted |-> 0]
    /\ walked = [k \in Counted |-> 0]
    /\ changes = [k \in Counted |-> <<>>]
    /\ ingest = [k \in Counted |-> FALSE]
    /\ pc = [p \in Procs |-> IF p = Boot THEN "discover" ELSE "idle"]
    /\ task = [p \in Procs |-> IF p = Boot THEN "boot" ELSE "none"]
    /\ key = [p \in Procs |-> Order[1]]
    /\ subkey = [w \in Writers |-> FALSE]
    /\ rerun = [w \in Writers |-> FALSE]
    /\ step = [p \in Procs |-> 1]
    /\ present = [p \in Procs |-> {}]
    /\ got = [p \in Procs |-> 0]
    /\ ok = [p \in Procs |-> TRUE]
    /\ contextOk = [p \in Procs |-> TRUE]
    /\ taken = [k \in Counted |-> 0]

Goto(p, l) == pc' = [pc EXCEPT ![p] = l]

Fault == faults < MaxFaults /\ faults' = faults + 1

-----------------------------------------------------------------------------
(* A write commits in the source: it changes the key, rewrites what is      *)
(* there, or creates the key; a change may create a key below.              *)
Commit(w, k) ==
    /\ pc[w] = "idle"
    /\ \/ content[k] < MaxContent[k] /\ content' = [content EXCEPT ![k] = @ + 1]
       \/ content[k] > 0 /\ UNCHANGED content
    /\ IF k \in Deferred \ Debounced
       THEN UNCHANGED writes
       ELSE writes < MaxWrites /\ writes' = writes + 1
    /\ \E s \in BOOLEAN :
          /\ content[k] = 0 => s
          /\ subkey' = [subkey EXCEPT ![w] = s]
    /\ key' = [key EXCEPT ![w] = k]
    /\ Goto(w, "dispatch")
    /\ UNCHANGED <<faults, watchVars, mutex, forceVars, queueVars, countVars,
                   walked, ingest, task, rerun, bootVars, walkVars, taken>>

(* A thread is done: the locals of its call are gone.                       *)
Done(p) ==
    /\ Goto(p, IF p = Boot THEN "done" ELSE "idle")
    /\ task' = [task EXCEPT ![p] = "none"]
    /\ key' = [key EXCEPT ![p] = Order[1]]
    /\ step' = [step EXCEPT ![p] = 1]
    /\ present' = [present EXCEPT ![p] = {}]
    /\ IF p \in Writers
       THEN /\ subkey' = [subkey EXCEPT ![p] = FALSE]
            /\ rerun' = [rerun EXCEPT ![p] = FALSE]
       ELSE UNCHANGED writeVars

(* Whether an event on key k reaches its targeted watch: a key refreshed at *)
(* once only listens to its own values.                                     *)
Deliverable(w, k) == k \in armed /\ (k \in Deferred \/ ~subkey[w])

(* pkm_lcs_internal_watch_deliver_machine_root_fallback: run the bootstrap  *)
(* refresh in the writer's own call.                                        *)
Rerun(w) ==
    /\ task' = [task EXCEPT ![w] = "boot"]
    /\ key' = [key EXCEPT ![w] = Order[1]]
    /\ rerun' = [rerun EXCEPT ![w] = FALSE]
    /\ Goto(w, "discover")
    /\ UNCHANGED <<subkey, bootVars>>

(* The events are delivered in the order they were collected.               *)
NextEvent(w) == IF rerun[w] THEN Rerun(w) ELSE Done(w)

(* pkm_lcs_key_fd_dispatch_watch_event_context_effects: the events are      *)
(* collected under the registry lock, the key's own before the root's; an   *)
(* allocation that fails ends the collection.  The delivery begins.         *)
Dispatch(w) ==
    /\ pc[w] = "dispatch"
    /\ \E mine, again \in BOOLEAN :
          LET want == Deliverable(w, key[w])
              root == fallback /\ subkey[w]
          IN /\ mine => want
             /\ again => root /\ mine = want
             /\ IF mine = want /\ again = root THEN UNCHANGED faults ELSE Fault
             /\ \/ /\ mine
                   /\ rerun' = [rerun EXCEPT ![w] = again]
                   /\ IF key[w] \in Deferred
                      THEN Goto(w, "note change") /\ UNCHANGED task
                      ELSE Goto(w, "lock") /\ task' = [task EXCEPT ![w] = "event"]
                   /\ UNCHANGED <<key, subkey, bootVars>>
                \/ ~mine /\ again /\ Rerun(w)
                \/ ~mine /\ ~again /\ Done(w)
    /\ UNCHANGED <<treeVars, watchVars, mutex, forceVars, queueVars, countVars,
                   walked, ingest, walkVars, taken>>

(* peios_ntfe_network_registry_changed, pkm_kmes_event_policy_registry_     *)
(* changed: mark the change under the spinlock, then queue the work item.   *)
Note(w) ==
    /\ pc[w] = "note change"
    /\ pending' = [pending EXCEPT ![key[w]] = TRUE]
    /\ IF key[w] \in Counted
       THEN /\ noted' = [noted EXCEPT ![key[w]] = @ + 1]
            /\ changes' = [changes EXCEPT ![key[w]] = Append(@, content[key[w]])]
       ELSE UNCHANGED countVars
    /\ Goto(w, "queue")
    /\ UNCHANGED <<treeVars, faults, watchVars, mutex, forceVars, timer, walked,
                   ingest, task, key, writeVars, bootVars, walkVars, taken>>

(* Mutants of Requeue: every key's window restarts with each change; a      *)
(* change that finds the work item running does not queue it again.         *)
RequeueRestart(k) == 2
RequeueUnlessRunning(k) ==
    IF pc[k] # "idle" THEN timer[k] ELSE IF k \in Debounced \/ timer[k] = 0 THEN 2 ELSE timer[k]

(* mod_delayed_work restarts the window; queue_delayed_work leaves a work   *)
(* item that waits already alone.                                           *)
Requeue(k) == IF k \in Debounced \/ timer[k] = 0 THEN 2 ELSE timer[k]

Queue(w) ==
    /\ pc[w] = "queue"
    /\ timer' = [timer EXCEPT ![key[w]] = Requeue(key[w])]
    /\ NextEvent(w)
    /\ UNCHANGED <<treeVars, faults, watchVars, mutex, forceVars, pending,
                   countVars, walked, ingest, walkVars, taken>>

-----------------------------------------------------------------------------
(* pkm_lcs_source_bootstrap_refresh_machine_hive.  The next key of the      *)
(* bootstrap, or the watches when every key has had its turn.               *)
NextStage(p) ==
    IF step[p] < Len(Order)
    THEN /\ step' = [step EXCEPT ![p] = @ + 1]
         /\ key' = [key EXCEPT ![p] = Order[step[p] + 1]]
         /\ Goto(p, "discover")
    ELSE Goto(p, "arm") /\ UNCHANGED <<step, key>>

(* Look one key up: refresh it when it is there; a failed look-up ends the  *)
(* bootstrap, and without the memory for its result it never starts.        *)
Discover(p) ==
    /\ pc[p] = "discover"
    /\ \/ /\ content[key[p]] > 0
          /\ present' = [present EXCEPT ![p] = @ \cup {key[p]}]
          /\ Goto(p, "lock")
          /\ UNCHANGED <<faults, task, key, writeVars, step>>
       \/ /\ content[key[p]] = 0
          /\ IF key[p] \in Defaulting
             THEN Goto(p, "reset") /\ UNCHANGED <<step, key>>
             ELSE NextStage(p)
          /\ UNCHANGED <<faults, task, writeVars, present>>
       \/ /\ Fault
          /\ Goto(p, "fallback")
          /\ UNCHANGED <<task, key, writeVars, bootVars>>
       \/ Fault /\ step[p] = 1 /\ Done(p)
    /\ UNCHANGED <<treeVars, watchVars, mutex, forceVars, queueVars, countVars,
                   walked, ingest, walkVars, taken>>

(* pkm_kmes_event_policy_reset_to_tier_defaults.                            *)
Reset(p) ==
    /\ pc[p] = "reset"
    /\ mutex[key[p]] = None
    /\ inforce' = [inforce EXCEPT ![key[p]] = 0]
    /\ NextStage(p)
    /\ UNCHANGED <<treeVars, faults, watchVars, mutex, table, judged, queueVars,
                   countVars, walked, ingest, task, writeVars, present, walkVars,
                   taken>>

(* pkm_lcs_internal_self_watch_arm_full: disarm, add the watches of the     *)
(* keys found and the fallback for the missing ones, all under the registry *)
(* lock; an allocation that fails leaves nothing armed.  After a failed     *)
(* stage the fallback alone is armed.                                       *)
ArmFull(p) ==
    /\ pc[p] \in {"arm", "fallback"}
    /\ LET found == IF pc[p] = "arm" THEN present[p] ELSE {} IN
       \/ armed' = found /\ fallback' = (found # Keys) /\ UNCHANGED faults
       \/ armed' = {} /\ fallback' = FALSE /\ Fault
    /\ Done(p)
    /\ UNCHANGED <<treeVars, mutex, forceVars, queueVars, countVars, walked,
                   ingest, walkVars, taken>>

-----------------------------------------------------------------------------
(* A refresh is over, and its thread goes on with what it was for; a strict *)
(* key's failure ends the bootstrap.                                        *)
Refreshed(p, good) ==
    \/ /\ task[p] = "boot"
       /\ IF ~good /\ key[p] \in Strict
          THEN Goto(p, "fallback") /\ UNCHANGED <<step, key>>
          ELSE NextStage(p)
       /\ UNCHANGED <<task, writeVars, present>>
    \/ task[p] = "event" /\ NextEvent(p)
    \/ task[p] = "work" /\ key[p] \notin Counted /\ Done(p)
    \/ /\ task[p] = "work" /\ key[p] \in Counted
       /\ Goto(p, "settle")
       /\ UNCHANGED <<task, key, writeVars, bootVars>>

(* The mutant of Walk that leaves the mutex out.                            *)
WalkUnlocked(p) ==
    /\ pc[p] = "lock"
    /\ got' = [got EXCEPT ![p] = content[key[p]]]
    /\ Goto(p, "publish")
    /\ UNCHANGED <<treeVars, faults, watchVars, mutex, forceVars, queueVars,
                   countVars, walked, ingest, task, key, writeVars, bootVars, ok,
                   contextOk, taken>>

(* Take the key's mutex and read it.  ntfe_refresh_lock and                 *)
(* pkm_kmes_event_policy_lock cover the walk and what it publishes; the     *)
(* refreshes done at once take no lock.  The rules and the network context  *)
(* of a counted key are read separately, and either may fail.               *)
Walk(p) ==
    /\ pc[p] = "lock"
    /\ IF key[p] \in Deferred
       THEN mutex[key[p]] = None /\ mutex' = [mutex EXCEPT ![key[p]] = p]
       ELSE UNCHANGED mutex
    /\ got' = [got EXCEPT ![p] = content[key[p]]]
    /\ \E good, context \in BOOLEAN :
          /\ key[p] \notin Counted => context
          /\ ok' = [ok EXCEPT ![p] = good]
          /\ contextOk' = [contextOk EXCEPT ![p] = context]
          /\ IF good /\ context THEN UNCHANGED faults ELSE Fault
    /\ Goto(p, "publish")
    /\ UNCHANGED <<treeVars, watchVars, forceVars, queueVars, countVars, walked,
                   ingest, task, key, writeVars, bootVars, taken>>

Larger(m, n) == IF m > n THEN m ELSE n

Accepted(p) == ok[p] /\ <<key[p], got[p]>> \notin Refused

(* Put what was read in force, or keep what is; then release the mutex.  A  *)
(* counted key goes on to record the result.                                *)
Publish(p) ==
    /\ pc[p] = "publish"
    /\ LET k == key[p] IN
       /\ inforce' = IF Accepted(p) THEN [inforce EXCEPT ![k] = got[p]] ELSE inforce
       /\ table' = IF k \in Counted /\ contextOk[p]
                   THEN [table EXCEPT ![k] = got[p]] ELSE table
       /\ judged' = [judged EXCEPT ![k] = Larger(@, got[p])]
       /\ mutex' = IF mutex[k] = p THEN [mutex EXCEPT ![k] = None] ELSE mutex
       /\ IF k \in Counted
          THEN Goto(p, "note") /\ UNCHANGED <<task, key, writeVars, bootVars, got, ok, contextOk>>
          ELSE /\ Refreshed(p, Accepted(p))
               /\ got' = [got EXCEPT ![p] = 0]
               /\ ok' = [ok EXCEPT ![p] = TRUE]
               /\ UNCHANGED contextOk
    /\ UNCHANGED <<treeVars, faults, watchVars, queueVars, countVars, walked,
                   ingest, taken>>

(* peios_ntfe_policy_note_ingest, after the mutex is released.              *)
NoteIngest(p) ==
    /\ pc[p] = "note"
    /\ ingest' = [ingest EXCEPT ![key[p]] = ~(Accepted(p) /\ contextOk[p])]
    /\ Refreshed(p, TRUE)
    /\ got' = [got EXCEPT ![p] = 0]
    /\ ok' = [ok EXCEPT ![p] = TRUE]
    /\ contextOk' = [contextOk EXCEPT ![p] = TRUE]
    /\ UNCHANGED <<treeVars, faults, watchVars, mutex, forceVars, queueVars,
                   countVars, walked, taken>>

-----------------------------------------------------------------------------
(* The delayed work item of a deferred key: its window passes, ...          *)
Tick(k) ==
    /\ timer[k] = 2
    /\ timer' = [timer EXCEPT ![k] = 1]
    /\ UNCHANGED <<treeVars, faults, watchVars, mutex, forceVars, pending,
                   countVars, walked, ingest, pc, task, key, writeVars, bootVars,
                   walkVars, taken>>

(* ... and it runs, one at a time: it takes the pending change, and the     *)
(* count it starts from.                                                    *)
Work(k) ==
    /\ pc[k] = "idle"
    /\ timer[k] = 1
    /\ timer' = [timer EXCEPT ![k] = 0]
    /\ IF pending[k]
       THEN /\ pending' = [pending EXCEPT ![k] = FALSE]
            /\ taken' = IF k \in Counted THEN [taken EXCEPT ![k] = noted[k]] ELSE taken
            /\ task' = [task EXCEPT ![k] = "work"]
            /\ key' = [key EXCEPT ![k] = k]
            /\ Goto(k, "lock")
       ELSE UNCHANGED <<pending, taken, task, key, pc>>
    /\ UNCHANGED <<treeVars, faults, watchVars, mutex, forceVars, countVars,
                   walked, ingest, writeVars, bootVars, walkVars>>

(* The mutant of Settle that publishes the count at its end.                *)
SettleLate(k) ==
    /\ pc[k] = "settle"
    /\ walked' = [walked EXCEPT ![k] = noted[k]]
    /\ taken' = [taken EXCEPT ![k] = 0]
    /\ Done(k)
    /\ UNCHANGED <<treeVars, faults, watchVars, mutex, forceVars, queueVars,
                   countVars, ingest, walkVars>>

(* The walk is over: publish the count it started from.                     *)
Settle(k) ==
    /\ pc[k] = "settle"
    /\ walked' = [walked EXCEPT ![k] = taken[k]]
    /\ taken' = [taken EXCEPT ![k] = 0]
    /\ Done(k)
    /\ UNCHANGED <<treeVars, faults, watchVars, mutex, forceVars, queueVars,
                   countVars, ingest, walkVars>>

-----------------------------------------------------------------------------
(* What a thread does once its call has begun.                              *)
Step(p) ==
    \/ p \in Writers /\ (Dispatch(p) \/ Note(p) \/ Queue(p))
    \/ Discover(p) \/ Reset(p) \/ ArmFull(p)
    \/ Walk(p) \/ Publish(p) \/ NoteIngest(p)
    \/ p \in Counted /\ Settle(p)

Next ==
    \/ \E w \in Writers, k \in Keys : Commit(w, k)
    \/ \E p \in Procs : Step(p)
    \/ \E k \in Deferred : Tick(k) \/ Work(k)

(* Time passes, a call that has begun goes on and is handed the mutexes it  *)
(* waits for in the end, and a work item runs if it stays due; nobody has   *)
(* to write.                                                                *)
Fairness ==
    /\ \A p \in Procs : SF_vars(Step(p))
    /\ \A k \in Deferred : WF_vars(Tick(k)) /\ WF_vars(Work(k))

Spec == Init /\ [][Next]_vars /\ Fairness

-----------------------------------------------------------------------------
Labels == {"idle", "dispatch", "note change", "queue", "discover", "reset",
           "arm", "fallback", "lock", "publish", "note", "settle", "done"}
Tasks == {"none", "boot", "event", "work"}

(* Every variable has its type; each note records a content.                *)
TypeOK ==
    /\ content \in [Keys -> Nat]
    /\ writes \in 0..MaxWrites /\ faults \in 0..MaxFaults
    /\ armed \subseteq Keys /\ fallback \in BOOLEAN
    /\ mutex \in [Keys -> Procs \cup {None}]
    /\ inforce \in [Keys -> Nat] /\ judged \in [Keys -> Nat]
    /\ table \in [Counted -> Nat] /\ ingest \in [Counted -> BOOLEAN]
    /\ pending \in [Deferred -> BOOLEAN] /\ timer \in [Deferred -> 0..2]
    /\ noted \in [Counted -> Nat] /\ walked \in [Counted -> Nat]
    /\ taken \in [Counted -> Nat]
    /\ changes \in [Counted -> Seq(Nat)]
    /\ \A k \in Counted : Len(changes[k]) = noted[k]
    /\ pc \in [Procs -> Labels] /\ task \in [Procs -> Tasks]
    /\ subkey \in [Writers -> BOOLEAN] /\ rerun \in [Writers -> BOOLEAN]
    /\ key \in [Procs -> Keys] /\ step \in [Procs -> 1..Len(Order)]
    /\ present \in [Procs -> SUBSET Keys]
    /\ got \in [Procs -> Nat]
    /\ ok \in [Procs -> BOOLEAN] /\ contextOk \in [Procs -> BOOLEAN]

(* ntfe/ingest.c: "walked >= N means every change up to the Nth has been    *)
(* read and either published or refused", whatever bootstraps, other        *)
(* writers and failed walks run beside the work item.                       *)
WalkedMeansRead ==
    \A k \in Counted : walked[k] <= noted[k] /\
        \A n \in 1..walked[k] : judged[k] >= changes[k][n]

(* A walk never puts back an older policy, mask or network context than the *)
(* one in force: overlapping refreshes of one key take its mutex before     *)
(* they read.  (A bootstrap that found no key restores the defaults.)       *)
RefreshNeverGoesBack ==
    [][/\ \A k \in Deferred : inforce'[k] >= inforce[k] \/ inforce'[k] = 0
       /\ \A k \in Counted : table'[k] >= table[k]]_vars

(* kmes/event_policy.c: "a steady stream of writes cannot postpone the      *)
(* walk": for a change of a key whose window no later change restarts, the  *)
(* work item reads the key in the end, even when the writes never stop.     *)
StreamCannotPostpone ==
    \A k \in Deferred \ Debounced : pending[k] ~> pc[k] = "publish"

(* A writer that waits for its change to be reported walked is answered:    *)
(* once the writes of a counted key stop, the count catches up.  (Writes    *)
(* that never stop restart its window for ever.)                            *)
WalkCatchesUp == \A k \in Counted : []<>(walked[k] = noted[k])
=============================================================================
