-------------------------- MODULE TransactionProofs --------------------------
(***************************************************************************)
(* Proofs about Transaction, for any transactions, threads, layers, limits *)
(* and sessions: what a transaction that ended keeps, what a commit        *)
(* publishes, what the registry lists, and who frees a transaction that    *)
(* outlives its descriptor.                                                *)
(*                                                                         *)
(* IndInv is inductive.  It says what a thread knows at each of its labels *)
(* (ThreadOK), what holds of a transaction (TxnOK) and of a request        *)
(* (SlotOK).  A step of one thread gives the others what they rely on      *)
(* (Relies): nobody takes their locks, revives an ended transaction or     *)
(* touches what bind_lock protects.                                        *)
(***************************************************************************)
EXTENDS Transaction, TLAPS

(* Zenon proves a leaf unless it names another prover.                      *)
USE Zenon

Closing == {"close_end", "close_remove"}
FirstBinding == {"mutate_begin", "mutate_bind"}
Mutating == {"mutate_begin", "mutate_bind", "mutate_op", "mutate_touch",
             "mutate_log", "mutate_cancel"}
Committing == {"commit_send", "commit_wait", "commit_fails", "apply", "final",
               "broken", "commit_release"}
Calling == {"mutate_lock", "commit_lock", "commit_audit", "commit_layers"}
Handling == {"late_lock", "late_walk", "late_release"}
Downing == {"down_lock", "down_walk"}
Aborting == {"abort_lock", "abort_walk", "abort_undo", "abort_failed"}
Walking == {"down_walk", "late_walk", "abort_walk", "abort_undo", "abort_failed"}

(* Inside a mutation or a commit: with bind_lock, which a thread that takes *)
(* the source down on the way keeps.                                        *)
Mutates(p) == pc[p] \in Mutating \/ (pc[p] \in Downing /\ after[p] = "mutate_cancel")
Commits(p) == pc[p] \in Committing \/ (pc[p] \in Downing /\ after[p] = "broken")
Holds(p) == Mutates(p) \/ Commits(p)
HoldsRegistry(p) == pc[p] \in Walking \/ (p \in late /\ Commits(p))

(* A call that works on a transaction.                                      *)
Works(p) ==
    \/ pc[p] \in Closing \cup Calling \cup Mutating \cup Committing \cup Handling
    \/ pc[p] \in Downing /\ after[p] # "idle"
    \/ pc[p] \in Aborting /\ after[p] # "idle"

(* Where a thread can be.                                                   *)
Shape(p) ==
    /\ p \in late => /\ \/ pc[p] \in Handling \cup {"apply", "final", "broken"}
                        \/ pc[p] = "down_lock" /\ after[p] \in {"idle", "broken"}
                        \/ pc[p] = "down_walk" /\ after[p] = "idle"
                        \/ pc[p] \in Aborting /\ after[p] = "idle" /\ cur[p] = None
                     /\ late_session[p] <= session
    /\ p \notin late => pc[p] \notin Handling
    /\ pc[p] \in Downing =>
          after[p] \in {"idle", "mutate_cancel", "commit_audit", "broken"}
    /\ pc[p] \in Aborting => after[p] \in {"idle", "commit_audit"}
    /\ Works(p) => cur[p] # None

(* A walk that takes the source down has yet to pass t.                     *)
Pends(q, t) == pc[q] = "down_lock" \/ (pc[q] = "down_walk" /\ t \notin visited[q])
Pending(t) == \E q \in Procs : Pends(q, t)

(* What such a walk ends.                                                   *)
Live(t) == state[t] = "BOUND" \/ (state[t] = "TIMED_OUT" /\ t \in commit_in_flight)

(* No commit of t ever began.                                               *)
Virgin(t) ==
    /\ t \notin commit_in_flight
    /\ provider[t] # "committed"
    /\ \A r \in Slots : req_txn[r] # t
    /\ \A q \in late : cur[q] # t

(* A thread has the source's word that t is committed, and has not yet      *)
(* published it.                                                            *)
Token(p) == verdict[p] = "ok" /\ pc[p] \in {"late_lock", "late_walk", "apply"}

(* What it holds: bind_lock of its transaction, registry_lock; and that the  *)
(* transaction exists.                                                      *)
LockOK(p) ==
    /\ Holds(p) => bind_lock[cur[p]] = p
    /\ \A t \in Txns : bind_lock[t] = p => Holds(p) /\ cur[p] = t
    /\ HoldsRegistry(p) <=> registry_lock = p
    /\ p \notin late /\ cur[p] # None =>
          IF pc[p] \in Closing THEN life[cur[p]] \in {"released", "destroyed"}
                               ELSE life[cur[p]] = "open"
    /\ p \in late /\ Commits(p) => Linked(cur[p])

(* In a mutation: the transaction is neither committed nor audited.         *)
MutateOK(p) ==
    /\ pc[p] \in FirstBinding => Virgin(cur[p]) /\ (active \/ Pending(cur[p]))
    /\ Mutates(p) => /\ audits[cur[p]] = 0
                     /\ Len(mutation_log[cur[p]]) < LogCapacity

(* In a commit: what the source's answer stands for.                        *)
CommitOK(p) ==
    /\ Commits(p) => state[cur[p]] # "UNBOUND"
    /\ pc[p] = "commit_wait" => \E r \in Slots : req_owner[r] = p
    /\ pc[p] = "final" /\ verdict[p] = "ok" => effects[cur[p]] = 1
    /\ Token(p) => provider[cur[p]] = "committed" /\ effects[cur[p]] = 0

(* In a late response: whether the commit it answers is still outstanding.  *)
LateOK(p) ==
    /\ pc[p] = "late_walk" => cur[p] \notin visited[p]
    /\ pc[p] \in {"late_release", "commit_release"} =>
          state[cur[p]] \in Terminal /\ cur[p] \notin commit_in_flight
    /\ p \in late /\ pc[p] = "down_walk" /\ cur[p] \in visited[p] =>
          state[cur[p]] \in Terminal /\ ~Live(cur[p])
    /\ p \in late /\ late_session[p] < session /\ cur[p] # None
          /\ Linked(cur[p]) /\ Live(cur[p]) => Pending(cur[p])

ThreadOK(p) == Shape(p) /\ LockOK(p) /\ MutateOK(p) /\ CommitOK(p) /\ LateOK(p)

(* A caller is in charge of the commit of t, or a late response is.         *)
Charged(q, t) == q \notin late /\ cur[q] = t /\ Commits(q)
Answers(q, t) == q \in late /\ cur[q] = t
Owned(t) == CommitOutstanding(t) \/ \E q \in Procs : Charged(q, t)

(* Somebody is about to free t.                                             *)
Frees(q, t) ==
    /\ cur[q] = t
    /\ \/ pc[q] \in Closing /\ verdict[q] # None
       \/ pc[q] = "late_release" /\ ~Linked(t)
Freed(t) == \E q \in Procs : Frees(q, t)

TxnOK(t) ==
    /\ Linked(t) => life[t] \in {"open", "released"}
    /\ life[t] = "open" => Linked(t)
    /\ life[t] = "unborn" => state[t] = "UNBOUND"
    /\ t \in timer => life[t] # "unborn"
    /\ state[t] = "UNBOUND" => Virgin(t)
    /\ t \in timeout_abort_pending => state[t] = "TIMED_OUT"
    /\ t \in audit_pending => audits[t] = 0
    /\ audits[t] <= 1
    /\ audits[t] = 1 => state[t] \in Terminal
    /\ effects[t] <= 1
    /\ effects[t] = 1 => provider[t] = "committed"
    /\ state[t] = "COMMITTED" => effects[t] = 1
    /\ ~active /\ Linked(t) /\ Live(t) => Pending(t)
    /\ Linked(t) /\ Live(t) /\ t \in commit_in_flight => Owned(t)
    /\ life[t] = "released" =>
          \/ Freed(t)
          \/ Linked(t) /\ state[t] = "TIMED_OUT" /\ t \in commit_in_flight

SlotOK(r) ==
    /\ req_status[r] = None <=> req_txn[r] = None
    /\ req_txn[r] = None => req_owner[r] = None
    /\ req_owner[r] # None =>
          /\ pc[req_owner[r]] = "commit_wait"
          /\ cur[req_owner[r]] = req_txn[r]
          /\ \A s \in Slots : req_owner[s] = req_owner[r] => s = r
    /\ req_status[r] = "ok" =>
          provider[req_txn[r]] = "committed" /\ effects[req_txn[r]] = 0

(* The source's word on t is in one place.                                  *)
OneToken ==
    /\ \A p, q \in Procs : Token(p) /\ Token(q) /\ cur[p] = cur[q] => p = q
    /\ \A r, s \in Slots :
          req_status[r] = "ok" /\ req_status[s] = "ok" /\ req_txn[r] = req_txn[s] => r = s
    /\ \A p \in Procs, r \in Slots :
          Token(p) /\ req_status[r] = "ok" => cur[p] # req_txn[r]

Listed ==
    \A i, j \in 1..Len(registry) : registry[i] = registry[j] => i = j

IndInv ==
    /\ TypeOK
    /\ \A p \in Procs : ThreadOK(p)
    /\ \A t \in Txns : TxnOK(t)
    /\ \A r \in Slots : SlotOK(r)
    /\ OneToken
    /\ Listed

-----------------------------------------------------------------------------
(* The registry, as a list without duplicates.                              *)

LEMMA NextListed ==
    ASSUME NEW p, NEW t, NextVisit(p, t)
    PROVE  t \notin visited[p] /\ Linked(t)
  BY DEF NextVisit, Linked

LEMMA NoneLeft ==
    ASSUME NEW p, WalkedAll(p)
    PROVE  \A t : Linked(t) => t \in visited[p]
  BY DEF WalkedAll, Linked

LEMMA Appended ==
    ASSUME registry \in Seq(Txns), Listed, NEW t \in Txns, ~Linked(t),
           registry' = Append(registry, t)
    PROVE  /\ registry' \in Seq(Txns)
           /\ Listed'
           /\ \A u : Linked(u)' <=> Linked(u) \/ u = t
  <1>1. /\ registry' \in Seq(Txns)
        /\ Len(registry') = Len(registry) + 1
        /\ \A i \in 1..Len(registry) : registry'[i] = registry[i]
        /\ registry'[Len(registry) + 1] = t
    BY SMT
  <1>2. Len(registry) \in Nat BY SMT
  <1>3. 1..Len(registry') = 1..Len(registry) \cup {Len(registry) + 1} BY <1>1, <1>2, SMT
  <1>4. \A i \in 1..Len(registry) : registry[i] # t BY DEF Linked
  <1>5. Listed'
    <2> SUFFICES ASSUME NEW i \in 1..Len(registry'), NEW j \in 1..Len(registry'),
                        registry'[i] = registry'[j]
                 PROVE  i = j
      BY DEF Listed
    <2>1. CASE i \in 1..Len(registry) /\ j \in 1..Len(registry)
      BY <1>1, <2>1 DEF Listed
    <2> QED BY <1>1, <1>3, <1>4, <2>1
  <1>6. \A u : Linked(u)' <=> Linked(u) \/ u = t
    BY <1>1, <1>3 DEF Linked
  <1> QED BY <1>1, <1>5, <1>6

LEMMA Unlinked ==
    ASSUME registry \in Seq(Txns), Listed, NEW t, Unlink(t)
    PROVE  /\ registry' \in Seq(Txns)
           /\ Listed'
           /\ \A u : Linked(u)' <=> Linked(u) /\ u # t
  <1> DEFINE n == Len(registry)
             k == CHOOSE i \in 1..n : registry[i] = t
  <1> n \in Nat BY SMT
  <1>1. CASE ~Linked(t)
    <2>1. registry' = registry BY <1>1 DEF Unlink
    <2> QED BY <1>1, <2>1 DEF Listed, Linked
  <1>2. CASE Linked(t)
    <2>3. k \in 1..n /\ registry[k] = t BY <1>2 DEF Linked
    <2>4. registry' = SubSeq(registry, 1, k - 1) \o SubSeq(registry, k + 1, n)
      BY <1>2 DEF Unlink
    <2> HIDE DEF k, n
    <2>5. k \in Nat /\ 1 <= k /\ k <= n BY <2>3, SMT
    <2>7. /\ SubSeq(registry, 1, k - 1) \in Seq(Txns)
          /\ Len(SubSeq(registry, 1, k - 1)) = k - 1
          /\ \A i \in 1..(k - 1) : SubSeq(registry, 1, k - 1)[i] = registry[i]
      BY <2>5, SMT DEF n
    <2>8. /\ SubSeq(registry, k + 1, n) \in Seq(Txns)
          /\ Len(SubSeq(registry, k + 1, n)) = n - k
          /\ \A i \in 1..(n - k) : SubSeq(registry, k + 1, n)[i] = registry[k + i]
      BY <2>5, SMT DEF n
    <2>9. /\ registry' \in Seq(Txns)
          /\ Len(registry') = (k - 1) + (n - k)
          /\ \A i \in 1..((k - 1) + (n - k)) :
                registry'[i] = IF i <= k - 1 THEN SubSeq(registry, 1, k - 1)[i]
                               ELSE SubSeq(registry, k + 1, n)[i - (k - 1)]
      <3> DEFINE a == SubSeq(registry, 1, k - 1)
                 b == SubSeq(registry, k + 1, n)
      <3>1. a \in Seq(Txns) /\ b \in Seq(Txns) BY <2>7, <2>8
      <3>2. Len(a) = k - 1 /\ Len(b) = n - k /\ registry' = a \o b BY <2>4, <2>7, <2>8
      <3> HIDE DEF a, b
      <3>3. /\ a \o b \in Seq(Txns)
            /\ Len(a \o b) = Len(a) + Len(b)
            /\ \A i \in 1..Len(a) + Len(b) :
                  (a \o b)[i] = IF i <= Len(a) THEN a[i] ELSE b[i - Len(a)]
        BY <3>1, SMT
      <3> QED BY <3>2, <3>3 DEF a, b
    <2>10. Len(registry') = n - 1 BY <2>5, <2>9, SMT
    <2> \A i \in 1..(n - 1) : registry'[i] = IF i < k THEN registry[i] ELSE registry[i + 1]
      <3> SUFFICES ASSUME NEW i \in 1..(n - 1)
                   PROVE  registry'[i] = IF i < k THEN registry[i] ELSE registry[i + 1]
        OBVIOUS
      <3>1. i \in 1..((k - 1) + (n - k)) BY <2>5, SMT
      <3>2. CASE i < k
        <4>1. i <= k - 1 /\ i \in 1..(k - 1) BY <2>5, <3>2, SMT
        <4> QED BY <2>7, <2>9, <3>1, <3>2, <4>1
      <3>3. CASE ~(i < k)
        <4>1. ~(i <= k - 1) /\ i - (k - 1) \in 1..(n - k) /\ k + (i - (k - 1)) = i + 1
          BY <2>5, <3>3, SMT
        <4> QED BY <2>8, <2>9, <3>1, <3>3, <4>1
      <3> QED BY <3>2, <3>3
    <2>12. \A i, j \in 1..n : registry[i] = registry[j] => i = j
      BY DEF Listed, n
    <2>13. Listed'
      <3> SUFFICES ASSUME NEW i \in 1..(n - 1), NEW j \in 1..(n - 1),
                          registry'[i] = registry'[j]
                   PROVE  i = j
        BY <2>10 DEF Listed
      <3> QED BY <2>5, <2>12, SMT
    <2>14. ASSUME NEW u PROVE Linked(u)' <=> Linked(u) /\ u # t
      <3>1. ASSUME Linked(u)' PROVE Linked(u) /\ u # t
        <4>1. PICK i \in 1..(n - 1) : registry'[i] = u
          BY <3>1, <2>10 DEF Linked
        <4>2. PICK j \in 1..n : j # k /\ registry[j] = u
          <5>1. CASE i < k BY <2>5, <4>1, <5>1, SMT
          <5>2. CASE ~(i < k)
            <6>1. i + 1 \in 1..n /\ i + 1 # k BY <2>5, <5>2, SMT
            <6> QED BY <4>1, <5>2, <6>1
          <5> QED BY <5>1, <5>2
        <4>3. u # t BY <2>3, <2>12, <4>2
        <4> QED BY <4>2, <4>3 DEF Linked, n
      <3>2. ASSUME Linked(u), u # t PROVE Linked(u)'
        <4>1. PICK j \in 1..n : registry[j] = u BY <3>2 DEF Linked, n
        <4>2. j # k BY <2>3, <3>2, <4>1
        <4>3. \E i \in 1..(n - 1) : registry'[i] = u
          <5>1. CASE j < k
            <6>1. j \in 1..(n - 1) BY <2>5, <5>1, SMT
            <6> QED BY <4>1, <5>1, <6>1
          <5>2. CASE ~(j < k)
            <6>1. j - 1 \in 1..(n - 1) /\ ~(j - 1 < k) /\ (j - 1) + 1 = j
              BY <2>5, <4>2, <5>2, SMT
            <6> QED BY <4>1, <6>1
          <5> QED BY <5>1, <5>2
        <4> QED BY <2>10, <4>3 DEF Linked
      <3> QED BY <3>1, <3>2
    <2> QED BY <2>9, <2>13, <2>14
  <1> QED BY <1>1, <1>2

-----------------------------------------------------------------------------
(* The types, by part of the state.                                         *)
TxnTypes ==
    /\ life \in [Txns -> {"unborn", "open", "released", "destroyed"}]
    /\ state \in [Txns -> Active \cup Terminal]
    /\ commit_in_flight \subseteq Txns
    /\ timeout_abort_pending \subseteq Txns
    /\ timer \subseteq Txns
    /\ mutation_log \in [Txns -> Seq(Layers)]
    /\ \A t \in Txns : Len(mutation_log[t]) <= LogCapacity
    /\ audit_pending \subseteq Txns
    /\ bind_lock \in [Txns -> Procs \cup {None}]

RegistryTypes == registry \in Seq(Txns) /\ registry_lock \in Procs \cup {None}

SourceTypes ==
    /\ active \in BOOLEAN
    /\ session \in 1..MaxSession
    /\ bound_count \in 0..Cap
    /\ provider \in [Txns -> {"none", "open", "committed"}]

RequestTypes ==
    /\ req_txn \in [Slots -> Txns \cup {None}]
    /\ req_owner \in [Slots -> Procs \cup {None}]
    /\ req_status \in [Slots -> {"queued", "ok", "error", None}]

ThreadTypes ==
    /\ pc \in [Procs -> Labels]
    /\ cur \in [Procs -> Txns \cup {None}]
    /\ verdict \in [Procs -> {"ok", "error", None}]
    /\ late \subseteq Procs
    /\ late_session \in [Procs -> 0..MaxSession]
    /\ visited \in [Procs -> SUBSET Txns]
    /\ layer \in [Procs -> Layers \cup {None}]
    /\ after \in [Procs -> {"idle", "mutate_cancel", "commit_audit", "broken", None}]

HistoryTypes ==
    effects \in [Txns -> Nat] /\ audits \in [Txns -> Nat] /\ staged \subseteq Txns

LEMMA TypeParts ==
    /\ TypeOK <=> /\ TxnTypes /\ RegistryTypes /\ SourceTypes /\ RequestTypes
                  /\ ThreadTypes /\ HistoryTypes
    /\ TypeOK' <=> /\ TxnTypes' /\ RegistryTypes' /\ SourceTypes' /\ RequestTypes'
                   /\ ThreadTypes' /\ HistoryTypes'
  BY DEF TypeOK, TxnTypes, RegistryTypes, SourceTypes, RequestTypes, ThreadTypes,
               HistoryTypes

LEMMA TypesKept ==
    /\ TxnTypes /\ UNCHANGED txnVars => TxnTypes'
    /\ RegistryTypes /\ UNCHANGED registryVars => RegistryTypes'
    /\ SourceTypes /\ UNCHANGED sourceVars => SourceTypes'
    /\ RequestTypes /\ UNCHANGED requestVars => RequestTypes'
    /\ ThreadTypes /\ UNCHANGED procVars => ThreadTypes'
    /\ HistoryTypes /\ UNCHANGED historyVars => HistoryTypes'
  BY DEF TxnTypes, RegistryTypes, SourceTypes, RequestTypes, ThreadTypes, HistoryTypes,
     flagVars, txnVars, registryVars, sourceVars, requestVars, procVars, historyVars

LEMMA Constants ==
    /\ None \notin Txns /\ None \notin Procs
    /\ None # "ok" /\ None # "error" /\ None # "queued"
    /\ Base \in Layers
    /\ Cap \in Nat /\ Cap > 0 /\ LogCapacity \in Nat /\ LogCapacity > 0
    /\ MaxSession \in Nat /\ MaxSession > 0
  BY TransactionAssumption, SMT DEF TransactionAssumption

-----------------------------------------------------------------------------
(* What a step of thread p leaves alone: where the other threads are.       *)
SameCall(q) ==
    /\ cur'[q] = cur[q]
    /\ verdict'[q] = verdict[q]
    /\ q \in late' <=> q \in late
    /\ late_session'[q] = late_session[q]
    /\ visited'[q] = visited[q]
    /\ after'[q] = after[q]

Alone(p) == \A q \in Procs \ {p} : pc'[q] = pc[q] /\ SameCall(q)

Idle(p) ==
    /\ pc[p] = "idle"
    /\ cur[p] = None
    /\ verdict[p] = None
    /\ p \notin late
    /\ visited[p] = {}
    /\ after[p] = None

LEMMA Returned ==
    ASSUME ThreadTypes, NEW p \in Procs, Return(p)
    PROVE  ThreadTypes' /\ Alone(p) /\ Idle(p)'
  <1>1. 0 \in 0..MaxSession BY Constants, SMT
  <1>2. ThreadTypes' BY <1>1 DEF ThreadTypes, Return, Labels
  <1>3. Alone(p) BY DEF ThreadTypes, Return, Alone, SameCall
  <1>4. Idle(p)' BY DEF ThreadTypes, Return, Idle
  <1> QED BY <1>2, <1>3, <1>4

LEMMA Went ==
    ASSUME ThreadTypes, NEW p \in Procs, NEW label \in Labels, Goto(p, label),
           UNCHANGED callVars
    PROVE  ThreadTypes' /\ Alone(p) /\ SameCall(p) /\ pc'[p] = label
  <1>1. /\ pc' = [pc EXCEPT ![p] = label] /\ cur' = cur /\ verdict' = verdict
        /\ late' = late /\ late_session' = late_session /\ visited' = visited
        /\ layer' = layer /\ after' = after
    BY DEF Goto, callVars
  <1>2. ThreadTypes' BY <1>1 DEF ThreadTypes
  <1>3. Alone(p) BY <1>1 DEF ThreadTypes, Alone, SameCall
  <1> QED BY <1>1, <1>2, <1>3 DEF ThreadTypes, SameCall

(* What the other threads rely on when one takes a step.                    *)
Guards(q, t) ==
    /\ bind_lock'[t] = q <=> bind_lock[t] = q
    /\ state[t] \in Terminal => state'[t] = state[t]
    /\ state[t] # "UNBOUND" => state'[t] # "UNBOUND"
    /\ t \in commit_in_flight' /\ state[t] # "BOUND" => t \in commit_in_flight
    /\ life[t] \in {"released", "destroyed"} => life'[t] \in {"released", "destroyed"}
    /\ q \notin late /\ cur[q] = t /\ life[t] = "open" => life'[t] = "open"
    /\ bind_lock[t] = q =>
          /\ Linked(t)'
          /\ Virgin(t) => Virgin(t)'
          /\ active \/ Pending(t) => active' \/ Pending(t)'
          /\ Mutates(q) => audits'[t] = audits[t]
          /\ mutation_log'[t] = mutation_log[t]
    /\ effects[t] = 1 => effects'[t] = 1
    /\ provider[t] = "committed" => provider'[t] = "committed"
    /\ Token(q) /\ cur[q] = t => effects'[t] = effects[t]
    /\ q \in late /\ cur[q] = t /\ late_session[q] < session' =>
          (Linked(t)' /\ Live(t)' => Pending(t)')

Relies(q) ==
    /\ SameCall(q)
    /\ pc'[q] = pc[q] \/ (pc[q] = "commit_wait" /\ pc'[q] = "commit_fails")
    /\ pc'[q] = "commit_wait" => \E r \in Slots : req_owner'[r] = q
    /\ registry_lock' = q <=> registry_lock = q
    /\ session <= session'
    /\ \A t \in Txns : Guards(q, t)

LEMMA LabelsApart ==
    ASSUME NEW q, pc[q] = "commit_wait", pc'[q] = "commit_fails", SameCall(q)
    PROVE  /\ Mutates(q)' = Mutates(q) /\ Commits(q)' = Commits(q)
           /\ Holds(q)' = Holds(q) /\ HoldsRegistry(q)' = HoldsRegistry(q)
           /\ Works(q)' = Works(q) /\ Token(q)' = Token(q)
  BY DEF SameCall, Mutates, Commits, Holds, HoldsRegistry, Works, Token, Mutating,
         Committing, Walking, Downing, Aborting, Closing, Calling, Handling

LEMMA RolesSame ==
    ASSUME NEW q, SameCall(q),
           pc'[q] = pc[q] \/ (pc[q] = "commit_wait" /\ pc'[q] = "commit_fails")
    PROVE  /\ Mutates(q)' <=> Mutates(q)
           /\ Commits(q)' <=> Commits(q)
           /\ Holds(q)' <=> Holds(q)
           /\ HoldsRegistry(q)' <=> HoldsRegistry(q)
           /\ Works(q)' <=> Works(q)
           /\ Token(q)' <=> Token(q)
  <1>1. CASE pc'[q] = pc[q]
    BY <1>1 DEF SameCall, Mutates, Commits, Holds, HoldsRegistry, Works, Token
  <1>2. CASE pc[q] = "commit_wait" /\ pc'[q] = "commit_fails"
    BY <1>2, LabelsApart
  <1> QED BY <1>1, <1>2

LEMMA RelyKeeps ==
    ASSUME IndInv, NEW q \in Procs, Relies(q), session' \in Int
    PROVE  ThreadOK(q)'
  <1> /\ Shape(q) /\ LockOK(q) /\ MutateOK(q) /\ CommitOK(q) /\ LateOK(q)
      /\ ThreadTypes /\ SourceTypes
    BY TypeParts DEF IndInv, ThreadOK
  <1>1. /\ SameCall(q)
        /\ pc'[q] = pc[q] \/ (pc[q] = "commit_wait" /\ pc'[q] = "commit_fails")
        /\ \A t \in Txns : Guards(q, t)
    BY DEF Relies
  <1>2. /\ Mutates(q)' <=> Mutates(q)
        /\ Commits(q)' <=> Commits(q)
        /\ Holds(q)' <=> Holds(q)
        /\ HoldsRegistry(q)' <=> HoldsRegistry(q)
        /\ Works(q)' <=> Works(q)
        /\ Token(q)' <=> Token(q)
    BY <1>1, RolesSame
  <1> /\ cur'[q] = cur[q] /\ verdict'[q] = verdict[q] /\ (q \in late' <=> q \in late)
      /\ late_session'[q] = late_session[q] /\ visited'[q] = visited[q]
      /\ after'[q] = after[q]
    BY <1>1 DEF SameCall
  <1>c. PICK c : c = cur[q] OBVIOUS
  <1> c # None => c \in Txns /\ Guards(q, c)
    BY <1>1, <1>c DEF ThreadTypes
  <1>5. Holds(q) => c # None /\ bind_lock[c] = q
    <2>1. Holds(q) => Works(q)
      BY DEF Works, Holds, Mutates, Commits, Mutating, Committing
    <2> QED BY <1>c, <2>1 DEF Shape, LockOK
  <1>6. Shape(q)'
    <2>1. q \in late' => late_session'[q] <= session'
      <3>1. late_session[q] \in Int /\ session \in Int /\ session <= session'
        BY SMT DEF ThreadTypes, SourceTypes, Relies
      <3>2. q \in late => late_session[q] <= session BY <1>c DEF Shape
      <3> QED BY <1>c, <3>1, <3>2, SMT
    <2>2. Shape(q) OBVIOUS
    <2>3. CASE pc'[q] = pc[q] BY <1>2, <1>c, <2>1, <2>2, <2>3 DEF Shape
    <2>4. CASE pc[q] = "commit_wait" /\ pc'[q] = "commit_fails"
      <3>1. q \notin late
        BY <2>2, <2>4 DEF Shape, Handling, Aborting
      <3>2. pc'[q] \notin Handling /\ pc'[q] \notin Downing /\ pc'[q] \notin Aborting
        BY <2>4 DEF Handling, Downing, Aborting
      <3> QED BY <1>2, <1>c, <2>2, <3>1, <3>2 DEF Shape
    <2> QED BY <1>1, <2>3, <2>4
  <1>7. Holds(q)' => bind_lock'[c] = q
    BY <1>2, <1>c, <1>5 DEF Guards
  <1>8. \A t \in Txns : bind_lock'[t] = q => Holds(q)' /\ c = t
    BY <1>c, <1>1, <1>2, <1>c DEF LockOK, Guards
  <1>9. HoldsRegistry(q)' <=> registry_lock' = q
    BY <1>c, <1>2 DEF LockOK, Relies
  <1>10. q \notin late' /\ c # None =>
            IF pc'[q] \in Closing THEN life'[c] \in {"released", "destroyed"}
                                  ELSE life'[c] = "open"
    <2>1. pc'[q] \in Closing <=> pc[q] \in Closing BY <1>1 DEF Closing
    <2> QED BY <1>c, <2>1 DEF LockOK, Guards
  <1>11. q \in late' /\ Commits(q)' => Linked(c)'
    BY <1>2, <1>c, <1>5 DEF Guards, Holds
  <1>12. pc'[q] \in FirstBinding => Virgin(c)' /\ (active' \/ Pending(c)')
    <2> SUFFICES ASSUME pc'[q] \in FirstBinding
                 PROVE  Virgin(c)' /\ (active' \/ Pending(c)')
      OBVIOUS
    <2>1. pc[q] \in FirstBinding BY <1>1 DEF FirstBinding
    <2>2. Holds(q) BY <2>1 DEF Holds, Mutates, Mutating, FirstBinding
    <2>3. Virgin(c) /\ (active \/ Pending(c)) BY <1>c, <2>1 DEF MutateOK
    <2>4. Guards(q, c) /\ bind_lock[c] = q BY <1>5, <2>2
    <2> QED BY <2>3, <2>4 DEF Guards
  <1>13. Mutates(q)' => audits'[c] = 0 /\ Len(mutation_log'[c]) < LogCapacity
    <2> SUFFICES ASSUME Mutates(q)
                 PROVE  audits'[c] = 0 /\ Len(mutation_log'[c]) < LogCapacity
      BY <1>2, <1>c
    <2>1. audits[c] = 0 /\ Len(mutation_log[c]) < LogCapacity
      BY <1>c DEF MutateOK
    <2>2. Guards(q, c) /\ bind_lock[c] = q BY <1>5 DEF Holds
    <2>3. audits'[c] = audits[c] /\ mutation_log'[c] = mutation_log[c]
      BY <2>2 DEF Guards
    <2> QED BY <2>1, <2>3
  <1>14. Commits(q)' => state'[c] # "UNBOUND"
    <2>1. Commits(q) => c # None BY <1>5 DEF Holds
    <2> QED BY <1>c, <1>2, <1>c, <2>1 DEF CommitOK, Guards
  <1>15. pc'[q] = "commit_wait" => \E r \in Slots : req_owner'[r] = q
    BY DEF Relies
  <1>16. pc'[q] = "final" /\ verdict'[q] = "ok" => effects'[c] = 1
    <2>1. pc'[q] = "final" => pc[q] = "final" BY <1>1
    <2>2. pc[q] = "final" => c # None BY <1>5 DEF Holds, Commits, Committing
    <2> QED BY <1>c, <2>1, <2>2 DEF CommitOK, Guards
  <1>17. Token(q)' => provider'[c] = "committed" /\ effects'[c] = 0
    <2>1. Token(q) => c # None
      BY <1>c DEF Shape, Works, Token, Handling, Committing
    <2> QED BY <1>c, <1>2, <1>c, <2>1 DEF CommitOK, Guards
  <1>18. pc'[q] = "late_walk" => c \notin visited'[q]
    <2>1. pc'[q] = "late_walk" => pc[q] = "late_walk" BY <1>1
    <2> QED BY <1>c, <2>1 DEF LateOK
  <1>19. pc'[q] \in {"late_release", "commit_release"} =>
            state'[c] \in Terminal /\ c \notin commit_in_flight'
    <2> SUFFICES ASSUME pc'[q] \in {"late_release", "commit_release"}
                 PROVE  state'[c] \in Terminal /\ c \notin commit_in_flight'
      BY <1>c
    <2>1. pc[q] \in {"late_release", "commit_release"} BY <1>1
    <2>2. c # None BY <1>c, <2>1 DEF Shape, Works, Handling, Committing
    <2>3. state[c] \in Terminal /\ c \notin commit_in_flight
      BY <1>c, <2>1 DEF LateOK
    <2>4. state[c] # "BOUND" BY <2>3 DEF Terminal
    <2> QED BY <2>2, <2>3, <2>4 DEF Guards
  <1>20. q \in late' /\ pc'[q] = "down_walk" /\ c \in visited'[q] =>
            state'[c] \in Terminal /\ ~Live(c)'
    <2> SUFFICES ASSUME q \in late, pc'[q] = "down_walk", c \in visited[q]
                 PROVE  state'[c] \in Terminal /\ ~Live(c)'
      BY <1>c
    <2>1. pc[q] = "down_walk" BY <1>1
    <2>2. c # None
      <3>1. visited[q] \subseteq Txns BY DEF ThreadTypes
      <3> QED BY <3>1, Constants
    <2>3. state[c] \in Terminal /\ ~Live(c) BY <1>c, <2>1 DEF LateOK
    <2>4. state[c] # "BOUND" BY <2>3 DEF Terminal
    <2>5. state'[c] = state[c]
      BY <2>2, <2>3 DEF Guards
    <2>6. c \in commit_in_flight' => c \in commit_in_flight
      BY <2>2, <2>4 DEF Guards
    <2> QED BY <2>3, <2>4, <2>5, <2>6 DEF Live
  <1>21. q \in late' /\ late_session'[q] < session' /\ c # None
            /\ Linked(c)' /\ Live(c)' => Pending(c)'
    BY <1>c DEF Guards
  <1>22. cur'[q] = c BY <1>c
  <1>23. /\ Virgin(cur[q])' <=> Virgin(c)'
         /\ Pending(cur[q])' <=> Pending(c)'
         /\ Live(cur[q])' <=> Live(c)'
    BY <1>22 DEF Virgin, Pending, Pends, Live
  <1>24. LockOK(q)' BY <1>7, <1>8, <1>9, <1>10, <1>11, <1>22 DEF LockOK
  <1>25. MutateOK(q)' BY <1>12, <1>13, <1>22, <1>23 DEF MutateOK
  <1>26. CommitOK(q)' BY <1>14, <1>15, <1>16, <1>17, <1>22 DEF CommitOK
  <1>27. LateOK(q)' BY <1>18, <1>19, <1>20, <1>21, <1>22, <1>23 DEF LateOK
  <1> QED BY <1>6, <1>24, <1>25, <1>26, <1>27 DEF ThreadOK

-----------------------------------------------------------------------------
(* Whoever holds a bind_lock holds it on a transaction the registry lists.  *)
LEMMA Facts ==
    ASSUME IndInv, NEW p \in Procs
    PROVE  /\ Shape(p) /\ LockOK(p) /\ MutateOK(p) /\ CommitOK(p) /\ LateOK(p)
           /\ TypeOK /\ TxnTypes /\ RegistryTypes /\ SourceTypes /\ RequestTypes
           /\ ThreadTypes /\ HistoryTypes
           /\ p # None /\ late \subseteq Procs
  <1>1. TypeOK /\ ThreadOK(p) BY DEF IndInv
  <1>2. /\ TxnTypes /\ RegistryTypes /\ SourceTypes /\ RequestTypes /\ ThreadTypes
        /\ HistoryTypes
    BY <1>1, TypeParts
  <1> QED BY <1>1, <1>2, Constants DEF ThreadOK, ThreadTypes

LEMMA HoldersWork ==
    ASSUME NEW q, Shape(q), Holds(q)
    PROVE  /\ Works(q) /\ pc[q] \notin Closing /\ cur[q] # None
           /\ q \in late => Commits(q) /\ ~Mutates(q)
  <1>1. Works(q) BY DEF Works, Holds, Mutates, Commits, Mutating, Committing
  <1>2. pc[q] \notin Closing
    BY DEF Holds, Mutates, Commits, Mutating, Committing, Closing, Downing
  <1>3. q \in late => ~Mutates(q)
    BY DEF Shape, Mutates, Mutating, Downing, Handling, Aborting
  <1> QED BY <1>1, <1>2, <1>3 DEF Shape, Holds

LEMMA HeldListed ==
    ASSUME IndInv, NEW t \in Txns, bind_lock[t] # None
    PROVE  Linked(t)
  <1>1. PICK q \in Procs : bind_lock[t] = q
    BY TypeParts DEF IndInv, TxnTypes
  <1>2. Shape(q) /\ LockOK(q) /\ TxnOK(t) BY DEF IndInv, ThreadOK
  <1>3. Holds(q) /\ cur[q] = t BY <1>1, <1>2 DEF LockOK
  <1>4. pc[q] \notin Closing /\ cur[q] # None /\ (q \in late => Commits(q))
    BY <1>2, <1>3, HoldersWork
  <1> QED BY <1>2, <1>3, <1>4 DEF LockOK, TxnOK

(* A transaction that a step does not touch.                                *)
Same(u) ==
    /\ life'[u] = life[u]
    /\ state'[u] = state[u]
    /\ u \in commit_in_flight' <=> u \in commit_in_flight
    /\ u \in timeout_abort_pending' <=> u \in timeout_abort_pending
    /\ u \in timer' <=> u \in timer
    /\ u \in audit_pending' <=> u \in audit_pending
    /\ audits'[u] = audits[u]
    /\ effects'[u] = effects[u]
    /\ provider'[u] = provider[u] \/ (provider[u] = "open" /\ provider'[u] = "none")
    /\ Linked(u)' <=> Linked(u)

LEMMA TxnKept ==
    ASSUME NEW u, TxnOK(u), Same(u),
           Virgin(u) => Virgin(u)',
           ~active' /\ Linked(u) /\ Live(u) => Pending(u)',
           Linked(u) /\ Live(u) /\ u \in commit_in_flight => Owned(u)',
           Freed(u) => Freed(u)'
    PROVE  TxnOK(u)'
  <1>1. Live(u)' <=> Live(u) BY DEF Live, Same
  <1>2. provider[u] = "committed" => provider'[u] = "committed"
    BY DEF Same
  <1> QED BY <1>1, <1>2 DEF TxnOK, Same

(* The parts the other threads play stay theirs.                            *)
LEMMA OthersPlay ==
    ASSUME NEW p, Alone(p), NEW u,
           Linked(u)' <=> Linked(u)
    PROVE  \A q \in Procs \ {p} :
              /\ Pends(q, u)' <=> Pends(q, u)
              /\ Charged(q, u)' <=> Charged(q, u)
              /\ Answers(q, u)' <=> Answers(q, u)
              /\ Frees(q, u)' <=> Frees(q, u)
              /\ Token(q)' <=> Token(q)
  <1> SUFFICES ASSUME NEW q \in Procs \ {p}
               PROVE  /\ Pends(q, u)' <=> Pends(q, u)
                      /\ Charged(q, u)' <=> Charged(q, u)
                      /\ Answers(q, u)' <=> Answers(q, u)
                      /\ Frees(q, u)' <=> Frees(q, u)
                      /\ Token(q)' <=> Token(q)
    OBVIOUS
  <1>1. pc'[q] = pc[q] /\ SameCall(q) BY DEF Alone
  <1>2. (Commits(q)' <=> Commits(q)) /\ (Token(q)' <=> Token(q)) BY <1>1, RolesSame
  <1> QED BY <1>1, <1>2 DEF SameCall, Pends, Charged, Answers, Frees

LEMMA OwnedBy ==
    ASSUME late \subseteq Procs, NEW u
    PROVE  Owned(u) <=> \/ \E r \in Slots : req_txn[r] = u /\ req_owner[r] = None
                        \/ \E q \in Procs : Answers(q, u)
                        \/ Pending(u)
                        \/ \E q \in Procs : Charged(q, u)
  BY DEF Owned, CommitOutstanding, Answers, Pending, Pends

LEMMA OwnedByNext ==
    ASSUME late' \subseteq Procs, NEW u
    PROVE  Owned(u)' <=> \/ \E r \in Slots : req_txn'[r] = u /\ req_owner'[r] = None
                         \/ \E q \in Procs : Answers(q, u)'
                         \/ Pending(u)'
                         \/ \E q \in Procs : Charged(q, u)'
  BY DEF Owned, CommitOutstanding, Answers, Pending, Pends

(* The parts thread p plays for u and does not give up, unless somebody     *)
(* else has them.                                                           *)
Stays(p, u) ==
    /\ Linked(u) /\ Pends(p, u) => Pends(p, u)'
    /\ Linked(u) /\ Live(u) /\ u \in commit_in_flight =>
          /\ Charged(p, u) => Charged(p, u)' \/ Pending(u)'
          /\ Answers(p, u) => Answers(p, u)' \/ Pending(u)'
    /\ Answers(p, u)' => Answers(p, u)
    /\ Frees(p, u) => Frees(p, u)'

LEMMA RolesStay ==
    ASSUME NEW p, Alone(p), NEW u,
           late \subseteq Procs, late' \subseteq Procs,
           Linked(u)' <=> Linked(u),
           Stays(p, u), req_txn' = req_txn, req_owner' = req_owner
    PROVE  /\ Linked(u) /\ Pending(u) => Pending(u)'
           /\ Linked(u) /\ Live(u) /\ u \in commit_in_flight /\ Owned(u) => Owned(u)'
           /\ Freed(u) => Freed(u)'
           /\ \A q \in Procs : Answers(q, u)' => Answers(q, u)
  <1>1. \A q \in Procs \ {p} :
              /\ Pends(q, u)' <=> Pends(q, u)
              /\ Charged(q, u)' <=> Charged(q, u)
              /\ Answers(q, u)' <=> Answers(q, u)
              /\ Frees(q, u)' <=> Frees(q, u)
    BY OthersPlay
  <1>2. Linked(u) /\ Pending(u) => Pending(u)'
    BY <1>1 DEF Pending, Stays
  <1>3. ASSUME Linked(u), Live(u), u \in commit_in_flight, Owned(u)
        PROVE  Owned(u)'
    <2>1. CASE \E r \in Slots : req_txn[r] = u /\ req_owner[r] = None
      BY <2>1, OwnedByNext
    <2>2. CASE \E q \in Procs : Answers(q, u)
      BY <1>1, <1>3, <2>2, OwnedByNext DEF Stays
    <2>3. CASE Pending(u) BY <1>2, <1>3, <2>3, OwnedByNext
    <2>4. CASE \E q \in Procs : Charged(q, u)
      BY <1>1, <1>3, <2>4, OwnedByNext DEF Stays
    <2> QED BY <1>3, <2>1, <2>2, <2>3, <2>4, OwnedBy
  <1>4. Freed(u) => Freed(u)' BY <1>1 DEF Freed, Stays
  <1>5. \A q \in Procs : Answers(q, u)' => Answers(q, u) BY <1>1 DEF Stays
  <1> QED BY <1>2, <1>3, <1>4, <1>5

LEMMA VirginStays ==
    ASSUME NEW u, late \subseteq Procs, late' \subseteq Procs,
           \A q \in Procs : Answers(q, u)' => Answers(q, u),
           req_txn' = req_txn, u \in commit_in_flight' <=> u \in commit_in_flight,
           provider'[u] = provider[u] \/ (provider[u] = "open" /\ provider'[u] = "none")
    PROVE  Virgin(u) => Virgin(u)'
  <1>1. provider[u] # "committed" => provider'[u] # "committed" OBVIOUS
  <1> QED BY <1>1 DEF Virgin, Answers

-----------------------------------------------------------------------------
(* A step that moves one thread and, of the rest, changes only the locks    *)
(* the thread takes or gives up and what the source still has open.         *)
OwnLocks(p) ==
    /\ \A t \in Txns : \/ bind_lock'[t] = bind_lock[t]
                       \/ bind_lock[t] \in {None, p} /\ bind_lock'[t] \in {None, p}
    /\ \/ registry_lock' = registry_lock
       \/ registry_lock \in {None, p} /\ registry_lock' \in {None, p}

restVars == <<flagVars, mutation_log, audit_pending, registry, active, session,
              req_txn, req_owner, req_status, effects, audits>>

OnlyOpenForgotten ==
    \A u \in Txns : \/ provider'[u] = provider[u]
                    \/ provider[u] = "open" /\ provider'[u] = "none"

(* What the other threads know of a transaction that a step does not touch. *)
Untouched(p, u) == Same(u) /\ mutation_log'[u] = mutation_log[u] /\ Stays(p, u)

LEMMA GuardsKept ==
    ASSUME IndInv, NEW p, Alone(p), OwnLocks(p), NEW u \in Txns, Untouched(p, u),
           active' = active, session' = session, req_txn' = req_txn, req_owner' = req_owner,
           late' \subseteq Procs, NEW q \in Procs \ {p}
    PROVE  Guards(q, u)
  <1> Same(u) /\ mutation_log'[u] = mutation_log[u] /\ Stays(p, u) BY DEF Untouched
  <1> LateOK(q) /\ late \subseteq Procs /\ q # None /\ q # p BY Facts
  <1>2. bind_lock'[u] = q <=> bind_lock[u] = q BY DEF OwnLocks
  <1>3. Linked(u)' <=> Linked(u) BY DEF Same
  <1> /\ Linked(u) /\ Pending(u) => Pending(u)'
      /\ \A r \in Procs : Answers(r, u)' => Answers(r, u)
    BY <1>3, RolesStay
  <1>5. Virgin(u) => Virgin(u)' BY VirginStays DEF Same
  <1>6. bind_lock[u] = q => Linked(u) BY HeldListed
  <1>7. provider[u] = "committed" => provider'[u] = "committed" BY DEF Same
  <1>8. ASSUME q \in late, cur[q] = u, late_session[q] < session', Linked(u)', Live(u)'
        PROVE  Pending(u)'
    <2>1. Live(u) BY <1>8 DEF Live, Same
    <2>2. cur[q] # None BY <1>8, Constants
    <2>3. Pending(u) BY <1>3, <1>8, <2>1, <2>2 DEF LateOK
    <2> QED BY <1>3, <1>8, <2>3
  <1> QED BY <1>2, <1>3, <1>5, <1>6, <1>7, <1>8 DEF Guards, Same

LEMMA UntouchedOK ==
    ASSUME IndInv, NEW p, Alone(p), NEW u \in Txns, Untouched(p, u),
           active' = active, req_txn' = req_txn, req_owner' = req_owner,
           late' \subseteq Procs
    PROVE  TxnOK(u)'
  <1> Same(u) /\ Stays(p, u) BY DEF Untouched
  <1> TxnOK(u) /\ late \subseteq Procs BY DEF IndInv, TypeOK
  <1>2. Linked(u)' <=> Linked(u) BY DEF Same
  <1> /\ Linked(u) /\ Pending(u) => Pending(u)'
      /\ Linked(u) /\ Live(u) /\ u \in commit_in_flight /\ Owned(u) => Owned(u)'
      /\ Freed(u) => Freed(u)'
      /\ \A q \in Procs : Answers(q, u)' => Answers(q, u)
    BY <1>2, RolesStay
  <1>4. Virgin(u) => Virgin(u)' BY VirginStays DEF Same
  <1>5. ~active' /\ Linked(u) /\ Live(u) => Pending(u)' BY DEF TxnOK
  <1>6. Linked(u) /\ Live(u) /\ u \in commit_in_flight => Owned(u)'
    BY DEF TxnOK
  <1> QED BY <1>4, <1>5, <1>6, TxnKept

LEMMA SlotsStay ==
    ASSUME IndInv, NEW p, Alone(p), p \in Procs => pc[p] # "commit_wait",
           UNCHANGED <<req_txn, req_owner, req_status>>,
           \A u \in Txns : provider[u] = "committed" => provider'[u] = "committed",
           \A r \in Slots : req_status[r] = "ok" => effects'[req_txn[r]] = effects[req_txn[r]],
           Token(p)' => Token(p) /\ cur'[p] = cur[p]
    PROVE  (\A r \in Slots : SlotOK(r)') /\ OneToken'
  <1> req_txn' = req_txn /\ req_owner' = req_owner /\ req_status' = req_status
    OBVIOUS
  <1> /\ \A r \in Slots : SlotOK(r)
      /\ OneToken /\ RequestTypes
    BY TypeParts DEF IndInv
  <1>2. \A q \in Procs \ {p} : pc'[q] = pc[q] /\ SameCall(q) BY DEF Alone
  <1>3. \A q \in Procs \ {p} : cur'[q] = cur[q] /\ (Token(q)' <=> Token(q))
    BY <1>2, RolesSame DEF SameCall
  <1>4. ASSUME NEW r \in Slots PROVE SlotOK(r)'
    <2>1. SlotOK(r) OBVIOUS
    <2>2. req_owner[r] # None => req_owner[r] \in Procs \ {p}
      <3>1. req_owner[r] # None => req_owner[r] \in Procs /\ pc[req_owner[r]] = "commit_wait"
        BY <2>1 DEF RequestTypes, SlotOK
      <3> QED BY <3>1
    <2>3. req_owner[r] # None =>
             /\ pc'[req_owner[r]] = "commit_wait"
             /\ cur'[req_owner[r]] = req_txn[r]
      BY <1>2, <1>3, <2>1, <2>2 DEF SlotOK
    <2>4. ASSUME req_status[r] = "ok"
          PROVE  provider'[req_txn[r]] = "committed" /\ effects'[req_txn[r]] = 0
      <3> provider[req_txn[r]] = "committed" /\ effects[req_txn[r]] = 0 /\ req_txn[r] # None
        BY <2>1, <2>4, Constants DEF SlotOK
      <3>2. req_txn[r] \in Txns BY DEF RequestTypes
      <3>3. provider'[req_txn[r]] = "committed"
        BY <3>2
      <3> QED BY <2>4, <3>3
    <2>5. /\ req_status[r] = None <=> req_txn[r] = None
          /\ req_txn[r] = None => req_owner[r] = None
          /\ req_owner[r] # None => \A s \in Slots : req_owner[s] = req_owner[r] => s = r
      BY <2>1 DEF SlotOK
    <2> QED BY <2>3, <2>4, <2>5 DEF SlotOK
  <1>5. \A q \in Procs : Token(q)' => Token(q) /\ cur'[q] = cur[q] BY <1>3
  <1>6. OneToken'
    <2>1. ASSUME NEW q \in Procs, NEW r \in Procs, Token(q)', Token(r)', cur'[q] = cur'[r]
          PROVE  q = r
      <3>1. Token(q) /\ Token(r) /\ cur[q] = cur[r] BY <1>5, <2>1
      <3> QED BY <3>1 DEF OneToken
    <2>2. ASSUME NEW q \in Procs, NEW r \in Slots, Token(q)', req_status'[r] = "ok"
          PROVE  cur'[q] # req_txn'[r]
      <3>1. Token(q) /\ cur'[q] = cur[q] BY <1>5, <2>2
      <3> QED BY <2>2, <3>1 DEF OneToken
    <2>3. ASSUME NEW r \in Slots, NEW s \in Slots, req_status'[r] = "ok",
                 req_status'[s] = "ok", req_txn'[r] = req_txn'[s]
          PROVE  r = s
      <3>1. req_status[r] = "ok" /\ req_status[s] = "ok" /\ req_txn[r] = req_txn[s]
        BY <2>3
      <3> QED BY <3>1 DEF OneToken
    <2> QED BY <2>1, <2>2, <2>3 DEF OneToken
  <1> QED BY <1>4, <1>6

(* A step of p, or of none of the threads: the transactions it touches are  *)
(* accounted for one by one.                                                *)
Handled(p, u) == TxnOK(u)' /\ \A q \in Procs \ {p} : Guards(q, u)

LEMMA Touch ==
    ASSUME IndInv, TypeOK', NEW p, Alone(p), OwnLocks(p),
           p \in Procs => ThreadOK(p)' /\ pc[p] # "commit_wait",
           Token(p)' => Token(p) /\ cur'[p] = cur[p],
           \A u \in Txns : Untouched(p, u) \/ Handled(p, u),
           UNCHANGED <<active, session, req_txn, req_owner, req_status>>,
           \A u \in Txns : provider[u] = "committed" => provider'[u] = "committed",
           \A r \in Slots : req_status[r] = "ok" => effects'[req_txn[r]] = effects[req_txn[r]],
           Listed'
    PROVE  IndInv'
  <1>0. /\ active' = active /\ session' = session /\ req_txn' = req_txn
        /\ req_owner' = req_owner /\ req_status' = req_status
    OBVIOUS
  <1>1. late \subseteq Procs /\ late' \subseteq Procs BY DEF IndInv, TypeOK
  <1>2. session \in Int /\ session' \in Int /\ session <= session'
    <2>1. SourceTypes BY TypeParts DEF IndInv
    <2>2. session \in Int BY <2>1, SMT DEF SourceTypes
    <2> QED BY <1>0, <2>2, SMT
  <1>3. ASSUME NEW q \in Procs \ {p} PROVE ThreadOK(q)'
    <2>1. pc'[q] = pc[q] /\ SameCall(q) BY DEF Alone
    <2>2. CommitOK(q) /\ q # None /\ q # p BY Facts
    <2>3. registry_lock' = q <=> registry_lock = q BY <2>2 DEF OwnLocks
    <2>4. pc'[q] = "commit_wait" => \E r \in Slots : req_owner'[r] = q
      BY <1>0, <2>1, <2>2 DEF CommitOK
    <2>5. \A u \in Txns : Guards(q, u) BY <1>0, <1>1, GuardsKept DEF Handled
    <2>6. Relies(q) BY <1>2, <2>1, <2>3, <2>4, <2>5 DEF Relies
    <2> QED BY <1>2, <2>6, RelyKeeps
  <1>4. \A q \in Procs : ThreadOK(q)' BY <1>3
  <1>5. \A u \in Txns : TxnOK(u)' BY <1>0, <1>1, UntouchedOK DEF Handled
  <1>6. (\A r \in Slots : SlotOK(r)') /\ OneToken' BY <1>0, SlotsStay
  <1> QED BY <1>4, <1>5, <1>6 DEF IndInv

LEMMA Move ==
    ASSUME IndInv, TypeOK', NEW p \in Procs, Alone(p), ThreadOK(p)',
           OwnLocks(p), OnlyOpenForgotten, UNCHANGED restVars,
           pc[p] # "commit_wait", Token(p)' => Token(p) /\ cur'[p] = cur[p],
           \A u \in Txns : Stays(p, u)
    PROVE  IndInv'
  <1>0. /\ life' = life /\ state' = state /\ commit_in_flight' = commit_in_flight
        /\ timeout_abort_pending' = timeout_abort_pending /\ timer' = timer
        /\ audit_pending' = audit_pending /\ registry' = registry
        /\ mutation_log' = mutation_log /\ effects' = effects /\ audits' = audits
        /\ UNCHANGED <<active, session, req_txn, req_owner, req_status>>
    BY DEF restVars, flagVars
  <1>1. ASSUME NEW u \in Txns PROVE Untouched(p, u)
    <2>1. Linked(u)' <=> Linked(u) BY <1>0 DEF Linked
    <2>2. Same(u) BY <1>0, <2>1 DEF Same, OnlyOpenForgotten
    <2> QED BY <1>0, <2>2 DEF Untouched
  <1>2. \A u \in Txns : provider[u] = "committed" => provider'[u] = "committed"
    BY DEF OnlyOpenForgotten
  <1>3. Listed' BY <1>0 DEF IndInv, Listed
  <1> QED BY <1>0, <1>1, <1>2, <1>3, Touch

-----------------------------------------------------------------------------
(* What a thread has to know where it is after its step.                    *)
LEMMA IdleOK ==
    ASSUME NEW p, Idle(p)', \A t \in Txns : bind_lock'[t] # p, registry_lock' # p
    PROVE  ThreadOK(p)'
  <1> /\ pc'[p] \notin Closing \cup Calling \cup Mutating \cup Committing \cup Handling
      /\ pc'[p] \notin Downing /\ pc'[p] \notin Aborting /\ pc'[p] \notin Walking
      /\ pc'[p] \notin FirstBinding
      /\ pc'[p] \notin {"commit_wait", "final", "late_lock", "late_walk", "apply",
                        "late_release", "commit_release", "down_walk"}
      /\ p \notin late' /\ cur'[p] = None
    BY DEF Idle, Closing, Calling, Mutating, Committing, Handling, Downing, Aborting,
           Walking, FirstBinding
  <1>2. ~Mutates(p)' /\ ~Commits(p)' BY DEF Mutates, Commits
  <1> ~Holds(p)' /\ ~HoldsRegistry(p)' /\ ~Works(p)' /\ ~Token(p)'
    BY <1>2 DEF Holds, HoldsRegistry, Works, Token
  <1>4. Shape(p)' BY DEF Shape
  <1>5. LockOK(p)' BY DEF LockOK
  <1>6. MutateOK(p)' BY <1>2 DEF MutateOK
  <1>7. CommitOK(p)' BY <1>2 DEF CommitOK
  <1>8. LateOK(p)' BY DEF LateOK
  <1> QED BY <1>4, <1>5, <1>6, <1>7, <1>8 DEF ThreadOK

LEMMA CallingOK ==
    ASSUME NEW p, pc'[p] \in Calling, p \notin late', cur'[p] # None,
           life'[cur'[p]] = "open", \A t \in Txns : bind_lock'[t] # p, registry_lock' # p
    PROVE  ThreadOK(p)'
  <1> /\ pc'[p] \notin Mutating \cup Committing \cup Handling
      /\ pc'[p] \notin Closing /\ pc'[p] \notin Downing /\ pc'[p] \notin Aborting
      /\ pc'[p] \notin Walking /\ pc'[p] \notin FirstBinding
      /\ pc'[p] \notin {"commit_wait", "final", "late_lock", "late_walk", "apply",
                        "late_release", "commit_release", "down_walk"}
    BY DEF Closing, Calling, Mutating, Committing, Handling, Downing, Aborting,
           Walking, FirstBinding
  <1>2. ~Mutates(p)' /\ ~Commits(p)' BY DEF Mutates, Commits
  <1>3. ~Holds(p)' /\ ~HoldsRegistry(p)' /\ ~Token(p)'
    BY <1>2 DEF Holds, HoldsRegistry, Token
  <1>4. Shape(p)' BY DEF Shape
  <1>5. LockOK(p)' BY <1>3 DEF LockOK
  <1>6. MutateOK(p)' BY <1>2 DEF MutateOK
  <1>7. CommitOK(p)' BY <1>2, <1>3 DEF CommitOK
  <1>8. LateOK(p)' BY DEF LateOK
  <1> QED BY <1>4, <1>5, <1>6, <1>7, <1>8 DEF ThreadOK

LEMMA MutatingOK ==
    ASSUME NEW p, pc'[p] \in Mutating, p \notin late', NEW t, cur'[p] = t, t # None,
           life'[t] = "open", bind_lock'[t] = p,
           \A u \in Txns : bind_lock'[u] = p => u = t, registry_lock' # p,
           pc'[p] \in FirstBinding => Virgin(t)' /\ (active' \/ Pending(t)'),
           audits'[t] = 0, Len(mutation_log'[t]) < LogCapacity
    PROVE  ThreadOK(p)'
  <1> /\ pc'[p] \notin Committing /\ pc'[p] \notin Handling
      /\ pc'[p] \notin Closing /\ pc'[p] \notin Downing /\ pc'[p] \notin Aborting
      /\ pc'[p] \notin Walking
      /\ pc'[p] \notin {"commit_wait", "final", "late_lock", "late_walk", "apply",
                        "late_release", "commit_release", "down_walk"}
    BY DEF Closing, Mutating, Committing, Handling, Downing, Aborting, Walking
  <1>2. Mutates(p)' /\ ~Commits(p)' BY DEF Mutates, Commits
  <1>3. Holds(p)' /\ ~HoldsRegistry(p)' /\ ~Token(p)'
    BY <1>2 DEF Holds, HoldsRegistry, Token
  <1>4. Shape(p)' BY DEF Shape
  <1>5. LockOK(p)' BY <1>3 DEF LockOK
  <1>6. MutateOK(p)'
    <2>1. (Virgin(cur[p])' <=> Virgin(t)') /\ (Pending(cur[p])' <=> Pending(t)')
      BY DEF Virgin, Pending, Pends
    <2> QED BY <2>1 DEF MutateOK
  <1>7. CommitOK(p)' BY <1>2, <1>3 DEF CommitOK
  <1>8. LateOK(p)' BY DEF LateOK
  <1> QED BY <1>4, <1>5, <1>6, <1>7, <1>8 DEF ThreadOK

LEMMA CommittingOK ==
    ASSUME NEW p, pc'[p] \in Committing, p \notin late', NEW t, cur'[p] = t, t # None,
           life'[t] = "open", bind_lock'[t] = p,
           \A u \in Txns : bind_lock'[u] = p => u = t, registry_lock' # p,
           CommitOK(p)',
           pc'[p] = "commit_release" => state'[t] \in Terminal /\ t \notin commit_in_flight'
    PROVE  ThreadOK(p)'
  <1> /\ pc'[p] \notin Mutating /\ pc'[p] \notin Handling
      /\ pc'[p] \notin Closing /\ pc'[p] \notin Downing /\ pc'[p] \notin Aborting
      /\ pc'[p] \notin Walking /\ pc'[p] \notin FirstBinding
      /\ pc'[p] \notin {"late_walk", "late_release", "down_walk"}
    BY DEF Closing, Mutating, Committing, Handling, Downing, Aborting, Walking, FirstBinding
  <1>2. ~Mutates(p)' /\ Commits(p)' BY DEF Mutates, Commits
  <1>3. Holds(p)' /\ ~HoldsRegistry(p)'
    BY <1>2 DEF Holds, HoldsRegistry
  <1>4. Shape(p)' BY DEF Shape
  <1>5. LockOK(p)' BY <1>3 DEF LockOK
  <1>6. MutateOK(p)' BY <1>2 DEF MutateOK
  <1>8. LateOK(p)' BY DEF LateOK
  <1> QED BY <1>4, <1>5, <1>6, <1>8 DEF ThreadOK

LEMMA CallerStays ==
    ASSUME NEW p, p \notin late, p \notin late', Shape(p),
           pc[p] \notin Downing, pc[p] \notin Closing,
           Commits(p) => Commits(p)' /\ cur'[p] = cur[p]
    PROVE  \A u \in Txns : Stays(p, u)
  <1>1. pc[p] # "down_lock" /\ pc[p] # "down_walk" /\ pc[p] # "late_release"
    BY DEF Shape, Downing, Handling
  <1> QED BY <1>1 DEF Stays, Pends, Charged, Answers, Frees

LEMMA MoveTypes ==
    ASSUME TypeOK, UNCHANGED restVars, staged' = staged, ThreadTypes',
           bound_count' \in 0..Cap,
           provider' \in [Txns -> {"none", "open", "committed"}],
           bind_lock' \in [Txns -> Procs \cup {None}], registry_lock' \in Procs \cup {None}
    PROVE  TypeOK'
  <1> /\ life' = life /\ state' = state /\ commit_in_flight' = commit_in_flight
      /\ timeout_abort_pending' = timeout_abort_pending /\ timer' = timer
      /\ mutation_log' = mutation_log
      /\ audit_pending' = audit_pending /\ registry' = registry
      /\ active' = active /\ req_txn' = req_txn /\ session' = session
      /\ req_owner' = req_owner /\ req_status' = req_status
      /\ effects' = effects /\ audits' = audits
    BY DEF restVars, flagVars
  <1> /\ TxnTypes /\ RegistryTypes /\ SourceTypes /\ RequestTypes /\ HistoryTypes
    BY TypeParts
  <1>3. TxnTypes' BY DEF TxnTypes
  <1>4. RegistryTypes' BY DEF RegistryTypes
  <1>5. SourceTypes' BY DEF SourceTypes
  <1>6. RequestTypes' BY DEF RequestTypes
  <1>7. HistoryTypes' BY DEF HistoryTypes
  <1> QED BY <1>3, <1>4, <1>5, <1>6, <1>7, TypeParts

(* The locks, the count and what the source has open as they were.          *)
LEMMA Unmoved ==
    ASSUME IndInv, NEW p \in Procs, Alone(p), ThreadTypes', ThreadOK(p)',
           UNCHANGED <<txnVars, registryVars, sourceVars, requestVars, historyVars>>,
           pc[p] # "commit_wait", Token(p)' => Token(p) /\ cur'[p] = cur[p],
           \A u \in Txns : Stays(p, u)
    PROVE  IndInv'
  <1>1. UNCHANGED restVars /\ staged' = staged
    BY DEF restVars, txnVars, flagVars, registryVars, sourceVars, requestVars,
                 historyVars
  <1>2. /\ bound_count' = bound_count /\ provider' = provider /\ bind_lock' = bind_lock
        /\ registry_lock' = registry_lock
    BY DEF txnVars, registryVars, sourceVars
  <1>3. TypeOK' BY <1>1, <1>2, MoveTypes DEF IndInv, TypeOK
  <1>4. OwnLocks(p) /\ OnlyOpenForgotten BY <1>2 DEF OwnLocks, OnlyOpenForgotten
  <1> QED BY <1>1, <1>3, <1>4, Move

-----------------------------------------------------------------------------
(* The steps that only move their thread, one by one.                       *)
(* Labels at which a thread has no lock; labels of callers only.            *)
LEMMA NoLocks ==
    ASSUME NEW p, LockOK(p),
           pc[p] \in {"idle", "late_lock", "late_release", "abort_lock"} \cup Calling \cup Closing
    PROVE  (\A t \in Txns : bind_lock[t] # p) /\ registry_lock # p
  <1>1. ~Holds(p) /\ ~HoldsRegistry(p)
    BY DEF Holds, HoldsRegistry, Mutates, Commits, Mutating, Committing, Downing, Walking,
           Calling, Closing
  <1> QED BY <1>1 DEF LockOK

LEMMA CallersLabels ==
    ASSUME NEW p, Shape(p),
           pc[p] \in {"idle", "commit_send", "commit_wait", "commit_fails", "commit_release"}
                     \cup Closing \cup Calling \cup Mutating
    PROVE  p \notin late /\ pc[p] \notin Downing /\ pc[p] \notin Handling
  BY DEF Shape, Closing, Calling, Mutating, Downing, Aborting, Handling

LEMMA CallerHas ==
    ASSUME NEW p \in Procs, ThreadTypes, Shape(p), LockOK(p), p \notin late, Works(p)
    PROVE  /\ cur[p] \in Txns /\ cur[p] # None
           /\ pc[p] \notin Closing => life[cur[p]] = "open"
  <1>1. cur[p] # None BY DEF Shape
  <1> QED BY <1>1 DEF LockOK, ThreadTypes

LEMMA CallsOn ==
    ASSUME IndInv, NEW p \in Procs, pc[p] \in Calling, NEW label \in Calling,
           Goto(p, label), UNCHANGED callVars,
           UNCHANGED <<txnVars, registryVars, sourceVars, requestVars, historyVars>>
    PROVE  IndInv'
  <1> Shape(p) /\ LockOK(p) /\ ThreadTypes BY Facts
  <1>2. label \in Labels BY DEF Calling, Labels
  <1> ThreadTypes' /\ Alone(p) /\ SameCall(p) /\ pc'[p] = label
    BY <1>2, Went
  <1> p \notin late /\ p \notin late' /\ cur'[p] = cur[p]
    BY CallersLabels DEF SameCall
  <1>5. (\A t \in Txns : bind_lock'[t] # p) /\ registry_lock' # p
    BY NoLocks DEF txnVars, registryVars
  <1> Works(p) /\ pc[p] \notin Closing /\ pc[p] \notin Downing /\ ~Commits(p)
      /\ pc[p] # "commit_wait"
    BY DEF Works, Calling, Closing, Downing, Commits, Committing
  <1>7. cur[p] # None /\ life'[cur[p]] = "open"
    BY CallerHas DEF txnVars, flagVars
  <1>8. ThreadOK(p)' BY <1>5, <1>7, CallingOK
  <1>9. \A u \in Txns : Stays(p, u) BY CallerStays
  <1>10. ~Token(p)' BY DEF Token, Calling
  <1> QED BY <1>8, <1>9, <1>10, Unmoved

LEMMA CommitRefusedKeeps ==
    ASSUME IndInv, NEW p \in Procs, CommitRefused(p)
    PROVE  IndInv'
  <1>1. pc[p] \in Calling /\ "commit_audit" \in Calling BY DEF CommitRefused, Calling
  <1> QED BY <1>1, CallsOn DEF CommitRefused

LEMMA StartsCall ==
    ASSUME IndInv, NEW p \in Procs, NEW t \in Txns, pc[p] = "idle", life[t] = "open",
           NEW label \in Calling, Goto(p, label), cur' = [cur EXCEPT ![p] = t],
           UNCHANGED <<verdict, late, late_session, visited, layer, after>>,
           UNCHANGED <<txnVars, registryVars, sourceVars, requestVars, historyVars>>
    PROVE  IndInv'
  <1> Shape(p) /\ LockOK(p) /\ ThreadTypes BY Facts
  <1>2. label \in Labels BY DEF Calling, Labels
  <1> /\ pc' = [pc EXCEPT ![p] = label] /\ cur' = [cur EXCEPT ![p] = t]
      /\ verdict' = verdict /\ late' = late /\ late_session' = late_session
      /\ visited' = visited /\ layer' = layer /\ after' = after
      /\ life' = life /\ bind_lock' = bind_lock /\ registry_lock' = registry_lock
    BY DEF Goto, txnVars, flagVars, registryVars
  <1>4. ThreadTypes' BY <1>2 DEF ThreadTypes
  <1>5. Alone(p) BY DEF ThreadTypes, Alone, SameCall
  <1>6. pc'[p] = label /\ cur'[p] = t /\ t # None
    BY Constants DEF ThreadTypes
  <1>7. p \notin late /\ pc[p] \notin Downing BY CallersLabels
  <1>8. (\A u \in Txns : bind_lock[u] # p) /\ registry_lock # p
    BY NoLocks
  <1>9. ThreadOK(p)' BY <1>6, <1>7, <1>8, CallingOK
  <1>10. pc[p] \notin Closing /\ ~Commits(p) /\ pc[p] # "commit_wait"
    BY DEF Closing, Commits, Committing, Downing
  <1>11. \A u \in Txns : Stays(p, u) BY <1>7, <1>10, CallerStays
  <1>12. ~Token(p)' BY <1>6 DEF Token, Calling
  <1> QED BY <1>4, <1>5, <1>9, <1>10, <1>11, <1>12, Unmoved

LEMMA StartsKeep ==
    ASSUME IndInv, NEW p \in Procs, NEW t \in Txns, MutateStart(p, t) \/ CommitStart(p, t)
    PROVE  IndInv'
  <1>1. "mutate_lock" \in Calling /\ "commit_lock" \in Calling BY DEF Calling
  <1>2. CASE MutateStart(p, t) BY <1>1, <1>2, StartsCall DEF MutateStart
  <1>3. CASE CommitStart(p, t) BY <1>1, <1>3, StartsCall DEF CommitStart
  <1> QED BY <1>2, <1>3

LEMMA MutatesOn ==
    ASSUME IndInv, NEW p \in Procs, pc[p] \in Mutating, NEW label \in Mutating \ FirstBinding,
           Goto(p, label), UNCHANGED callVars,
           UNCHANGED <<txnVars, registryVars, sourceVars, requestVars, historyVars>>
    PROVE  IndInv'
  <1> Shape(p) /\ LockOK(p) /\ MutateOK(p) /\ ThreadTypes BY Facts
  <1> label \in Labels /\ label \in Mutating /\ label \notin FirstBinding
    BY DEF Mutating, Labels
  <1> ThreadTypes' /\ Alone(p) /\ SameCall(p) /\ pc'[p] = label
    BY Went
  <1> p \notin late /\ p \notin late' /\ cur'[p] = cur[p] /\ pc[p] \notin Downing
    BY CallersLabels DEF SameCall
  <1>5. /\ bind_lock' = bind_lock /\ registry_lock' = registry_lock /\ life' = life
        /\ audits' = audits /\ mutation_log' = mutation_log
    BY DEF txnVars, flagVars, registryVars, historyVars
  <1> /\ Works(p) /\ pc[p] \notin Closing /\ Mutates(p) /\ Holds(p) /\ ~Commits(p)
      /\ ~HoldsRegistry(p) /\ pc[p] # "commit_wait"
    BY DEF Works, Mutating, Closing, Downing, Commits, Committing, Mutates, Holds,
           HoldsRegistry, Walking
  <1>7. PICK t : t = cur[p] /\ t # None /\ life[t] = "open"
    BY CallerHas
  <1>8. /\ bind_lock[t] = p /\ (\A u \in Txns : bind_lock[u] = p => u = t)
        /\ registry_lock # p
    BY <1>7 DEF LockOK
  <1>9. audits[t] = 0 /\ Len(mutation_log[t]) < LogCapacity
    BY <1>7 DEF MutateOK
  <1>10. ThreadOK(p)'
    BY <1>5, <1>7, <1>8, <1>9, MutatingOK
  <1>11. \A u \in Txns : Stays(p, u) BY CallerStays
  <1>12. ~Token(p)' BY DEF Token, Mutating
  <1> QED BY <1>10, <1>11, <1>12, Unmoved

LEMMA MutationsKeep ==
    ASSUME IndInv, NEW p \in Procs, MutateApplied(p) \/ MutateFails(p) \/ MutateTouched(p)
    PROVE  IndInv'
  <1>1. /\ "mutate_touch" \in Mutating \ FirstBinding /\ "mutate_log" \in Mutating \ FirstBinding
        /\ "mutate_cancel" \in Mutating \ FirstBinding
        /\ "mutate_op" \in Mutating /\ "mutate_touch" \in Mutating
    BY DEF Mutating, FirstBinding
  <1>2. CASE MutateApplied(p) BY <1>1, <1>2, MutatesOn DEF MutateApplied
  <1>3. CASE MutateFails(p) BY <1>1, <1>3, MutatesOn DEF MutateFails
  <1>4. CASE MutateTouched(p) BY <1>1, <1>4, MutatesOn DEF MutateTouched
  <1> QED BY <1>2, <1>3, <1>4

LEMMA Moved ==
    ASSUME IndInv, NEW p \in Procs, Alone(p), ThreadTypes', ThreadOK(p)',
           UNCHANGED restVars, staged' = staged, OwnLocks(p), OnlyOpenForgotten,
           bound_count' \in 0..Cap,
           provider' \in [Txns -> {"none", "open", "committed"}],
           bind_lock' \in [Txns -> Procs \cup {None}], registry_lock' \in Procs \cup {None},
           pc[p] # "commit_wait", Token(p)' => Token(p) /\ cur'[p] = cur[p],
           \A u \in Txns : Stays(p, u)
    PROVE  IndInv'
  <1>1. TypeOK' BY MoveTypes DEF IndInv
  <1> QED BY <1>1, Move

LEMMA CountReleased ==
    ASSUME SourceTypes, BoundRelease
    PROVE  bound_count' \in 0..Cap
  <1>1. Cap \in Nat BY Constants
  <1> QED BY <1>1, SMT DEF SourceTypes, BoundRelease

LEMMA ProviderAborted ==
    ASSUME SourceTypes, NEW t, ProviderAbort(t)
    PROVE  provider' \in [Txns -> {"none", "open", "committed"}] /\ OnlyOpenForgotten
  BY DEF SourceTypes, ProviderAbort, OnlyOpenForgotten

LEMMA ProviderSame ==
    ASSUME provider' = provider
    PROVE  OnlyOpenForgotten
  BY DEF OnlyOpenForgotten

LEMMA Unlocked ==
    ASSUME TxnTypes, NEW p, NEW t \in Txns, bind_lock[t] = p,
           \A u \in Txns : bind_lock[u] = p => u = t,
           Unlock(t), p # None, registry_lock' = registry_lock \/
              (registry_lock = p /\ registry_lock' = None)
    PROVE  /\ bind_lock' \in [Txns -> Procs \cup {None}]
           /\ \A u \in Txns : bind_lock'[u] # p
           /\ OwnLocks(p)
  <1>1. bind_lock' = [bind_lock EXCEPT ![t] = None] BY DEF Unlock
  <1>2. \A u \in Txns : bind_lock'[u] = IF u = t THEN None ELSE bind_lock[u]
    BY <1>1 DEF TxnTypes
  <1>3. bind_lock' \in [Txns -> Procs \cup {None}] BY <1>1 DEF TxnTypes
  <1> QED BY <1>2, <1>3 DEF OwnLocks

LEMMA Locked ==
    ASSUME TxnTypes, NEW p \in Procs, NEW t \in Txns, Lock(p, t),
           \A u \in Txns : bind_lock[u] # p, registry_lock' = registry_lock
    PROVE  /\ bind_lock' \in [Txns -> Procs \cup {None}]
           /\ bind_lock'[t] = p
           /\ \A u \in Txns : bind_lock'[u] = p => u = t
           /\ OwnLocks(p)
  <1>1. bind_lock' = [bind_lock EXCEPT ![t] = p] /\ bind_lock[t] = None BY DEF Lock
  <1>2. \A u \in Txns : bind_lock'[u] = IF u = t THEN p ELSE bind_lock[u]
    BY <1>1 DEF TxnTypes
  <1>3. bind_lock' \in [Txns -> Procs \cup {None}] BY <1>1 DEF TxnTypes
  <1> QED BY <1>1, <1>2, <1>3 DEF OwnLocks

LEMMA RestSame ==
    ASSUME UNCHANGED restVars
    PROVE  /\ life' = life /\ state' = state /\ commit_in_flight' = commit_in_flight
           /\ mutation_log' = mutation_log /\ registry' = registry
           /\ active' = active /\ req_txn' = req_txn /\ session' = session
           /\ req_owner' = req_owner /\ req_status' = req_status
           /\ effects' = effects /\ audits' = audits
  BY DEF restVars, flagVars

(* A thread that leaves a mutation.                                         *)
LEMMA GivesUp ==
    ASSUME IndInv, NEW p \in Procs, pc[p] \in Mutating, Unlock(cur[p]), Return(p),
           UNCHANGED restVars, staged' = staged, registry_lock' = registry_lock,
           bound_count' \in 0..Cap, OnlyOpenForgotten,
           provider' \in [Txns -> {"none", "open", "committed"}]
    PROVE  IndInv'
  <1> /\ Shape(p) /\ LockOK(p) /\ ThreadTypes /\ TxnTypes /\ p # None
      /\ RegistryTypes
    BY Facts
  <1>2. ThreadTypes' /\ Alone(p) /\ Idle(p)' BY Returned
  <1>3. p \notin late /\ pc[p] \notin Downing BY CallersLabels
  <1> /\ Works(p) /\ pc[p] \notin Closing /\ Holds(p) /\ ~Commits(p)
      /\ ~HoldsRegistry(p) /\ pc[p] # "commit_wait"
    BY <1>3 DEF Works, Mutating, Closing, Downing, Commits, Committing, Mutates, Holds,
           HoldsRegistry, Walking
  <1>5. cur[p] \in Txns BY <1>3, CallerHas
  <1>6. /\ bind_lock[cur[p]] = p /\ (\A u \in Txns : bind_lock[u] = p => u = cur[p])
        /\ registry_lock # p
    BY DEF LockOK
  <1>7. /\ bind_lock' \in [Txns -> Procs \cup {None}]
        /\ \A u \in Txns : bind_lock'[u] # p
        /\ OwnLocks(p)
    BY <1>5, <1>6, Unlocked
  <1>8. ThreadOK(p)' BY <1>2, <1>6, <1>7, IdleOK
  <1>9. p \notin late' /\ ~Token(p)' BY <1>2, Constants DEF Idle, Token
  <1>10. \A u \in Txns : Stays(p, u) BY <1>3, <1>9, CallerStays
  <1>11. registry_lock' \in Procs \cup {None} BY DEF RegistryTypes
  <1> QED BY <1>2, <1>7, <1>8, <1>9, <1>10, <1>11, Moved

LEMMA MutateCancelKeeps ==
    ASSUME IndInv, NEW p \in Procs, MutateCancel(p)
    PROVE  IndInv'
  <1>1. pc[p] \in Mutating BY DEF MutateCancel, Mutating
  <1>2. UNCHANGED restVars /\ staged' = staged /\ registry_lock' = registry_lock
    BY DEF MutateCancel, restVars, flagVars, registryVars, sourceVars, requestVars,
                 historyVars
  <1>3. bound_count' = bound_count /\ provider' = provider
    BY DEF MutateCancel, sourceVars
  <1>4. SourceTypes BY Facts
  <1>5. bound_count' \in 0..Cap /\ provider' \in [Txns -> {"none", "open", "committed"}]
    BY <1>3, <1>4 DEF SourceTypes
  <1> QED BY <1>1, <1>2, <1>3, <1>5, GivesUp, ProviderSame DEF MutateCancel

LEMMA BeginFailsKeeps ==
    ASSUME IndInv, NEW p \in Procs, BeginFails(p)
    PROVE  IndInv'
  <1>1. pc[p] \in Mutating BY DEF BeginFails, Mutating
  <1>2. UNCHANGED restVars /\ staged' = staged /\ registry_lock' = registry_lock
    BY DEF BeginFails, restVars, flagVars, registryVars, requestVars, historyVars
  <1>3. provider' = provider /\ BoundRelease BY DEF BeginFails
  <1>4. SourceTypes BY Facts
  <1>5. bound_count' \in 0..Cap BY <1>3, <1>4, CountReleased
  <1>6. provider' \in [Txns -> {"none", "open", "committed"}]
    BY <1>3, <1>4 DEF SourceTypes
  <1> QED BY <1>1, <1>2, <1>3, <1>5, <1>6, GivesUp, ProviderSame DEF BeginFails

(* The timer was first: the bind is undone.                                 *)
LEMMA BindUndoneKeeps ==
    ASSUME IndInv, NEW p \in Procs, CompleteFirstBind(p), state[cur[p]] # "UNBOUND"
    PROVE  IndInv'
  <1>1. pc[p] \in Mutating BY DEF CompleteFirstBind, Mutating
  <1>2. UNCHANGED restVars /\ staged' = staged /\ registry_lock' = registry_lock
    BY DEF CompleteFirstBind, restVars, flagVars, registryVars, requestVars, historyVars
  <1>3. ProviderAbort(cur[p]) /\ BoundRelease BY DEF CompleteFirstBind
  <1>4. SourceTypes BY Facts
  <1>5. bound_count' \in 0..Cap BY <1>3, <1>4, CountReleased
  <1>6. provider' \in [Txns -> {"none", "open", "committed"}] /\ OnlyOpenForgotten
    BY <1>3, <1>4, ProviderAborted
  <1> QED BY <1>1, <1>2, <1>3, <1>5, <1>6, GivesUp DEF CompleteFirstBind

LEMMA MutateRefusedKeeps ==
    ASSUME IndInv, NEW p \in Procs, MutateRefused(p)
    PROVE  IndInv'
  <1> Shape(p) /\ LockOK(p) /\ ThreadTypes BY Facts
  <1>2. ThreadTypes' /\ Alone(p) /\ Idle(p)' BY Returned DEF MutateRefused
  <1> pc[p] \in Calling /\ pc[p] \notin Closing /\ pc[p] # "commit_wait" /\ ~Commits(p)
    BY DEF MutateRefused, Calling, Closing, Commits, Committing, Downing
  <1>4. p \notin late /\ pc[p] \notin Downing BY CallersLabels
  <1>5. (\A t \in Txns : bind_lock'[t] # p) /\ registry_lock' # p
    BY NoLocks DEF MutateRefused, txnVars, registryVars
  <1>6. ThreadOK(p)' BY <1>2, <1>5, IdleOK
  <1>7. p \notin late' /\ ~Token(p)' BY <1>2, Constants DEF Idle, Token
  <1>8. \A u \in Txns : Stays(p, u) BY <1>4, <1>7, CallerStays
  <1> QED BY <1>2, <1>6, <1>7, <1>8, Unmoved DEF MutateRefused

LEMMA MutateAdmittedKeeps ==
    ASSUME IndInv, NEW p \in Procs, MutateAdmitted(p)
    PROVE  IndInv'
  <1>0. PICK t : t = cur[p] OBVIOUS
  <1> /\ Shape(p) /\ LockOK(p) /\ ThreadTypes /\ TxnTypes /\ RegistryTypes /\ SourceTypes
      /\ late \subseteq Procs /\ HistoryTypes
    BY Facts
  <1> /\ pc[p] = "mutate_lock" /\ Len(mutation_log[t]) < LogCapacity /\ Lock(p, t)
      /\ UNCHANGED restVars /\ staged' = staged /\ registry_lock' = registry_lock
      /\ provider' = provider /\ UNCHANGED callVars
    BY <1>0 DEF MutateAdmitted, restVars, flagVars, registryVars, requestVars, historyVars
  <1>3. PICK label \in {"mutate_op", "mutate_begin"} :
           /\ Goto(p, label)
           /\ label = "mutate_op" => state[t] = "BOUND" /\ bound_count' = bound_count
           /\ label = "mutate_begin" => /\ state[t] = "UNBOUND" /\ active /\ bound_count < Cap
                                        /\ bound_count' = bound_count + 1
    <2>1. CASE state[t] = "BOUND" /\ Goto(p, "mutate_op") /\ bound_count' = bound_count
      BY <2>1
    <2>2. CASE /\ state[t] = "UNBOUND" /\ active /\ bound_count < Cap
               /\ bound_count' = bound_count + 1 /\ Goto(p, "mutate_begin")
      BY <2>2
    <2> QED BY <1>0, <2>1, <2>2 DEF MutateAdmitted
  <1>4. label \in Labels /\ label \in Mutating BY DEF Labels, Mutating
  <1> ThreadTypes' /\ Alone(p) /\ SameCall(p) /\ pc'[p] = label
    BY <1>3, <1>4, Went
  <1> /\ pc[p] \in Calling /\ pc[p] \notin Closing /\ pc[p] # "commit_wait" /\ ~Commits(p)
      /\ Works(p)
    BY DEF Calling, Closing, Commits, Committing, Downing, Works
  <1>7. p \notin late /\ pc[p] \notin Downing BY CallersLabels
  <1>8. p \notin late' /\ cur'[p] = t BY <1>0, <1>7 DEF SameCall
  <1> t \in Txns /\ t # None /\ life[t] = "open"
    BY <1>0, <1>7, CallerHas
  <1>10. (\A u \in Txns : bind_lock[u] # p) /\ registry_lock # p
    BY NoLocks
  <1>11. /\ bind_lock' \in [Txns -> Procs \cup {None}]
         /\ bind_lock'[t] = p
         /\ \A u \in Txns : bind_lock'[u] = p => u = t
         /\ OwnLocks(p)
    BY <1>10, Locked
  <1>12. /\ life' = life /\ mutation_log' = mutation_log /\ audits' = audits
         /\ active' = active /\ commit_in_flight' = commit_in_flight /\ req_txn' = req_txn
    BY RestSame
  <1>13. TxnOK(t) BY DEF IndInv
  <1>14. audits[t] = 0
    <2>1. state[t] \notin Terminal BY <1>3 DEF Terminal
    <2>2. audits[t] # 1 BY <1>13, <2>1 DEF TxnOK
    <2>3. audits[t] \in Nat /\ audits[t] <= 1 BY <1>13 DEF HistoryTypes, TxnOK
    <2> QED BY <2>2, <2>3, SMT
  <1>15. label \in FirstBinding => Virgin(t)' /\ (active' \/ Pending(t)')
    <2> SUFFICES ASSUME label \in FirstBinding PROVE Virgin(t)' /\ active' OBVIOUS
    <2>1. label = "mutate_begin" BY DEF FirstBinding
    <2>2. Virgin(t) /\ active BY <1>3, <1>13, <2>1 DEF TxnOK
    <2>3. late' = late /\ cur' = cur BY DEF callVars
    <2> QED BY <1>12, <2>2, <2>3 DEF Virgin
  <1>16. ThreadOK(p)'
    BY <1>4, <1>8, <1>10, <1>11, <1>12, <1>14, <1>15, MutatingOK
  <1>17. \A u \in Txns : Stays(p, u) BY <1>7, <1>8, CallerStays
  <1>18. ~Token(p)' BY DEF Token
  <1>19. bound_count' \in 0..Cap
    <2>1. Cap \in Nat BY Constants
    <2> QED BY <1>3, <2>1, SMT DEF SourceTypes
  <1>20. registry_lock' \in Procs \cup {None}
         /\ provider' \in [Txns -> {"none", "open", "committed"}]
    BY DEF RegistryTypes, SourceTypes
  <1> QED BY <1>11, <1>16, <1>17, <1>18, <1>19, <1>20, Moved,
             ProviderSame

LEMMA SameStays ==
    ASSUME NEW p, pc[p] \notin Downing, pc[p] \notin Closing, pc[p] # "late_release",
           cur'[p] = cur[p], p \in late' <=> p \in late, Commits(p) => Commits(p)'
    PROVE  \A u \in Txns : Stays(p, u)
  <1>1. pc[p] # "down_lock" /\ pc[p] # "down_walk" BY DEF Downing
  <1> QED BY <1>1 DEF Stays, Pends, Charged, Answers, Frees

LEMMA PendingStays ==
    ASSUME NEW p \in Procs, Alone(p), NEW u, Pends(p, u) => Pends(p, u)'
    PROVE  Pending(u) => Pending(u)'
  BY DEF Pending, Pends, Alone, SameCall

LEMMA NotDowning ==
    ASSUME NEW p, pc[p] \notin Downing
    PROVE  \A u : ~Pends(p, u)
  BY DEF Downing, Pends

LEMMA CommitNotSentKeeps ==
    ASSUME IndInv, NEW p \in Procs, CommitNotSent(p)
    PROVE  IndInv'
  <1>0. PICK t : t = cur[p] OBVIOUS
  <1> Shape(p) /\ LockOK(p) /\ CommitOK(p) /\ ThreadTypes BY Facts
  <1> /\ pc[p] = "commit_send" /\ Goto(p, "commit_fails") /\ UNCHANGED callVars
      /\ bind_lock' = bind_lock /\ registry_lock' = registry_lock /\ life' = life
      /\ state' = state
    BY DEF CommitNotSent, txnVars, flagVars, registryVars
  <1>3. "commit_fails" \in Labels /\ "commit_fails" \in Committing BY DEF Labels, Committing
  <1> ThreadTypes' /\ Alone(p) /\ SameCall(p) /\ pc'[p] = "commit_fails"
    BY <1>3, Went
  <1>5. p \notin late /\ pc[p] \notin Downing BY CallersLabels
  <1>6. p \notin late' /\ cur'[p] = t BY <1>0, <1>5 DEF SameCall
  <1> /\ Works(p) /\ pc[p] \notin Closing /\ Holds(p) /\ Commits(p) /\ Commits(p)'
      /\ ~HoldsRegistry(p) /\ pc[p] # "commit_wait" /\ ~Token(p)'
    BY <1>5 DEF Works, Closing, Commits, Committing, Holds, HoldsRegistry, Walking,
       Token
  <1>8. t # None /\ life[t] = "open" BY <1>0, <1>5, CallerHas
  <1>9. /\ bind_lock[t] = p /\ (\A u \in Txns : bind_lock[u] = p => u = t)
        /\ registry_lock # p /\ state[t] # "UNBOUND"
    BY <1>0 DEF LockOK, CommitOK
  <1>10. CommitOK(p)'
    <2>1. pc'[p] # "commit_wait" /\ pc'[p] # "final" OBVIOUS
    <2> QED BY <1>6, <1>9, <2>1 DEF CommitOK
  <1>11. pc'[p] # "commit_release" OBVIOUS
  <1>12. ThreadOK(p)'
    BY <1>3, <1>6, <1>8, <1>9, <1>10, <1>11, CommittingOK
  <1>13. \A u \in Txns : Stays(p, u) BY <1>0, <1>5, <1>6, CallerStays
  <1> QED BY <1>12, <1>13, Unmoved DEF CommitNotSent

(* An answer is applied, by the caller or in a late response.               *)
LEMMA AppliedOK ==
    ASSUME IndInv, NEW p \in Procs, pc[p] = "apply", NEW label \in {"final", "broken"},
           Goto(p, label), UNCHANGED callVars,
           UNCHANGED <<txnVars, registryVars, sourceVars, requestVars>>,
           label = "final" /\ verdict[p] = "ok" => effects'[cur[p]] = 1
    PROVE  /\ ThreadOK(p)' /\ ThreadTypes' /\ Alone(p) /\ ~Token(p)'
           /\ \A u \in Txns : Stays(p, u)
  <1>0. PICK t : t = cur[p] OBVIOUS
  <1> Shape(p) /\ LockOK(p) /\ CommitOK(p) /\ LateOK(p) /\ ThreadTypes /\ SourceTypes
    BY Facts
  <1>2. label \in Labels BY DEF Labels
  <1> ThreadTypes' /\ Alone(p) /\ SameCall(p) /\ pc'[p] = label
    BY <1>2, Went
  <1> /\ cur'[p] = t /\ (p \in late' <=> p \in late) /\ late_session'[p] = late_session[p]
      /\ verdict'[p] = verdict[p]
    BY <1>0 DEF SameCall
  <1> /\ life' = life /\ state' = state /\ commit_in_flight' = commit_in_flight
      /\ bind_lock' = bind_lock /\ registry' = registry /\ registry_lock' = registry_lock
      /\ session' = session
    BY DEF txnVars, flagVars, registryVars, sourceVars
  <1> /\ Works(p) /\ Holds(p) /\ Commits(p) /\ pc[p] \notin Downing /\ pc[p] \notin Closing
      /\ pc[p] # "late_release" /\ pc[p] \notin Walking
    BY DEF Works, Holds, Commits, Committing, Downing, Closing, Walking
  <1> /\ Works(p)' /\ Holds(p)' /\ Commits(p)' /\ ~Mutates(p)' /\ ~Token(p)'
      /\ pc'[p] \notin Downing /\ pc'[p] \notin Closing /\ pc'[p] \notin Walking
      /\ pc'[p] \notin Aborting /\ pc'[p] \notin Handling /\ pc'[p] \notin FirstBinding
      /\ pc'[p] \notin {"commit_wait", "late_walk", "late_release", "commit_release",
                        "down_walk"}
      /\ pc'[p] \in {"apply", "final", "broken"}
    BY DEF Works, Holds, Commits, Committing, Mutates, Mutating, Token, Downing, Closing,
                Walking, Aborting, Handling, FirstBinding
  <1>8. t # None BY <1>0 DEF Shape
  <1>9. Shape(p)' BY <1>8 DEF Shape
  <1>10. LockOK(p)'
    <2>1. HoldsRegistry(p)' <=> HoldsRegistry(p)
      BY DEF HoldsRegistry
    <2>2. Linked(t)' <=> Linked(t) BY DEF Linked
    <2>3. /\ bind_lock[t] = p /\ \A u \in Txns : bind_lock[u] = p => u = t
      BY <1>0 DEF LockOK
    <2>4. /\ p \notin late => life[t] = "open"
          /\ p \in late => Linked(t)
      BY <1>0, <1>8 DEF LockOK
    <2>5. HoldsRegistry(p) <=> registry_lock = p BY DEF LockOK
    <2>6. Linked(cur[p])' <=> Linked(t)' BY DEF Linked
    <2> QED BY <2>1, <2>2, <2>3, <2>4, <2>5, <2>6 DEF LockOK
  <1>11. MutateOK(p)' BY DEF MutateOK
  <1>12. CommitOK(p)'
    <2>1. state'[t] # "UNBOUND" BY <1>0 DEF CommitOK
    <2> QED BY <1>0, <2>1 DEF CommitOK
  <1>13. LateOK(p)'
    <2>1. ASSUME p \in late', late_session'[p] < session', Linked(t)', Live(t)'
          PROVE  Pending(t)'
      <3>1. Linked(t) /\ Live(t) BY <2>1 DEF Linked, Live
      <3>2. Pending(t) BY <1>0, <1>8, <2>1, <3>1 DEF LateOK
      <3>3. Pends(p, t) => Pends(p, t)' BY NotDowning
      <3> QED BY <3>2, <3>3, PendingStays
    <2>2. /\ Linked(cur[p])' <=> Linked(t)'
          /\ Live(cur[p])' <=> Live(t)'
          /\ Pending(cur[p])' <=> Pending(t)'
      BY DEF Linked, Live, Pending, Pends
    <2> QED BY <2>1, <2>2 DEF LateOK
  <1>14. \A u \in Txns : Stays(p, u) BY <1>0, SameStays
  <1> QED BY <1>9, <1>10, <1>11, <1>12, <1>13, <1>14 DEF ThreadOK

LEMMA ApplyRefusalKeeps ==
    ASSUME IndInv, NEW p \in Procs, ApplyRefusal(p)
    PROVE  IndInv'
  <1>1. /\ pc[p] = "apply" /\ verdict[p] # "ok" /\ Goto(p, "final") /\ UNCHANGED callVars
        /\ UNCHANGED <<txnVars, registryVars, sourceVars, requestVars>>
    BY DEF ApplyRefusal
  <1>2. /\ ThreadOK(p)' /\ ThreadTypes' /\ Alone(p) /\ ~Token(p)'
        /\ \A u \in Txns : Stays(p, u)
    BY <1>1, AppliedOK
  <1>3. pc[p] # "commit_wait" BY <1>1
  <1> QED BY <1>2, <1>3, Unmoved DEF ApplyRefusal

LEMMA CommitReleasesKeeps ==
    ASSUME IndInv, NEW p \in Procs, CommitReleases(p)
    PROVE  IndInv'
  <1>0. PICK t : t = cur[p] OBVIOUS
  <1> /\ Shape(p) /\ LockOK(p) /\ LateOK(p) /\ ThreadTypes /\ TxnTypes /\ p # None
      /\ RegistryTypes /\ SourceTypes
    BY Facts
  <1> /\ pc[p] = "commit_release" /\ Unlock(t) /\ UNCHANGED callVars /\ BoundRelease
      /\ UNCHANGED restVars /\ staged' = staged /\ registry_lock' = registry_lock
      /\ provider' = provider
    BY <1>0 DEF CommitReleases, restVars, flagVars, registryVars, requestVars, historyVars
  <1>3. PICK label \in Calling : Goto(p, label) BY DEF CommitReleases, Calling
  <1>4. label \in Labels BY DEF Labels, Calling
  <1> ThreadTypes' /\ Alone(p) /\ SameCall(p) /\ pc'[p] = label
    BY <1>3, <1>4, Went
  <1>6. p \notin late /\ pc[p] \notin Downing BY CallersLabels
  <1>7. p \notin late' /\ cur'[p] = t BY <1>0, <1>6 DEF SameCall
  <1> /\ Works(p) /\ pc[p] \notin Closing /\ Holds(p) /\ pc[p] # "late_release"
      /\ ~HoldsRegistry(p) /\ pc[p] # "commit_wait" /\ ~Token(p)'
      /\ ~Frees(p, t) /\ \A u : ~Frees(p, u) /\ ~Pends(p, u)
    BY <1>6 DEF Works, Closing, Commits, Committing, Holds, HoldsRegistry, Walking,
       Token, Calling, Frees, Pends
  <1>9. t \in Txns /\ t # None /\ life[t] = "open"
    BY <1>0, <1>6, CallerHas
  <1>10. /\ bind_lock[t] = p /\ (\A u \in Txns : bind_lock[u] = p => u = t)
         /\ registry_lock # p
    BY <1>0 DEF LockOK
  <1>11. /\ bind_lock' \in [Txns -> Procs \cup {None}]
         /\ \A u \in Txns : bind_lock'[u] # p
         /\ OwnLocks(p)
    BY <1>9, <1>10, Unlocked
  <1>12. life' = life BY RestSame
  <1>13. ThreadOK(p)'
    BY <1>7, <1>9, <1>10, <1>11, <1>12, CallingOK
  <1>14. t \notin commit_in_flight BY <1>0 DEF LateOK
  <1>15. \A u \in Txns : Stays(p, u)
    BY <1>0, <1>6, <1>7, <1>14 DEF Stays, Charged, Answers
  <1>16. /\ registry_lock' \in Procs \cup {None}
         /\ provider' \in [Txns -> {"none", "open", "committed"}]
    BY DEF RegistryTypes, SourceTypes
  <1>17. bound_count' \in 0..Cap BY CountReleased
  <1> QED BY <1>11, <1>13, <1>15, <1>16, <1>17, Moved, ProviderSame

(* Deleting a layer.                                                        *)
LEMMA AbortingOK ==
    ASSUME NEW p, pc'[p] \in Aborting, after'[p] \in {"idle", "commit_audit"},
           after'[p] # "idle" => cur'[p] # None,
           p \in late' => /\ after'[p] = "idle" /\ cur'[p] = None
                          /\ late_session'[p] <= session',
           p \notin late' /\ cur'[p] # None => life'[cur'[p]] = "open",
           \A t \in Txns : bind_lock'[t] # p,
           registry_lock' = p <=> pc'[p] # "abort_lock"
    PROVE  ThreadOK(p)'
  <1> /\ pc'[p] \notin Mutating /\ pc'[p] \notin Committing /\ pc'[p] \notin Handling
      /\ pc'[p] \notin Closing /\ pc'[p] \notin Calling /\ pc'[p] \notin Downing
      /\ pc'[p] \notin FirstBinding
      /\ pc'[p] \notin {"commit_wait", "final", "late_lock", "late_walk", "apply",
                        "late_release", "commit_release", "down_walk"}
      /\ pc'[p] \in Walking <=> pc'[p] # "abort_lock"
    BY DEF Closing, Calling, Mutating, Committing, Handling, Downing, Aborting,
           Walking, FirstBinding
  <1>2. ~Mutates(p)' /\ ~Commits(p)' BY DEF Mutates, Commits
  <1>3. ~Holds(p)' /\ ~Token(p)' BY <1>2 DEF Holds, Token
  <1>4. Works(p)' => cur'[p] # None BY DEF Works
  <1>5. Shape(p)' BY <1>4 DEF Shape
  <1>6. HoldsRegistry(p)' <=> registry_lock' = p BY <1>2 DEF HoldsRegistry
  <1>7. LockOK(p)' BY <1>2, <1>3, <1>6 DEF LockOK
  <1>8. MutateOK(p)' BY <1>2 DEF MutateOK
  <1>9. CommitOK(p)' BY <1>2, <1>3 DEF CommitOK
  <1>10. LateOK(p)' BY DEF LateOK
  <1> QED BY <1>5, <1>7, <1>8, <1>9, <1>10 DEF ThreadOK

LEMMA DeleteLayerKeeps ==
    ASSUME IndInv, NEW p \in Procs, NEW l \in Layers, DeleteLayer(p, l)
    PROVE  IndInv'
  <1> Shape(p) /\ LockOK(p) /\ ThreadTypes BY Facts
  <1> /\ pc[p] = "idle" /\ pc' = [pc EXCEPT ![p] = "abort_lock"]
      /\ layer' = [layer EXCEPT ![p] = l] /\ after' = [after EXCEPT ![p] = "idle"]
      /\ cur' = cur /\ verdict' = verdict /\ late' = late /\ late_session' = late_session
      /\ visited' = visited
      /\ life' = life /\ bind_lock' = bind_lock /\ registry_lock' = registry_lock
    BY DEF DeleteLayer, Goto, txnVars, flagVars, registryVars
  <1>3. "abort_lock" \in Labels /\ "abort_lock" \in Aborting BY DEF Labels, Aborting
  <1>4. ThreadTypes' BY <1>3 DEF ThreadTypes
  <1>5. Alone(p) BY DEF ThreadTypes, Alone, SameCall
  <1>6. pc'[p] = "abort_lock" /\ after'[p] = "idle" BY DEF ThreadTypes
  <1>7. p \notin late /\ pc[p] \notin Downing BY CallersLabels
  <1>8. (\A u \in Txns : bind_lock[u] # p) /\ registry_lock # p
    BY NoLocks
  <1> pc[p] \notin Closing /\ ~Commits(p) /\ pc[p] # "commit_wait"
    BY DEF Closing, Commits, Committing, Downing
  <1>10. cur[p] # None => life[cur[p]] = "open" BY <1>7 DEF LockOK
  <1>11. ThreadOK(p)' BY <1>3, <1>6, <1>7, <1>8, <1>10, AbortingOK
  <1>12. \A u \in Txns : Stays(p, u) BY <1>7, CallerStays
  <1>13. ~Token(p)' BY <1>6 DEF Token
  <1> QED BY <1>4, <1>5, <1>11, <1>12, <1>13, Unmoved DEF DeleteLayer

LEMMA CommitLayersKeeps ==
    ASSUME IndInv, NEW p \in Procs, CommitLayers(p)
    PROVE  IndInv'
  <1> Shape(p) /\ LockOK(p) /\ ThreadTypes BY Facts
  <1> /\ pc[p] = "commit_layers"
      /\ cur' = cur /\ verdict' = verdict /\ late' = late /\ late_session' = late_session
      /\ visited' = visited
      /\ life' = life /\ bind_lock' = bind_lock /\ registry_lock' = registry_lock
    BY DEF CommitLayers, txnVars, flagVars, registryVars
  <1>3. pc[p] \in Calling /\ "commit_audit" \in Calling BY DEF Calling
  <1>4. CASE Goto(p, "commit_audit") /\ UNCHANGED <<layer, after>>
    <2>1. UNCHANGED callVars BY <1>4 DEF callVars
    <2> QED BY <1>3, <1>4, <2>1, CallsOn DEF CommitLayers
  <1>5. CASE /\ \E l \in Layers \ {Base} : layer' = [layer EXCEPT ![p] = l]
             /\ after' = [after EXCEPT ![p] = "commit_audit"]
             /\ Goto(p, "abort_lock")
    <2> pc' = [pc EXCEPT ![p] = "abort_lock"] BY <1>5 DEF Goto
    <2>2. PICK l \in Layers : layer' = [layer EXCEPT ![p] = l] BY <1>5
    <2>3. "abort_lock" \in Labels /\ "abort_lock" \in Aborting BY DEF Labels, Aborting
    <2>4. ThreadTypes' BY <1>5, <2>2, <2>3 DEF ThreadTypes
    <2>5. Alone(p) BY <1>5 DEF ThreadTypes, Alone, SameCall
    <2>6. pc'[p] = "abort_lock" /\ after'[p] = "commit_audit"
      BY <1>5 DEF ThreadTypes
    <2>7. p \notin late /\ pc[p] \notin Downing BY <1>3, CallersLabels
    <2>8. (\A u \in Txns : bind_lock[u] # p) /\ registry_lock # p
      BY <1>3, NoLocks
    <2> pc[p] \notin Closing /\ ~Commits(p) /\ pc[p] # "commit_wait" /\ Works(p)
      BY DEF Closing, Commits, Committing, Downing, Works, Calling
    <2>10. cur[p] # None /\ life[cur[p]] = "open" BY <2>7, CallerHas
    <2>11. ThreadOK(p)' BY <2>3, <2>6, <2>7, <2>8, <2>10, AbortingOK
    <2>12. \A u \in Txns : Stays(p, u) BY <2>7, CallerStays
    <2>13. ~Token(p)' BY <2>6 DEF Token
    <2> QED BY <2>4, <2>5, <2>11, <2>12, <2>13, Unmoved DEF CommitLayers
  <1> QED BY <1>4, <1>5 DEF CommitLayers

LEMMA ClosingOK ==
    ASSUME NEW p, pc'[p] \in Closing, p \notin late', cur'[p] # None,
           life'[cur'[p]] \in {"released", "destroyed"},
           \A t \in Txns : bind_lock'[t] # p, registry_lock' # p
    PROVE  ThreadOK(p)'
  <1> /\ pc'[p] \notin Mutating \cup Committing \cup Handling
      /\ pc'[p] \notin Downing /\ pc'[p] \notin Aborting
      /\ pc'[p] \notin Walking /\ pc'[p] \notin FirstBinding
      /\ pc'[p] \notin {"commit_wait", "final", "late_lock", "late_walk", "apply",
                        "late_release", "commit_release", "down_walk"}
    BY DEF Closing, Mutating, Committing, Handling, Downing, Aborting, Walking, FirstBinding
  <1>2. ~Mutates(p)' /\ ~Commits(p)' BY DEF Mutates, Commits
  <1>3. ~Holds(p)' /\ ~HoldsRegistry(p)' /\ ~Token(p)'
    BY <1>2 DEF Holds, HoldsRegistry, Token
  <1>4. Shape(p)' BY DEF Shape
  <1>5. LockOK(p)' BY <1>3 DEF LockOK
  <1>6. MutateOK(p)' BY <1>2 DEF MutateOK
  <1>7. CommitOK(p)' BY <1>2, <1>3 DEF CommitOK
  <1>8. LateOK(p)' BY DEF LateOK
  <1> QED BY <1>4, <1>5, <1>6, <1>7, <1>8 DEF ThreadOK

LEMMA CloseEndKeeps ==
    ASSUME IndInv, NEW p \in Procs, CloseEnd(p)
    PROVE  IndInv'
  <1> Shape(p) /\ LockOK(p) /\ ThreadTypes BY Facts
  <1> /\ pc[p] = "close_end" /\ bind_lock' = bind_lock /\ registry_lock' = registry_lock
      /\ life' = life /\ registry' = registry
    BY DEF CloseEnd, txnVars, flagVars, registryVars
  <1> pc[p] \in Closing /\ ~Commits(p) /\ pc[p] # "commit_wait" /\ Works(p)
    BY DEF Closing, Commits, Committing, Downing, Works
  <1>4. p \notin late /\ pc[p] \notin Downing BY CallersLabels
  <1>5. (\A u \in Txns : bind_lock[u] # p) /\ registry_lock # p
    BY NoLocks
  <1>6. \A u : ~Pends(p, u) BY <1>4, NotDowning
  <1>7. CASE verdict[p] = None
    <2>1. ThreadTypes' /\ Alone(p) /\ Idle(p)' BY <1>7, Returned DEF CloseEnd
    <2>2. ThreadOK(p)' BY <1>5, <2>1, IdleOK
    <2>3. p \notin late' /\ ~Token(p)' BY <2>1, Constants DEF Idle, Token
    <2>4. \A u : ~Frees(p, u) BY <1>7 DEF Frees
    <2>5. \A u \in Txns : Stays(p, u)
      BY <1>4, <1>6, <2>3, <2>4 DEF Stays, Charged, Answers
    <2> QED BY <2>1, <2>2, <2>3, <2>5, Unmoved DEF CloseEnd
  <1>8. CASE verdict[p] # None
    <2>1. Goto(p, "close_remove") /\ UNCHANGED callVars BY <1>8 DEF CloseEnd
    <2> "close_remove" \in Labels /\ "close_remove" \in Closing BY DEF Labels, Closing
    <2> ThreadTypes' /\ Alone(p) /\ SameCall(p) /\ pc'[p] = "close_remove"
      BY <2>1, Went
    <2> p \notin late' /\ cur'[p] = cur[p] /\ verdict'[p] = verdict[p]
      BY <1>4 DEF SameCall
    <2>5. cur[p] # None BY <1>4, CallerHas
    <2>6. life[cur[p]] \in {"released", "destroyed"}
      BY <1>4, <2>5 DEF LockOK
    <2>7. ThreadOK(p)' BY <1>5, <2>5, <2>6, ClosingOK
    <2>8. ~Token(p)' BY DEF Token
    <2>9. \A u \in Txns : Frees(p, u) => Frees(p, u)'
      BY <1>8 DEF Frees
    <2>10. \A u \in Txns : Stays(p, u)
      BY <1>4, <1>6, <2>9 DEF Stays, Charged, Answers
    <2> QED BY <2>7, <2>8, <2>10, Unmoved DEF CloseEnd
  <1> QED BY <1>7, <1>8

(* The walks of the registry.                                               *)
LEMMA WalkLocked ==
    ASSUME IndInv, NEW p \in Procs, NEW from, NEW to \in Labels, WalkLock(p, from, to)
    PROVE  /\ ThreadTypes' /\ Alone(p) /\ pc[p] = from /\ pc'[p] = to
           /\ cur' = cur /\ verdict' = verdict /\ late' = late
           /\ late_session' = late_session /\ after' = after /\ visited'[p] = {}
           /\ registry_lock = None /\ registry_lock' = p /\ bind_lock' = bind_lock
           /\ bound_count' = bound_count /\ provider' = provider
           /\ UNCHANGED restVars /\ staged' = staged
  <1> ThreadTypes BY Facts
  <1> /\ pc' = [pc EXCEPT ![p] = to] /\ visited' = [visited EXCEPT ![p] = {}]
      /\ cur' = cur /\ verdict' = verdict /\ late' = late
      /\ late_session' = late_session /\ layer' = layer /\ after' = after
    BY DEF WalkLock, Goto
  <1>3. ThreadTypes' BY DEF ThreadTypes
  <1>4. Alone(p) BY DEF ThreadTypes, Alone, SameCall
  <1>5. pc'[p] = to /\ visited'[p] = {} BY DEF ThreadTypes
  <1>6. /\ pc[p] = from /\ registry_lock = None /\ registry_lock' = p /\ bind_lock' = bind_lock
        /\ bound_count' = bound_count /\ provider' = provider /\ staged' = staged
    BY DEF WalkLock, txnVars, sourceVars, historyVars
  <1>7. UNCHANGED restVars
    BY DEF WalkLock, restVars, txnVars, flagVars, sourceVars, requestVars, historyVars
  <1> QED BY <1>3, <1>4, <1>5, <1>6, <1>7

(* A walk takes registry_lock or gives it up.                               *)
LEMMA RegistryMoves ==
    ASSUME IndInv, NEW p \in Procs, Alone(p), ThreadTypes', ThreadOK(p)',
           bind_lock' = bind_lock, registry_lock \in {None, p}, registry_lock' \in {None, p},
           bound_count' = bound_count, provider' = provider,
           UNCHANGED restVars, staged' = staged,
           pc[p] # "commit_wait", Token(p)' => Token(p) /\ cur'[p] = cur[p],
           \A u \in Txns : Stays(p, u)
    PROVE  IndInv'
  <1>1. TxnTypes /\ SourceTypes BY Facts
  <1>2. /\ bound_count' \in 0..Cap /\ provider' \in [Txns -> {"none", "open", "committed"}]
        /\ bind_lock' \in [Txns -> Procs \cup {None}] /\ registry_lock' \in Procs \cup {None}
    BY <1>1 DEF TxnTypes, SourceTypes
  <1>3. OwnLocks(p) BY DEF OwnLocks
  <1> QED BY <1>2, <1>3, ProviderSame, Moved

LEMMA AbortLockKeeps ==
    ASSUME IndInv, NEW p \in Procs, AbortLock(p)
    PROVE  IndInv'
  <1> /\ Shape(p) /\ LockOK(p) /\ p # None BY Facts
  <1>2. "abort_walk" \in Labels /\ "abort_walk" \in Aborting BY DEF Labels, Aborting
  <1> /\ ThreadTypes' /\ Alone(p) /\ pc[p] = "abort_lock" /\ pc'[p] = "abort_walk"
      /\ cur' = cur /\ late' = late /\ late_session' = late_session /\ after' = after
      /\ registry_lock = None /\ registry_lock' = p /\ bind_lock' = bind_lock
      /\ bound_count' = bound_count /\ provider' = provider
      /\ UNCHANGED restVars /\ staged' = staged
    BY <1>2, WalkLocked DEF AbortLock
  <1> /\ pc[p] \in Aborting /\ pc[p] \notin Closing /\ pc[p] \notin Downing /\ ~Commits(p)
      /\ pc[p] # "commit_wait" /\ pc[p] # "late_release" /\ pc'[p] # "abort_lock"
      /\ pc[p] \notin Handling \cup {"apply", "final", "broken"} /\ ~Token(p)'
      /\ (after[p] # "idle" => Works(p))
    BY DEF Aborting, Closing, Downing, Commits, Committing, Handling, Token, Works
  <1>5. life' = life /\ session' = session BY RestSame
  <1>6. /\ after[p] \in {"idle", "commit_audit"}
        /\ after[p] # "idle" => cur[p] # None
        /\ p \in late => /\ after[p] = "idle" /\ cur[p] = None
                         /\ late_session[p] <= session
    <2>1. pc[p] # "down_lock" /\ pc[p] # "down_walk" OBVIOUS
    <2> QED BY <2>1 DEF Shape
  <1>7. p \notin late /\ cur[p] # None => life[cur[p]] = "open"
    BY DEF LockOK
  <1>8. \A t \in Txns : bind_lock[t] # p BY NoLocks
  <1>9. ThreadOK(p)' BY <1>2, <1>5, <1>6, <1>7, <1>8, AbortingOK
  <1>10. \A u \in Txns : Stays(p, u) BY SameStays
  <1> QED BY <1>9, <1>10, RegistryMoves

(* What a thread knows that deletes a layer with registry_lock held.        *)
LEMMA AbortFacts ==
    ASSUME IndInv, NEW p \in Procs, pc[p] \in {"abort_walk", "abort_undo", "abort_failed"}
    PROVE  /\ after[p] \in {"idle", "commit_audit"}
           /\ after[p] # "idle" => cur[p] # None
           /\ p \in late => /\ after[p] = "idle" /\ cur[p] = None
                            /\ late_session[p] <= session
           /\ p \notin late /\ cur[p] # None => life[cur[p]] = "open"
           /\ \A t \in Txns : bind_lock[t] # p
           /\ registry_lock = p
           /\ pc[p] \notin Closing /\ pc[p] \notin Downing /\ ~Commits(p)
           /\ pc[p] # "commit_wait" /\ pc[p] # "late_release"
  <1>1. /\ Shape(p) /\ LockOK(p) BY Facts
  <1>2. /\ pc[p] \in Aborting /\ pc[p] \notin Closing /\ pc[p] \notin Downing /\ ~Commits(p)
        /\ pc[p] # "commit_wait" /\ pc[p] # "late_release"
        /\ pc[p] \notin Handling \cup {"apply", "final", "broken"}
        /\ (after[p] # "idle" => Works(p)) /\ ~Holds(p) /\ HoldsRegistry(p)
        /\ pc[p] # "down_lock" /\ pc[p] # "down_walk"
    BY DEF Aborting, Closing, Downing, Commits, Committing, Handling, Works, Holds, Mutates,
           Mutating, HoldsRegistry, Walking
  <1>3. /\ after[p] \in {"idle", "commit_audit"}
        /\ after[p] # "idle" => cur[p] # None
        /\ p \in late => /\ after[p] = "idle" /\ cur[p] = None
                         /\ late_session[p] <= session
    BY <1>1, <1>2 DEF Shape
  <1> QED BY <1>1, <1>2, <1>3 DEF LockOK

LEMMA AbortUndoKeeps ==
    ASSUME IndInv, NEW p \in Procs, AbortUndo(p)
    PROVE  IndInv'
  <1> /\ ThreadTypes /\ TxnTypes /\ RegistryTypes /\ SourceTypes BY Facts
  <1> /\ pc[p] = "abort_undo" /\ ProviderAbort(LastVisited(p)) /\ BoundRelease
      /\ UNCHANGED callVars /\ registry_lock' = registry_lock /\ bind_lock' = bind_lock
      /\ life' = life /\ session' = session
      /\ UNCHANGED restVars /\ staged' = staged
    BY DEF AbortUndo, txnVars, flagVars, registryVars, requestVars, historyVars, restVars
  <1>3. PICK label \in {"abort_walk", "abort_failed"} : Goto(p, label) BY DEF AbortUndo
  <1>4. label \in Labels /\ label \in Aborting /\ label # "abort_lock" BY DEF Labels, Aborting
  <1> ThreadTypes' /\ Alone(p) /\ SameCall(p) /\ pc'[p] = label
    BY <1>3, <1>4, Went
  <1> /\ after[p] \in {"idle", "commit_audit"}
      /\ after[p] # "idle" => cur[p] # None
      /\ p \in late => /\ after[p] = "idle" /\ cur[p] = None
                       /\ late_session[p] <= session
      /\ p \notin late /\ cur[p] # None => life[cur[p]] = "open"
      /\ \A t \in Txns : bind_lock[t] # p
      /\ registry_lock = p
      /\ pc[p] \notin Closing /\ pc[p] \notin Downing /\ ~Commits(p)
      /\ pc[p] # "commit_wait" /\ pc[p] # "late_release"
    BY AbortFacts
  <1>7. ThreadOK(p)' BY <1>4, AbortingOK DEF SameCall
  <1>8. \A u \in Txns : Stays(p, u) BY SameStays DEF SameCall
  <1>9. ~Token(p)' BY DEF Token
  <1>10. bound_count' \in 0..Cap BY CountReleased
  <1>11. provider' \in [Txns -> {"none", "open", "committed"}] /\ OnlyOpenForgotten
    BY ProviderAborted
  <1>12. /\ bind_lock' \in [Txns -> Procs \cup {None}] /\ registry_lock' \in Procs \cup {None}
    BY DEF TxnTypes, RegistryTypes
  <1>13. OwnLocks(p) BY DEF OwnLocks
  <1> QED BY <1>7, <1>8, <1>9, <1>10, <1>11, <1>12, <1>13, Moved

(* A thread goes back to where a walk started.                              *)
LEMMA WalkEnds ==
    ASSUME ThreadTypes, NEW p \in Procs, NEW label \in Labels, Goto(p, label),
           after' = [after EXCEPT ![p] = None], visited' = [visited EXCEPT ![p] = {}],
           layer' = layer \/ layer' = [layer EXCEPT ![p] = None],
           UNCHANGED <<cur, verdict, late, late_session>>
    PROVE  ThreadTypes' /\ Alone(p) /\ pc'[p] = label
  <1>1. pc' = [pc EXCEPT ![p] = label] /\ cur' = cur /\ verdict' = verdict /\ late' = late
        /\ late_session' = late_session
    BY DEF Goto
  <1>2. layer' \in [Procs -> Layers \cup {None}] BY DEF ThreadTypes
  <1>3. ThreadTypes' BY <1>1, <1>2 DEF ThreadTypes
  <1>4. Alone(p) BY <1>1 DEF ThreadTypes, Alone, SameCall
  <1> QED BY <1>1, <1>3, <1>4 DEF ThreadTypes

LEMMA AbortDoneKeeps ==
    ASSUME IndInv, NEW p \in Procs, AbortDone(p)
    PROVE  IndInv'
  <1> ThreadTypes /\ p # None BY Facts
  <1> /\ pc[p] = "abort_walk" /\ registry_lock' = None /\ bind_lock' = bind_lock
      /\ life' = life /\ bound_count' = bound_count /\ provider' = provider
      /\ UNCHANGED restVars /\ staged' = staged
    BY DEF AbortDone, txnVars, flagVars, sourceVars, requestVars, historyVars, restVars
  <1> /\ after[p] \in {"idle", "commit_audit"}
      /\ after[p] # "idle" => cur[p] # None
      /\ p \in late => after[p] = "idle" /\ cur[p] = None
      /\ p \notin late /\ cur[p] # None => life[cur[p]] = "open"
      /\ \A t \in Txns : bind_lock[t] # p
      /\ registry_lock = p
      /\ pc[p] \notin Closing /\ pc[p] \notin Downing /\ ~Commits(p)
      /\ pc[p] # "commit_wait" /\ pc[p] # "late_release"
    BY AbortFacts
  <1>4. \A u : ~Pends(p, u) /\ ~Frees(p, u) /\ ~Charged(p, u)
    BY NotDowning DEF Frees, Charged
  <1>5. CASE after[p] = "idle"
    <2>1. ThreadTypes' /\ Alone(p) /\ Idle(p)' BY <1>5, Returned DEF AbortDone
    <2>2. ThreadOK(p)' BY <2>1, IdleOK
    <2>3. p \notin late' /\ ~Token(p)' BY <2>1, Constants DEF Idle, Token
    <2>4. \A u \in Txns : Stays(p, u)
      BY <1>4, <2>3, Constants DEF Stays, Answers
    <2> QED BY <2>1, <2>2, <2>3, <2>4, RegistryMoves
  <1>6. CASE after[p] # "idle"
    <2>1. /\ Goto(p, "commit_audit") /\ after' = [after EXCEPT ![p] = None]
          /\ visited' = [visited EXCEPT ![p] = {}] /\ layer' = [layer EXCEPT ![p] = None]
          /\ UNCHANGED <<cur, verdict, late, late_session>>
      BY <1>6 DEF AbortDone
    <2>2. "commit_audit" \in Labels /\ "commit_audit" \in Calling BY DEF Labels, Calling
    <2> ThreadTypes' /\ Alone(p) /\ pc'[p] = "commit_audit"
      BY <2>1, <2>2, WalkEnds
    <2>4. p \notin late' /\ p \notin late /\ cur'[p] = cur[p] BY <1>6, <2>1
    <2>5. ThreadOK(p)' BY <1>6, <2>2, <2>4, CallingOK
    <2>6. \A u \in Txns : Stays(p, u) BY <2>4, SameStays
    <2>7. ~Token(p)' BY DEF Token
    <2> QED BY <2>5, <2>6, <2>7, RegistryMoves
  <1> QED BY <1>5, <1>6

(* A late response on its way to its transaction.                           *)
LEMMA HandlingOK ==
    ASSUME NEW p, pc'[p] = "late_lock" \/ pc'[p] = "late_walk", p \in late',
           NEW t, cur'[p] = t, t # None, late_session'[p] <= session',
           \A u \in Txns : bind_lock'[u] # p,
           pc'[p] = "late_walk" => registry_lock' = p, pc'[p] # "late_walk" => registry_lock' # p,
           Token(p)' => provider'[t] = "committed" /\ effects'[t] = 0,
           pc'[p] = "late_walk" => t \notin visited'[p],
           late_session'[p] < session' /\ Linked(t)' /\ Live(t)' => Pending(t)'
    PROVE  ThreadOK(p)'
  <1> /\ pc'[p] \notin Mutating /\ pc'[p] \notin Committing /\ pc'[p] \in Handling
      /\ pc'[p] \notin Closing /\ pc'[p] \notin Calling /\ pc'[p] \notin Downing
      /\ pc'[p] \notin FirstBinding /\ pc'[p] \notin Aborting
      /\ pc'[p] \notin {"commit_wait", "final", "apply",
                        "late_release", "commit_release", "down_walk"}
      /\ pc'[p] \in Walking <=> pc'[p] = "late_walk"
    BY DEF Closing, Calling, Mutating, Committing, Handling, Downing, Aborting,
           Walking, FirstBinding
  <1>2. ~Mutates(p)' /\ ~Commits(p)' BY DEF Mutates, Commits
  <1>3. ~Holds(p)' BY <1>2 DEF Holds
  <1>5. Shape(p)' BY DEF Shape
  <1>6. HoldsRegistry(p)' <=> registry_lock' = p BY <1>2 DEF HoldsRegistry
  <1>7. LockOK(p)' BY <1>2, <1>3, <1>6 DEF LockOK
  <1>8. MutateOK(p)' BY <1>2 DEF MutateOK
  <1>9. CommitOK(p)' BY <1>2 DEF CommitOK
  <1>10. LateOK(p)'
    <2>1. /\ Linked(cur[p])' <=> Linked(t)'
          /\ Live(cur[p])' <=> Live(t)'
          /\ Pending(cur[p])' <=> Pending(t)'
      BY DEF Linked, Live, Pending, Pends
    <2> QED BY <2>1 DEF LateOK
  <1> QED BY <1>5, <1>7, <1>8, <1>9, <1>10 DEF ThreadOK

(* What the walk of a late response knows of its own transaction.           *)
LEMMA HandlingFacts ==
    ASSUME IndInv, NEW p \in Procs, pc[p] \in {"late_lock", "late_walk"}
    PROVE  /\ p \in late /\ cur[p] \in Txns /\ cur[p] # None /\ late_session[p] <= session
           /\ \A u \in Txns : bind_lock[u] # p
           /\ registry_lock = p <=> pc[p] = "late_walk"
           /\ Token(p) => provider[cur[p]] = "committed" /\ effects[cur[p]] = 0
           /\ pc[p] = "late_walk" => cur[p] \notin visited[p]
           /\ late_session[p] < session /\ Linked(cur[p]) /\ Live(cur[p]) => Pending(cur[p])
           /\ pc[p] \notin Closing /\ pc[p] \notin Downing /\ ~Commits(p)
           /\ pc[p] # "commit_wait" /\ pc[p] # "late_release"
  <1>1. Shape(p) /\ LockOK(p) /\ CommitOK(p) /\ LateOK(p) /\ ThreadTypes BY Facts
  <1>2. /\ pc[p] \in Handling /\ pc[p] \notin Closing /\ pc[p] \notin Downing /\ ~Commits(p)
        /\ pc[p] # "commit_wait" /\ pc[p] # "late_release" /\ Works(p) /\ ~Holds(p)
        /\ (HoldsRegistry(p) <=> pc[p] = "late_walk")
    BY DEF Closing, Downing, Commits, Committing, Handling, Works, Holds, Mutates,
           Mutating, HoldsRegistry, Walking
  <1>3. p \in late /\ cur[p] # None /\ late_session[p] <= session
    BY <1>1, <1>2 DEF Shape
  <1> QED BY <1>1, <1>2, <1>3 DEF LockOK, CommitOK, LateOK, ThreadTypes

LEMMA LateLockKeeps ==
    ASSUME IndInv, NEW p \in Procs, LateLock(p)
    PROVE  IndInv'
  <1>0. PICK t : t = cur[p] OBVIOUS
  <1>2. "late_walk" \in Labels BY DEF Labels
  <1> /\ ThreadTypes' /\ Alone(p) /\ pc[p] = "late_lock" /\ pc'[p] = "late_walk"
      /\ cur' = cur /\ late' = late /\ late_session' = late_session /\ verdict' = verdict
      /\ visited'[p] = {}
      /\ registry_lock = None /\ registry_lock' = p /\ bind_lock' = bind_lock
      /\ bound_count' = bound_count /\ provider' = provider
      /\ UNCHANGED restVars /\ staged' = staged
    BY <1>2, WalkLocked DEF LateLock
  <1> /\ p \in late /\ t # None /\ late_session[p] <= session
      /\ \A u \in Txns : bind_lock[u] # p
      /\ Token(p) => provider[t] = "committed" /\ effects[t] = 0
      /\ late_session[p] < session /\ Linked(t) /\ Live(t) => Pending(t)
      /\ pc[p] \notin Closing /\ pc[p] \notin Downing /\ ~Commits(p)
      /\ pc[p] # "commit_wait" /\ pc[p] # "late_release"
    BY <1>0, HandlingFacts
  <1> /\ registry' = registry /\ session' = session /\ effects' = effects
      /\ state' = state /\ commit_in_flight' = commit_in_flight
    BY RestSame
  <1>6. (Linked(t)' <=> Linked(t)) /\ (Live(t)' <=> Live(t)) BY DEF Linked, Live
  <1>7. Pending(t) => Pending(t)' BY NotDowning, PendingStays
  <1>8. Token(p)' => Token(p) /\ cur'[p] = cur[p] BY DEF Token
  <1>9. ThreadOK(p)'
    <2>1. /\ pc'[p] \in {"late_lock", "late_walk"} /\ t \notin visited'[p]
          /\ pc'[p] = "late_walk" /\ registry_lock' = p
      OBVIOUS
    <2>2. /\ p \in late' /\ cur'[p] = t /\ late_session'[p] <= session'
          /\ \A u \in Txns : bind_lock'[u] # p
          /\ Token(p)' => provider'[t] = "committed" /\ effects'[t] = 0
      BY <1>0, <1>8
    <2>3. late_session'[p] < session' /\ Linked(t)' /\ Live(t)' => Pending(t)'
      BY <1>6, <1>7
    <2> QED BY <2>1, <2>2, <2>3, HandlingOK
  <1>10. \A u \in Txns : Stays(p, u) BY SameStays
  <1> QED BY <1>8, <1>9, <1>10, RegistryMoves

(* A late response with both locks.                                         *)
LEMMA LateApplyingOK ==
    ASSUME NEW p, pc'[p] = "apply", p \in late',
           NEW t, cur'[p] = t, t # None, late_session'[p] <= session',
           bind_lock'[t] = p, \A u \in Txns : bind_lock'[u] = p => u = t,
           registry_lock' = p, Linked(t)', state'[t] # "UNBOUND",
           Token(p)' => provider'[t] = "committed" /\ effects'[t] = 0,
           late_session'[p] < session' /\ Linked(t)' /\ Live(t)' => Pending(t)'
    PROVE  ThreadOK(p)'
  <1> /\ pc'[p] \notin Mutating /\ pc'[p] \in Committing /\ pc'[p] \notin Handling
      /\ pc'[p] \notin Closing /\ pc'[p] \notin Calling /\ pc'[p] \notin Downing
      /\ pc'[p] \notin FirstBinding /\ pc'[p] \notin Aborting
      /\ pc'[p] \notin {"commit_wait", "final", "late_walk", "late_release",
                        "commit_release", "down_walk"}
    BY DEF Closing, Calling, Mutating, Committing, Handling, Downing, Aborting, FirstBinding
  <1>2. ~Mutates(p)' /\ Commits(p)' BY DEF Mutates, Commits
  <1>3. Holds(p)' /\ HoldsRegistry(p)' BY <1>2 DEF Holds, HoldsRegistry
  <1>4. /\ Linked(cur[p])' <=> Linked(t)'
        /\ Live(cur[p])' <=> Live(t)'
        /\ Pending(cur[p])' <=> Pending(t)'
    BY DEF Linked, Live, Pending, Pends
  <1>5. Shape(p)' BY DEF Shape
  <1>7. LockOK(p)' BY <1>2, <1>3, <1>4 DEF LockOK
  <1>8. MutateOK(p)' BY <1>2 DEF MutateOK
  <1>9. CommitOK(p)' BY <1>2 DEF CommitOK
  <1>10. LateOK(p)' BY <1>4 DEF LateOK
  <1> QED BY <1>5, <1>7, <1>8, <1>9, <1>10 DEF ThreadOK

LEMMA LateVisitKeeps ==
    ASSUME IndInv, NEW p \in Procs, LateVisit(p)
    PROVE  IndInv'
  <1>0. PICK t : t = cur[p] OBVIOUS
  <1> PICK v \in Txns :
          /\ NextVisit(p, v)
          /\ bind_lock[v] = None
          /\ IF v = cur[p]
             THEN Lock(p, v) /\ Goto(p, "apply") /\ UNCHANGED visited
             ELSE /\ visited' = [visited EXCEPT ![p] = @ \cup {v}]
                  /\ UNCHANGED <<bind_lock, pc>>
    BY DEF LateVisit
  <1> /\ ThreadTypes /\ TxnTypes /\ RegistryTypes /\ SourceTypes BY Facts
  <1> /\ pc[p] = "late_walk" /\ bind_lock[v] = None
      /\ cur' = cur /\ verdict' = verdict /\ late' = late /\ late_session' = late_session
      /\ layer' = layer /\ after' = after
      /\ registry_lock' = registry_lock
      /\ bound_count' = bound_count /\ provider' = provider
      /\ UNCHANGED restVars /\ staged' = staged
    BY <1>0 DEF LateVisit, registryVars, sourceVars, requestVars, historyVars, restVars
  <1> v \in Txns /\ v \notin visited[p] /\ Linked(v)
    BY NextListed
  <1> /\ p \in late /\ t # None /\ late_session[p] <= session
      /\ \A u \in Txns : bind_lock[u] # p
      /\ registry_lock = p
      /\ Token(p) => provider[t] = "committed" /\ effects[t] = 0
      /\ t \notin visited[p]
      /\ late_session[p] < session /\ Linked(t) /\ Live(t) => Pending(t)
      /\ pc[p] \notin Closing /\ pc[p] \notin Downing /\ ~Commits(p)
      /\ pc[p] # "commit_wait" /\ pc[p] # "late_release"
    BY <1>0, HandlingFacts
  <1> /\ registry' = registry /\ session' = session /\ effects' = effects
      /\ state' = state /\ commit_in_flight' = commit_in_flight
    BY RestSame
  <1>6. (Linked(t)' <=> Linked(t)) /\ (Live(t)' <=> Live(t)) BY DEF Linked, Live
  <1>7. /\ bound_count' \in 0..Cap /\ provider' \in [Txns -> {"none", "open", "committed"}]
        /\ registry_lock' \in Procs \cup {None}
    BY DEF SourceTypes, RegistryTypes
  <1>8. CASE v = t
    <2> Lock(p, t) /\ pc' = [pc EXCEPT ![p] = "apply"] /\ visited' = visited
      BY <1>0, <1>8 DEF Goto
    <2>2. /\ bind_lock' \in [Txns -> Procs \cup {None}]
          /\ bind_lock'[t] = p
          /\ \A u \in Txns : bind_lock'[u] = p => u = t
          /\ OwnLocks(p)
      BY <1>8, Locked
    <2>3. "apply" \in Labels BY DEF Labels
    <2>4. ThreadTypes' BY <2>3 DEF ThreadTypes
    <2>5. Alone(p) BY DEF ThreadTypes, Alone, SameCall
    <2>6. pc'[p] = "apply" BY DEF ThreadTypes
    <2>7. Token(p)' => Token(p) /\ cur'[p] = cur[p] BY <2>6 DEF Token
    <2>8. Pending(t) => Pending(t)' BY <2>5, NotDowning, PendingStays
    <2>9. state[t] # "UNBOUND"
      <3>1. TxnOK(t) /\ ~Virgin(t) BY <1>0, <1>8 DEF IndInv, Virgin
      <3> QED BY <3>1 DEF TxnOK
    <2>10. ThreadOK(p)'
      BY <1>0, <1>6, <1>8, <2>2, <2>6, <2>7, <2>8, <2>9,
         LateApplyingOK
    <2>11. \A u \in Txns : Stays(p, u) BY SameStays
    <2> QED BY <1>7, <2>2, <2>4, <2>5, <2>7, <2>10, <2>11, ProviderSame, Moved
  <1>9. CASE v # t
    <2> /\ visited' = [visited EXCEPT ![p] = @ \cup {v}] /\ bind_lock' = bind_lock /\ pc' = pc
      BY <1>0, <1>9
    <2>2. ThreadTypes'
      <3>1. visited' \in [Procs -> SUBSET Txns] BY DEF ThreadTypes
      <3> QED BY <3>1 DEF ThreadTypes
    <2>3. Alone(p) BY DEF ThreadTypes, Alone, SameCall
    <2>4. pc'[p] = "late_walk" /\ t \notin visited'[p]
      <3>1. visited'[p] = visited[p] \cup {v} BY DEF ThreadTypes
      <3> QED BY <1>9, <3>1
    <2>5. Token(p)' => Token(p) /\ cur'[p] = cur[p] BY DEF Token
    <2>6. Pending(t) => Pending(t)' BY <2>3, NotDowning, PendingStays
    <2>7. ThreadOK(p)'
      <3>1. /\ pc'[p] \in {"late_lock", "late_walk"} /\ t \notin visited'[p]
            /\ pc'[p] = "late_walk" /\ registry_lock' = p
        BY <2>4
      <3>2. /\ p \in late' /\ cur'[p] = t /\ late_session'[p] <= session'
            /\ \A u \in Txns : bind_lock'[u] # p
            /\ Token(p)' => provider'[t] = "committed" /\ effects'[t] = 0
        BY <1>0, <2>5
      <3>3. late_session'[p] < session' /\ Linked(t)' /\ Live(t)' => Pending(t)'
        BY <1>6, <2>6
      <3> QED BY <3>1, <3>2, <3>3, HandlingOK
    <2>8. \A u \in Txns : Stays(p, u) BY SameStays
    <2> QED BY <2>2, <2>3, <2>5, <2>7, <2>8, RegistryMoves
  <1> QED BY <1>8, <1>9

(* The walk that takes the source down.                                     *)
LEMMA DownLockKeeps ==
    ASSUME IndInv, NEW p \in Procs, DownLock(p)
    PROVE  IndInv'
  <1>0. PICK t : t = cur[p] OBVIOUS
  <1> /\ Shape(p) /\ LockOK(p) /\ MutateOK(p) /\ CommitOK(p) /\ LateOK(p) /\ p # None
    BY Facts
  <1>2. "down_walk" \in Labels BY DEF Labels
  <1> /\ ThreadTypes' /\ Alone(p) /\ pc[p] = "down_lock" /\ pc'[p] = "down_walk"
      /\ cur' = cur /\ late' = late /\ late_session' = late_session /\ verdict' = verdict
      /\ visited'[p] = {} /\ after' = after
      /\ registry_lock = None /\ registry_lock' = p /\ bind_lock' = bind_lock
      /\ bound_count' = bound_count /\ provider' = provider
      /\ UNCHANGED restVars /\ staged' = staged
    BY <1>2, WalkLocked DEF DownLock
  <1> /\ registry' = registry /\ session' = session /\ effects' = effects
      /\ state' = state /\ commit_in_flight' = commit_in_flight /\ life' = life
      /\ audits' = audits /\ mutation_log' = mutation_log
    BY RestSame
  <1> /\ Commits(p)' <=> Commits(p)
      /\ Mutates(p)' <=> Mutates(p)
      /\ Works(p)' <=> Works(p)
      /\ pc'[p] \in Downing /\ pc'[p] \in Walking /\ pc[p] \in Downing
      /\ pc'[p] \notin Handling /\ pc'[p] \notin Aborting /\ pc'[p] \notin FirstBinding
      /\ pc'[p] \notin Closing /\ pc[p] \notin Closing
      /\ pc'[p] \notin {"commit_wait", "final", "late_walk", "late_release", "commit_release"}
      /\ pc[p] \notin {"commit_wait", "late_release"} /\ ~Token(p)'
    BY DEF Commits, Committing, Mutates, Mutating, Works, Downing, Walking, Handling,
                Aborting, FirstBinding, Closing, Calling, Token
  <1>6. Holds(p)' <=> Holds(p) BY DEF Holds
  <1>7. p \in late => after[p] = "idle"
    <2>1. p \in late => after[p] \in {"idle", "broken"}
      BY DEF Shape, Handling, Aborting
    <2>2. p \in late => ~Commits(p) BY DEF LockOK, HoldsRegistry
    <2> QED BY <2>1, <2>2 DEF Commits
  <1>8. \A u : Pends(p, u)' BY DEF Pends
  <1>9. Shape(p)' BY <1>7 DEF Shape
  <1>10. LockOK(p)'
    <2>1. (Linked(cur[p])' <=> Linked(cur[p])) /\ HoldsRegistry(p)'
      BY DEF Linked, HoldsRegistry
    <2> QED BY <1>6, <2>1 DEF LockOK
  <1>11. MutateOK(p)' BY DEF MutateOK
  <1>12. CommitOK(p)' BY DEF CommitOK
  <1>13. LateOK(p)'
    <2>1. Pending(cur[p])' BY <1>8 DEF Pending, Pends
    <2> QED BY <2>1 DEF LateOK
  <1>14. \A u \in Txns : Stays(p, u)
    BY <1>8 DEF Stays, Charged, Answers, Frees
  <1>15. ThreadOK(p)' BY <1>9, <1>10, <1>11, <1>12, <1>13 DEF ThreadOK
  <1> QED BY <1>14, <1>15, RegistryMoves

LEMMA DownDoneKeeps ==
    ASSUME IndInv, NEW p \in Procs, DownDone(p)
    PROVE  IndInv'
  <1>0. PICK t : t = cur[p] OBVIOUS
  <1> /\ Shape(p) /\ LockOK(p) /\ MutateOK(p) /\ CommitOK(p) /\ LateOK(p) /\ p # None
      /\ ThreadTypes
    BY Facts
  <1> /\ pc[p] = "down_walk" /\ WalkedAll(p) /\ registry_lock' = None
      /\ bind_lock' = bind_lock /\ bound_count' = bound_count /\ provider' = provider
      /\ UNCHANGED restVars /\ staged' = staged
    BY DEF DownDone, txnVars, sourceVars, requestVars, historyVars, restVars
  <1> /\ life' = life /\ state' = state /\ audits' = audits /\ mutation_log' = mutation_log
    BY RestSame
  <1> /\ pc[p] \in Downing /\ pc[p] \in Walking /\ pc[p] \notin Closing
      /\ pc[p] \notin Handling \cup {"apply", "final", "broken"}
      /\ pc[p] # "commit_wait" /\ pc[p] # "late_release" /\ pc[p] # "down_lock"
      /\ pc[p] \notin Aborting /\ pc[p] \notin Mutating /\ pc[p] \notin Committing
      /\ pc[p] \notin Closing \cup Calling \cup Mutating \cup Committing \cup Handling
    BY DEF Downing, Walking, Closing, Handling, Aborting, Mutating, Committing, Calling
  <1>5. registry_lock = p BY DEF LockOK, HoldsRegistry
  <1> /\ after[p] \in {"idle", "mutate_cancel", "commit_audit", "broken"}
      /\ p \in late => after[p] = "idle"
      /\ after[p] # "idle" => t # None /\ life[t] = "open"
    <2>1. after[p] # "idle" => Works(p) BY DEF Works
    <2>2. /\ after[p] \in {"idle", "mutate_cancel", "commit_audit", "broken"}
          /\ p \in late => after[p] = "idle"
          /\ after[p] # "idle" => t # None
      BY <1>0, <2>1 DEF Shape
    <2> QED BY <1>0, <2>2 DEF LockOK
  <1> /\ Mutates(p) <=> after[p] = "mutate_cancel"
      /\ Commits(p) <=> after[p] = "broken"
    BY DEF Mutates, Commits
  <1> /\ Holds(p) => bind_lock[t] = p
      /\ \A u \in Txns : bind_lock[u] = p => Holds(p) /\ u = t
    BY <1>0 DEF LockOK
  <1>9. \A u : ~(Linked(u) /\ Pends(p, u))
    BY NoneLeft DEF Pends
  <1>10. \A u : ~Frees(p, u) BY DEF Frees
  <1>11. ASSUME NEW u, Linked(u), Live(u) PROVE ~Answers(p, u)
    BY <1>11, NoneLeft DEF Answers, LateOK
  <1>12. CASE after[p] = "idle"
    <2>1. ThreadTypes' /\ Alone(p) /\ Idle(p)' BY <1>12, Returned DEF DownDone
    <2>2. after[p] # "mutate_cancel" /\ after[p] # "broken" BY <1>12
    <2>3. ~Holds(p) BY <2>2 DEF Holds
    <2>4. ThreadOK(p)' BY <2>1, <2>3, IdleOK
    <2>5. p \notin late' /\ ~Token(p)' BY <2>1, Constants DEF Idle, Token
    <2>6. \A u \in Txns : Stays(p, u)
      BY <1>9, <1>10, <1>11, <2>2, <2>5 DEF Stays, Charged, Answers
    <2> QED BY <1>5, <2>1, <2>4, <2>5, <2>6, RegistryMoves
  <1>13. CASE after[p] # "idle"
    <2>1. /\ Goto(p, after[p]) /\ after' = [after EXCEPT ![p] = None]
          /\ visited' = [visited EXCEPT ![p] = {}] /\ layer' = layer
          /\ UNCHANGED <<cur, verdict, late, late_session>>
      BY <1>13 DEF DownDone
    <2>2. after[p] \in Labels BY DEF Labels
    <2> ThreadTypes' /\ Alone(p) /\ pc'[p] = after[p]
      BY <2>1, <2>2, WalkEnds
    <2>4. p \notin late' /\ p \notin late /\ cur'[p] = t BY <1>0, <1>13, <2>1
    <2>5. ~Token(p)' BY DEF Token
    <2>6. Commits(p) => Commits(p)' BY DEF Commits, Committing
    <2>7. \A u \in Txns : Stays(p, u)
      BY <1>0, <1>9, <1>10, <2>4, <2>6 DEF Stays, Charged, Answers
    <2>8. ThreadOK(p)'
      <3>1. CASE after[p] = "commit_audit"
        <4>1. pc'[p] \in Calling BY <3>1 DEF Calling
        <4>2. ~Holds(p) BY <3>1 DEF Holds
        <4> QED BY <1>13, <2>4, <4>1, <4>2, CallingOK
      <3>2. CASE after[p] = "mutate_cancel"
        <4>1. pc'[p] \in Mutating /\ pc'[p] \notin FirstBinding
          BY <3>2 DEF Mutating, FirstBinding
        <4>2. Mutates(p) /\ Holds(p) BY <3>2 DEF Holds
        <4>3. audits[t] = 0 /\ Len(mutation_log[t]) < LogCapacity
          BY <1>0, <4>2 DEF MutateOK
        <4>4. /\ t # None /\ life'[t] = "open" /\ bind_lock'[t] = p /\ registry_lock' # p
              /\ \A u \in Txns : bind_lock'[u] = p => u = t
              /\ audits'[t] = 0 /\ Len(mutation_log'[t]) < LogCapacity
          BY <1>13, <4>2, <4>3
        <4> QED BY <2>4, <4>1, <4>4, MutatingOK
      <3>3. CASE after[p] = "broken"
        <4>1. pc'[p] \in Committing BY <3>3 DEF Committing
        <4>2. Commits(p) /\ Holds(p) BY <3>3 DEF Holds
        <4>3. pc'[p] \notin {"commit_wait", "final", "commit_release"} BY <3>3
        <4>4. CommitOK(p)'
          BY <1>0, <2>4, <2>5, <4>2, <4>3 DEF CommitOK
        <4>5. /\ t # None /\ life'[t] = "open" /\ bind_lock'[t] = p /\ registry_lock' # p
              /\ \A u \in Txns : bind_lock'[u] = p => u = t
              /\ pc'[p] # "commit_release"
          BY <1>13, <4>2, <4>3
        <4> QED BY <2>4, <4>1, <4>4, <4>5, CommittingOK
      <3> QED BY <1>13, <3>1, <3>2, <3>3
    <2> QED BY <1>5, <2>5, <2>7, <2>8, RegistryMoves
  <1> QED BY <1>12, <1>13

-----------------------------------------------------------------------------
(* A thread takes the source down.  Its walk has every transaction ahead of *)
(* it.                                                                      *)
Going(p, t) ==
    /\ after[p] \in {"idle", "mutate_cancel", "commit_audit", "broken"}
    /\ p \in late => /\ after[p] = "idle" \/ after[p] = "broken"
                     /\ late_session[p] <= session
    /\ after[p] # "idle" => t # None
    /\ (after[p] = "mutate_cancel" \/ after[p] = "broken") => bind_lock[t] = p
    /\ \A u \in Txns : bind_lock[u] = p =>
                        (after[p] = "mutate_cancel" \/ after[p] = "broken") /\ u = t
    /\ registry_lock = p <=> p \in late /\ after[p] = "broken"
    /\ p \notin late /\ t # None => life[t] = "open"
    /\ p \in late /\ after[p] = "broken" => Linked(t)
    /\ after[p] = "mutate_cancel" => audits[t] = 0 /\ Len(mutation_log[t]) < LogCapacity
    /\ after[p] = "broken" => state[t] # "UNBOUND"

LEMMA DowningOK ==
    ASSUME NEW p \in Procs, pc'[p] = "down_lock", NEW t, cur'[p] = t, Going(p, t)'
    PROVE  ThreadOK(p)' /\ ~Token(p)'
  <1> /\ pc'[p] \notin Mutating /\ pc'[p] \notin Committing /\ pc'[p] \notin Handling
      /\ pc'[p] \notin Closing /\ pc'[p] \notin Calling /\ pc'[p] \in Downing
      /\ pc'[p] \notin FirstBinding /\ pc'[p] \notin Aborting /\ pc'[p] \notin Walking
      /\ pc'[p] \notin {"commit_wait", "final", "late_lock", "late_walk", "apply",
                        "late_release", "commit_release", "down_walk"}
      /\ pc'[p] \notin Closing \cup Calling \cup Mutating \cup Committing \cup Handling
    BY DEF Closing, Calling, Mutating, Committing, Handling, Downing, Aborting,
           FirstBinding, Walking
  <1> /\ Mutates(p)' <=> after'[p] = "mutate_cancel"
      /\ Commits(p)' <=> after'[p] = "broken"
    BY DEF Mutates, Commits
  <1>3. Holds(p)' <=> (after'[p] = "mutate_cancel" \/ after'[p] = "broken") BY DEF Holds
  <1>4. HoldsRegistry(p)' <=> p \in late' /\ after'[p] = "broken"
    BY DEF HoldsRegistry
  <1>5. Works(p)' => after'[p] # "idle" BY DEF Works
  <1>6. ~Token(p)' BY DEF Token
  <1>7. /\ Linked(cur[p])' <=> Linked(t)'
        /\ Pending(cur[p])'
    BY DEF Linked, Pending, Pends
  <1>8. Shape(p)' BY <1>5 DEF Shape, Going
  <1>9. LockOK(p)' BY <1>3, <1>4, <1>7 DEF LockOK, Going
  <1>10. MutateOK(p)' BY DEF MutateOK, Going
  <1>11. CommitOK(p)' BY <1>6 DEF CommitOK, Going
  <1>12. LateOK(p)' BY <1>7 DEF LateOK
  <1> QED BY <1>6, <1>8, <1>9, <1>10, <1>11, <1>12 DEF ThreadOK

(* The thread may have published its commit on the way.                     *)
Published(p) ==
    \/ effects' = effects
    \/ Token(p) /\ effects' = [effects EXCEPT ![cur[p]] = @ + 1]

LEMMA PublishedFacts ==
    ASSUME IndInv, NEW p \in Procs, Published(p)
    PROVE  /\ effects' \in [Txns -> Nat]
           /\ \A u \in Txns : /\ effects'[u] <= 1
                              /\ effects[u] = 1 => effects'[u] = 1
                              /\ effects'[u] = 1 => provider[u] = "committed"
           /\ \A q \in Procs \ {p} :
                 Token(q) /\ cur[q] \in Txns => effects'[cur[q]] = effects[cur[q]]
  <1>1. HistoryTypes /\ ThreadTypes /\ CommitOK(p) /\ OneToken
    BY Facts DEF IndInv
  <1>2. \A u \in Txns : TxnOK(u) BY DEF IndInv
  <1>3. CASE effects' = effects BY <1>1, <1>2, <1>3 DEF HistoryTypes, TxnOK
  <1>4. CASE Token(p) /\ effects' = [effects EXCEPT ![cur[p]] = @ + 1]
    <2>1. effects[cur[p]] = 0 /\ provider[cur[p]] = "committed"
      BY <1>1, <1>4 DEF CommitOK
    <2>2. effects' = [effects EXCEPT ![cur[p]] = 1] BY <1>4, <2>1, SMT
    <2>3. effects' \in [Txns -> Nat]
      <3>1. 1 \in Nat OBVIOUS
      <3> QED BY <1>1, <2>2, <3>1 DEF HistoryTypes
    <2>4. \A u \in Txns : effects'[u] = IF u = cur[p] THEN 1 ELSE effects[u]
      BY <1>1, <2>2 DEF HistoryTypes
    <2>5. 1 <= 1 BY SMT
    <2>6. ASSUME NEW u \in Txns
          PROVE  /\ effects'[u] <= 1
                 /\ effects[u] = 1 => effects'[u] = 1
                 /\ effects'[u] = 1 => provider[u] = "committed"
      <3>1. effects[u] <= 1 /\ (effects[u] = 1 => provider[u] = "committed")
        BY <1>2 DEF TxnOK
      <3>2. CASE u = cur[p]
        <4>1. effects'[u] = 1 BY <2>4, <3>2
        <4> QED BY <2>1, <2>5, <3>2, <4>1
      <3>3. CASE u # cur[p]
        <4>1. effects'[u] = effects[u] BY <2>4, <3>3
        <4> QED BY <3>1, <4>1
      <3> QED BY <3>2, <3>3
    <2>7. ASSUME NEW q \in Procs \ {p}, Token(q), cur[q] \in Txns
          PROVE  effects'[cur[q]] = effects[cur[q]]
      <3>1. cur[q] # cur[p] BY <1>1, <1>4, <2>7 DEF OneToken
      <3> QED BY <2>4, <2>7, <3>1
    <2> QED BY <2>3, <2>6, <2>7
  <1> QED BY <1>3, <1>4 DEF Published

LEMMA DownStep ==
    ASSUME IndInv, NEW p \in Procs, NEW label, SourceGoesDown, DownGoto(p, "down_lock"),
           label \in {"idle", "mutate_cancel", "commit_audit", "broken"},
           after' = [after EXCEPT ![p] = label], visited' = [visited EXCEPT ![p] = {}],
           UNCHANGED <<cur, verdict, late, late_session, layer>>,
           UNCHANGED <<flagVars, mutation_log, audit_pending, registry, audits, staged>>,
           Published(p), OwnLocks(p),
           bind_lock' \in [Txns -> Procs \cup {None}], registry_lock' \in Procs \cup {None},
           pc[p] # "commit_wait", pc[p] \notin Closing, pc[p] # "late_release",
           pc'[p] = "down_lock" /\ after'[p] = label => ThreadOK(p)' /\ ~Token(p)'
    PROVE  IndInv'
  <1> /\ TxnTypes /\ RegistryTypes /\ SourceTypes /\ RequestTypes /\ ThreadTypes
      /\ HistoryTypes /\ late \subseteq Procs
    BY Facts
  <1> /\ cur' = cur /\ verdict' = verdict /\ late' = late /\ late_session' = late_session
      /\ layer' = layer
      /\ life' = life /\ state' = state /\ commit_in_flight' = commit_in_flight
      /\ timeout_abort_pending' = timeout_abort_pending /\ timer' = timer
      /\ mutation_log' = mutation_log /\ audit_pending' = audit_pending
      /\ registry' = registry /\ audits' = audits /\ staged' = staged
    BY DEF flagVars
  <1> /\ active' = FALSE /\ bound_count' = 0 /\ session' = session
      /\ provider' = [t \in Txns |-> IF provider[t] = "open" THEN "none" ELSE provider[t]]
      /\ req_txn' = [r \in Slots |-> None] /\ req_owner' = [r \in Slots |-> None]
      /\ req_status' = [r \in Slots |-> None]
    BY DEF SourceGoesDown
  <1>4. pc' = [q \in Procs |-> IF q = p THEN "down_lock"
                               ELSE IF q \in Waiting THEN "commit_fails" ELSE pc[q]]
    BY DEF DownGoto
  <1>5. /\ pc'[p] = "down_lock" /\ after'[p] = label BY <1>4 DEF ThreadTypes
  <1>6. \A q \in Procs : q \in Waiting <=> pc[q] = "commit_wait"
    <2>1. \A r \in Slots : SlotOK(r) BY DEF IndInv
    <2> SUFFICES ASSUME NEW q \in Procs PROVE q \in Waiting <=> pc[q] = "commit_wait" OBVIOUS
    <2> CommitOK(q) /\ q # None BY Facts, Constants
    <2>3. q \in Waiting <=> \E r \in Slots : req_owner[r] = q BY DEF Waiting
    <2>4. ASSUME q \in Waiting PROVE pc[q] = "commit_wait"
      <3>1. PICK r \in Slots : req_owner[r] = q BY <2>3, <2>4
      <3>2. SlotOK(r) /\ req_owner[r] # None BY <2>1, <3>1
      <3> QED BY <3>1, <3>2 DEF SlotOK
    <2> QED BY <2>3, <2>4 DEF CommitOK
  <1>7. ASSUME NEW q \in Procs \ {p}
        PROVE  /\ SameCall(q)
               /\ pc'[q] = pc[q] \/ (pc[q] = "commit_wait" /\ pc'[q] = "commit_fails")
               /\ pc'[q] # "commit_wait"
    <2>1. SameCall(q) BY DEF SameCall, ThreadTypes
    <2>2. pc'[q] = IF pc[q] = "commit_wait" THEN "commit_fails" ELSE pc[q]
      BY <1>4, <1>6
    <2>3. "commit_fails" # "commit_wait" OBVIOUS
    <2> QED BY <2>1, <2>2, <2>3
  <1>8. \A u : Pending(u)' BY <1>5 DEF Pending, Pends
  <1>9. \A u : Linked(u)' <=> Linked(u) BY DEF Linked
  <1>10. OnlyOpenForgotten BY DEF OnlyOpenForgotten
  <1>11. /\ effects' \in [Txns -> Nat]
         /\ \A u \in Txns : /\ effects'[u] <= 1
                            /\ effects[u] = 1 => effects'[u] = 1
                            /\ effects'[u] = 1 => provider[u] = "committed"
         /\ \A q \in Procs \ {p} :
               Token(q) /\ cur[q] \in Txns => effects'[cur[q]] = effects[cur[q]]
    BY PublishedFacts
  <1>12. TypeOK'
    <2>1. TxnTypes' BY DEF TxnTypes
    <2>2. RegistryTypes' BY DEF RegistryTypes
    <2>3. SourceTypes'
      <3>1. Cap \in Nat BY Constants
      <3>2. 0 \in 0..Cap /\ FALSE \in BOOLEAN BY <3>1, SMT
      <3>3. provider' \in [Txns -> {"none", "open", "committed"}] BY DEF SourceTypes
      <3> QED BY <3>2, <3>3 DEF SourceTypes
    <2>4. RequestTypes' BY DEF RequestTypes
    <2>5. ThreadTypes'
      <3>1. "down_lock" \in Labels /\ "commit_fails" \in Labels BY DEF Labels
      <3>2. pc' \in [Procs -> Labels] BY <1>4, <3>1 DEF ThreadTypes
      <3> QED BY <3>2 DEF ThreadTypes
    <2>6. HistoryTypes' BY <1>11 DEF HistoryTypes
    <2> QED BY <2>1, <2>2, <2>3, <2>4, <2>5, <2>6, TypeParts
  <1>13. \A u \in Txns : Virgin(u) => Virgin(u)'
    <2> SUFFICES ASSUME NEW u \in Txns, Virgin(u) PROVE Virgin(u)' OBVIOUS
    <2>1. provider'[u] # "committed" BY <1>10 DEF OnlyOpenForgotten, Virgin
    <2>2. \A r \in Slots : req_txn'[r] # u BY Constants
    <2> QED BY <2>1, <2>2 DEF Virgin
  <1>14. ASSUME NEW q \in Procs PROVE ThreadOK(q)'
    <2>1. CASE q = p BY <1>5, <2>1
    <2>2. CASE q # p
      <3> q # None /\ q \in Procs \ {p} BY <2>2, Constants
      <3>2. session <= session' /\ session' \in Int BY SMT DEF SourceTypes
      <3>3. registry_lock' = q <=> registry_lock = q BY DEF OwnLocks
      <3>4. ASSUME NEW t \in Txns PROVE Guards(q, t)
        <4>1. bind_lock'[t] = q <=> bind_lock[t] = q BY DEF OwnLocks
        <4>2. bind_lock[t] = q => Linked(t) BY HeldListed
        <4>3. provider[t] = "committed" => provider'[t] = "committed"
          BY <1>10 DEF OnlyOpenForgotten
        <4>4. Token(q) /\ cur[q] = t => effects'[t] = effects[t] BY <1>11
        <4> QED BY <1>8, <1>9, <1>11, <1>13, <4>1, <4>2, <4>3, <4>4 DEF Guards
      <3>5. Relies(q) BY <1>7, <3>2, <3>3, <3>4 DEF Relies
      <3> QED BY <3>2, <3>5, RelyKeeps
    <2> QED BY <2>1, <2>2
  <1>15. ASSUME NEW u \in Txns PROVE TxnOK(u)'
    <2>1. TxnOK(u) BY DEF IndInv
    <2>2. Live(u)' <=> Live(u) BY DEF Live
    <2>3. Owned(u)' BY <1>8, OwnedByNext
    <2>4. Freed(u) => Freed(u)'
      <3> SUFFICES ASSUME NEW q \in Procs, Frees(q, u) PROVE Frees(q, u)' BY DEF Freed
      <3>1. q # p BY DEF Frees
      <3>2. pc[q] # "commit_wait" BY DEF Frees, Closing
      <3>3. pc'[q] = pc[q] /\ SameCall(q) BY <1>7, <3>1, <3>2
      <3> QED BY <1>9, <3>3 DEF Frees, SameCall
    <2>5. effects'[u] = 1 => provider'[u] = "committed"
      BY <1>10, <1>11 DEF OnlyOpenForgotten
    <2> QED BY <1>8, <1>9, <1>11, <1>13, <2>1, <2>2, <2>3, <2>4, <2>5 DEF TxnOK
  <1>16. ASSUME NEW r \in Slots PROVE SlotOK(r)'
    <2>1. req_txn'[r] = None /\ req_owner'[r] = None /\ req_status'[r] = None
      OBVIOUS
    <2> QED BY <2>1, Constants DEF SlotOK
  <1>17. OneToken'
    <2>1. \A r \in Slots : req_status'[r] # "ok" BY Constants
    <2>2. \A q \in Procs : Token(q)' => Token(q)
      <3> SUFFICES ASSUME NEW q \in Procs, Token(q)' PROVE Token(q) OBVIOUS
      <3>1. q \in Procs \ {p} BY <1>5
      <3> QED BY <1>7, <3>1, RolesSame
    <2>3. OneToken BY DEF IndInv
    <2> QED BY <2>1, <2>2, <2>3 DEF OneToken
  <1>18. Listed' BY DEF IndInv, Listed
  <1> QED BY <1>12, <1>14, <1>15, <1>16, <1>17, <1>18 DEF IndInv

(* What thread p has once it is on its way down, to come back to label.     *)
Departs(p, label) ==
    /\ label \in {"idle", "mutate_cancel", "commit_audit", "broken"}
    /\ pc[p] # "commit_wait" /\ pc[p] \notin Closing /\ pc[p] # "late_release"
    /\ p \in late => label = "idle" \/ label = "broken"
    /\ label # "idle" => cur[p] # None
    /\ (label = "mutate_cancel" \/ label = "broken") => bind_lock'[cur[p]] = p
    /\ \A u \in Txns : bind_lock'[u] = p =>
                        (label = "mutate_cancel" \/ label = "broken") /\ u = cur[p]
    /\ registry_lock' = p <=> p \in late /\ label = "broken"
    /\ p \notin late /\ cur[p] # None => life[cur[p]] = "open"
    /\ p \in late /\ label = "broken" => Linked(cur[p])
    /\ label = "mutate_cancel" =>
          audits[cur[p]] = 0 /\ Len(mutation_log[cur[p]]) < LogCapacity
    /\ label = "broken" => state[cur[p]] # "UNBOUND"

LEMMA GoesDown ==
    ASSUME IndInv, NEW p \in Procs, NEW label, MarkDown(p, TRUE, label), Departs(p, label),
           UNCHANGED <<flagVars, mutation_log, audit_pending, registry, audits, staged>>,
           Published(p), OwnLocks(p),
           bind_lock' \in [Txns -> Procs \cup {None}], registry_lock' \in Procs \cup {None}
    PROVE  IndInv'
  <1>0. PICK t : t = cur[p] OBVIOUS
  <1>1. /\ SourceGoesDown /\ DownGoto(p, "down_lock")
        /\ after' = [after EXCEPT ![p] = label] /\ visited' = [visited EXCEPT ![p] = {}]
        /\ UNCHANGED <<cur, verdict, late, late_session, layer>>
    BY DEF MarkDown
  <1>2. /\ life' = life /\ state' = state /\ mutation_log' = mutation_log
        /\ audits' = audits /\ session' = session /\ registry' = registry
        /\ cur' = cur /\ late' = late /\ late_session' = late_session
    BY <1>1 DEF flagVars, SourceGoesDown
  <1>3. Linked(t)' <=> Linked(t) BY <1>2 DEF Linked
  <1>4. p \in late => late_session[p] <= session BY Facts DEF Shape
  <1>5. ASSUME pc'[p] = "down_lock", after'[p] = label
        PROVE  ThreadOK(p)' /\ ~Token(p)'
    <2>1. /\ after'[p] \in {"idle", "mutate_cancel", "commit_audit", "broken"}
          /\ cur'[p] = t
          /\ p \in late' => /\ after'[p] = "idle" \/ after'[p] = "broken"
                            /\ late_session'[p] <= session'
          /\ after'[p] # "idle" => t # None
      BY <1>0, <1>2, <1>4, <1>5 DEF Departs
    <2>2. /\ (after'[p] = "mutate_cancel" \/ after'[p] = "broken") => bind_lock'[t] = p
          /\ \A u \in Txns : bind_lock'[u] = p => /\ (after'[p] = "mutate_cancel" \/ after'[p] = "broken")
                                                  /\ u = t
          /\ registry_lock' = p <=> p \in late' /\ after'[p] = "broken"
      BY <1>0, <1>2, <1>5 DEF Departs
    <2>3. /\ p \notin late' /\ t # None => life'[t] = "open"
          /\ p \in late' /\ after'[p] = "broken" => Linked(t)'
          /\ after'[p] = "mutate_cancel" => /\ audits'[t] = 0
                                            /\ Len(mutation_log'[t]) < LogCapacity
          /\ after'[p] = "broken" => state'[t] # "UNBOUND"
      BY <1>0, <1>2, <1>3, <1>5 DEF Departs
    <2>4. Going(p, t)' BY <2>1, <2>2, <2>3 DEF Going
    <2> QED BY <1>5, <2>1, <2>4, DowningOK
  <1>6. pc'[p] = "down_lock" /\ after'[p] = label => ThreadOK(p)' /\ ~Token(p)'
    BY <1>5
  <1>7. /\ label \in {"idle", "mutate_cancel", "commit_audit", "broken"}
        /\ pc[p] # "commit_wait" /\ pc[p] \notin Closing /\ pc[p] # "late_release"
    BY DEF Departs
  <1> QED BY <1>1, <1>6, <1>7, DownStep

(* It goes down without a lock.                                             *)
LEMMA LeavesDown ==
    ASSUME IndInv, NEW p \in Procs, NEW label, MarkDown(p, TRUE, label),
           label = "idle" \/ label = "commit_audit",
           UNCHANGED <<flagVars, mutation_log, audit_pending, registry, audits, staged>>,
           effects' = effects, OwnLocks(p),
           bind_lock' \in [Txns -> Procs \cup {None}], registry_lock' \in Procs \cup {None},
           pc[p] # "commit_wait", pc[p] \notin Closing, pc[p] # "late_release",
           p \in late => label = "idle",
           label # "idle" => cur[p] # None,
           \A u \in Txns : bind_lock'[u] # p, registry_lock' # p,
           p \notin late /\ cur[p] # None => life[cur[p]] = "open"
    PROVE  IndInv'
  <1>1. /\ label # "broken" /\ label # "mutate_cancel"
        /\ label \in {"idle", "mutate_cancel", "commit_audit", "broken"}
    OBVIOUS
  <1>2. Published(p) BY DEF Published
  <1>3. Departs(p, label) BY <1>1 DEF Departs
  <1> QED BY <1>2, <1>3, GoesDown

LEMMA LocksSame ==
    ASSUME TxnTypes, RegistryTypes, NEW p, bind_lock' = bind_lock,
           registry_lock' = registry_lock \/ (registry_lock = p /\ registry_lock' = None)
    PROVE  /\ OwnLocks(p) /\ bind_lock' \in [Txns -> Procs \cup {None}]
           /\ registry_lock' \in Procs \cup {None}
  BY DEF OwnLocks, TxnTypes, RegistryTypes

(* A late response of an earlier session of the source, or of one that is   *)
(* over, leaves its transaction to the walk that takes the source down.     *)
LEMMA Overdue ==
    ASSUME IndInv, NEW p \in Procs, p \in late, NEW t \in Txns, cur[p] = t,
           ~(active /\ session = late_session[p]), Linked(t), Live(t)
    PROVE  Pending(t)
  <1>1. TxnOK(t) /\ t # None BY Constants DEF IndInv
  <1>2. Shape(p) /\ LateOK(p) /\ SourceTypes /\ ThreadTypes BY Facts
  <1>3. CASE ~active BY <1>1, <1>3 DEF TxnOK
  <1>4. CASE session # late_session[p]
    <2>1. late_session[p] <= session /\ late_session[p] \in 0..MaxSession
      BY <1>2 DEF Shape, ThreadTypes
    <2>2. late_session[p] < session BY <1>2, <1>4, <2>1, SMT DEF SourceTypes
    <2> QED BY <1>1, <1>2, <2>2 DEF LateOK
  <1> QED BY <1>3, <1>4

LEMMA SourceDownKeeps ==
    ASSUME IndInv, NEW p \in Procs, SourceDown(p)
    PROVE  IndInv'
  <1> /\ pc[p] = "idle" /\ MarkDown(p, TRUE, "idle")
      /\ UNCHANGED <<flagVars, mutation_log, audit_pending, registry, audits, staged>>
      /\ bind_lock' = bind_lock /\ registry_lock' = registry_lock /\ effects' = effects
    BY DEF SourceDown, txnVars, registryVars, historyVars
  <1> Shape(p) /\ LockOK(p) /\ TxnTypes /\ RegistryTypes BY Facts
  <1>3. p \notin late BY CallersLabels
  <1>4. (\A t \in Txns : bind_lock[t] # p) /\ registry_lock # p BY NoLocks
  <1>5. /\ OwnLocks(p) /\ bind_lock' \in [Txns -> Procs \cup {None}]
        /\ registry_lock' \in Procs \cup {None}
    BY LocksSame
  <1>6. pc[p] # "commit_wait" /\ pc[p] \notin Closing /\ pc[p] # "late_release"
    BY DEF Closing
  <1>7. p \notin late /\ cur[p] # None => life[cur[p]] = "open"
    BY <1>6 DEF LockOK
  <1> QED BY <1>3, <1>4, <1>5, <1>6, <1>7, LeavesDown

LEMMA MutateTouchFailsKeeps ==
    ASSUME IndInv, NEW p \in Procs, MutateTouchFails(p)
    PROVE  IndInv'
  <1> /\ pc[p] = "mutate_touch" /\ MarkDown(p, active, "mutate_cancel")
      /\ UNCHANGED <<flagVars, mutation_log, audit_pending, registry, audits, staged>>
      /\ UNCHANGED <<txnVars, registryVars, historyVars>>
      /\ bind_lock' = bind_lock /\ registry_lock' = registry_lock /\ effects' = effects
    BY DEF MutateTouchFails, txnVars, registryVars, historyVars
  <1> /\ pc[p] \in Mutating /\ pc[p] \notin Closing /\ pc[p] \notin Walking
      /\ pc[p] \notin Committing /\ pc[p] # "commit_wait" /\ pc[p] # "late_release"
    BY DEF Mutating, Closing, Walking, Committing
  <1>3. CASE ~active
    <2>1. "mutate_cancel" \in Mutating \ FirstBinding /\ "mutate_cancel" # "idle"
      BY DEF Mutating, FirstBinding
    <2>2. /\ Goto(p, "mutate_cancel") /\ UNCHANGED callVars
          /\ UNCHANGED <<sourceVars, requestVars>>
      BY <1>3, <2>1 DEF MarkDown
    <2> QED BY <2>1, <2>2, MutatesOn
  <1>4. CASE active
    <2>1. MarkDown(p, TRUE, "mutate_cancel") BY <1>4 DEF MarkDown
    <2> Shape(p) /\ LockOK(p) /\ MutateOK(p) /\ TxnTypes /\ RegistryTypes /\ ThreadTypes
      BY Facts
    <2> p \notin late /\ pc[p] \notin Downing
      BY CallersLabels
    <2> Mutates(p) /\ Holds(p) /\ ~HoldsRegistry(p)
      BY DEF Mutates, Holds, HoldsRegistry
    <2>5. cur[p] # None BY HoldersWork
    <2>6. /\ bind_lock'[cur[p]] = p /\ \A u \in Txns : bind_lock'[u] = p => u = cur[p]
          /\ registry_lock' # p
      BY DEF LockOK
    <2>7. life[cur[p]] = "open" BY <2>5 DEF LockOK
    <2>8. audits[cur[p]] = 0 /\ Len(mutation_log[cur[p]]) < LogCapacity
      BY DEF MutateOK
    <2>9. /\ OwnLocks(p) /\ bind_lock' \in [Txns -> Procs \cup {None}]
          /\ registry_lock' \in Procs \cup {None}
      BY LocksSame
    <2>10. Published(p) BY DEF Published
    <2>11. /\ "mutate_cancel" \in {"idle", "mutate_cancel", "commit_audit", "broken"}
           /\ "mutate_cancel" # "broken" /\ "mutate_cancel" # "idle"
      OBVIOUS
    <2>12. Departs(p, "mutate_cancel")
      BY <2>5, <2>6, <2>7, <2>8, <2>11 DEF Departs
    <2> QED BY <2>1, <2>9, <2>10, <2>12, GoesDown
  <1> QED BY <1>3, <1>4

LEMMA ApplyFacts ==
    ASSUME IndInv, NEW p \in Procs, pc[p] \in {"apply", "final", "broken"}
    PROVE  /\ cur[p] \in Txns /\ cur[p] # None /\ Commits(p) /\ pc[p] \in Committing
           /\ bind_lock[cur[p]] = p /\ \A u \in Txns : bind_lock[u] = p => u = cur[p]
           /\ registry_lock = p <=> p \in late
           /\ Linked(cur[p]) /\ state[cur[p]] # "UNBOUND"
           /\ p \notin late => life[cur[p]] = "open"
           /\ pc[p] # "commit_wait" /\ pc[p] \notin Closing /\ pc[p] # "late_release"
           /\ pc[p] \notin Downing
  <1>1. /\ pc[p] \in Committing /\ pc[p] \notin Walking /\ pc[p] \notin Closing
        /\ pc[p] # "commit_wait" /\ pc[p] # "late_release" /\ pc[p] \notin Downing
    BY DEF Committing, Walking, Closing, Downing
  <1> Shape(p) /\ LockOK(p) /\ CommitOK(p) /\ ThreadTypes /\ p # None BY Facts
  <1> Commits(p) /\ Holds(p) /\ (HoldsRegistry(p) <=> p \in late)
    BY <1>1 DEF Commits, Holds, HoldsRegistry
  <1>4. cur[p] \in Txns /\ cur[p] # None
    BY HoldersWork DEF ThreadTypes
  <1>5. bind_lock[cur[p]] = p /\ \A u \in Txns : bind_lock[u] = p => u = cur[p]
    BY DEF LockOK
  <1>6. Linked(cur[p]) BY <1>4, <1>5, HeldListed
  <1> QED BY <1>1, <1>4, <1>5, <1>6 DEF LockOK, CommitOK

LEMMA ApplyRecoveryFailsKeeps ==
    ASSUME IndInv, NEW p \in Procs, ApplyRecoveryFails(p)
    PROVE  IndInv'
  <1> /\ pc[p] = "apply" /\ verdict[p] = "ok" /\ MarkDown(p, active, "broken") /\ active
      /\ effects' = [effects EXCEPT ![cur[p]] = @ + 1]
      /\ UNCHANGED <<flagVars, mutation_log, audit_pending, registry, audits, staged>>
      /\ bind_lock' = bind_lock /\ registry_lock' = registry_lock
    BY DEF ApplyRecoveryFails, Publishable, txnVars, registryVars
  <1>2. MarkDown(p, TRUE, "broken") BY DEF MarkDown
  <1>3. pc[p] \in {"apply", "final", "broken"} /\ Token(p) BY DEF Token
  <1>4. Published(p) BY <1>3 DEF Published
  <1>5. /\ OwnLocks(p) /\ bind_lock' \in [Txns -> Procs \cup {None}]
        /\ registry_lock' \in Procs \cup {None}
    BY Facts, LocksSame
  <1>6. /\ cur[p] # None
        /\ bind_lock[cur[p]] = p /\ \A u \in Txns : bind_lock[u] = p => u = cur[p]
        /\ registry_lock = p <=> p \in late
        /\ Linked(cur[p]) /\ state[cur[p]] # "UNBOUND"
        /\ p \notin late => life[cur[p]] = "open"
        /\ pc[p] # "commit_wait" /\ pc[p] \notin Closing /\ pc[p] # "late_release"
    BY <1>3, ApplyFacts
  <1>7. /\ "broken" \in {"idle", "mutate_cancel", "commit_audit", "broken"}
        /\ "broken" # "mutate_cancel"
    OBVIOUS
  <1>8. Departs(p, "broken") BY <1>6, <1>7 DEF Departs
  <1> QED BY <1>2, <1>4, <1>5, <1>8, GoesDown

LEMMA ApplyBrokenKeeps ==
    ASSUME IndInv, NEW p \in Procs, ApplyBroken(p)
    PROVE  IndInv'
  <1>0. PICK t : t = cur[p] OBVIOUS
  <1> /\ pc[p] = "broken" /\ Unlock(t)
      /\ UNCHANGED <<flagVars, mutation_log, audit_pending, registry, audits, staged>>
      /\ effects' = effects
    BY <1>0 DEF ApplyBroken, historyVars
  <1> /\ t \in Txns /\ t # None
      /\ bind_lock[t] = p /\ \A u \in Txns : bind_lock[u] = p => u = t
      /\ registry_lock = p <=> p \in late
      /\ Linked(t)
      /\ p \notin late => life[t] = "open"
      /\ pc[p] # "commit_wait" /\ pc[p] \notin Closing /\ pc[p] # "late_release"
      /\ pc[p] \notin Downing
    <2>1. pc[p] \in {"apply", "final", "broken"} OBVIOUS
    <2> QED BY <1>0, <2>1, ApplyFacts
  <1> /\ TxnTypes /\ RegistryTypes /\ SourceTypes /\ ThreadTypes /\ p # None BY Facts
  <1>4. \A u : ~Pends(p, u) /\ ~Frees(p, u) BY NotDowning DEF Frees
  <1>5. CASE p \in late
    <2> registry_lock' = None /\ MarkDown(p, active /\ session = late_session[p], "idle")
      BY <1>5 DEF ApplyBroken
    <2>2. /\ bind_lock' \in [Txns -> Procs \cup {None}] /\ \A u \in Txns : bind_lock'[u] # p
          /\ OwnLocks(p)
      BY <1>5, Unlocked
    <2>3. registry_lock' # p /\ registry_lock' \in Procs \cup {None} OBVIOUS
    <2>4. CASE active /\ session = late_session[p]
      <3>1. MarkDown(p, TRUE, "idle") BY <2>4 DEF MarkDown
      <3> QED BY <1>5, <2>2, <2>3, <3>1, LeavesDown
    <2>5. CASE ~(active /\ session = late_session[p])
      <3>1. Return(p) /\ UNCHANGED <<sourceVars, requestVars>>
        BY <2>5 DEF MarkDown
      <3>2. ThreadTypes' /\ Alone(p) /\ Idle(p)' BY <3>1, Returned
      <3>3. ThreadOK(p)' BY <2>2, <2>3, <3>2, IdleOK
      <3>4. p \notin late' /\ ~Token(p)' BY <3>2, Constants DEF Idle, Token
      <3>5. Linked(t) /\ Live(t) => Pending(t)
        BY <1>0, <1>5, <2>5, Overdue
      <3>6. Linked(t) /\ Live(t) => Pending(t)' BY <1>4, <3>2, <3>5, PendingStays
      <3>7. \A u \in Txns : Stays(p, u)
        BY <1>0, <1>4, <1>5, <3>4, <3>6 DEF Stays, Charged, Answers
      <3>8. /\ UNCHANGED restVars /\ bound_count' = bound_count /\ provider' = provider
        BY <3>1 DEF restVars, flagVars, sourceVars, requestVars
      <3>9. /\ bound_count' \in 0..Cap /\ provider' \in [Txns -> {"none", "open", "committed"}]
            /\ OnlyOpenForgotten
        BY <3>8, ProviderSame DEF SourceTypes
      <3> QED BY <2>2, <2>3, <3>2, <3>3, <3>4, <3>7, <3>8, <3>9, Moved
    <2> QED BY <2>4, <2>5
  <1>6. CASE p \notin late
    <2> registry_lock' = registry_lock /\ MarkDown(p, active, "commit_audit")
      BY <1>6 DEF ApplyBroken
    <2>2. /\ bind_lock' \in [Txns -> Procs \cup {None}] /\ \A u \in Txns : bind_lock'[u] # p
          /\ OwnLocks(p)
      BY Unlocked
    <2>3. registry_lock' # p /\ registry_lock' \in Procs \cup {None}
      BY <1>6 DEF RegistryTypes
    <2>4. CASE active
      <3>1. MarkDown(p, TRUE, "commit_audit") BY <2>4 DEF MarkDown
      <3> QED BY <1>0, <1>6, <2>2, <2>3, <3>1, LeavesDown
    <2>5. CASE ~active
      <3>0. "commit_audit" # "idle" /\ "commit_audit" \in Labels /\ "commit_audit" \in Calling
        BY DEF Labels, Calling
      <3>1. /\ Goto(p, "commit_audit") /\ UNCHANGED callVars
            /\ UNCHANGED <<sourceVars, requestVars>>
        BY <2>5, <3>0 DEF MarkDown
      <3> ThreadTypes' /\ Alone(p) /\ SameCall(p) /\ pc'[p] = "commit_audit"
        BY <3>0, <3>1, Went
      <3>3. /\ cur'[p] # None /\ p \notin late' /\ life'[cur'[p]] = "open"
        BY <1>0, <1>6 DEF SameCall, flagVars
      <3>4. ThreadOK(p)' BY <2>2, <2>3, <3>0, <3>3, CallingOK
      <3>5. ~Token(p)' BY DEF Token
      <3>6. Linked(t) /\ Live(t) => Pending(t)
        BY <2>5 DEF IndInv, TxnOK
      <3>7. Linked(t) /\ Live(t) => Pending(t)' BY <1>4, <3>6, PendingStays
      <3>8. \A u \in Txns : Stays(p, u)
        BY <1>0, <1>4, <1>6, <3>3, <3>7 DEF Stays, Charged, Answers
      <3>9. /\ UNCHANGED restVars /\ bound_count' = bound_count /\ provider' = provider
        BY <3>1 DEF restVars, flagVars, sourceVars, requestVars
      <3>10. /\ bound_count' \in 0..Cap /\ provider' \in [Txns -> {"none", "open", "committed"}]
            /\ OnlyOpenForgotten
        BY <3>9, ProviderSame DEF SourceTypes
      <3> QED BY <2>2, <2>3, <3>4, <3>5, <3>8, <3>9, <3>10, Moved
    <2> QED BY <2>4, <2>5
  <1> QED BY <1>5, <1>6

LEMMA LateUnexpectedKeeps ==
    ASSUME IndInv, NEW p \in Procs, LateUnexpected(p)
    PROVE  IndInv'
  <1>0. PICK t : t = cur[p] OBVIOUS
  <1> /\ pc[p] = "final" /\ Unlock(t) /\ p \in late /\ t \notin commit_in_flight
      /\ UNCHANGED <<flagVars, mutation_log, audit_pending, registry, audits, staged>>
      /\ effects' = effects
      /\ registry_lock' = None /\ MarkDown(p, active /\ session = late_session[p], "idle")
    BY <1>0 DEF LateUnexpected, historyVars
  <1> /\ t \in Txns /\ t # None
      /\ bind_lock[t] = p /\ \A u \in Txns : bind_lock[u] = p => u = t
      /\ registry_lock = p
      /\ pc[p] # "commit_wait" /\ pc[p] \notin Closing /\ pc[p] # "late_release"
      /\ pc[p] \notin Downing
    <2>1. pc[p] \in {"apply", "final", "broken"} OBVIOUS
    <2> QED BY <1>0, <2>1, ApplyFacts
  <1> /\ TxnTypes /\ RegistryTypes /\ SourceTypes /\ ThreadTypes /\ p # None BY Facts
  <1>4. \A u : ~Pends(p, u) /\ ~Frees(p, u) BY NotDowning DEF Frees
  <1> /\ bind_lock' \in [Txns -> Procs \cup {None}] /\ \A u \in Txns : bind_lock'[u] # p
      /\ OwnLocks(p)
    BY Unlocked
  <1>6. registry_lock' # p /\ registry_lock' \in Procs \cup {None} OBVIOUS
  <1>7. CASE active /\ session = late_session[p]
    <2>1. MarkDown(p, TRUE, "idle") BY <1>7 DEF MarkDown
    <2> QED BY <1>6, <2>1, LeavesDown
  <1>8. CASE ~(active /\ session = late_session[p])
    <2>1. Return(p) /\ UNCHANGED <<sourceVars, requestVars>>
      BY <1>8 DEF MarkDown
    <2>2. ThreadTypes' /\ Alone(p) /\ Idle(p)' BY <2>1, Returned
    <2>3. ThreadOK(p)' BY <1>6, <2>2, IdleOK
    <2>4. p \notin late' /\ ~Token(p)' BY <2>2, Constants DEF Idle, Token
    <2>5. \A u \in Txns : Stays(p, u)
      BY <1>0, <1>4, <2>4 DEF Stays, Charged, Answers
    <2>6. /\ UNCHANGED restVars /\ bound_count' = bound_count /\ provider' = provider
      BY <2>1 DEF restVars, flagVars, sourceVars, requestVars
    <2>7. /\ bound_count' \in 0..Cap /\ provider' \in [Txns -> {"none", "open", "committed"}]
          /\ OnlyOpenForgotten
      BY <2>6, ProviderSame DEF SourceTypes
    <2> QED BY <1>6, <2>2, <2>3, <2>4, <2>5, <2>6, <2>7, Moved
  <1> QED BY <1>7, <1>8

LEMMA LateUnknownKeeps ==
    ASSUME IndInv, NEW p \in Procs, LateUnknown(p)
    PROVE  IndInv'
  <1>0. PICK t : t = cur[p] OBVIOUS
  <1> /\ pc[p] = "late_walk" /\ WalkedAll(p) /\ registry_lock' = None
      /\ MarkDown(p, active /\ session = late_session[p], "idle")
      /\ UNCHANGED <<flagVars, mutation_log, audit_pending, registry, audits, staged>>
      /\ bind_lock' = bind_lock /\ effects' = effects
    BY DEF LateUnknown, txnVars, historyVars
  <1> /\ p \in late /\ t \in Txns /\ t # None
      /\ \A u \in Txns : bind_lock[u] # p
      /\ registry_lock = p /\ t \notin visited[p]
      /\ pc[p] \notin Closing /\ pc[p] \notin Downing /\ ~Commits(p)
      /\ pc[p] # "commit_wait" /\ pc[p] # "late_release"
    <2>1. pc[p] \in {"late_lock", "late_walk"} OBVIOUS
    <2> QED BY <1>0, <2>1, HandlingFacts
  <1>3. ~Linked(t) BY NoneLeft
  <1> /\ TxnTypes /\ RegistryTypes /\ SourceTypes /\ ThreadTypes /\ p # None BY Facts
  <1>5. /\ OwnLocks(p) /\ bind_lock' \in [Txns -> Procs \cup {None}]
        /\ registry_lock' \in Procs \cup {None}
    BY LocksSame
  <1>6. (\A u \in Txns : bind_lock'[u] # p) /\ registry_lock' # p OBVIOUS
  <1>7. CASE active /\ session = late_session[p]
    <2>1. MarkDown(p, TRUE, "idle") BY <1>7 DEF MarkDown
    <2> QED BY <1>5, <1>6, <2>1, LeavesDown
  <1>8. CASE ~(active /\ session = late_session[p])
    <2>1. Return(p) /\ UNCHANGED <<sourceVars, requestVars>>
      BY <1>8 DEF MarkDown
    <2> ThreadTypes' /\ Alone(p) /\ Idle(p)' BY <2>1, Returned
    <2>3. ThreadOK(p)' BY <1>6, IdleOK
    <2>4. p \notin late' /\ ~Token(p)' BY Constants DEF Idle, Token
    <2>5. \A u : ~Pends(p, u) /\ ~Frees(p, u) BY NotDowning DEF Frees
    <2>6. \A u \in Txns : Stays(p, u)
      BY <1>0, <1>3, <2>4, <2>5 DEF Stays, Charged, Answers
    <2>7. /\ UNCHANGED restVars /\ bound_count' = bound_count /\ provider' = provider
      BY <2>1 DEF restVars, flagVars, sourceVars, requestVars
    <2> QED BY <2>3, <2>4, <2>6, <2>7, RegistryMoves
  <1> QED BY <1>7, <1>8

LEMMA AbortFailsKeeps ==
    ASSUME IndInv, NEW p \in Procs, AbortFails(p)
    PROVE  IndInv'
  <1> /\ pc[p] = "abort_failed" /\ registry_lock' = None
      /\ UNCHANGED <<flagVars, mutation_log, audit_pending, registry, audits, staged>>
      /\ bind_lock' = bind_lock /\ effects' = effects
    BY DEF AbortFails, txnVars, historyVars
  <1> /\ after[p] # "idle" => cur[p] # None
      /\ p \in late => after[p] = "idle" /\ cur[p] = None
      /\ p \notin late /\ cur[p] # None => life[cur[p]] = "open"
      /\ \A u \in Txns : bind_lock[u] # p
      /\ registry_lock = p
      /\ pc[p] \notin Closing /\ pc[p] \notin Downing /\ ~Commits(p)
      /\ pc[p] # "commit_wait" /\ pc[p] # "late_release"
    <2>1. pc[p] \in {"abort_walk", "abort_undo", "abort_failed"} OBVIOUS
    <2> QED BY <2>1, AbortFacts
  <1> /\ TxnTypes /\ RegistryTypes /\ ThreadTypes /\ p # None BY Facts
  <1>4. /\ OwnLocks(p) /\ bind_lock' \in [Txns -> Procs \cup {None}]
        /\ registry_lock' \in Procs \cup {None}
    BY LocksSame
  <1>5. (\A u \in Txns : bind_lock'[u] # p) /\ registry_lock' # p OBVIOUS
  <1>6. \A u : ~Pends(p, u) /\ ~Frees(p, u) BY NotDowning DEF Frees
  <1>7. /\ UNCHANGED <<sourceVars, requestVars>> =>
              /\ UNCHANGED restVars /\ bound_count' = bound_count /\ provider' = provider
    BY DEF restVars, flagVars, sourceVars, requestVars
  <1>8. ASSUME Return(p), UNCHANGED <<sourceVars, requestVars>> PROVE IndInv'
    <2>1. ThreadTypes' /\ Alone(p) /\ Idle(p)' BY <1>8, Returned
    <2>2. ThreadOK(p)' BY <1>5, <2>1, IdleOK
    <2>3. p \notin late' /\ ~Token(p)' BY <2>1, Constants DEF Idle, Token
    <2>4. \A u \in Txns : Stays(p, u)
      BY <1>6, <2>3, Constants DEF Stays, Charged, Answers
    <2> QED BY <1>7, <1>8, <2>1, <2>2, <2>3, <2>4, RegistryMoves
  <1>9. CASE p \in late
    <2>1. MarkDown(p, active /\ session = late_session[p], "idle")
      BY <1>9 DEF AbortFails
    <2>2. CASE active /\ session = late_session[p]
      <3>1. MarkDown(p, TRUE, "idle") BY <2>1, <2>2 DEF MarkDown
      <3> QED BY <1>4, <1>5, <3>1, LeavesDown
    <2>3. CASE ~(active /\ session = late_session[p])
      <3>1. Return(p) /\ UNCHANGED <<sourceVars, requestVars>>
        BY <2>1, <2>3 DEF MarkDown
      <3> QED BY <1>8, <3>1
    <2> QED BY <2>2, <2>3
  <1>10. CASE p \notin late /\ after[p] = "commit_audit"
    <2> /\ "commit_audit" # "idle" /\ "commit_audit" \in Labels /\ "commit_audit" \in Calling
      BY DEF Labels, Calling
    <2>1. MarkDown(p, active, "commit_audit") BY <1>10 DEF AbortFails
    <2>2. CASE active
      <3>1. MarkDown(p, TRUE, "commit_audit") BY <2>1, <2>2 DEF MarkDown
      <3> QED BY <1>4, <1>5, <1>10, <3>1, LeavesDown
    <2>3. CASE ~active
      <3>1. /\ Goto(p, "commit_audit") /\ UNCHANGED callVars
            /\ UNCHANGED <<sourceVars, requestVars>>
        BY <2>1, <2>3 DEF MarkDown
      <3> ThreadTypes' /\ Alone(p) /\ SameCall(p) /\ pc'[p] = "commit_audit"
        BY <3>1, Went
      <3>3. /\ cur'[p] # None /\ p \notin late' /\ life'[cur'[p]] = "open"
            /\ cur'[p] = cur[p] /\ (p \in late' <=> p \in late)
        BY <1>10 DEF SameCall, flagVars
      <3>4. ThreadOK(p)' BY <1>5, <3>3, CallingOK
      <3>5. ~Token(p)' BY DEF Token
      <3>6. \A u \in Txns : Stays(p, u) BY <3>3, SameStays
      <3> QED BY <1>7, <3>1, <3>4, <3>5, <3>6, RegistryMoves
    <2> QED BY <2>2, <2>3
  <1>11. CASE p \notin late /\ after[p] # "commit_audit"
    <2>1. Return(p) /\ UNCHANGED <<sourceVars, requestVars>> BY <1>11 DEF AbortFails
    <2> QED BY <1>8, <2>1
  <1> QED BY <1>9, <1>10, <1>11
=============================================================================
