------------------------ MODULE TransactionStepProofs ------------------------
(***************************************************************************)
(* IndInv of TransactionProofs under the steps that settle a commit or     *)
(* change a request, and the theorems that follow from it.                 *)
(***************************************************************************)
EXTENDS TransactionCallProofs

(* Zenon proves a leaf unless it names another prover.                      *)
USE Zenon

(* The transition that ends a commit: COMMITTED only for what is published. *)
LEMMA Settled ==
    ASSUME IndInv, NEW p \in Procs, pc[p] = "final", NEW t \in Txns, cur[p] = t, Settle(p)
    PROVE  /\ state' \in [Txns -> Active \cup Terminal] /\ commit_in_flight' \subseteq Txns
           /\ timeout_abort_pending' \subseteq Txns /\ timer' \subseteq Txns
           /\ mutation_log' \in [Txns -> Seq(Layers)]
           /\ \A u \in Txns : Len(mutation_log'[u]) <= LogCapacity
           /\ t \notin commit_in_flight' /\ t \notin timeout_abort_pending'
           /\ state[t] \in Terminal => state'[t] = state[t]
           /\ state'[t] # "UNBOUND" /\ (state'[t] = "COMMITTED" => effects[t] = 1)
           /\ t \in timer' => t \in timer
           /\ Ends(p) => state'[t] \in Terminal
           /\ state'[t] = "BOUND" => state[t] = "BOUND"
           /\ \A u \in Txns : u # t =>
                 /\ state'[u] = state[u] /\ mutation_log'[u] = mutation_log[u]
                 /\ u \in commit_in_flight' <=> u \in commit_in_flight
                 /\ u \in timeout_abort_pending' <=> u \in timeout_abort_pending
                 /\ u \in timer' <=> u \in timer
  <1> /\ TxnTypes /\ CommitOK(p) BY Facts
  <1> /\ commit_in_flight' = commit_in_flight \ {t} /\ t \notin commit_in_flight'
      /\ timeout_abort_pending' = timeout_abort_pending \ {t}
    BY DEF Settle
  <1>1. /\ commit_in_flight' \subseteq Txns /\ timeout_abort_pending' \subseteq Txns
        /\ \A u \in Txns : u # t =>
                 /\ u \in commit_in_flight' <=> u \in commit_in_flight
                 /\ u \in timeout_abort_pending' <=> u \in timeout_abort_pending
    BY DEF TxnTypes
  <1>2. /\ state[t] # "UNBOUND" /\ TxnOK(t)
        /\ verdict[p] = "ok" => effects[t] = 1
    <2>1. pc[p] \in {"apply", "final", "broken"} OBVIOUS
    <2> QED BY <2>1, ApplyFacts DEF CommitOK, IndInv
  <1>3. CASE ~Ends(p)
    <2>1. state' = state /\ timer' = timer /\ mutation_log' = mutation_log
      BY <1>3 DEF Settle
    <2> QED BY <1>1, <1>2, <1>3, <2>1 DEF TxnTypes, TxnOK
  <1>4. CASE Ends(p)
    <2> /\ state' = [state EXCEPT ![t] = IF @ = "BOUND" /\ verdict[p] = "ok"
                                         THEN "COMMITTED" ELSE "TIMED_OUT"]
        /\ timer' = timer \ {t} /\ mutation_log' = [mutation_log EXCEPT ![t] = <<>>]
      BY <1>4 DEF Settle
    <2>2. state[t] = "TIMED_OUT" \/ state[t] = "BOUND" BY <1>4 DEF Ends
    <2> /\ state'[t] = IF state[t] = "BOUND" /\ verdict[p] = "ok"
                       THEN "COMMITTED" ELSE "TIMED_OUT"
        /\ \A u \in Txns : u # t => state'[u] = state[u]
      BY DEF TxnTypes
    <2>4. state'[t] = "COMMITTED" \/ state'[t] = "TIMED_OUT" OBVIOUS
    <2>5. /\ state'[t] \in Terminal /\ state'[t] # "UNBOUND" /\ state'[t] # "BOUND"
          /\ state'[t] = "COMMITTED" => effects[t] = 1
          /\ state[t] \in Terminal => state'[t] = state[t]
      BY <1>2, <2>2, SMT DEF Terminal
    <2>6. state' \in [Txns -> Active \cup Terminal]
      <3>1. \A u \in Txns : state'[u] \in Active \cup Terminal
        BY <2>5 DEF TxnTypes
      <3>2. state' = [u \in Txns |-> state'[u]] BY DEF TxnTypes
      <3> QED BY <3>1, <3>2
    <2>7. /\ timer' \subseteq Txns /\ (t \in timer' => t \in timer)
          /\ \A u \in Txns : u # t => (u \in timer' <=> u \in timer)
      BY DEF TxnTypes
    <2>8. /\ mutation_log' \in [Txns -> Seq(Layers)]
          /\ \A u \in Txns : Len(mutation_log'[u]) <= LogCapacity
          /\ \A u \in Txns : u # t => mutation_log'[u] = mutation_log[u]
      BY LogEmptied
    <2> QED BY <1>1, <2>5, <2>6, <2>7, <2>8
  <1> QED BY <1>3, <1>4

LEMMA CommitSettlesKeeps ==
    ASSUME IndInv, NEW p \in Procs, CommitSettles(p)
    PROVE  IndInv'
  <1>0. PICK t : t = cur[p] OBVIOUS
  <1> /\ TypeOK /\ TxnTypes /\ RegistryTypes /\ SourceTypes /\ RequestTypes /\ ThreadTypes
      /\ HistoryTypes /\ Listed /\ late \subseteq Procs /\ p # None
    BY Facts DEF IndInv
  <1> /\ pc[p] = "final" /\ p \notin late /\ Settle(p) /\ life' = life
      /\ audit_pending' = audit_pending /\ registry' = registry
      /\ registry_lock' = registry_lock
      /\ UNCHANGED <<registryVars, sourceVars, requestVars, callVars, historyVars>>
    BY <1>0 DEF CommitSettles, registryVars
  <1> /\ active' = active /\ session' = session /\ provider' = provider
      /\ req_txn' = req_txn /\ req_owner' = req_owner /\ req_status' = req_status
      /\ effects' = effects /\ audits' = audits /\ cur' = cur /\ late' = late
    BY DEF sourceVars, requestVars, historyVars, callVars
  <1>1. \/ Ends(p) /\ Goto(p, "commit_release") /\ bind_lock' = bind_lock
        \/ Goto(p, "commit_audit") /\ Unlock(t)
    BY <1>0 DEF CommitSettles
  <1> /\ t \in Txns /\ t # None /\ TxnOK(t) /\ life[t] = "open" /\ registry_lock # p
      /\ bind_lock[t] = p /\ \A u \in Txns : bind_lock[u] = p => u = t
      /\ pc[p] # "commit_wait" /\ pc[p] \notin Downing
    <2>1. pc[p] \in Committing /\ pc[p] # "commit_wait" BY DEF Committing
    <2> QED BY <1>0, <2>1, CommitterFacts
  <1> (\A u \in Txns : u # t => Stays(p, u)) /\ (\A u : ~Pends(p, u))
    BY <1>0, OthersStay
  <1> /\ state' \in [Txns -> Active \cup Terminal] /\ commit_in_flight' \subseteq Txns
      /\ timeout_abort_pending' \subseteq Txns /\ timer' \subseteq Txns
      /\ mutation_log' \in [Txns -> Seq(Layers)]
      /\ \A u \in Txns : Len(mutation_log'[u]) <= LogCapacity
      /\ t \notin commit_in_flight' /\ t \notin timeout_abort_pending'
      /\ state[t] \in Terminal => state'[t] = state[t]
      /\ state'[t] # "UNBOUND" /\ (state'[t] = "COMMITTED" => effects[t] = 1)
      /\ t \in timer' => t \in timer
      /\ Ends(p) => state'[t] \in Terminal
      /\ state'[t] = "BOUND" => state[t] = "BOUND"
      /\ \A u \in Txns : u # t =>
            /\ state'[u] = state[u] /\ mutation_log'[u] = mutation_log[u]
            /\ u \in commit_in_flight' <=> u \in commit_in_flight
            /\ u \in timeout_abort_pending' <=> u \in timeout_abort_pending
            /\ u \in timer' <=> u \in timer
    BY <1>0, Settled
  <1> Listed' /\ \A u : Linked(u)' <=> Linked(u) BY DEF Linked, Listed
  <1> /\ ThreadTypes' /\ Alone(p) /\ OwnLocks(p) /\ ThreadOK(p)' /\ ~Token(p)'
      /\ bind_lock' \in [Txns -> Procs \cup {None}]
    <2>1. "commit_release" \in Labels /\ "commit_audit" \in Labels BY DEF Labels
    <2>2. CASE Ends(p) /\ Goto(p, "commit_release") /\ bind_lock' = bind_lock
      <3>1. ThreadTypes' /\ Alone(p) /\ pc'[p] = "commit_release" BY <2>1, <2>2, Went
      <3> /\ pc'[p] \in Committing /\ ~Token(p)' /\ pc'[p] # "commit_wait"
          /\ pc'[p] # "final"
        BY <3>1 DEF Committing, Token
      <3>3. CommitOK(p)' BY <1>0 DEF CommitOK
      <3>4. ThreadOK(p)' BY <1>0, <2>2, <3>3, CommittingOK
      <3> QED BY <2>2, <3>1, <3>4, LocksUnchanged DEF TxnTypes
    <2>3. CASE Goto(p, "commit_audit") /\ Unlock(t)
      <3>1. ThreadTypes' /\ Alone(p) /\ pc'[p] = "commit_audit" BY <2>1, <2>3, Went
      <3>2. pc'[p] \in Calling /\ ~Token(p)' BY <3>1 DEF Calling, Token
      <3>3. /\ bind_lock' \in [Txns -> Procs \cup {None}] /\ OwnLocks(p)
            /\ \A u \in Txns : bind_lock'[u] # p
        BY <2>3, Unlocked
      <3> QED BY <1>0, <3>1, <3>2, <3>3, CallingOK
    <2> QED BY <1>1, <2>2, <2>3
  <1>4. TypeOK'
    <2>1. TxnTypes' BY DEF TxnTypes
    <2> QED BY <2>1, TypesKept, TypeParts
  <1>5. Live(t)' => Live(t) BY DEF Live
  <1>6. TxnOK(t)'
    <2>1. Pending(t) => Pending(t)' BY PendingStays
    <2>2. life'[t] # "released" /\ life'[t] # "unborn" /\ (~active' => ~active) OBVIOUS
    <2> QED BY <1>5, <2>1, <2>2 DEF TxnOK
  <1>7. Minds(p, t) BY <1>5 DEF Minds, Steady
  <1>8. ASSUME NEW u \in Txns, u # t PROVE Untouched(p, u)
    BY <1>8 DEF Untouched, Same
  <1>9. TouchesOnly(p, t) BY <1>6, <1>7, <1>8 DEF TouchesOnly
  <1> QED BY <1>4, <1>9, TouchOne

LEMMA LateSettlesKeeps ==
    ASSUME IndInv, NEW p \in Procs, LateSettles(p)
    PROVE  IndInv'
  <1>0. PICK t : t = cur[p] OBVIOUS
  <1> /\ TypeOK /\ TxnTypes /\ RegistryTypes /\ SourceTypes /\ RequestTypes /\ ThreadTypes
      /\ HistoryTypes /\ Listed /\ late \subseteq Procs /\ p # None
    BY Facts DEF IndInv
  <1> /\ pc[p] = "final" /\ p \in late /\ t \in commit_in_flight /\ Settle(p)
      /\ life' = life /\ audit_pending' = audit_pending /\ Unlock(t)
      /\ registry_lock' = None /\ Goto(p, "late_release")
      /\ IF life[t] = "released" THEN Unlink(t) ELSE registry' = registry
      /\ UNCHANGED <<sourceVars, requestVars, callVars, historyVars>>
    BY <1>0 DEF LateSettles
  <1> /\ active' = active /\ session' = session /\ provider' = provider
      /\ req_txn' = req_txn /\ req_owner' = req_owner /\ req_status' = req_status
      /\ effects' = effects /\ audits' = audits /\ cur' = cur /\ late' = late
      /\ late_session' = late_session
    BY DEF sourceVars, requestVars, historyVars, callVars
  <1> /\ t \in Txns /\ t # None /\ TxnOK(t) /\ registry_lock = p /\ Linked(t)
      /\ bind_lock[t] = p /\ \A u \in Txns : bind_lock[u] = p => u = t
      /\ pc[p] # "commit_wait" /\ pc[p] \notin Downing /\ state[t] # "UNBOUND"
    <2>1. pc[p] \in {"apply", "final", "broken"} OBVIOUS
    <2>2. /\ t \in Txns /\ t # None /\ registry_lock = p /\ Linked(t)
          /\ bind_lock[t] = p /\ \A u \in Txns : bind_lock[u] = p => u = t
          /\ pc[p] # "commit_wait" /\ pc[p] \notin Downing /\ state[t] # "UNBOUND"
      BY <1>0, <2>1, ApplyFacts
    <2>3. TxnOK(t) BY <2>2 DEF IndInv
    <2> QED BY <2>2, <2>3
  <1>1. (\A u \in Txns : u # t => Stays(p, u)) /\ (\A u : ~Pends(p, u))
    BY <1>0, OthersStay
  <1> /\ state' \in [Txns -> Active \cup Terminal] /\ commit_in_flight' \subseteq Txns
      /\ timeout_abort_pending' \subseteq Txns /\ timer' \subseteq Txns
      /\ mutation_log' \in [Txns -> Seq(Layers)]
      /\ \A u \in Txns : Len(mutation_log'[u]) <= LogCapacity
      /\ t \notin commit_in_flight' /\ t \notin timeout_abort_pending'
      /\ state[t] \in Terminal => state'[t] = state[t]
      /\ state'[t] # "UNBOUND" /\ (state'[t] = "COMMITTED" => effects[t] = 1)
      /\ t \in timer' => t \in timer
      /\ Ends(p) => state'[t] \in Terminal
      /\ \A u \in Txns : u # t =>
            /\ state'[u] = state[u] /\ mutation_log'[u] = mutation_log[u]
            /\ u \in commit_in_flight' <=> u \in commit_in_flight
            /\ u \in timeout_abort_pending' <=> u \in timeout_abort_pending
            /\ u \in timer' <=> u \in timer
    BY <1>0, Settled
  <1> state'[t] \in Terminal /\ ~Live(t)'
    <2>1. state[t] # "BOUND" => state[t] \in Terminal BY DEF TxnTypes, Active
    <2>2. state[t] = "BOUND" => Ends(p) BY <1>0 DEF Ends
    <2>3. state'[t] \in Terminal BY <2>1, <2>2
    <2> QED BY <2>3 DEF Terminal, Live
  <1> /\ registry' \in Seq(Txns) /\ Listed' /\ \A u : u # t => (Linked(u)' <=> Linked(u))
      /\ Linked(t)' <=> life[t] # "released"
    <2>1. CASE life[t] = "released" BY <2>1, Unlinked DEF RegistryTypes
    <2>2. CASE life[t] # "released"
      <3>1. registry' = registry BY <2>2
      <3>2. Listed' /\ \A u : Linked(u)' <=> Linked(u) BY <3>1 DEF Linked, Listed
      <3> QED BY <2>2, <3>1, <3>2 DEF RegistryTypes
    <2> QED BY <2>1, <2>2
  <1> /\ ThreadTypes' /\ Alone(p) /\ pc'[p] = "late_release"
    <2>1. "late_release" \in Labels BY DEF Labels
    <2> QED BY <2>1, Went
  <1> /\ bind_lock' \in [Txns -> Procs \cup {None}] /\ OwnLocks(p)
      /\ \A u \in Txns : bind_lock'[u] # p
    BY Unlocked
  <1>5. TypeOK'
    <2>1. TxnTypes' BY DEF TxnTypes
    <2>2. RegistryTypes' BY DEF RegistryTypes
    <2> QED BY <2>1, <2>2, TypesKept, TypeParts
  <1>6. ThreadOK(p)' /\ ~Token(p)'
    <2> /\ pc'[p] \in Handling /\ pc'[p] \notin Downing /\ pc'[p] \notin Aborting
        /\ pc'[p] \notin Mutating /\ pc'[p] \notin Committing /\ pc'[p] \notin Walking
        /\ pc'[p] \notin FirstBinding /\ pc'[p] # "commit_wait" /\ pc'[p] # "final"
        /\ pc'[p] # "late_walk" /\ pc'[p] # "down_walk" /\ ~Token(p)'
      BY DEF Handling, Downing, Aborting, Mutating, Committing, Walking, FirstBinding, Token
    <2>2. ~Mutates(p)' /\ ~Commits(p)' /\ ~Holds(p)' /\ ~HoldsRegistry(p)'
      BY DEF Mutates, Commits, Holds, HoldsRegistry
    <2>3. Shape(p)'
      <3>1. late_session'[p] <= session' BY Facts DEF Shape
      <3> QED BY <1>0, <3>1 DEF Shape
    <2>4. LockOK(p)' BY <2>2 DEF LockOK
    <2>5. MutateOK(p)' /\ CommitOK(p)' BY <2>2 DEF MutateOK, CommitOK
    <2>6. LateOK(p)' BY <1>0 DEF LateOK
    <2> QED BY <2>3, <2>4, <2>5, <2>6 DEF ThreadOK
  <1>7. TxnOK(t)'
    <2>1. life'[t] = "released" => Freed(t)' BY <1>0 DEF Freed, Frees
    <2>2. life'[t] # "unborn" /\ life'[t] = life[t] BY DEF TxnOK
    <2> QED BY <2>1, <2>2 DEF TxnOK
  <1>8. Minds(p, t) BY DEF Minds, Steady
  <1>9. ASSUME NEW u \in Txns, u # t PROVE Untouched(p, u)
    BY <1>1, <1>9 DEF Untouched, Same
  <1>10. TouchesOnly(p, t) BY <1>6, <1>7, <1>8, <1>9 DEF TouchesOnly
  <1> QED BY <1>5, <1>10, TouchOne

LEMMA LateReleasesKeeps ==
    ASSUME IndInv, NEW p \in Procs, LateReleases(p)
    PROVE  IndInv'
  <1>0. PICK t : t = cur[p] OBVIOUS
  <1> /\ TypeOK /\ TxnTypes /\ RegistryTypes /\ SourceTypes /\ RequestTypes /\ ThreadTypes
      /\ HistoryTypes /\ Listed /\ late \subseteq Procs /\ p # None /\ Shape(p) /\ LateOK(p)
      /\ LockOK(p)
    BY Facts DEF IndInv
  <1> /\ pc[p] = "late_release" /\ BoundRelease
      /\ life' = IF life[t] = "released" /\ ~Linked(t)
                 THEN [life EXCEPT ![t] = "destroyed"] ELSE life
      /\ state' = state /\ commit_in_flight' = commit_in_flight /\ timer' = timer
      /\ timeout_abort_pending' = timeout_abort_pending /\ mutation_log' = mutation_log
      /\ audit_pending' = audit_pending /\ bind_lock' = bind_lock
      /\ registry' = registry /\ registry_lock' = registry_lock
      /\ active' = active /\ session' = session /\ provider' = provider
      /\ UNCHANGED <<registryVars, requestVars, historyVars>>
    BY <1>0 DEF LateReleases, registryVars
  <1> /\ req_txn' = req_txn /\ req_owner' = req_owner /\ req_status' = req_status
      /\ effects' = effects /\ audits' = audits /\ staged' = staged
    BY DEF requestVars, historyVars
  <1>1. \/ Return(p)
        \/ /\ \E l \in Layers \ {Base} : layer' = [layer EXCEPT ![p] = l]
           /\ after' = [after EXCEPT ![p] = "idle"] /\ cur' = [cur EXCEPT ![p] = None]
           /\ visited' = [visited EXCEPT ![p] = {}] /\ Goto(p, "abort_lock")
           /\ verdict' = verdict /\ late' = late /\ late_session' = late_session
    BY <1>0 DEF LateReleases
  <1> /\ p \in late /\ t \in Txns /\ TxnOK(t) /\ state[t] \in Terminal
      /\ t \notin commit_in_flight
      /\ \A u \in Txns : bind_lock[u] # p
      /\ registry_lock # p
      /\ pc[p] \notin Downing /\ pc[p] \notin Closing /\ ~Commits(p) /\ pc[p] # "commit_wait"
    <2>1. /\ pc[p] \in Handling /\ pc[p] \notin Downing /\ pc[p] # "commit_wait"
          /\ pc[p] \notin Closing /\ pc[p] \notin Committing
      BY DEF Handling, Downing, Closing, Committing
    <2>2. p \in late /\ t # None BY <1>0, <2>1 DEF Shape, Works
    <2>3. t \in Txns BY <1>0, <2>2 DEF ThreadTypes
    <2>4. (\A u \in Txns : bind_lock[u] # p) /\ registry_lock # p BY NoLocks
    <2>5. state[t] \in Terminal /\ t \notin commit_in_flight BY <1>0 DEF LateOK
    <2> QED BY <2>1, <2>2, <2>3, <2>4, <2>5 DEF IndInv, Commits
  <1>2. state[t] # "UNBOUND" /\ ~Live(t) /\ ~Live(t)' BY DEF Terminal, Live
  <1> /\ ThreadTypes' /\ Alone(p) /\ cur'[p] = None /\ ~Token(p)' /\ ThreadOK(p)'
    <2>1. CASE Return(p)
      <3>1. ThreadTypes' /\ Alone(p) /\ Idle(p)' BY <2>1, Returned
      <3>2. pc'[p] = "idle" /\ cur'[p] = None BY <3>1 DEF Idle
      <3>3. ~Token(p)' BY <3>2 DEF Token
      <3> QED BY <3>1, <3>2, <3>3, IdleOK
    <2>2. CASE ~Return(p)
      <3>1. PICK l \in Layers : layer' = [layer EXCEPT ![p] = l] BY <1>1, <2>2
      <3> /\ after' = [after EXCEPT ![p] = "idle"] /\ cur' = [cur EXCEPT ![p] = None]
          /\ visited' = [visited EXCEPT ![p] = {}]
          /\ pc' = [pc EXCEPT ![p] = "abort_lock"]
          /\ verdict' = verdict /\ late' = late /\ late_session' = late_session
        BY <1>1, <2>2 DEF Goto
      <3>3. /\ after' \in [Procs -> {"idle", "mutate_cancel", "commit_audit", "broken", None}]
            /\ layer' \in [Procs -> Layers \cup {None}]
            /\ cur' \in [Procs -> Txns \cup {None}] /\ visited' \in [Procs -> SUBSET Txns]
        BY <3>1 DEF ThreadTypes
      <3>4. pc' \in [Procs -> Labels]
        <4>1. "abort_lock" \in Labels BY DEF Labels
        <4> QED BY <4>1 DEF ThreadTypes
      <3>5. ThreadTypes' BY <3>3, <3>4 DEF ThreadTypes
      <3>6. Alone(p) BY <3>1 DEF Alone, SameCall, ThreadTypes
      <3>7. pc'[p] = "abort_lock" /\ after'[p] = "idle" /\ cur'[p] = None
        BY DEF ThreadTypes
      <3>8. pc'[p] \in Aborting /\ ~Token(p)' BY <3>7 DEF Aborting, Token
      <3>9. late_session'[p] <= session' BY DEF Shape
      <3> QED BY <3>5, <3>6, <3>7, <3>8, <3>9, AbortingOK
    <2> QED BY <2>1, <2>2
  <1>3. (\A u \in Txns : u # t => Stays(p, u)) /\ (\A u : ~Pends(p, u))
    BY <1>0, OthersStay
  <1> bound_count' \in 0..Cap /\ OwnLocks(p) BY CountReleased, LocksUnchanged
  <1> Listed' /\ \A u : Linked(u)' <=> Linked(u) BY DEF Linked, Listed
  <1>4. CASE Linked(t)
    <2>1. UNCHANGED restVars BY <1>4 DEF restVars, flagVars
    <2>2. Stays(p, t)
      <3>1. ~Answers(p, t)' /\ ~Frees(p, t)
        BY <1>4, Constants DEF Answers, Frees
      <3> QED BY <1>2, <1>3, <3>1 DEF Stays
    <2>3. \A u \in Txns : Stays(p, u) BY <1>3, <2>2
    <2>4. /\ provider' \in [Txns -> {"none", "open", "committed"}] /\ OnlyOpenForgotten
          /\ bind_lock' \in [Txns -> Procs \cup {None}] /\ registry_lock' \in Procs \cup {None}
      BY ProviderSame DEF SourceTypes, TxnTypes, RegistryTypes
    <2> QED BY <2>1, <2>3, <2>4, Moved
  <1>5. CASE ~Linked(t)
    <2>1. bind_lock[t] = None BY <1>5, HeldListed
    <2> /\ life' \in [Txns -> {"unborn", "open", "released", "destroyed"}]
        /\ \A u \in Txns : u # t => life'[u] = life[u]
        /\ life'[t] = IF life[t] = "released" THEN "destroyed" ELSE life[t]
      BY <1>5 DEF TxnTypes
    <2>3. TypeOK'
      <3>1. TxnTypes' /\ SourceTypes' BY DEF TxnTypes, SourceTypes
      <3> QED BY <3>1, TypesKept, TypeParts
    <2>4. life'[t] # "open" /\ life'[t] # "released" /\ life'[t] # "unborn" /\ life[t] # "open"
      BY <1>2, <1>5 DEF TxnOK
    <2>5. TxnOK(t)' BY <1>2, <1>5, <2>4 DEF TxnOK
    <2>6. Minds(p, t)
      <3>1. life[t] \in {"released", "destroyed"} => life'[t] \in {"released", "destroyed"}
        OBVIOUS
      <3> QED BY <1>2, <2>1, <2>4, <3>1 DEF Minds, Steady
    <2>7. ASSUME NEW u \in Txns, u # t PROVE Untouched(p, u)
      BY <1>3, <2>7 DEF Untouched, Same
    <2>8. TouchesOnly(p, t) BY <2>5, <2>6, <2>7 DEF TouchesOnly
    <2> QED BY <2>3, <2>8, TouchOne
  <1> QED BY <1>4, <1>5

(* The commit is published, with or without an error after it.              *)
LEMMA AppliesKeep ==
    ASSUME IndInv, NEW p \in Procs, ApplyEffects(p) \/ ApplyFails(p)
    PROVE  IndInv'
  <1> /\ TypeOK /\ TxnTypes /\ RegistryTypes /\ SourceTypes /\ RequestTypes /\ ThreadTypes
      /\ HistoryTypes /\ Listed /\ late \subseteq Procs /\ CommitOK(p)
    BY Facts DEF IndInv
  <1> /\ pc[p] = "apply" /\ verdict[p] = "ok" /\ audits' = audits /\ staged' = staged
      /\ UNCHANGED <<txnVars, registryVars, sourceVars, requestVars, callVars>>
    BY DEF ApplyEffects, ApplyFails
  <1> /\ life' = life /\ state' = state /\ commit_in_flight' = commit_in_flight
      /\ timeout_abort_pending' = timeout_abort_pending /\ timer' = timer
      /\ mutation_log' = mutation_log /\ audit_pending' = audit_pending
      /\ bind_lock' = bind_lock /\ registry' = registry /\ registry_lock' = registry_lock
      /\ active' = active /\ session' = session /\ provider' = provider
      /\ req_txn' = req_txn /\ req_owner' = req_owner /\ req_status' = req_status
      /\ cur' = cur /\ late' = late
    BY DEF txnVars, flagVars, registryVars, sourceVars, requestVars, callVars
  <1>1. PICK label \in {"final", "broken"} :
           /\ Goto(p, label)
           /\ \/ effects' = [effects EXCEPT ![cur[p]] = @ + 1]
              \/ effects' = effects /\ label = "broken"
    BY DEF ApplyEffects, ApplyFails
  <1> Token(p) /\ pc[p] # "commit_wait" BY DEF Token
  <1>3. cur[p] \in Txns
    <2>1. pc[p] \in {"apply", "final", "broken"} OBVIOUS
    <2> QED BY <2>1, ApplyFacts
  <1>4. Published(p) BY <1>1 DEF Published
  <1> /\ effects' \in [Txns -> Nat]
      /\ \A u \in Txns : /\ effects'[u] <= 1
                         /\ effects[u] = 1 => effects'[u] = 1
                         /\ effects'[u] = 1 => provider[u] = "committed"
      /\ \A q \in Procs \ {p} :
            Token(q) /\ cur[q] \in Txns => effects'[cur[q]] = effects[cur[q]]
    BY <1>4, PublishedFacts
  <1> /\ ThreadOK(p)' /\ ThreadTypes' /\ Alone(p) /\ ~Token(p)'
      /\ \A u \in Txns : Stays(p, u)
    <2>1. label = "final" => effects'[cur[p]] = 1
      <3>1. effects[cur[p]] = 0 /\ effects \in [Txns -> Nat]
        BY DEF CommitOK, HistoryTypes
      <3>2. CASE effects' = [effects EXCEPT ![cur[p]] = @ + 1] BY <1>3, <3>1, <3>2, SMT
      <3> QED BY <1>1, <3>2
    <2> QED BY <1>1, <2>1, AppliedOK
  <1>6. TypeOK'
    <2>1. HistoryTypes' BY DEF HistoryTypes
    <2> QED BY <2>1, TypesKept, TypeParts
  <1> Listed' /\ \A u : Linked(u)' <=> Linked(u) BY DEF Linked, Listed
  <1>7. OwnLocks(p) BY LocksUnchanged
  <1>8. \A u \in Txns : u # cur[p] => effects'[u] = effects[u]
    BY <1>1 DEF HistoryTypes
  <1>9. ASSUME NEW u \in Txns PROVE Untouched(p, u) \/ Handled(p, u)
    <2>1. CASE effects'[u] = effects[u] BY <2>1 DEF Untouched, Same
    <2>2. CASE effects'[u] # effects[u]
      <3>1. u = cur[p] BY <1>8, <2>2
      <3>2. TxnOK(u) BY DEF IndInv
      <3> /\ Linked(u) /\ Pending(u) => Pending(u)'
          /\ Linked(u) /\ Live(u) /\ u \in commit_in_flight /\ Owned(u) => Owned(u)'
          /\ Freed(u) => Freed(u)'
          /\ \A q \in Procs : Answers(q, u)' => Answers(q, u)
        BY RolesStay
      <3>4. Virgin(u) => Virgin(u)' BY VirginStays
      <3>5. TxnOK(u)'
        <4>1. (Live(u)' <=> Live(u)) /\ (~active' => ~active) BY DEF Live
        <4>2. state'[u] = "COMMITTED" => effects'[u] = 1 BY <3>2 DEF TxnOK
        <4> QED BY <3>2, <3>4, <4>1, <4>2 DEF TxnOK
      <3>6. ASSUME NEW q \in Procs \ {p} PROVE Guards(q, u)
        <4> q # p /\ LateOK(q) BY Facts
        <4>2. ~(Token(q) /\ cur[q] = u) BY <3>1 DEF IndInv, OneToken
        <4>3. q \in late /\ cur[q] = u /\ late_session[q] < session' =>
                 (Linked(u)' /\ Live(u)' => Pending(u)')
          <5>1. u # None BY Constants
          <5> QED BY <5>1 DEF LateOK, Live
        <4>4. bind_lock[u] # q
          <5>1. pc[p] \in {"apply", "final", "broken"} OBVIOUS
          <5> QED BY <3>1, <5>1, ApplyFacts
        <4> QED BY <4>2, <4>3, <4>4 DEF Guards
      <3> QED BY <3>5, <3>6 DEF Handled
    <2> QED BY <2>1, <2>2
  <1>10. ASSUME NEW r \in Slots, req_status[r] = "ok"
         PROVE  effects'[req_txn[r]] = effects[req_txn[r]]
    <2>1. cur[p] # req_txn[r] BY <1>10 DEF IndInv, OneToken
    <2>2. CASE req_txn[r] \in Txns BY <1>8, <2>1, <2>2
    <2>3. CASE req_txn[r] \notin Txns
      <3>1. SlotOK(r) BY DEF IndInv
      <3>2. req_txn[r] = None BY <2>3 DEF RequestTypes
      <3> QED BY <1>10, <3>1, <3>2, Constants DEF SlotOK
    <2> QED BY <2>2, <2>3
  <1>11. UNCHANGED <<active, session, req_txn, req_owner, req_status>> OBVIOUS
  <1>12. \A u \in Txns : provider[u] = "committed" => provider'[u] = "committed" OBVIOUS
  <1> QED BY <1>6, <1>7, <1>9, <1>10, <1>11, <1>12, Touch

-----------------------------------------------------------------------------
(* The steps that change a request.                                         *)

(* A transaction that the step of p leaves as it is; what others know of    *)
(* its requests stays true.                                                 *)
Kept(p, u) ==
    /\ life'[u] = life[u] /\ state'[u] = state[u] /\ mutation_log'[u] = mutation_log[u]
    /\ u \in commit_in_flight' <=> u \in commit_in_flight
    /\ u \in timeout_abort_pending' <=> u \in timeout_abort_pending
    /\ u \in timer' <=> u \in timer
    /\ u \in audit_pending' <=> u \in audit_pending
    /\ audits'[u] = audits[u] /\ effects'[u] = effects[u]
    /\ provider[u] = "committed" => provider'[u] = "committed"
    /\ Linked(u)' <=> Linked(u)
    /\ (Virgin(u) => Virgin(u)') \/ (bind_lock[u] = p /\ state[u] # "UNBOUND")
    /\ Pending(u) => Pending(u)'
    /\ Owned(u) => Owned(u)'
    /\ Freed(u) => Freed(u)'

LEMMA KeptHandled ==
    ASSUME IndInv, NEW p, OwnLocks(p), NEW u \in Txns, Kept(p, u),
           active' = active, session' = session
    PROVE  Handled(p, u)
  <1>1. TxnOK(u) BY DEF IndInv
  <1>2. Live(u)' <=> Live(u) BY DEF Live, Kept
  <1>3. TxnOK(u)'
    <2>1. ~active' => ~active OBVIOUS
    <2> QED BY <1>1, <1>2, <2>1 DEF TxnOK, Kept
  <1>4. ASSUME NEW q \in Procs \ {p} PROVE Guards(q, u)
    <2>1. LateOK(q) /\ q # None /\ q # p BY Facts
    <2>2. bind_lock'[u] = q <=> bind_lock[u] = q BY <2>1 DEF OwnLocks
    <2>3. bind_lock[u] = q => Linked(u) BY <2>1, HeldListed
    <2>4. active => active' OBVIOUS
    <2>5. ASSUME q \in late, cur[q] = u, late_session[q] < session', Linked(u)', Live(u)'
          PROVE  Pending(u)'
      <3>1. cur[q] # None BY <2>5, Constants
      <3> QED BY <1>2, <2>1, <2>5, <3>1 DEF LateOK, Kept
    <2> QED BY <2>1, <2>2, <2>3, <2>4, <2>5 DEF Guards, Kept
  <1> QED BY <1>3, <1>4 DEF Handled

LEMMA RequestStep ==
    ASSUME IndInv, TypeOK', NEW p, Alone(p), OwnLocks(p), p \in Procs => ThreadOK(p)',
           session' = session,
           \A q \in Procs \ {p} : \A r \in Slots : req_owner[r] = q => req_owner'[r] = q,
           \A u \in Txns : Handled(p, u),
           \A r \in Slots : SlotOK(r)', OneToken', Listed'
    PROVE  IndInv'
  <1>1. session \in Int /\ session' \in Int /\ session <= session'
    <2>1. SourceTypes BY TypeParts DEF IndInv
    <2>2. session \in Int BY <2>1, SMT DEF SourceTypes
    <2> QED BY <2>2, SMT
  <1>2. ASSUME NEW q \in Procs \ {p} PROVE ThreadOK(q)'
    <2>1. pc'[q] = pc[q] /\ SameCall(q) BY DEF Alone
    <2>2. CommitOK(q) /\ q # None /\ q # p BY Facts
    <2>3. registry_lock' = q <=> registry_lock = q BY <2>2 DEF OwnLocks
    <2>4. pc'[q] = "commit_wait" => \E r \in Slots : req_owner'[r] = q
      BY <2>1, <2>2 DEF CommitOK
    <2>5. \A u \in Txns : Guards(q, u) BY DEF Handled
    <2>6. Relies(q) BY <1>1, <2>1, <2>3, <2>4, <2>5 DEF Relies
    <2> QED BY <1>1, <2>6, RelyKeeps
  <1> QED BY <1>2 DEF IndInv, Handled

(* A request that keeps its transaction and its answer; it may lose its     *)
(* waiter.                                                                  *)
LEMMA SlotKept ==
    ASSUME IndInv, NEW p, Alone(p), NEW r \in Slots, req_txn'[r] = req_txn[r],
           req_status'[r] = req_status[r],
           req_owner'[r] = req_owner[r] \/ req_owner'[r] = None,
           req_owner'[r] = None \/ req_owner'[r] # p,
           \A s \in Slots : req_owner'[s] = req_owner[s] \/ req_owner'[s] = None
                                                         \/ req_owner'[s] = p,
           effects' = effects,
           \A u \in Txns : provider[u] = "committed" => provider'[u] = "committed"
    PROVE  SlotOK(r)'
  <1> SlotOK(r) /\ RequestTypes BY TypeParts DEF IndInv
  <1>2. ASSUME req_owner'[r] # None
        PROVE  /\ pc'[req_owner'[r]] = "commit_wait" /\ cur'[req_owner'[r]] = req_txn'[r]
               /\ \A s \in Slots : req_owner'[s] = req_owner'[r] => s = r
    <2>1. req_owner'[r] = req_owner[r] /\ req_owner[r] \in Procs \ {p}
      BY <1>2 DEF RequestTypes
    <2>2. pc'[req_owner[r]] = pc[req_owner[r]] /\ cur'[req_owner[r]] = cur[req_owner[r]]
      BY <2>1 DEF Alone, SameCall
    <2> QED BY <1>2, <2>1, <2>2 DEF SlotOK
  <1>3. ASSUME req_status'[r] = "ok"
        PROVE  provider'[req_txn'[r]] = "committed" /\ effects'[req_txn'[r]] = 0
    <2>1. req_txn[r] # None BY <1>3, Constants DEF SlotOK
    <2>2. req_txn[r] \in Txns BY <2>1 DEF RequestTypes
    <2> QED BY <1>3, <2>2 DEF SlotOK
  <1>4. /\ req_status'[r] = None <=> req_txn'[r] = None
        /\ req_txn'[r] = None => req_owner'[r] = None
    BY DEF SlotOK
  <1> QED BY <1>2, <1>3, <1>4 DEF SlotOK

LEMMA SlotFreed ==
    ASSUME RequestTypes, NEW r \in Slots, FreeSlot(r)
    PROVE  /\ RequestTypes' /\ SlotOK(r)'
           /\ req_owner'[r] = None /\ req_status'[r] # "ok"
           /\ \A s \in Slots : s # r => /\ req_txn'[s] = req_txn[s]
                                        /\ req_owner'[s] = req_owner[s]
                                        /\ req_status'[s] = req_status[s]
           /\ \A s \in Slots : req_txn'[s] = req_txn[s] \/ req_txn'[s] = None
  <1>1. RequestTypes' BY DEF RequestTypes, FreeSlot
  <1>2. req_owner'[r] = None /\ req_status'[r] = None /\ req_txn'[r] = None
    BY DEF RequestTypes, FreeSlot
  <1>3. req_status'[r] # "ok" BY <1>2, Constants
  <1>4. SlotOK(r)' BY <1>2, <1>3 DEF SlotOK
  <1>5. \A s \in Slots : s # r => /\ req_txn'[s] = req_txn[s]
                                  /\ req_owner'[s] = req_owner[s]
                                  /\ req_status'[s] = req_status[s]
    BY DEF RequestTypes, FreeSlot
  <1> QED BY <1>1, <1>2, <1>3, <1>4, <1>5

(* The source's word moves from a request to the thread that takes it.      *)
LEMMA TokensKept ==
    ASSUME IndInv, NEW p, Alone(p),
           \A s \in Slots : req_status'[s] = "ok" =>
              req_status[s] = "ok" /\ req_txn'[s] = req_txn[s],
           Token(p)' => \E r \in Slots : /\ req_status[r] = "ok" /\ req_txn[r] = cur'[p]
                                         /\ req_status'[r] # "ok"
    PROVE  OneToken'
  <1>1. OneToken BY DEF IndInv
  <1>2. ASSUME NEW q \in Procs \ {p} PROVE (Token(q)' <=> Token(q)) /\ cur'[q] = cur[q]
    <2>1. pc'[q] = pc[q] /\ SameCall(q) BY DEF Alone
    <2> QED BY <2>1, RolesSame DEF SameCall
  <1>3. ASSUME NEW r \in Slots, NEW s \in Slots, req_status'[r] = "ok",
               req_status'[s] = "ok", req_txn'[r] = req_txn'[s]
        PROVE  r = s
    <2>1. req_status[r] = "ok" /\ req_status[s] = "ok" /\ req_txn[r] = req_txn[s] BY <1>3
    <2> QED BY <1>1, <2>1 DEF OneToken
  <1>4. ASSUME NEW q \in Procs, NEW r \in Slots, Token(q)', req_status'[r] = "ok"
        PROVE  cur'[q] # req_txn'[r]
    <2>1. CASE q = p BY <1>1, <1>4, <2>1 DEF OneToken
    <2>2. CASE q # p
      <3>1. Token(q) /\ cur'[q] = cur[q] BY <1>2, <1>4, <2>2
      <3>2. req_status[r] = "ok" /\ req_txn'[r] = req_txn[r] BY <1>4
      <3> QED BY <1>1, <3>1, <3>2 DEF OneToken
    <2> QED BY <2>1, <2>2
  <1>5. ASSUME NEW q \in Procs \ {p}, Token(p)', Token(q)' PROVE cur'[p] # cur'[q]
    BY <1>1, <1>2, <1>5 DEF OneToken
  <1>6. \A q, r \in Procs : Token(q)' /\ Token(r)' /\ cur'[q] = cur'[r] => q = r
    BY <1>1, <1>2, <1>5 DEF OneToken
  <1> QED BY <1>3, <1>4, <1>6 DEF OneToken

(* What is owed to a transaction when p sends, leaves or takes a request.   *)
LEMMA OwedStill ==
    ASSUME NEW p \in Procs, Alone(p), NEW u, Linked(u)' <=> Linked(u),
           late \subseteq Procs, late' \subseteq Procs, p \notin late,
           pc[p] \notin Downing, pc[p] \notin Closing, pc[p] # "late_release",
           \A r \in Slots : req_txn[r] = u /\ req_owner[r] = None =>
              (req_txn'[r] = u /\ req_owner'[r] = None) \/ Answers(p, u)',
           Charged(p, u) => Charged(p, u)'
    PROVE  /\ Pending(u) => Pending(u)'
           /\ Owned(u) => Owned(u)'
           /\ Freed(u) => Freed(u)'
  <1>1. \A q \in Procs \ {p} : /\ Charged(q, u)' <=> Charged(q, u)
                               /\ Answers(q, u)' <=> Answers(q, u)
                               /\ Frees(q, u)' <=> Frees(q, u)
    BY OthersPlay
  <1>2. ~Pends(p, u) /\ ~Answers(p, u) /\ ~Frees(p, u)
    BY NotDowning DEF Answers, Frees
  <1>3. Pending(u) => Pending(u)' BY <1>2, PendingStays
  <1>4. Freed(u) => Freed(u)' BY <1>1, <1>2 DEF Freed
  <1>5. Owned(u) => Owned(u)'
    <2> SUFFICES ASSUME Owned(u) PROVE Owned(u)' OBVIOUS
    <2>1. \/ \E r \in Slots : req_txn[r] = u /\ req_owner[r] = None
          \/ \E q \in Procs : Answers(q, u)
          \/ Pending(u)
          \/ \E q \in Procs : Charged(q, u)
      BY OwnedBy
    <2>2. \/ \E r \in Slots : req_txn'[r] = u /\ req_owner'[r] = None
          \/ \E q \in Procs : Answers(q, u)'
          \/ Pending(u)'
          \/ \E q \in Procs : Charged(q, u)'
      BY <1>1, <1>2, <1>3, <2>1
    <2> QED BY <2>2, OwnedByNext
  <1> QED BY <1>3, <1>4, <1>5

LEMMA CommitSentKeeps ==
    ASSUME IndInv, NEW p \in Procs, CommitSent(p)
    PROVE  IndInv'
  <1>0. PICK t : t = cur[p] OBVIOUS
  <1> /\ TypeOK /\ TxnTypes /\ RegistryTypes /\ SourceTypes /\ RequestTypes /\ ThreadTypes
      /\ HistoryTypes /\ Listed /\ late \subseteq Procs /\ p # None /\ Shape(p)
    BY Facts DEF IndInv
  <1> /\ pc[p] = "commit_send" /\ Goto(p, "commit_wait")
      /\ UNCHANGED <<txnVars, registryVars, sourceVars, callVars, historyVars>>
    BY DEF CommitSent
  <1> /\ life' = life /\ state' = state /\ commit_in_flight' = commit_in_flight
      /\ timeout_abort_pending' = timeout_abort_pending /\ timer' = timer
      /\ mutation_log' = mutation_log /\ audit_pending' = audit_pending
      /\ bind_lock' = bind_lock /\ registry' = registry /\ registry_lock' = registry_lock
      /\ active' = active /\ session' = session /\ provider' = provider
      /\ effects' = effects /\ audits' = audits /\ cur' = cur /\ late' = late
    BY DEF txnVars, flagVars, registryVars, sourceVars, historyVars, callVars
  <1>1. PICK r \in Slots : /\ req_txn[r] = None
                           /\ req_txn' = [req_txn EXCEPT ![r] = t]
                           /\ req_owner' = [req_owner EXCEPT ![r] = p]
                           /\ req_status' = [req_status EXCEPT ![r] = "queued"]
    BY <1>0 DEF CommitSent
  <1> /\ t \in Txns /\ t # None /\ life[t] = "open" /\ state[t] # "UNBOUND" /\ Commits(p)
      /\ bind_lock[t] = p /\ registry_lock # p /\ p \notin late
      /\ \A u \in Txns : bind_lock[u] = p => u = t
      /\ pc[p] \notin Closing /\ pc[p] \notin Downing /\ pc[p] # "late_release"
    <2>1. pc[p] \in Committing /\ pc[p] # "late_release" BY DEF Committing
    <2>2. p \notin late BY CallersLabels
    <2> QED BY <1>0, <2>1, <2>2, CommitterFacts
  <1> /\ ThreadTypes' /\ Alone(p) /\ pc'[p] = "commit_wait"
    <2>1. "commit_wait" \in Labels BY DEF Labels
    <2> QED BY <2>1, Went
  <1> /\ RequestTypes'
      /\ req_txn'[r] = t /\ req_owner'[r] = p /\ req_status'[r] = "queued"
      /\ \A s \in Slots : s # r => /\ req_txn'[s] = req_txn[s]
                                   /\ req_owner'[s] = req_owner[s]
                                   /\ req_status'[s] = req_status[s]
    BY <1>1 DEF RequestTypes
  <1>3. TypeOK' BY TypesKept, TypeParts
  <1> Listed' /\ (\A u : Linked(u)' <=> Linked(u)) /\ OwnLocks(p)
    BY LocksUnchanged DEF Linked, Listed
  <1> ThreadOK(p)' /\ ~Token(p)' /\ Commits(p)'
    <2>1. /\ pc'[p] \in Committing /\ ~Token(p)' /\ pc'[p] # "final"
          /\ pc'[p] # "commit_release"
      BY DEF Committing, Token
    <2>2. CommitOK(p)' BY <1>0, <2>1 DEF CommitOK
    <2>3. ThreadOK(p)' BY <1>0, <2>1, <2>2, CommittingOK
    <2>4. Commits(p)' BY <2>1 DEF Commits
    <2> QED BY <2>1, <2>3, <2>4
  <1>5. ASSUME NEW u \in Txns PROVE Handled(p, u)
    <2>1. u # None BY Constants
    <2>2. /\ Pending(u) => Pending(u)'
          /\ Owned(u) => Owned(u)'
          /\ Freed(u) => Freed(u)'
      BY <1>1, <2>1, OwedStill DEF Charged
    <2>3. CASE u = t
      <3>1. Kept(p, u) BY <2>2, <2>3 DEF Kept
      <3> QED BY <3>1, KeptHandled
    <2>4. CASE u # t
      <3>1. Virgin(u) => Virgin(u)' BY <2>4 DEF Virgin
      <3>2. Kept(p, u) BY <2>2, <3>1 DEF Kept
      <3> QED BY <3>2, KeptHandled
    <2> QED BY <2>3, <2>4
  <1>6. \A s \in Slots : req_owner[s] # p
    <2>1. pc[p] # "commit_wait" OBVIOUS
    <2> QED BY <2>1 DEF IndInv, SlotOK
  <1>7. \A s \in Slots : SlotOK(s)'
    <2>1. SlotOK(r)'
      <3>1. req_status'[r] # None /\ req_txn'[r] # None /\ req_status'[r] # "ok"
        BY Constants
      <3> QED BY <1>0, <1>6, <3>1 DEF SlotOK
    <2>2. ASSUME NEW s \in Slots, s # r PROVE SlotOK(s)'
      <3>1. req_owner'[s] = None \/ req_owner'[s] # p BY <1>6, <2>2
      <3>2. \A v \in Slots : req_owner'[v] = req_owner[v] \/ req_owner'[v] = None
                                                          \/ req_owner'[v] = p
        OBVIOUS
      <3> QED BY <2>2, <3>1, <3>2, SlotKept
    <2> QED BY <2>1, <2>2
  <1>8. OneToken'
    <2>1. req_status'[r] # "ok" OBVIOUS
    <2>2. \A s \in Slots : req_status'[s] = "ok" =>
             req_status[s] = "ok" /\ req_txn'[s] = req_txn[s]
      BY <2>1
    <2> QED BY <2>2, TokensKept
  <1>9. \A q \in Procs \ {p} : \A s \in Slots : req_owner[s] = q => req_owner'[s] = q
    <2>1. req_owner[r] = None BY <1>1 DEF IndInv, SlotOK
    <2> QED BY <2>1, Constants
  <1> QED BY <1>3, <1>5, <1>7, <1>8, <1>9, RequestStep

LEMMA ProviderAnswersKeeps ==
    ASSUME IndInv, NEW r \in Slots, ProviderAnswers(r)
    PROVE  IndInv'
  <1>0. PICK t : t = req_txn[r] OBVIOUS
  <1> /\ TypeOK /\ TxnTypes /\ RegistryTypes /\ SourceTypes /\ RequestTypes /\ ThreadTypes
      /\ HistoryTypes /\ Listed /\ late \subseteq Procs /\ SlotOK(r)
    BY TypeParts DEF IndInv, ThreadTypes
  <1> /\ req_status[r] = "queued" /\ req_txn' = req_txn /\ req_owner' = req_owner
      /\ UNCHANGED <<txnVars, registryVars, procVars, historyVars>>
      /\ active' = active /\ session' = session /\ bound_count' = bound_count
    BY DEF ProviderAnswers
  <1> /\ life' = life /\ state' = state /\ commit_in_flight' = commit_in_flight
      /\ timeout_abort_pending' = timeout_abort_pending /\ timer' = timer
      /\ mutation_log' = mutation_log /\ audit_pending' = audit_pending
      /\ bind_lock' = bind_lock /\ registry' = registry /\ registry_lock' = registry_lock
      /\ effects' = effects /\ audits' = audits
    BY DEF txnVars, flagVars, registryVars, historyVars
  <1>1. \/ /\ provider[t] = "open" /\ provider' = [provider EXCEPT ![t] = "committed"]
           /\ req_status' = [req_status EXCEPT ![r] = "ok"]
        \/ provider' = provider /\ req_status' = [req_status EXCEPT ![r] = "error"]
    BY <1>0 DEF ProviderAnswers
  <1> t # None /\ t \in Txns
    <2>1. t # None BY <1>0, Constants DEF SlotOK
    <2> QED BY <1>0, <2>1 DEF RequestTypes
  <1> /\ Alone(None) /\ (Token(None)' <=> Token(None)) /\ cur' = cur /\ late' = late
      /\ \A q, u : /\ Pends(q, u)' <=> Pends(q, u)
                   /\ Charged(q, u)' <=> Charged(q, u)
                   /\ Answers(q, u)' <=> Answers(q, u)
                   /\ (Linked(u)' <=> Linked(u)) => (Frees(q, u)' <=> Frees(q, u))
      /\ \A u : Pending(u)' <=> Pending(u)
    BY NoThread
  <1>4. /\ provider' \in [Txns -> {"none", "open", "committed"}]
        /\ req_status' \in [Slots -> {"queued", "ok", "error", None}]
        /\ \A u \in Txns : provider[u] = "committed" => provider'[u] = "committed"
        /\ \A u \in Txns : u # t => provider'[u] = provider[u]
        /\ \A s \in Slots : s # r => req_status'[s] = req_status[s]
    <2>1. CASE /\ provider[t] = "open" /\ provider' = [provider EXCEPT ![t] = "committed"]
               /\ req_status' = [req_status EXCEPT ![r] = "ok"]
      BY <2>1 DEF SourceTypes, RequestTypes
    <2>2. CASE provider' = provider /\ req_status' = [req_status EXCEPT ![r] = "error"]
      BY <2>2 DEF SourceTypes, RequestTypes
    <2> QED BY <1>1, <2>1, <2>2
  <1>5. TypeOK'
    <2>1. RequestTypes' /\ SourceTypes' BY <1>4 DEF RequestTypes, SourceTypes
    <2> QED BY <2>1, TypesKept, TypeParts DEF procVars, ThreadTypes
  <1> Listed' /\ (\A u : Linked(u)' <=> Linked(u)) /\ OwnLocks(None)
    BY LocksUnchanged DEF Linked, Listed
  <1>6. ASSUME NEW u \in Txns PROVE Handled(None, u)
    <2>1. Virgin(u) => Virgin(u)'
      <3>1. CASE u = t BY <1>0, <3>1 DEF Virgin
      <3>2. CASE u # t BY <1>4, <3>2 DEF Virgin
      <3> QED BY <3>1, <3>2
    <2>2. Owned(u) => Owned(u)' BY OwnedBy, OwnedByNext
    <2>3. Freed(u) => Freed(u)' BY DEF Freed
    <2>4. Kept(None, u) BY <1>4, <2>1, <2>2, <2>3 DEF Kept
    <2> QED BY <2>4, KeptHandled
  <1>7. /\ \A s \in Slots : s # r => SlotOK(s)'
        /\ SlotOK(r)'
    <2>1. ASSUME NEW s \in Slots, s # r PROVE SlotOK(s)'
      BY <1>4, <2>1, SlotKept
    <2>2. SlotOK(r)'
      <3>1. /\ req_status'[r] # None
            /\ req_status'[r] = "ok" => provider'[t] = "committed" /\ provider[t] = "open"
        BY <1>1, Constants DEF RequestTypes, SourceTypes
      <3>2. provider[t] = "open" => effects[t] = 0
        <4>1. TxnOK(t) /\ effects[t] \in Nat BY DEF IndInv, HistoryTypes
        <4> QED BY <4>1, SMT DEF TxnOK
      <3>3. req_owner[r] # None => pc'[req_owner[r]] = pc[req_owner[r]]
        BY DEF procVars
      <3> QED BY <1>0, <3>1, <3>2, <3>3 DEF SlotOK
    <2> QED BY <2>1, <2>2
  <1>8. OneToken'
    <2> OneToken BY DEF IndInv
    <2>1. \A q \in Procs : (Token(q)' <=> Token(q)) BY DEF Token, procVars
    <2>2. ASSUME NEW s \in Slots, req_status'[s] = "ok", req_status[s] # "ok"
          PROVE  /\ s = r /\ req_txn[s] = t
                 /\ \A q \in Procs : Token(q) => cur[q] # t
                 /\ \A v \in Slots : req_status[v] = "ok" => req_txn[v] # t
      <3>1. s = r BY <1>4, <2>2
      <3>2. provider[t] # "committed" BY <1>1, <2>2, <3>1 DEF RequestTypes
      <3>3. ASSUME NEW q \in Procs, Token(q) PROVE cur[q] # t
        <4>1. CommitOK(q) BY Facts
        <4> QED BY <3>2, <3>3, <4>1 DEF CommitOK
      <3>4. \A v \in Slots : req_status[v] = "ok" => req_txn[v] # t
        BY <3>2 DEF IndInv, SlotOK
      <3> QED BY <1>0, <3>1, <3>3, <3>4
    <2>3. ASSUME NEW q \in Procs, NEW s \in Slots, Token(q)', req_status'[s] = "ok"
          PROVE  cur[q] # req_txn[s]
      BY <2>1, <2>2, <2>3 DEF OneToken
    <2>4. ASSUME NEW s \in Slots, NEW v \in Slots, req_status'[s] = "ok",
                 req_status'[v] = "ok", req_txn[s] = req_txn[v]
          PROVE  s = v
      BY <2>2, <2>4 DEF OneToken
    <2> QED BY <2>1, <2>3, <2>4 DEF OneToken
  <1> QED BY <1>5, <1>6, <1>7, <1>8, RequestStep, Constants

LEMMA CommitAnsweredKeeps ==
    ASSUME IndInv, NEW r \in Slots, CommitAnswered(r)
    PROVE  IndInv'
  <1>0. PICK p : p = req_owner[r] OBVIOUS
  <1> /\ TypeOK /\ TxnTypes /\ RegistryTypes /\ SourceTypes /\ RequestTypes /\ ThreadTypes
      /\ HistoryTypes /\ Listed /\ late \subseteq Procs /\ SlotOK(r)
    BY TypeParts DEF IndInv, ThreadTypes
  <1> /\ p # None /\ Goto(p, "apply") /\ FreeSlot(r)
      /\ verdict' = [verdict EXCEPT ![p] = req_status[r]]
      /\ req_status[r] = "ok" \/ req_status[r] = "error"
      /\ cur' = cur /\ late' = late /\ late_session' = late_session /\ visited' = visited
      /\ layer' = layer /\ after' = after
      /\ UNCHANGED <<txnVars, registryVars, sourceVars, historyVars>>
    BY <1>0 DEF CommitAnswered
  <1> /\ life' = life /\ state' = state /\ commit_in_flight' = commit_in_flight
      /\ timeout_abort_pending' = timeout_abort_pending /\ timer' = timer
      /\ mutation_log' = mutation_log /\ audit_pending' = audit_pending
      /\ bind_lock' = bind_lock /\ registry' = registry /\ registry_lock' = registry_lock
      /\ active' = active /\ session' = session /\ provider' = provider
      /\ effects' = effects /\ audits' = audits
    BY DEF txnVars, flagVars, registryVars, sourceVars, historyVars
  <1>1. PICK t : t = req_txn[r] OBVIOUS
  <1> /\ p \in Procs /\ pc[p] = "commit_wait" /\ cur[p] = t
      /\ \A s \in Slots : req_owner[s] = p => s = r
      /\ req_status[r] = "ok" => provider[t] = "committed" /\ effects[t] = 0
    BY <1>0, <1>1 DEF RequestTypes, SlotOK
  <1> /\ t \in Txns /\ t # None /\ life[t] = "open" /\ state[t] # "UNBOUND" /\ Commits(p)
      /\ bind_lock[t] = p /\ registry_lock # p /\ p \notin late
      /\ \A u \in Txns : bind_lock[u] = p => u = t
      /\ pc[p] \notin Closing /\ pc[p] \notin Downing /\ pc[p] # "late_release"
    <2>1. pc[p] \in Committing /\ pc[p] # "late_release" BY DEF Committing
    <2>2. p \notin late BY Facts, CallersLabels
    <2> QED BY <2>1, <2>2, CommitterFacts
  <1> /\ ThreadTypes' /\ Alone(p) /\ pc'[p] = "apply" /\ verdict'[p] = req_status[r]
    <2>1. "apply" \in Labels BY DEF Labels
    <2>2. pc' = [pc EXCEPT ![p] = "apply"] BY DEF Goto
    <2>3. /\ pc' \in [Procs -> Labels] /\ verdict' \in [Procs -> {"ok", "error", None}]
          /\ pc'[p] = "apply" /\ verdict'[p] = req_status[r]
      BY <2>1, <2>2 DEF ThreadTypes
    <2>4. Alone(p) BY <2>2 DEF Alone, SameCall, ThreadTypes
    <2> QED BY <2>3, <2>4 DEF ThreadTypes
  <1>2. /\ RequestTypes' /\ SlotOK(r)'
        /\ req_owner'[r] = None /\ req_status'[r] # "ok"
        /\ \A s \in Slots : s # r => /\ req_txn'[s] = req_txn[s]
                                     /\ req_owner'[s] = req_owner[s]
                                     /\ req_status'[s] = req_status[s]
        /\ \A s \in Slots : req_txn'[s] = req_txn[s] \/ req_txn'[s] = None
    BY SlotFreed
  <1>3. TypeOK' BY <1>2, TypesKept, TypeParts
  <1> Listed' /\ (\A u : Linked(u)' <=> Linked(u)) /\ OwnLocks(p)
    BY LocksUnchanged DEF Linked, Listed
  <1> ThreadOK(p)' /\ Commits(p)' /\ (Token(p)' => req_status[r] = "ok")
    <2>1. /\ pc'[p] \in Committing /\ pc'[p] # "final" /\ pc'[p] # "commit_wait"
          /\ pc'[p] # "commit_release"
      BY DEF Committing
    <2>2. Token(p)' => req_status[r] = "ok" BY DEF Token
    <2>3. CommitOK(p)' BY <2>1, <2>2 DEF CommitOK
    <2>4. ThreadOK(p)' BY <2>1, <2>3, CommittingOK
    <2>5. Commits(p)' BY <2>1 DEF Commits
    <2> QED BY <2>2, <2>4, <2>5
  <1>5. ASSUME NEW u \in Txns PROVE Handled(p, u)
    <2>1. u # None BY Constants
    <2>2. /\ Pending(u) => Pending(u)'
          /\ Owned(u) => Owned(u)'
          /\ Freed(u) => Freed(u)'
      BY <1>0, <1>2, OwedStill DEF Charged
    <2>3. Virgin(u) => Virgin(u)' BY <1>2, <2>1 DEF Virgin
    <2>4. Kept(p, u) BY <2>2, <2>3 DEF Kept
    <2> QED BY <2>4, KeptHandled
  <1>6. ASSUME NEW s \in Slots, s # r PROVE SlotOK(s)'
    <2>1. \A v \in Slots : req_owner'[v] = req_owner[v] \/ req_owner'[v] = None
      BY <1>2
    <2>2. req_owner'[s] # p BY <1>2, <1>6
    <2> QED BY <1>2, <1>6, <2>1, <2>2, SlotKept
  <1>7. OneToken'
    <2>1. \A s \in Slots : req_status'[s] = "ok" =>
             req_status[s] = "ok" /\ req_txn'[s] = req_txn[s]
      BY <1>2
    <2>2. req_txn[r] = cur'[p] BY <1>1
    <2> QED BY <1>2, <2>1, <2>2, TokensKept
  <1>8. \A q \in Procs \ {p} : \A s \in Slots : req_owner[s] = q => req_owner'[s] = q
    BY <1>0, <1>2
  <1> QED BY <1>2, <1>3, <1>5, <1>6, <1>7, <1>8, RequestStep

(* A waiter that gives up leaves its request at the source.                 *)
LEMMA Detached ==
    ASSUME IndInv, NEW p \in Procs, Alone(p), Detach(p), ~Token(p)',
           UNCHANGED <<req_txn, req_status, effects, provider>>
    PROVE  /\ RequestTypes' /\ (\A s \in Slots : SlotOK(s)') /\ OneToken'
           /\ \A q \in Procs \ {p} : \A s \in Slots : req_owner[s] = q => req_owner'[s] = q
           /\ \A s \in Slots : req_owner[s] = p \/ req_owner[s] = None => req_owner'[s] = None
  <1>1. RequestTypes /\ p # None BY Facts
  <1> /\ req_txn' = req_txn /\ req_status' = req_status /\ effects' = effects
      /\ provider' = provider
    OBVIOUS
  <1> \A s \in Slots : req_owner'[s] = IF req_owner[s] = p THEN None ELSE req_owner[s]
    BY DEF Detach
  <1>4. RequestTypes' BY <1>1 DEF RequestTypes, Detach
  <1>5. ASSUME NEW s \in Slots PROVE SlotOK(s)'
    <2>1. \A v \in Slots : req_owner'[v] = req_owner[v] \/ req_owner'[v] = None
      OBVIOUS
    <2>2. req_owner'[s] = None \/ req_owner'[s] # p OBVIOUS
    <2> QED BY <2>1, <2>2, SlotKept
  <1>6. OneToken' BY TokensKept
  <1> QED BY <1>1, <1>4, <1>5, <1>6

LEMMA CommitSignalKeeps ==
    ASSUME IndInv, NEW p \in Procs, CommitSignal(p)
    PROVE  IndInv'
  <1> /\ TypeOK /\ TxnTypes /\ RegistryTypes /\ SourceTypes /\ RequestTypes /\ ThreadTypes
      /\ HistoryTypes /\ Listed /\ late \subseteq Procs /\ p # None /\ Shape(p)
    BY Facts DEF IndInv
  <1> /\ pc[p] = "commit_wait" /\ Goto(p, "commit_fails") /\ Detach(p)
      /\ req_txn' = req_txn /\ req_status' = req_status
      /\ UNCHANGED <<txnVars, registryVars, sourceVars, callVars, historyVars>>
    BY DEF CommitSignal
  <1> /\ life' = life /\ state' = state /\ commit_in_flight' = commit_in_flight
      /\ timeout_abort_pending' = timeout_abort_pending /\ timer' = timer
      /\ mutation_log' = mutation_log /\ audit_pending' = audit_pending
      /\ bind_lock' = bind_lock /\ registry' = registry /\ registry_lock' = registry_lock
      /\ active' = active /\ session' = session /\ provider' = provider
      /\ effects' = effects /\ audits' = audits /\ cur' = cur /\ late' = late
    BY DEF txnVars, flagVars, registryVars, sourceVars, historyVars, callVars
  <1>1. PICK t : t = cur[p] OBVIOUS
  <1> /\ t \in Txns /\ t # None /\ life[t] = "open" /\ state[t] # "UNBOUND" /\ Commits(p)
      /\ bind_lock[t] = p /\ registry_lock # p /\ p \notin late
      /\ \A u \in Txns : bind_lock[u] = p => u = t
      /\ pc[p] \notin Closing /\ pc[p] \notin Downing /\ pc[p] # "late_release"
    <2>1. pc[p] \in Committing /\ pc[p] # "late_release" BY DEF Committing
    <2>2. p \notin late BY CallersLabels
    <2> QED BY <1>1, <2>1, <2>2, CommitterFacts
  <1> /\ ThreadTypes' /\ Alone(p) /\ pc'[p] = "commit_fails"
    <2>1. "commit_fails" \in Labels BY DEF Labels
    <2> QED BY <2>1, Went
  <1> ThreadOK(p)' /\ ~Token(p)' /\ Commits(p)'
    <2>1. /\ pc'[p] \in Committing /\ ~Token(p)' /\ pc'[p] # "final"
          /\ pc'[p] # "commit_wait" /\ pc'[p] # "commit_release"
      BY DEF Committing, Token
    <2>2. CommitOK(p)' BY <1>1, <2>1 DEF CommitOK
    <2> QED BY <1>1, <2>1, <2>2, CommittingOK DEF Commits
  <1> /\ RequestTypes' /\ (\A s \in Slots : SlotOK(s)') /\ OneToken'
      /\ \A q \in Procs \ {p} : \A s \in Slots : req_owner[s] = q => req_owner'[s] = q
      /\ \A s \in Slots : req_owner[s] = p \/ req_owner[s] = None => req_owner'[s] = None
    BY Detached
  <1>4. TypeOK' BY TypesKept, TypeParts
  <1> Listed' /\ (\A u : Linked(u)' <=> Linked(u)) /\ OwnLocks(p)
    BY LocksUnchanged DEF Linked, Listed
  <1>5. ASSUME NEW u \in Txns PROVE Handled(p, u)
    <2>1. /\ Pending(u) => Pending(u)'
          /\ Owned(u) => Owned(u)'
          /\ Freed(u) => Freed(u)'
      BY OwedStill DEF Charged
    <2>2. Virgin(u) => Virgin(u)' BY DEF Virgin
    <2>3. Kept(p, u) BY <2>1, <2>2 DEF Kept
    <2> QED BY <2>3, KeptHandled
  <1> QED BY <1>4, <1>5, RequestStep

LEMMA CommitTimeoutKeeps ==
    ASSUME IndInv, NEW p \in Procs, CommitTimeout(p)
    PROVE  IndInv'
  <1>0. PICK t : t = cur[p] OBVIOUS
  <1> /\ TypeOK /\ TxnTypes /\ RegistryTypes /\ SourceTypes /\ RequestTypes /\ ThreadTypes
      /\ HistoryTypes /\ Listed /\ late \subseteq Procs /\ p # None /\ Shape(p) /\ CommitOK(p)
    BY Facts DEF IndInv
  <1> /\ pc[p] = "commit_wait" /\ Goto(p, "commit_audit") /\ Detach(p) /\ Unlock(t)
      /\ state' = [state EXCEPT ![t] = IF @ = "BOUND" THEN "TIMED_OUT" ELSE @]
      /\ timeout_abort_pending' = timeout_abort_pending \ {t} /\ timer' = timer \ {t}
      /\ req_txn' = req_txn /\ req_status' = req_status /\ life' = life
      /\ commit_in_flight' = commit_in_flight /\ mutation_log' = mutation_log
      /\ audit_pending' = audit_pending
      /\ UNCHANGED <<registryVars, sourceVars, callVars, historyVars>>
    BY <1>0 DEF CommitTimeout
  <1> /\ registry' = registry /\ registry_lock' = registry_lock
      /\ active' = active /\ session' = session /\ provider' = provider
      /\ effects' = effects /\ audits' = audits /\ cur' = cur /\ late' = late
    BY DEF registryVars, sourceVars, historyVars, callVars
  <1> /\ t \in Txns /\ t # None /\ TxnOK(t) /\ life[t] = "open" /\ state[t] # "UNBOUND"
      /\ bind_lock[t] = p /\ registry_lock # p /\ p \notin late
      /\ \A u \in Txns : bind_lock[u] = p => u = t
      /\ pc[p] \notin Closing /\ pc[p] \notin Downing /\ pc[p] # "late_release"
    <2>1. pc[p] \in Committing /\ pc[p] # "late_release" BY DEF Committing
    <2>2. p \notin late BY CallersLabels
    <2> QED BY <1>0, <2>1, <2>2, CommitterFacts
  <1> /\ ThreadTypes' /\ Alone(p) /\ pc'[p] = "commit_audit"
    <2>1. "commit_audit" \in Labels BY DEF Labels
    <2> QED BY <2>1, Went
  <1> /\ bind_lock' \in [Txns -> Procs \cup {None}] /\ OwnLocks(p)
      /\ \A u \in Txns : bind_lock'[u] # p
    BY Unlocked
  <1> /\ pc'[p] \in Calling /\ ~Token(p)' BY DEF Calling, Token
  <1>1. ThreadOK(p)' BY <1>0, CallingOK
  <1>2. /\ RequestTypes' /\ (\A s \in Slots : SlotOK(s)') /\ OneToken'
        /\ \A q \in Procs \ {p} : \A s \in Slots : req_owner[s] = q => req_owner'[s] = q
        /\ \A s \in Slots : req_owner[s] = p \/ req_owner[s] = None => req_owner'[s] = None
    BY Detached
  <1> /\ state' \in [Txns -> Active \cup Terminal] /\ timer' \subseteq Txns
      /\ timeout_abort_pending' \subseteq Txns
      /\ state[t] = "BOUND" => state'[t] = "TIMED_OUT"
      /\ state[t] # "BOUND" => state'[t] = state[t]
      /\ \A u \in Txns : u # t => state'[u] = state[u]
    <2>1. "TIMED_OUT" \in Terminal BY DEF Terminal
    <2> QED BY <2>1 DEF TxnTypes
  <1>3. TypeOK'
    <2>1. TxnTypes' BY DEF TxnTypes
    <2> QED BY <1>2, <2>1, TypesKept, TypeParts
  <1> Listed' /\ (\A u : Linked(u)' <=> Linked(u)) BY DEF Linked, Listed
  <1>4. ASSUME NEW u \in Txns, u # t PROVE Handled(p, u)
    <2>1. ~Charged(p, u) BY <1>0, <1>4 DEF Charged
    <2>2. /\ Pending(u) => Pending(u)'
          /\ Owned(u) => Owned(u)'
          /\ Freed(u) => Freed(u)'
      BY <1>2, <2>1, OwedStill
    <2>3. Virgin(u) => Virgin(u)' BY DEF Virgin
    <2>4. Kept(p, u) BY <1>4, <2>2, <2>3 DEF Kept
    <2> QED BY <2>4, KeptHandled
  <1>5. Handled(p, t)
    <2> /\ "TIMED_OUT" \in Terminal /\ "BOUND" \notin Terminal
        /\ state'[t] # "UNBOUND" /\ (state'[t] = "COMMITTED" => state[t] = "COMMITTED")
        /\ (state[t] = "TIMED_OUT" => state'[t] = "TIMED_OUT")
        /\ (~active' => ~active) /\ life'[t] # "released" /\ life'[t] # "unborn"
      BY DEF Terminal
    <2>2. state[t] \in Terminal => state'[t] = state[t] OBVIOUS
    <2>3. Live(t)' => Live(t) BY DEF Live
    <2>4. Minds(p, t)
      <3>1. ~Pends(p, t) BY DEF Pends
      <3> QED BY <2>2, <2>3, <3>1 DEF Minds, Steady
    <2>5. \A q \in Procs \ {p} : Guards(q, t) BY <2>4, GuardsTouched
    <2>6. Owned(t)'
      <3>1. PICK r \in Slots : req_owner[r] = p BY DEF CommitOK
      <3>2. req_txn[r] = t BY <1>0, <3>1 DEF IndInv, SlotOK
      <3>3. req_owner'[r] = None BY <1>2, <3>1
      <3> QED BY <3>2, <3>3 DEF Owned, CommitOutstanding
    <2>7. Pending(t) => Pending(t)'
      <3>1. \A q \in Procs \ {p} : pc'[q] = pc[q] /\ visited'[q] = visited[q]
        BY DEF Alone, SameCall
      <3>2. ~Pends(p, t) BY DEF Pends
      <3> QED BY <3>1, <3>2 DEF Pending, Pends
    <2>8. TxnOK(t)' BY <2>2, <2>3, <2>6, <2>7 DEF TxnOK
    <2> QED BY <2>5, <2>8 DEF Handled
  <1>6. \A u \in Txns : Handled(p, u) BY <1>4, <1>5
  <1> QED BY <1>1, <1>2, <1>3, <1>6, RequestStep

LEMMA LateStartKeeps ==
    ASSUME IndInv, NEW p \in Procs, NEW r \in Slots, LateStart(p, r)
    PROVE  IndInv'
  <1>0. PICK t : t = req_txn[r] OBVIOUS
  <1> /\ TypeOK /\ TxnTypes /\ RegistryTypes /\ SourceTypes /\ RequestTypes /\ ThreadTypes
      /\ HistoryTypes /\ Listed /\ late \subseteq Procs /\ p # None /\ Shape(p) /\ LockOK(p)
      /\ SlotOK(r)
    BY Facts DEF IndInv
  <1> /\ pc[p] = "idle" /\ Goto(p, "late_lock") /\ FreeSlot(r) /\ req_owner[r] = None
      /\ req_status[r] = "ok" \/ req_status[r] = "error"
      /\ cur' = [cur EXCEPT ![p] = t]
      /\ verdict' = [verdict EXCEPT ![p] = req_status[r]]
      /\ late' = late \cup {p} /\ late_session' = [late_session EXCEPT ![p] = session]
      /\ visited' = visited /\ layer' = layer /\ after' = after
      /\ UNCHANGED <<txnVars, registryVars, sourceVars, historyVars>>
    BY <1>0 DEF LateStart
  <1> /\ life' = life /\ state' = state /\ commit_in_flight' = commit_in_flight
      /\ timeout_abort_pending' = timeout_abort_pending /\ timer' = timer
      /\ mutation_log' = mutation_log /\ audit_pending' = audit_pending
      /\ bind_lock' = bind_lock /\ registry' = registry /\ registry_lock' = registry_lock
      /\ active' = active /\ session' = session /\ provider' = provider
      /\ effects' = effects /\ audits' = audits
    BY DEF txnVars, flagVars, registryVars, sourceVars, historyVars
  <1> /\ t \in Txns /\ t # None
      /\ req_status[r] = "ok" => provider[t] = "committed" /\ effects[t] = 0
    <2>1. "ok" # None /\ "error" # None BY Constants
    <2> QED BY <1>0, <2>1 DEF RequestTypes, SlotOK
  <1> /\ p \notin late /\ (\A u \in Txns : bind_lock[u] # p) /\ registry_lock # p
      /\ ~Commits(p) /\ pc[p] \notin Closing /\ pc[p] \notin Downing /\ pc[p] # "late_release"
    <2>1. p \notin late BY CallersLabels
    <2>2. (\A u \in Txns : bind_lock[u] # p) /\ registry_lock # p BY NoLocks
    <2>3. ~Commits(p) /\ pc[p] \notin Closing /\ pc[p] # "late_release" /\ pc[p] \notin Downing
      BY DEF Commits, Committing, Downing, Closing
    <2> QED BY <2>1, <2>2, <2>3
  <1> /\ ThreadTypes' /\ Alone(p) /\ pc'[p] = "late_lock" /\ verdict'[p] = req_status[r]
      /\ cur'[p] = t /\ p \in late' /\ late_session'[p] = session /\ late' \subseteq Procs
    <2>1. "late_lock" \in Labels BY DEF Labels
    <2>2. pc' = [pc EXCEPT ![p] = "late_lock"] BY DEF Goto
    <2>3. session \in 0..MaxSession BY SMT DEF SourceTypes
    <2>4. /\ pc' \in [Procs -> Labels] /\ verdict' \in [Procs -> {"ok", "error", None}]
          /\ cur' \in [Procs -> Txns \cup {None}] /\ late' \subseteq Procs
          /\ late_session' \in [Procs -> 0..MaxSession]
          /\ pc'[p] = "late_lock" /\ verdict'[p] = req_status[r] /\ cur'[p] = t
          /\ late_session'[p] = session /\ p \in late'
      BY <2>1, <2>2, <2>3 DEF ThreadTypes
    <2>5. Alone(p) BY <2>2 DEF Alone, SameCall, ThreadTypes
    <2> QED BY <2>4, <2>5 DEF ThreadTypes
  <1> /\ RequestTypes' /\ SlotOK(r)'
      /\ req_owner'[r] = None /\ req_status'[r] # "ok"
      /\ \A s \in Slots : s # r => /\ req_txn'[s] = req_txn[s]
                                   /\ req_owner'[s] = req_owner[s]
                                   /\ req_status'[s] = req_status[s]
      /\ \A s \in Slots : req_txn'[s] = req_txn[s] \/ req_txn'[s] = None
    BY SlotFreed
  <1>3. TypeOK' BY TypesKept, TypeParts
  <1> Listed' /\ (\A u : Linked(u)' <=> Linked(u)) /\ OwnLocks(p)
    BY LocksUnchanged DEF Linked, Listed
  <1>4. ThreadOK(p)' /\ (Token(p)' => req_status[r] = "ok")
    <2>1. /\ pc'[p] # "late_walk" /\ late_session'[p] <= session'
          /\ ~(late_session'[p] < session')
      BY SMT DEF SourceTypes
    <2>2. Token(p)' => req_status[r] = "ok" BY DEF Token
    <2> QED BY <2>1, <2>2, HandlingOK
  <1>5. ASSUME NEW u \in Txns PROVE Handled(p, u)
    <2>1. u # None /\ ~Charged(p, u) BY Constants DEF Charged
    <2>2. \A s \in Slots : req_txn[s] = u /\ req_owner[s] = None =>
             (req_txn'[s] = u /\ req_owner'[s] = None) \/ Answers(p, u)'
      BY <1>0 DEF Answers
    <2>3. /\ Pending(u) => Pending(u)'
          /\ Owned(u) => Owned(u)'
          /\ Freed(u) => Freed(u)'
      BY <2>1, <2>2, OwedStill
    <2>4. Virgin(u) => Virgin(u)'
      <3>1. CASE u = t BY <1>0, <3>1 DEF Virgin
      <3>2. CASE u # t
        <4>1. \A q \in late : cur'[q] = cur[q] BY DEF Alone, SameCall
        <4> QED BY <2>1, <3>2, <4>1 DEF Virgin
      <3> QED BY <3>1, <3>2
    <2>5. Kept(p, u) BY <2>3, <2>4 DEF Kept
    <2> QED BY <2>5, KeptHandled
  <1>6. ASSUME NEW s \in Slots, s # r PROVE SlotOK(s)'
    <2>1. req_owner[s] # p BY DEF IndInv, SlotOK
    <2>2. req_owner'[s] # p BY <1>6, <2>1
    <2>3. \A v \in Slots : req_owner'[v] = req_owner[v] \/ req_owner'[v] = None
      OBVIOUS
    <2> QED BY <1>6, <2>2, <2>3, SlotKept
  <1>7. OneToken'
    <2>1. \A s \in Slots : req_status'[s] = "ok" =>
             req_status[s] = "ok" /\ req_txn'[s] = req_txn[s]
      OBVIOUS
    <2>2. req_txn[r] = cur'[p] BY <1>0
    <2> QED BY <1>4, <2>1, <2>2, TokensKept
  <1>8. \A q \in Procs \ {p} : \A s \in Slots : req_owner[s] = q => req_owner'[s] = q
    <2> SUFFICES ASSUME NEW q \in Procs \ {p}, NEW s \in Slots, req_owner[s] = q
                 PROVE  req_owner'[s] = q
      OBVIOUS
    <2>1. None \notin Procs BY Constants
    <2>2. s # r BY <2>1
    <2> QED BY <2>2
  <1> QED BY <1>3, <1>4, <1>5, <1>6, <1>7, <1>8, RequestStep

-----------------------------------------------------------------------------
(* IndInv is inductive.                                                     *)

LEMMA InitOK == Init => IndInv
  <1> SUFFICES ASSUME Init PROVE IndInv OBVIOUS
  <1>1. TypeOK
    <2>1. "idle" \in Labels /\ "UNBOUND" \in Active BY DEF Labels, Active
    <2>2. /\ <<>> \in Seq(Layers) /\ Len(<<>>) = 0 /\ <<>> \in Seq(Txns) /\ 0 <= LogCapacity
          /\ 1 \in 1..MaxSession /\ 0 \in 0..MaxSession /\ 0 \in 0..Cap /\ 0 \in Nat
      BY Constants, SMT
    <2> QED BY <2>1, <2>2 DEF Init, TypeOK
  <1>2. ASSUME NEW p \in Procs PROVE ThreadOK(p)
    <2> pc[p] = "idle" /\ cur[p] = None /\ late = {} BY DEF Init
    <2> /\ pc[p] \notin Handling /\ pc[p] \notin Downing /\ pc[p] \notin Aborting
        /\ pc[p] \notin FirstBinding /\ pc[p] \notin {"late_walk", "late_release",
                                                      "commit_release", "down_walk"}
        /\ ~Works(p) /\ ~Mutates(p) /\ ~Commits(p) /\ ~Holds(p) /\ ~HoldsRegistry(p)
        /\ ~Token(p) /\ pc[p] # "commit_wait" /\ pc[p] # "final"
      BY DEF Handling, Downing, Aborting, FirstBinding, Works, Mutates, Commits, Holds,
                  HoldsRegistry, Token, Closing, Calling, Mutating, Committing, Walking
    <2>3. (\A t \in Txns : bind_lock[t] # p) /\ registry_lock # p
      <3>1. registry_lock = None /\ \A t \in Txns : bind_lock[t] = None BY DEF Init
      <3> QED BY <3>1, Constants
    <2>4. Shape(p) BY DEF Shape
    <2>5. LockOK(p) BY <2>3 DEF LockOK
    <2>6. MutateOK(p) /\ CommitOK(p) /\ LateOK(p)
      BY DEF MutateOK, CommitOK, LateOK
    <2> QED BY <2>4, <2>5, <2>6 DEF ThreadOK
  <1>3. ASSUME NEW t \in Txns PROVE TxnOK(t)
    <2> /\ life[t] = "unborn" /\ state[t] = "UNBOUND" /\ t \notin commit_in_flight
        /\ timeout_abort_pending = {} /\ timer = {} /\ audits[t] = 0 /\ effects[t] = 0
        /\ provider[t] = "none" /\ late = {} /\ (\A r \in Slots : req_txn[r] = None)
      BY DEF Init
    <2>2. ~Linked(t)
      <3>1. 1..Len(registry) = {} BY SMT DEF Init
      <3> QED BY <3>1 DEF Linked
    <2>3. Virgin(t) BY Constants DEF Virgin
    <2>4. /\ life[t] # "open" /\ life[t] # "released" /\ audits[t] <= 1 /\ audits[t] # 1
          /\ effects[t] <= 1 /\ effects[t] # 1 /\ state[t] # "COMMITTED"
      BY SMT
    <2> QED BY <2>2, <2>3, <2>4 DEF TxnOK
  <1>4. ASSUME NEW r \in Slots PROVE SlotOK(r)
    BY Constants DEF Init, SlotOK
  <1>5. OneToken
    <2>1. \A p \in Procs : ~Token(p) BY DEF Init, Token
    <2>2. \A r \in Slots : req_status[r] # "ok" BY Constants DEF Init
    <2> QED BY <2>1, <2>2 DEF OneToken
  <1>6. Listed
    <2>1. 1..Len(registry) = {} BY SMT DEF Init
    <2> QED BY <2>1 DEF Listed
  <1> QED BY <1>1, <1>2, <1>3, <1>4, <1>5, <1>6 DEF IndInv

LEMMA ThreadStep ==
    ASSUME IndInv, NEW p \in Procs, Step(p) \/ Input(p)
    PROVE  IndInv'
  <1>1. CASE \/ CloseEnd(p) \/ CloseRemove(p) \/ DownLock(p) \/ DownVisit(p) \/ DownDone(p)
             \/ AbortLock(p) \/ AbortVisit(p) \/ AbortUndo(p) \/ AbortDone(p) \/ AbortFails(p)
    BY <1>1, CloseEndKeeps, CloseRemoveKeeps, DownLockKeeps, DownVisitKeeps, DownDoneKeeps,
       AbortLockKeeps, AbortVisitKeeps, AbortUndoKeeps, AbortDoneKeeps, AbortFailsKeeps
  <1>2. CASE \/ MutateAdmitted(p) \/ MutateRefused(p) \/ BeginSucceeds(p) \/ BeginFails(p)
             \/ CompleteFirstBind(p) \/ MutateApplied(p) \/ MutateFails(p)
             \/ MutateTouched(p) \/ MutateTouchFails(p) \/ MutateLog(p) \/ MutateCancel(p)
    BY <1>2, MutateAdmittedKeeps, MutateRefusedKeeps, BeginSucceedsKeeps, BeginFailsKeeps,
       FirstBindKeeps, BindUndoneKeeps, MutationsKeep, MutateTouchFailsKeeps, MutateLogKeeps,
       MutateCancelKeeps
  <1>3. CASE \/ CommitAdmitted(p) \/ CommitRefused(p) \/ CommitSent(p) \/ CommitNotSent(p)
             \/ CommitTimeout(p) \/ CommitFails(p) \/ CommitAudit(p) \/ CommitSettles(p)
             \/ CommitReleases(p) \/ CommitLayers(p)
    BY <1>3, CommitAdmittedKeeps, CommitRefusedKeeps, CommitSentKeeps, CommitNotSentKeeps,
       CommitTimeoutKeeps, CommitFailsKeeps, CommitAuditKeeps, CommitSettlesKeeps,
       CommitReleasesKeeps, CommitLayersKeeps
  <1>4. CASE \/ ApplyEffects(p) \/ ApplyRefusal(p) \/ ApplyFails(p) \/ ApplyRecoveryFails(p)
             \/ ApplyBroken(p)
    BY <1>4, AppliesKeep, ApplyRefusalKeeps, ApplyRecoveryFailsKeeps, ApplyBrokenKeeps
  <1>5. CASE \/ LateLock(p) \/ LateVisit(p) \/ LateUnknown(p) \/ LateUnexpected(p)
             \/ LateSettles(p) \/ LateReleases(p)
    BY <1>5, LateLockKeeps, LateVisitKeeps, LateUnknownKeeps, LateUnexpectedKeeps,
       LateSettlesKeeps, LateReleasesKeeps
  <1>6. CASE Input(p)
    BY <1>6, CloseKeeps, StartsKeep, CommitSignalKeeps, SourceDownKeeps, LateStartKeeps,
       DeleteLayerKeeps DEF Input
  <1> QED BY <1>1, <1>2, <1>3, <1>4, <1>5, <1>6 DEF Step

LEMMA Stutters ==
    ASSUME IndInv, UNCHANGED vars
    PROVE  IndInv'
  <1>1. UNCHANGED <<txnVars, registryVars, sourceVars, requestVars, procVars, historyVars>>
    BY DEF vars
  <1>2. TypeOK' /\ Listed'
    BY <1>1 DEF IndInv, TypeOK, Listed, txnVars, flagVars, registryVars, sourceVars,
         requestVars, procVars, historyVars
  <1>3. ASSUME NEW p \in Procs PROVE ThreadOK(p)'
    <2>1. ThreadOK(p) BY DEF IndInv
    <2>2. Shape(p)' /\ LockOK(p)'
      BY <1>1, <2>1 DEF ThreadOK, Shape, LockOK, Works, Holds, HoldsRegistry, Mutates,
           Commits, Linked, txnVars, flagVars, registryVars, sourceVars, procVars
    <2>3. MutateOK(p)'
      BY <1>1, <2>1 DEF ThreadOK, MutateOK, Mutates, Virgin, Pending, Pends, txnVars,
           flagVars, sourceVars, requestVars, procVars, historyVars
    <2>4. CommitOK(p)' /\ LateOK(p)'
      BY <1>1, <2>1 DEF ThreadOK, CommitOK, LateOK, Commits, Token, Linked, Live,
           Pending, Pends, txnVars, flagVars, registryVars, sourceVars, requestVars, procVars,
           historyVars
    <2> QED BY <2>2, <2>3, <2>4 DEF ThreadOK
  <1>4. ASSUME NEW t \in Txns PROVE TxnOK(t)'
    <2>1. TxnOK(t) BY DEF IndInv
    <2>2. Linked(t)' = Linked(t) /\ Live(t)' = Live(t)
      BY <1>1 DEF Linked, Live, txnVars, flagVars, registryVars
    <2>3. Virgin(t)' = Virgin(t)
      BY <1>1 DEF Virgin, txnVars, flagVars, sourceVars, requestVars, procVars
    <2>4. Pending(t)' = Pending(t)
      BY <1>1 DEF Pending, Pends, procVars
    <2>5. Owned(t)' = Owned(t)
      BY <1>1 DEF Owned, CommitOutstanding, Charged, Commits, requestVars, procVars
    <2>6. Freed(t)' = Freed(t)
      BY <1>1, <2>2 DEF Freed, Frees, procVars
    <2>7. /\ life' = life /\ state' = state /\ timer' = timer /\ audits' = audits
          /\ effects' = effects /\ provider' = provider /\ active' = active
          /\ audit_pending' = audit_pending /\ commit_in_flight' = commit_in_flight
          /\ timeout_abort_pending' = timeout_abort_pending
      BY <1>1 DEF txnVars, flagVars, sourceVars, historyVars
    <2> QED BY <2>1, <2>2, <2>3, <2>4, <2>5, <2>6, <2>7 DEF TxnOK
  <1>5. OneToken' /\ \A r \in Slots : SlotOK(r)'
    <2>1. OneToken /\ \A r \in Slots : SlotOK(r) BY DEF IndInv
    <2>2. /\ pc' = pc /\ cur' = cur /\ req_txn' = req_txn /\ req_owner' = req_owner
          /\ req_status' = req_status /\ provider' = provider /\ effects' = effects
          /\ \A q : Token(q)' <=> Token(q)
      BY <1>1 DEF Token, sourceVars, requestVars, procVars, historyVars
    <2>3. OneToken' BY <2>1, <2>2 DEF OneToken
    <2>4. \A r \in Slots : SlotOK(r)' BY <2>1, <2>2 DEF SlotOK
    <2> QED BY <2>3, <2>4
  <1> QED BY <1>2, <1>3, <1>4, <1>5 DEF IndInv

LEMMA IndStep == IndInv /\ [Next]_vars => IndInv'
  <1> SUFFICES ASSUME IndInv, [Next]_vars PROVE IndInv' OBVIOUS
  <1>1. CASE UNCHANGED vars BY <1>1, Stutters
  <1>2. ASSUME NEW t \in Txns, Publish(t) \/ PublishFails(t) \/ Timeout(t) \/ TimeoutWork(t)
        PROVE  IndInv'
    BY <1>2, PublishKeeps, PublishFailsKeeps, TimeoutKeeps, TimeoutWorkKeeps
  <1>3. ASSUME NEW r \in Slots, ProviderAnswers(r) \/ CommitAnswered(r) PROVE IndInv'
    BY <1>3, ProviderAnswersKeeps, CommitAnsweredKeeps
  <1>4. CASE SourceResumes BY <1>4, SourceResumesKeeps
  <1> QED BY <1>1, <1>2, <1>3, <1>4, ThreadStep DEF Next

LEMMA Inductive == Spec => []IndInv
  <1> QED BY InitOK, IndStep, PTL DEF Spec

-----------------------------------------------------------------------------
(* What IndInv gives.                                                       *)

(* Every variable of the transaction registry keeps its type.               *)
THEOREM TransactionTypes == Spec => []TypeOK
  <1>1. IndInv => TypeOK BY DEF IndInv
  <1> QED BY <1>1, Inductive, PTL

(* The transaction registry lists exactly what may still be looked up: a    *)
(* listed transaction is not freed, an open one is listed, and a locked one *)
(* is listed (pkm_lcs_transaction_publish, pkm_lcs_transaction_release).    *)
THEOREM RegistryIsSound == Spec => []RegistryIntegrity
  <1>1. ASSUME IndInv PROVE RegistryIntegrity
    <2> SUFFICES ASSUME NEW t \in Txns, bind_lock[t] # None PROVE Linked(t)
      BY <1>1 DEF IndInv, TxnOK, RegistryIntegrity
    <2>1. PICK p \in Procs : p = bind_lock[t]
      BY <1>1, TypeParts DEF IndInv, TxnTypes
    <2>2. Holds(p) /\ cur[p] = t /\ cur[p] # None
      BY <1>1, <2>1, Constants DEF IndInv, ThreadOK, LockOK
    <2>3. CASE p \in late
      <3>1. Commits(p) BY <1>1, <2>2, <2>3 DEF IndInv, ThreadOK, Shape, Holds, Mutates, Commits,
              Mutating, Committing, Downing, Handling, Aborting
      <3> QED BY <1>1, <2>2, <2>3, <3>1 DEF IndInv, ThreadOK, LockOK
    <2>4. CASE p \notin late
      <3>1. pc[p] \notin Closing
        BY <2>2 DEF Holds, Mutates, Commits, Mutating, Committing, Downing, Closing
      <3>2. life[t] = "open" BY <1>1, <2>2, <2>4, <3>1 DEF IndInv, ThreadOK, LockOK
      <3> QED BY <1>1, <3>2 DEF IndInv, TxnOK
    <2> QED BY <2>3, <2>4
  <1> QED BY <1>1, Inductive, PTL

(* The effects of a commit are published at most once, only after the source *)
(* committed, and a COMMITTED transaction has published them, whether the    *)
(* caller or a late response finishes the commit.                            *)
THEOREM EffectsPublishedOnce == Spec => []PublishedOnce
  <1>1. IndInv => PublishedOnce BY DEF IndInv, TxnOK, PublishedOnce
  <1> QED BY <1>1, Inductive, PTL

(* A transaction is audited at most once, however its end is reached.       *)
THEOREM AuditedAtMostOnce == Spec => []AuditAtMostOnce
  <1>1. IndInv => AuditAtMostOnce BY DEF IndInv, TxnOK, AuditAtMostOnce
  <1> QED BY <1>1, Inductive, PTL

(* A transaction whose descriptor is closed and that nobody works on is one *)
(* that timed out in its commit, still in the registry, and somebody will   *)
(* free it: an answer that is due, or a walk that takes the source down.    *)
THEOREM RetainedAreOwned == Spec => []RetainedOwned
  <1>1. ASSUME IndInv PROVE RetainedOwned
    <2> SUFFICES ASSUME NEW t \in Txns, life[t] = "released", \A p \in Procs : cur[p] # t
                 PROVE  /\ Linked(t) /\ state[t] = "TIMED_OUT" /\ t \in commit_in_flight
                        /\ CommitOutstanding(t)
      BY DEF RetainedOwned
    <2>1. ~Freed(t) BY DEF Freed, Frees
    <2>2. TxnOK(t) BY <1>1 DEF IndInv
    <2>3. Linked(t) /\ state[t] = "TIMED_OUT" /\ t \in commit_in_flight
      BY <2>1, <2>2 DEF TxnOK
    <2>4. Owned(t) BY <2>2, <2>3 DEF TxnOK, Live
    <2>5. CommitOutstanding(t) BY <2>4 DEF Owned, Charged
    <2> QED BY <2>3, <2>5
  <1> QED BY <1>1, Inductive, PTL

(* A transaction that has ended keeps its state: COMMITTED, ABORTED,        *)
(* TIMED_OUT and SOURCE_DOWN are final, whatever timer, close, layer        *)
(* deletion, source failure or late response comes after.                   *)
THEOREM EndsAreFinal == Spec => TerminalStable
  <1>1. ASSUME IndInv, [Next]_vars, NEW t \in Txns, state[t] \in Terminal
        PROVE  state'[t] = state[t]
    <2> TxnTypes BY <1>1, TypeParts DEF IndInv
    <2> /\ state[t] \in Terminal /\ "BOUND" \notin Terminal /\ "UNBOUND" \notin Terminal
      BY <1>1 DEF Terminal
    <2>1. ASSUME NEW u \in Txns, Publish(u) \/ PublishFails(u) \/ TimeoutWork(u)
          PROVE  state' = state
      BY <2>1 DEF Publish, PublishFails, TimeoutWork
    <2>2. ASSUME NEW u \in Txns, Timeout(u) PROVE state'[t] = state[t]
      <3>1. \A v \in Active : v \notin Terminal BY DEF Terminal, Active
      <3>2. state' = [state EXCEPT ![u] = IF @ \in Active THEN "TIMED_OUT" ELSE @]
        BY <2>2 DEF Timeout
      <3> QED BY <3>1, <3>2 DEF TxnTypes
    <2>3. ASSUME NEW r \in Slots, ProviderAnswers(r) \/ CommitAnswered(r)
          PROVE  state' = state
      BY <2>3 DEF ProviderAnswers, CommitAnswered, txnVars, flagVars
    <2>4. CASE SourceResumes BY <2>4 DEF SourceResumes, txnVars, flagVars
    <2>5. ASSUME NEW p \in Procs, Input(p) PROVE state'[t] = state[t]
      <3>1. ASSUME NEW u \in Txns, Close(p, u) PROVE state'[t] = state[t]
        <4>1. \A v \in Active : v \notin Terminal BY DEF Terminal, Active
        <4>2. state' = [state EXCEPT ![u] = IF @ \in Active THEN "ABORTED" ELSE @]
          BY <3>1 DEF Close
        <4> QED BY <4>1, <4>2 DEF TxnTypes
      <3>2. ASSUME NEW u \in Txns, MutateStart(p, u) \/ CommitStart(p, u)
            PROVE  state' = state
        BY <3>2 DEF MutateStart, CommitStart, txnVars, flagVars
      <3>3. CASE CommitSignal(p) \/ SourceDown(p)
        BY <3>3 DEF CommitSignal, SourceDown, txnVars, flagVars
      <3>4. ASSUME NEW r \in Slots, LateStart(p, r) PROVE state' = state
        BY <3>4 DEF LateStart, txnVars, flagVars
      <3>5. ASSUME NEW l \in Layers, DeleteLayer(p, l) PROVE state' = state
        BY <3>5 DEF DeleteLayer, txnVars, flagVars
      <3> QED BY <2>5, <3>1, <3>2, <3>3, <3>4, <3>5 DEF Input
    <2>6. ASSUME NEW p \in Procs, Step(p) PROVE state'[t] = state[t]
      <3>1. CASE \/ CloseEnd(p) \/ CloseRemove(p) \/ DownLock(p) \/ DownDone(p)
                 \/ AbortLock(p) \/ AbortUndo(p) \/ AbortDone(p) \/ AbortFails(p)
        BY <3>1 DEF CloseEnd, CloseRemove, DownLock, DownDone, AbortLock, WalkLock,
             AbortUndo, AbortDone, AbortFails, txnVars, flagVars
      <3>2. CASE \/ MutateAdmitted(p) \/ MutateRefused(p) \/ BeginSucceeds(p) \/ BeginFails(p)
                 \/ MutateApplied(p) \/ MutateFails(p) \/ MutateTouched(p)
                 \/ MutateTouchFails(p) \/ MutateLog(p) \/ MutateCancel(p)
        BY <3>2 DEF MutateAdmitted, MutateRefused, BeginSucceeds, BeginFails,
             MutateApplied, MutateFails, MutateTouched, MutateTouchFails, MutateLog,
             MutateCancel, txnVars, flagVars
      <3>3. CASE \/ CommitAdmitted(p) \/ CommitRefused(p) \/ CommitSent(p) \/ CommitNotSent(p)
                 \/ CommitFails(p) \/ CommitAudit(p) \/ CommitReleases(p) \/ CommitLayers(p)
        BY <3>3 DEF CommitAdmitted, CommitRefused, CommitSent, CommitNotSent,
             CommitFails, CommitAudit, CommitReleases, CommitLayers, txnVars, flagVars
      <3>4. CASE \/ ApplyEffects(p) \/ ApplyRefusal(p) \/ ApplyFails(p)
                 \/ ApplyRecoveryFails(p) \/ ApplyBroken(p) \/ LateLock(p) \/ LateVisit(p)
                 \/ LateUnknown(p) \/ LateUnexpected(p) \/ LateReleases(p)
        BY <3>4 DEF ApplyEffects, ApplyRefusal, ApplyFails, ApplyRecoveryFails,
             ApplyBroken, LateLock, WalkLock, LateVisit, LateUnknown, LateUnexpected,
             LateReleases, txnVars, flagVars
      <3>5. CASE DownVisit(p)
        <4>1. PICK u \in Txns :
                state' = [state EXCEPT ![u] = IF state[u] = "BOUND" THEN "SOURCE_DOWN" ELSE @]
          BY <3>5 DEF DownVisit
        <4> QED BY <4>1 DEF TxnTypes
      <3>6. CASE CompleteFirstBind(p)
        <4>1. \/ state' = state
              \/ state[cur[p]] = "UNBOUND" /\ state' = [state EXCEPT ![cur[p]] = "BOUND"]
          BY <3>6 DEF CompleteFirstBind
        <4> QED BY <4>1 DEF TxnTypes
      <3>7. CASE CommitTimeout(p)
        <4>1. state' = [state EXCEPT ![cur[p]] = IF @ = "BOUND" THEN "TIMED_OUT" ELSE @]
          BY <3>7 DEF CommitTimeout
        <4> QED BY <4>1 DEF TxnTypes
      <3>8. CASE CommitSettles(p) \/ LateSettles(p)
        <4>1. Settle(p) BY <3>8 DEF CommitSettles, LateSettles
        <4>2. \/ state' = state
              \/ /\ state[cur[p]] = "TIMED_OUT" \/ state[cur[p]] = "BOUND"
                 /\ state' = [state EXCEPT ![cur[p]] =
                                 IF @ = "BOUND" /\ verdict[p] = "ok"
                                 THEN "COMMITTED" ELSE "TIMED_OUT"]
          BY <4>1 DEF Settle, Ends
        <4> QED BY <4>2 DEF TxnTypes
      <3>9. CASE AbortVisit(p)
        <4>1. PICK u \in Txns :
                 \/ state' = state
                 \/ state[u] = "BOUND" /\ state' = [state EXCEPT ![u] = "ABORTED"]
          BY <3>9 DEF AbortVisit
        <4> QED BY <4>1 DEF TxnTypes
      <3> QED BY <2>6, <3>1, <3>2, <3>3, <3>4, <3>5, <3>6, <3>7, <3>8, <3>9 DEF Step
    <2>7. CASE UNCHANGED vars BY <2>7 DEF vars, txnVars, flagVars
    <2> QED BY <1>1, <2>1, <2>2, <2>3, <2>4, <2>5, <2>6, <2>7 DEF Next
  <1>2. IndInv /\ [Next]_vars => [\A t \in Txns : state[t] \in Terminal => state'[t] = state[t]]_vars
    BY <1>1
  <1> QED BY <1>2, Inductive, PTL DEF TerminalStable, Spec
=============================================================================
