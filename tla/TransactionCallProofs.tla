------------------------ MODULE TransactionCallProofs ------------------------
(***************************************************************************)
(* IndInv of TransactionProofs under the steps that change one transaction *)
(* before its commit is settled: it is born, bound, extended and admitted  *)
(* to a commit, it times out or is closed, and a walk visits it.           *)
(***************************************************************************)
EXTENDS TransactionProofs

(* Zenon proves a leaf unless it names another prover.                      *)
USE Zenon

(* What nobody may undo of a transaction.                                   *)
Steady(t) ==
    /\ state[t] \in Terminal => state'[t] = state[t]
    /\ state[t] # "UNBOUND" => state'[t] # "UNBOUND"
    /\ t \in commit_in_flight' /\ state[t] # "BOUND" => t \in commit_in_flight
    /\ life[t] \in {"released", "destroyed"} => life'[t] \in {"released", "destroyed"}
    /\ effects[t] = 1 => effects'[t] = 1
    /\ provider[t] = "committed" => provider'[t] = "committed"

(* What p may do to the transaction it works on, with bind_lock or while    *)
(* nobody has it.                                                           *)
Minds(p, t) ==
    /\ Steady(t)
    /\ bind_lock[t] = None \/ bind_lock[t] = p
    /\ life[t] = "open" => life'[t] = "open"
    /\ effects'[t] = effects[t]
    /\ Linked(t)' => Linked(t)
    /\ Live(t)' => Live(t) \/ Virgin(t)
    /\ Linked(t)' /\ Live(t)' /\ Pends(p, t) => Pends(p, t)'

LEMMA GuardsTouched ==
    ASSUME IndInv, NEW p, Alone(p), OwnLocks(p), NEW t \in Txns, Minds(p, t),
           session' = session
    PROVE  \A q \in Procs \ {p} : Guards(q, t)
  <1> SUFFICES ASSUME NEW q \in Procs \ {p} PROVE Guards(q, t) OBVIOUS
  <1>1. LateOK(q) /\ q # None /\ q # p BY Facts
  <1>2. bind_lock[t] # q BY <1>1 DEF Minds
  <1>3. bind_lock'[t] # q BY <1>1, <1>2 DEF OwnLocks
  <1>4. ASSUME q \in late, cur[q] = t, late_session[q] < session', Linked(t)', Live(t)'
        PROVE  Pending(t)'
    <2>1. cur[q] # None BY <1>4, Constants
    <2>2. Pending(t) BY <1>1, <1>4, <2>1 DEF LateOK, Minds, Virgin
    <2>3. \A r \in Procs \ {p} : pc'[r] = pc[r] /\ visited'[r] = visited[r]
      BY DEF Alone, SameCall
    <2> QED BY <1>4, <2>2, <2>3 DEF Pending, Pends, Minds
  <1> QED BY <1>2, <1>3, <1>4 DEF Guards, Steady, Minds

(* p changes the transaction t and no other.                                *)
TouchesOnly(p, t) ==
    /\ Alone(p) /\ OwnLocks(p)
    /\ p \in Procs => ThreadOK(p)' /\ pc[p] # "commit_wait"
    /\ Token(p)' => Token(p) /\ cur'[p] = cur[p]
    /\ TxnOK(t)' /\ Minds(p, t)
    /\ \A u \in Txns : u # t => Untouched(p, u)
    /\ active' = active /\ session' = session /\ effects' = effects
    /\ req_txn' = req_txn /\ req_owner' = req_owner /\ req_status' = req_status
    /\ Listed'

LEMMA TouchOne ==
    ASSUME IndInv, TypeOK', NEW p, NEW t \in Txns, TouchesOnly(p, t)
    PROVE  IndInv'
  <1> /\ Alone(p) /\ OwnLocks(p) /\ Minds(p, t) /\ session' = session /\ TxnOK(t)'
      /\ p \in Procs => ThreadOK(p)' /\ pc[p] # "commit_wait"
      /\ Token(p)' => Token(p) /\ cur'[p] = cur[p]
      /\ UNCHANGED <<active, session, req_txn, req_owner, req_status>>
      /\ effects' = effects /\ Listed'
      /\ \A u \in Txns : u # t => Untouched(p, u)
    BY DEF TouchesOnly
  <1>2. Handled(p, t) BY GuardsTouched DEF Handled
  <1>3. \A u \in Txns : Untouched(p, u) \/ Handled(p, u) BY <1>2
  <1>4. ASSUME NEW u \in Txns, provider[u] = "committed" PROVE provider'[u] = "committed"
    <2>1. CASE u = t BY <1>4, <2>1 DEF Minds, Steady
    <2>2. CASE u # t
      <3>1. \/ provider'[u] = provider[u] \/ provider[u] = "open"
        BY <2>2 DEF Untouched, Same
      <3> QED BY <1>4, <3>1
    <2> QED BY <2>1, <2>2
  <1>5. \A r \in Slots : req_status[r] = "ok" => effects'[req_txn[r]] = effects[req_txn[r]]
    OBVIOUS
  <1> QED BY <1>3, <1>4, <1>5, Touch

(* A step that is not a thread's.                                           *)
LEMMA NoThread ==
    ASSUME UNCHANGED procVars
    PROVE  /\ Alone(None) /\ (Token(None)' <=> Token(None)) /\ cur' = cur /\ late' = late
           /\ \A q, u : /\ Pends(q, u)' <=> Pends(q, u)
                        /\ Charged(q, u)' <=> Charged(q, u)
                        /\ Answers(q, u)' <=> Answers(q, u)
                        /\ (Linked(u)' <=> Linked(u)) => (Frees(q, u)' <=> Frees(q, u))
           /\ \A u : Pending(u)' <=> Pending(u)
  <1>1. /\ pc' = pc /\ cur' = cur /\ verdict' = verdict /\ late' = late
        /\ late_session' = late_session /\ visited' = visited /\ after' = after
    BY DEF procVars
  <1>2. Alone(None) BY <1>1 DEF Alone, SameCall
  <1>3. Token(None)' <=> Token(None) BY <1>1 DEF Token
  <1>4. \A q, u : /\ Pends(q, u)' <=> Pends(q, u)
                  /\ Charged(q, u)' <=> Charged(q, u)
                  /\ Answers(q, u)' <=> Answers(q, u)
    BY <1>1 DEF Pends, Charged, Answers, Commits
  <1>5. \A q, u : (Linked(u)' <=> Linked(u)) => (Frees(q, u)' <=> Frees(q, u))
    BY <1>1 DEF Frees
  <1>6. \A u : Pending(u)' <=> Pending(u) BY <1>4 DEF Pending
  <1> QED BY <1>1, <1>2, <1>3, <1>4, <1>5, <1>6

LEMMA NoThreadStays ==
    ASSUME UNCHANGED procVars, NEW u, Linked(u)' <=> Linked(u)
    PROVE  Stays(None, u)
  BY NoThread DEF Stays

LEMMA LocksUnchanged ==
    ASSUME NEW p, bind_lock' = bind_lock, registry_lock' = registry_lock
    PROVE  OwnLocks(p)
  BY DEF OwnLocks

(* Publish and PublishFails: nobody knows the transaction yet.              *)
LEMMA BornOK ==
    ASSUME IndInv, NEW t \in Txns, life[t] = "unborn", life'[t] # "released",
           life'[t] # "unborn", Linked(t)' <=> life'[t] = "open",
           UNCHANGED <<state, commit_in_flight, timeout_abort_pending, mutation_log,
                       audit_pending, bind_lock, registry_lock>>,
           UNCHANGED <<sourceVars, requestVars, procVars, historyVars>>
    PROVE  Handled(None, t)
  <1>0. /\ state' = state /\ commit_in_flight' = commit_in_flight
        /\ timeout_abort_pending' = timeout_abort_pending /\ audit_pending' = audit_pending
        /\ bind_lock' = bind_lock /\ registry_lock' = registry_lock
        /\ active' = active /\ session' = session /\ provider' = provider
        /\ req_txn' = req_txn /\ effects' = effects /\ audits' = audits
    BY DEF sourceVars, requestVars, historyVars
  <1>1. TxnOK(t) BY DEF IndInv
  <1>2. ~Linked(t) /\ state[t] = "UNBOUND"
    BY <1>1 DEF TxnOK
  <1>3. bind_lock[t] = None BY <1>2, HeldListed
  <1>4. cur' = cur /\ late' = late /\ Alone(None) BY NoThread
  <1>5. ~Live(t)' BY <1>0, <1>2 DEF Live
  <1>6. Virgin(t) => Virgin(t)' BY <1>0, <1>4 DEF Virgin
  <1>7. TxnOK(t)' BY <1>0, <1>1, <1>5, <1>6 DEF TxnOK
  <1>8. ASSUME NEW q \in Procs \ {None} PROVE Guards(q, t)
    <2>1. bind_lock[t] # q /\ bind_lock'[t] # q BY <1>0, <1>3
    <2>2. life[t] \notin {"released", "destroyed"} /\ life[t] # "open" OBVIOUS
    <2> QED BY <1>0, <1>5, <2>1, <2>2 DEF Guards
  <1> QED BY <1>7, <1>8 DEF Handled

LEMMA PublishKeeps ==
    ASSUME IndInv, NEW t \in Txns, Publish(t)
    PROVE  IndInv'
  <1> /\ TypeOK /\ TxnTypes /\ RegistryTypes /\ SourceTypes /\ RequestTypes /\ ThreadTypes
      /\ HistoryTypes /\ Listed /\ TxnOK(t)
    BY TypeParts DEF IndInv
  <1> /\ life[t] = "unborn" /\ life' = [life EXCEPT ![t] = "open"]
      /\ timer' = timer \cup {t} /\ registry' = Append(registry, t)
      /\ state' = state /\ commit_in_flight' = commit_in_flight
      /\ timeout_abort_pending' = timeout_abort_pending /\ mutation_log' = mutation_log
      /\ audit_pending' = audit_pending /\ bind_lock' = bind_lock
      /\ registry_lock' = registry_lock
      /\ UNCHANGED <<sourceVars, requestVars, procVars, historyVars>>
    BY DEF Publish
  <1>3. ~Linked(t) BY DEF TxnOK
  <1> /\ registry' \in Seq(Txns) /\ Listed'
      /\ \A u : Linked(u)' <=> Linked(u) \/ u = t
    BY <1>3, Appended DEF RegistryTypes
  <1>5. life'[t] = "open" /\ \A u \in Txns : u # t => life'[u] = life[u]
    BY DEF TxnTypes
  <1>6. /\ provider' = provider /\ effects' = effects /\ audits' = audits
        /\ UNCHANGED <<active, session, req_txn, req_owner, req_status>>
    BY DEF sourceVars, requestVars, historyVars
  <1>7. TypeOK'
    <2>1. life' \in [Txns -> {"unborn", "open", "released", "destroyed"}]
          /\ timer' \subseteq Txns
      BY DEF TxnTypes
    <2>2. TxnTypes' BY <2>1 DEF TxnTypes
    <2>3. RegistryTypes' BY DEF RegistryTypes
    <2> QED BY <2>2, <2>3, TypesKept, TypeParts
  <1>8. Handled(None, t)
    <2>1. "open" # "released" /\ "open" # "unborn" OBVIOUS
    <2> QED BY <1>5, <2>1, BornOK
  <1>9. ASSUME NEW u \in Txns, u # t PROVE Untouched(None, u)
    <2>1. (Linked(u)' <=> Linked(u)) /\ (u \in timer' <=> u \in timer)
      BY <1>9
    <2>2. Same(u) BY <1>5, <1>6, <1>9, <2>1 DEF Same
    <2>3. Stays(None, u) BY <2>1, NoThreadStays
    <2> QED BY <2>2, <2>3 DEF Untouched
  <1>10. Alone(None) /\ (Token(None)' <=> Token(None)) /\ cur' = cur BY NoThread
  <1>11. OwnLocks(None) BY LocksUnchanged
  <1>12. \A u \in Txns : Untouched(None, u) \/ Handled(None, u) BY <1>8, <1>9
  <1> QED BY <1>6, <1>7, <1>10, <1>11, <1>12, Touch, Constants

LEMMA PublishFailsKeeps ==
    ASSUME IndInv, NEW t \in Txns, PublishFails(t)
    PROVE  IndInv'
  <1> /\ TypeOK /\ TxnTypes /\ RegistryTypes /\ SourceTypes /\ RequestTypes /\ ThreadTypes
      /\ HistoryTypes /\ Listed /\ TxnOK(t)
    BY TypeParts DEF IndInv
  <1> /\ life[t] = "unborn" /\ life' = [life EXCEPT ![t] = "destroyed"]
      /\ timer' = timer /\ registry' = registry
      /\ state' = state /\ commit_in_flight' = commit_in_flight
      /\ timeout_abort_pending' = timeout_abort_pending /\ mutation_log' = mutation_log
      /\ audit_pending' = audit_pending /\ bind_lock' = bind_lock
      /\ registry_lock' = registry_lock /\ UNCHANGED registryVars
      /\ UNCHANGED <<sourceVars, requestVars, procVars, historyVars>>
    BY DEF PublishFails, registryVars
  <1>3. ~Linked(t) BY DEF TxnOK
  <1>4. Listed' /\ \A u : Linked(u)' <=> Linked(u) BY DEF Linked, Listed
  <1>5. life'[t] = "destroyed" /\ \A u \in Txns : u # t => life'[u] = life[u]
    BY DEF TxnTypes
  <1>6. /\ provider' = provider /\ effects' = effects /\ audits' = audits
        /\ UNCHANGED <<active, session, req_txn, req_owner, req_status>>
    BY DEF sourceVars, requestVars, historyVars
  <1>7. TypeOK'
    <2>1. life' \in [Txns -> {"unborn", "open", "released", "destroyed"}]
      BY DEF TxnTypes
    <2>2. TxnTypes' BY <2>1 DEF TxnTypes
    <2> QED BY <2>2, TypesKept, TypeParts
  <1>8. Handled(None, t)
    <2>1. "destroyed" # "released" /\ "destroyed" # "unborn" /\ "destroyed" # "open" OBVIOUS
    <2> QED BY <1>3, <1>4, <1>5, <2>1, BornOK
  <1>9. ASSUME NEW u \in Txns, u # t PROVE Untouched(None, u)
    <2>1. Same(u) BY <1>4, <1>5, <1>6, <1>9 DEF Same
    <2>2. Stays(None, u) BY <1>4, NoThreadStays
    <2> QED BY <2>1, <2>2 DEF Untouched
  <1>10. Alone(None) /\ (Token(None)' <=> Token(None)) /\ cur' = cur BY NoThread
  <1>11. OwnLocks(None) BY LocksUnchanged
  <1>12. \A u \in Txns : Untouched(None, u) \/ Handled(None, u) BY <1>8, <1>9
  <1> QED BY <1>4, <1>6, <1>7, <1>10, <1>11, <1>12, Touch, Constants

LEMMA TimeoutKeeps ==
    ASSUME IndInv, NEW t \in Txns, Timeout(t)
    PROVE  IndInv'
  <1> /\ TypeOK /\ TxnTypes /\ RegistryTypes /\ SourceTypes /\ RequestTypes /\ ThreadTypes
      /\ HistoryTypes /\ Listed /\ TxnOK(t) /\ late \subseteq Procs
    BY TypeParts DEF IndInv, ThreadTypes
  <1> /\ t \in timer /\ timer' = timer \ {t}
      /\ state' = [state EXCEPT ![t] = IF @ \in Active THEN "TIMED_OUT" ELSE @]
      /\ timeout_abort_pending' = IF state[t] = "BOUND" /\ t \notin commit_in_flight
                                  THEN timeout_abort_pending \cup {t}
                                  ELSE timeout_abort_pending
      /\ life' = life /\ commit_in_flight' = commit_in_flight
      /\ mutation_log' = mutation_log /\ audit_pending' = audit_pending
      /\ bind_lock' = bind_lock /\ registry_lock' = registry_lock /\ registry' = registry
      /\ UNCHANGED <<registryVars, sourceVars, requestVars, procVars, historyVars>>
    BY DEF Timeout, registryVars
  <1>3. Listed' /\ \A u : Linked(u)' <=> Linked(u) BY DEF Linked, Listed
  <1> /\ provider' = provider /\ effects' = effects /\ audits' = audits
      /\ active' = active /\ session' = session /\ req_txn' = req_txn
      /\ req_owner' = req_owner
      /\ UNCHANGED <<active, session, req_txn, req_owner, req_status>>
    BY DEF sourceVars, requestVars, historyVars
  <1>5. /\ \A u \in Txns : u # t => state'[u] = state[u]
        /\ state[t] \in Active => state'[t] = "TIMED_OUT"
        /\ state[t] \notin Active => state'[t] = state[t]
    BY DEF TxnTypes
  <1>6. state[t] \in Active \cup Terminal BY DEF TxnTypes
  <1> /\ state[t] \in Terminal => state'[t] = state[t]
      /\ state[t] = "UNBOUND" \/ state[t] = "BOUND" => state'[t] = "TIMED_OUT"
      /\ state'[t] # "UNBOUND" /\ state'[t] \in Terminal
      /\ state'[t] = "COMMITTED" => state[t] = "COMMITTED"
      /\ state[t] \in Terminal \/ state[t] = "UNBOUND" \/ state[t] = "BOUND"
      /\ state[t] = "TIMED_OUT" => state'[t] = "TIMED_OUT"
      /\ state'[t] # "BOUND"
    BY <1>5, <1>6 DEF Active, Terminal
  <1>8. \A u \in Txns : u # t => (u \in timeout_abort_pending' <=> u \in timeout_abort_pending)
    OBVIOUS
  <1>9. t \in timeout_abort_pending' => state'[t] = "TIMED_OUT"
    BY DEF TxnOK
  <1>10. TypeOK'
    <2>1. timer' \subseteq Txns /\ timeout_abort_pending' \subseteq Txns
      BY DEF TxnTypes
    <2>2. state' \in [Txns -> Active \cup Terminal]
      <3>1. "TIMED_OUT" \in Active \cup Terminal BY DEF Terminal
      <3> QED BY <3>1 DEF TxnTypes
    <2>3. TxnTypes' BY <2>1, <2>2 DEF TxnTypes
    <2> QED BY <2>3, TypesKept, TypeParts
  <1> /\ Alone(None) /\ (Token(None)' <=> Token(None)) /\ cur' = cur /\ late' = late
      /\ \A u : Pending(u)' <=> Pending(u)
    BY NoThread
  <1>12. OwnLocks(None) BY LocksUnchanged
  <1>13. Stays(None, t) BY <1>3, NoThreadStays
  <1>14. Live(t)' => Live(t)
    BY DEF Live, TxnOK, Virgin
  <1>15. /\ Linked(t) /\ Live(t) /\ t \in commit_in_flight /\ Owned(t) => Owned(t)'
         /\ Freed(t) => Freed(t)'
    BY <1>3, <1>13, RolesStay
  <1>16. TxnOK(t)'
    <2>1. /\ Linked(t)' => life'[t] \in {"open", "released"}
          /\ life'[t] = "open" => Linked(t)'
          /\ life'[t] # "unborn" /\ t \notin timer'
      BY <1>3 DEF TxnOK
    <2>2. /\ t \in audit_pending' => audits'[t] = 0
          /\ audits'[t] <= 1 /\ effects'[t] <= 1
          /\ effects'[t] = 1 => provider'[t] = "committed"
          /\ state'[t] = "COMMITTED" => effects'[t] = 1
      BY DEF TxnOK
    <2>3. /\ ~active' /\ Linked(t)' /\ Live(t)' => Pending(t)'
          /\ Linked(t)' /\ Live(t)' /\ t \in commit_in_flight' => Owned(t)'
      <3>1. active => active' BY SMT
      <3> QED BY <1>3, <1>14, <1>15, <3>1 DEF TxnOK
    <2>4. life'[t] = "released" =>
             Freed(t)' \/ (Linked(t)' /\ state'[t] = "TIMED_OUT" /\ t \in commit_in_flight')
      BY <1>3, <1>15 DEF TxnOK
    <2> QED BY <1>9, <2>1, <2>2, <2>3, <2>4 DEF TxnOK
  <1>17. ASSUME NEW q \in Procs \ {None} PROVE Guards(q, t)
    <2>1. bind_lock[t] = q => Linked(t) BY HeldListed
    <2>2. Virgin(t) => Virgin(t)' BY DEF Virgin
    <2>3. ASSUME q \in late, cur[q] = t, late_session[q] < session', Linked(t)', Live(t)'
          PROVE  Pending(t)'
      <3>1. LateOK(q) /\ cur[q] # None BY <2>3, Facts, Constants
      <3> QED BY <1>3, <1>14, <2>3, <3>1 DEF LateOK
    <2>4. Steady(t) BY DEF Steady
    <2>5. active => active' BY SMT
    <2> QED BY <1>3, <2>1, <2>2, <2>3, <2>4, <2>5 DEF Guards, Steady
  <1>18. Handled(None, t) BY <1>16, <1>17 DEF Handled
  <1>19. ASSUME NEW u \in Txns, u # t PROVE Untouched(None, u)
    <2>1. u \in timer' <=> u \in timer BY <1>19
    <2>2. Same(u) BY <1>3, <1>5, <1>8, <1>19, <2>1 DEF Same
    <2>3. Stays(None, u) BY <1>3, NoThreadStays
    <2> QED BY <2>2, <2>3 DEF Untouched
  <1>20. \A u \in Txns : Untouched(None, u) \/ Handled(None, u) BY <1>18, <1>19
  <1> QED BY <1>3, <1>10, <1>12, <1>20, Touch, Constants

(* The audit record is written at most once.                                *)
LEMMA Audited ==
    ASSUME TxnTypes, HistoryTypes, NEW t \in Txns, TxnOK(t), EmitAudit(t)
    PROVE  /\ audits' \in [Txns -> Nat] /\ audit_pending' \subseteq Txns
           /\ t \notin audit_pending' /\ audits'[t] <= 1
           /\ \A u \in Txns : u # t => /\ audits'[u] = audits[u]
                                       /\ u \in audit_pending' <=> u \in audit_pending
  <1>1. /\ audits \in [Txns -> Nat] /\ audit_pending \subseteq Txns
        /\ audits[t] <= 1 /\ (t \in audit_pending => audits[t] = 0)
    BY DEF TxnTypes, HistoryTypes, TxnOK
  <1>2. audit_pending' = audit_pending \ {t} BY DEF EmitAudit
  <1>3. CASE t \in audit_pending
    <2>1. audits' = [audits EXCEPT ![t] = 1] BY <1>1, <1>3, SMT DEF EmitAudit
    <2>2. audits' \in [Txns -> Nat] /\ audits'[t] <= 1 BY <1>1, <2>1, SMT
    <2> QED BY <1>1, <1>2, <2>1, <2>2
  <1>4. CASE t \notin audit_pending
    <2>1. audits' = audits BY <1>4 DEF EmitAudit
    <2> QED BY <1>1, <1>2, <2>1
  <1> QED BY <1>3, <1>4

LEMMA LogEmptied ==
    ASSUME TxnTypes, NEW t \in Txns, mutation_log' = [mutation_log EXCEPT ![t] = <<>>]
    PROVE  /\ mutation_log' \in [Txns -> Seq(Layers)]
           /\ \A u \in Txns : Len(mutation_log'[u]) <= LogCapacity
           /\ \A u \in Txns : u # t => mutation_log'[u] = mutation_log[u]
  <1>1. mutation_log \in [Txns -> Seq(Layers)] BY DEF TxnTypes
  <1>2. <<>> \in Seq(Layers) /\ Len(<<>>) = 0 BY SMT
  <1>3. /\ mutation_log' \in [Txns -> Seq(Layers)]
        /\ \A u \in Txns : mutation_log'[u] = IF u = t THEN <<>> ELSE mutation_log[u]
    BY <1>1, <1>2
  <1>4. 0 <= LogCapacity BY Constants, SMT
  <1> QED BY <1>2, <1>3, <1>4 DEF TxnTypes

LEMMA TimeoutWorkKeeps ==
    ASSUME IndInv, NEW t \in Txns, TimeoutWork(t)
    PROVE  IndInv'
  <1> /\ TypeOK /\ TxnTypes /\ RegistryTypes /\ SourceTypes /\ RequestTypes /\ ThreadTypes
      /\ HistoryTypes /\ Listed /\ TxnOK(t) /\ late \subseteq Procs
    BY TypeParts DEF IndInv, ThreadTypes
  <1> /\ life[t] = "open" /\ t \in timeout_abort_pending /\ bind_lock[t] = None
      /\ timeout_abort_pending' = timeout_abort_pending \ {t}
      /\ ProviderAbort(t) /\ BoundRelease /\ EmitAudit(t)
      /\ mutation_log' = [mutation_log EXCEPT ![t] = <<>>]
      /\ life' = life /\ state' = state /\ commit_in_flight' = commit_in_flight
      /\ timer' = timer /\ staged' = staged /\ effects' = effects
      /\ bind_lock' = bind_lock /\ registry_lock' = registry_lock /\ registry' = registry
      /\ active' = active /\ session' = session
      /\ req_txn' = req_txn /\ req_owner' = req_owner /\ req_status' = req_status
      /\ UNCHANGED <<registryVars, requestVars, procVars>>
    BY DEF TimeoutWork, registryVars, requestVars
  <1> Listed' /\ \A u : Linked(u)' <=> Linked(u) BY DEF Linked, Listed
  <1> active' = active /\ session' = session /\ req_txn' = req_txn /\ req_owner' = req_owner
    OBVIOUS
  <1> provider' \in [Txns -> {"none", "open", "committed"}] /\ OnlyOpenForgotten
    BY ProviderAborted
  <1>6. bound_count' \in 0..Cap BY CountReleased
  <1> /\ audits' \in [Txns -> Nat] /\ audit_pending' \subseteq Txns
      /\ t \notin audit_pending' /\ audits'[t] <= 1
      /\ \A u \in Txns : u # t => /\ audits'[u] = audits[u]
                                  /\ u \in audit_pending' <=> u \in audit_pending
    BY Audited
  <1>8. /\ mutation_log' \in [Txns -> Seq(Layers)]
        /\ \A u \in Txns : Len(mutation_log'[u]) <= LogCapacity
        /\ \A u \in Txns : u # t => mutation_log'[u] = mutation_log[u]
    BY LogEmptied
  <1>9. TypeOK'
    <2>1. timeout_abort_pending' \subseteq Txns BY DEF TxnTypes
    <2>2. TxnTypes' BY <1>8, <2>1 DEF TxnTypes
    <2>3. SourceTypes' BY <1>6 DEF SourceTypes
    <2>4. HistoryTypes' BY DEF HistoryTypes
    <2> QED BY <2>2, <2>3, <2>4, TypesKept, TypeParts
  <1> /\ Alone(None) /\ (Token(None)' <=> Token(None)) /\ cur' = cur /\ late' = late
      /\ \A u : Pending(u)' <=> Pending(u)
      /\ \A q, u : Pends(q, u)' <=> Pends(q, u)
    BY NoThread
  <1>11. OwnLocks(None) BY LocksUnchanged
  <1>12. Stays(None, t) BY NoThreadStays
  <1>13. Live(t)' <=> Live(t) BY DEF Live
  <1>14. Linked(t) /\ Live(t) /\ t \in commit_in_flight /\ Owned(t) => Owned(t)'
    BY <1>12, RolesStay
  <1>15. /\ state[t] = "TIMED_OUT" /\ state'[t] = "TIMED_OUT" /\ "TIMED_OUT" \in Terminal
         /\ state'[t] # "UNBOUND" /\ state'[t] # "COMMITTED"
    <2>1. state[t] = "TIMED_OUT" BY DEF TxnOK
    <2> QED BY <2>1 DEF Terminal
  <1>16. provider[t] = "committed" => provider'[t] = "committed"
    BY DEF OnlyOpenForgotten
  <1>17. TxnOK(t)'
    <2>1. /\ life'[t] = "open" /\ life'[t] # "released" /\ life'[t] # "unborn" /\ Linked(t)'
          /\ t \notin timeout_abort_pending'
      BY DEF TxnOK
    <2>2. effects'[t] <= 1 /\ (effects'[t] = 1 => provider'[t] = "committed")
      BY <1>16 DEF TxnOK
    <2>3. /\ ~active' /\ Linked(t)' /\ Live(t)' => Pending(t)'
          /\ Linked(t)' /\ Live(t)' /\ t \in commit_in_flight' => Owned(t)'
      <3>1. active => active' BY SMT
      <3> QED BY <1>13, <1>14, <3>1 DEF TxnOK
    <2> QED BY <1>15, <2>1, <2>2, <2>3 DEF TxnOK
  <1>18. Minds(None, t)
    <2>1. life[t] = "open" => life'[t] = "open" OBVIOUS
    <2> QED BY <1>13, <1>16, <2>1 DEF Minds, Steady
  <1>19. ASSUME NEW u \in Txns, u # t PROVE Untouched(None, u)
    <2>1. u \in timeout_abort_pending' <=> u \in timeout_abort_pending BY <1>19
    <2>2. Same(u) BY <1>19, <2>1 DEF Same, OnlyOpenForgotten
    <2>3. Stays(None, u) BY NoThreadStays
    <2> QED BY <1>8, <1>19, <2>2, <2>3 DEF Untouched
  <1>20. TouchesOnly(None, t)
    BY <1>11, <1>17, <1>18, <1>19, Constants DEF TouchesOnly
  <1> QED BY <1>9, <1>20, TouchOne

LEMMA CloseKeeps ==
    ASSUME IndInv, NEW p \in Procs, NEW t \in Txns, Close(p, t)
    PROVE  IndInv'
  <1> DEFINE undo == state[t] = "BOUND" \/ t \in timeout_abort_pending
             retain == ~undo /\ state[t] = "TIMED_OUT" /\ t \in commit_in_flight
  <1> /\ TypeOK /\ TxnTypes /\ RegistryTypes /\ SourceTypes /\ RequestTypes /\ ThreadTypes
      /\ HistoryTypes /\ Listed /\ TxnOK(t) /\ late \subseteq Procs /\ p # None
      /\ Shape(p) /\ LockOK(p) /\ t # None
    BY Facts, Constants DEF IndInv
  <1> /\ pc[p] = "idle" /\ life[t] = "open" /\ ~InUse(t)
      /\ life' = [life EXCEPT ![t] = "released"]
      /\ timer' = timer \ {t}
      /\ state' = [state EXCEPT ![t] = IF @ \in Active THEN "ABORTED" ELSE @]
      /\ timeout_abort_pending' = timeout_abort_pending \ {t}
      /\ commit_in_flight' = commit_in_flight /\ mutation_log' = mutation_log
      /\ bind_lock' = bind_lock /\ registry' = registry /\ registry_lock' = registry_lock
      /\ effects' = effects /\ staged' = staged
      /\ UNCHANGED <<registryVars, sourceVars, requestVars>>
    BY DEF Close, registryVars
  <1> /\ verdict' = [verdict EXCEPT ![p] = IF retain THEN None
                                           ELSE IF undo THEN "ok" ELSE "error"]
      /\ retain => audit_pending' = audit_pending /\ audits' = audits
      /\ ~retain => EmitAudit(t)
      /\ cur' = [cur EXCEPT ![p] = t] /\ Goto(p, "close_end")
      /\ UNCHANGED <<late, late_session, visited, layer, after>>
    BY DEF Close
  <1> /\ provider' = provider /\ active' = active /\ session' = session
      /\ req_txn' = req_txn /\ req_owner' = req_owner
      /\ UNCHANGED <<active, session, req_txn, req_owner, req_status>>
    BY DEF sourceVars, requestVars
  <1>5. Listed' /\ \A u : Linked(u)' <=> Linked(u) BY DEF Linked, Listed
  <1> /\ ThreadTypes' /\ Alone(p) /\ pc'[p] = "close_end" /\ cur'[p] = t
      /\ late' = late /\ (~retain => verdict'[p] # None)
    <2>1. "close_end" \in Labels BY DEF Labels
    <2>2. pc' = [pc EXCEPT ![p] = "close_end"] BY DEF Goto
    <2>3. verdict'[p] = IF retain THEN None ELSE IF undo THEN "ok" ELSE "error"
      BY DEF ThreadTypes
    <2>4. ~retain => verdict'[p] # None BY <2>3, Constants
    <2>5. verdict'[p] \in {"ok", "error", None} BY <2>3
    <2>6. verdict' \in [Procs -> {"ok", "error", None}] BY DEF ThreadTypes
    <2>7. ThreadTypes' BY <2>1, <2>2, <2>6 DEF ThreadTypes
    <2>8. Alone(p) BY <2>2 DEF Alone, SameCall, ThreadTypes
    <2> QED BY <2>2, <2>4, <2>7, <2>8 DEF ThreadTypes
  <1>7. /\ p \notin late /\ pc[p] \notin Downing BY CallersLabels
  <1>8. (\A u \in Txns : bind_lock[u] # p) /\ registry_lock # p BY NoLocks
  <1> /\ pc[p] # "commit_wait" /\ pc[p] \notin Closing /\ pc'[p] \in Closing /\ ~Commits(p)
      /\ ~Token(p)'
    BY DEF Closing, Commits, Committing, Downing, Token
  <1> /\ life'[t] = "released" /\ \A u \in Txns : u # t => life'[u] = life[u]
      /\ \A u \in Txns : u # t => state'[u] = state[u]
      /\ state[t] \in Active => state'[t] = "ABORTED"
      /\ state[t] \notin Active => state'[t] = state[t]
    BY DEF TxnTypes
  <1>11. ThreadOK(p)'
    <2>1. /\ cur'[p] # None /\ life'[cur'[p]] \in {"released", "destroyed"} /\ p \notin late'
          /\ \A u \in Txns : bind_lock'[u] # p /\ registry_lock' # p
      BY <1>7, <1>8
    <2> QED BY <1>8, <2>1, ClosingOK
  <1>12. \A u \in Txns : Stays(p, u)
    <2>1. p \notin late' BY <1>7
    <2> QED BY <1>7, <2>1, CallerStays
  <1>13. state[t] \in Active \cup Terminal BY DEF TxnTypes
  <1> /\ state[t] \in Terminal => state'[t] = state[t]
      /\ state'[t] # "UNBOUND" /\ state'[t] \in Terminal /\ state'[t] # "BOUND"
      /\ state'[t] = "COMMITTED" => state[t] = "COMMITTED"
      /\ state'[t] = "TIMED_OUT" <=> state[t] = "TIMED_OUT"
    BY <1>13 DEF Active, Terminal
  <1> /\ audits' \in [Txns -> Nat] /\ audit_pending' \subseteq Txns
      /\ t \in audit_pending' => audits'[t] = 0
      /\ audits'[t] <= 1
      /\ \A u \in Txns : u # t => /\ audits'[u] = audits[u]
                                  /\ u \in audit_pending' <=> u \in audit_pending
    <2>1. CASE retain BY <2>1 DEF TxnOK, TxnTypes, HistoryTypes
    <2>2. CASE ~retain BY <2>2, Audited
    <2> QED BY <2>1, <2>2
  <1>16. TypeOK'
    <2>1. timer' \subseteq Txns /\ timeout_abort_pending' \subseteq Txns
      BY DEF TxnTypes
    <2>2. state' \in [Txns -> Active \cup Terminal]
      <3>1. "ABORTED" \in Active \cup Terminal BY DEF Terminal
      <3> QED BY <3>1 DEF TxnTypes
    <2>3. life' \in [Txns -> {"unborn", "open", "released", "destroyed"}]
      BY DEF TxnTypes
    <2>4. TxnTypes' BY <2>1, <2>2, <2>3 DEF TxnTypes
    <2>5. HistoryTypes' BY DEF HistoryTypes
    <2> QED BY <2>4, <2>5, TypesKept, TypeParts
  <1>17. OwnLocks(p) BY LocksUnchanged
  <1> /\ Linked(t) /\ Pending(t) => Pending(t)'
      /\ Linked(t) /\ Live(t) /\ t \in commit_in_flight /\ Owned(t) => Owned(t)'
      /\ \A q \in Procs : Answers(q, t)' => Answers(q, t)
    BY <1>5, <1>12, RolesStay
  <1>19. Live(t)' => Live(t) BY DEF Live
  <1>20. TxnOK(t)'
    <2>1. /\ Linked(t)' /\ life'[t] \in {"open", "released"} /\ life'[t] # "unborn"
          /\ t \notin timer' /\ t \notin timeout_abort_pending'
      BY <1>5 DEF TxnOK
    <2>2. /\ effects'[t] <= 1 /\ (effects'[t] = 1 => provider'[t] = "committed")
          /\ state'[t] = "COMMITTED" => effects'[t] = 1
      BY DEF TxnOK
    <2>3. /\ ~active' /\ Linked(t)' /\ Live(t)' => Pending(t)'
          /\ Linked(t)' /\ Live(t)' /\ t \in commit_in_flight' => Owned(t)'
      <3>1. active => active' BY SMT
      <3> QED BY <1>5, <1>19, <3>1 DEF TxnOK
    <2>4. Freed(t)' \/ (Linked(t)' /\ state'[t] = "TIMED_OUT" /\ t \in commit_in_flight')
      <3>1. CASE retain BY <2>1, <3>1
      <3>2. CASE ~retain BY <3>2 DEF Freed, Frees
      <3> QED BY <3>1, <3>2
    <2> QED BY <2>1, <2>2, <2>3, <2>4 DEF TxnOK
  <1>21. ASSUME NEW q \in Procs \ {p} PROVE Guards(q, t)
    <2>1. /\ LateOK(q) /\ Shape(q) /\ LockOK(q) BY Facts
    <2>2. bind_lock[t] = q => Linked(t) /\ ~Mutates(q)
      <3> SUFFICES ASSUME bind_lock[t] = q PROVE Linked(t) /\ ~Mutates(q) OBVIOUS
      <3>1. Holds(q) /\ cur[q] = t BY <2>1 DEF LockOK
      <3>2. q \in late BY <3>1 DEF InUse
      <3>3. ~Mutates(q) BY <2>1, <3>1, <3>2, HoldersWork
      <3>4. bind_lock[t] # None BY Constants
      <3> QED BY <3>3, <3>4, HeldListed
    <2>3. Virgin(t) => Virgin(t)'
      BY VirginStays
    <2>4. ASSUME q \in late, cur[q] = t, late_session[q] < session', Linked(t)', Live(t)'
          PROVE  Pending(t)'
      BY <1>5, <1>19, <2>1, <2>4 DEF LateOK
    <2>5. active => active' BY SMT
    <2>6. Steady(t)
      <3>1. life'[t] \in {"released", "destroyed"} OBVIOUS
      <3> QED BY <3>1 DEF Steady
    <2>7. ~(q \notin late /\ cur[q] = t) BY DEF InUse
    <2>8. bind_lock'[t] = bind_lock[t] /\ mutation_log'[t] = mutation_log[t]
          /\ effects'[t] = effects[t]
      OBVIOUS
    <2> QED BY <1>5, <2>2, <2>3, <2>4, <2>5, <2>6, <2>7, <2>8 DEF Guards, Steady
  <1>22. Handled(p, t) BY <1>20, <1>21 DEF Handled
  <1>23. ASSUME NEW u \in Txns, u # t PROVE Untouched(p, u)
    <2>1. /\ u \in timer' <=> u \in timer
          /\ u \in timeout_abort_pending' <=> u \in timeout_abort_pending
      BY <1>23
    <2>2. Same(u) BY <1>5, <1>23, <2>1 DEF Same
    <2> QED BY <1>12, <2>2 DEF Untouched
  <1>24. \A u \in Txns : Untouched(p, u) \/ Handled(p, u) BY <1>22, <1>23
  <1> HIDE DEF undo, retain
  <1> QED BY <1>5, <1>11, <1>16, <1>17, <1>24, Touch

LEMMA CloseRemoveKeeps ==
    ASSUME IndInv, NEW p \in Procs, CloseRemove(p)
    PROVE  IndInv'
  <1>0. PICK t : t = cur[p] OBVIOUS
  <1> /\ TypeOK /\ TxnTypes /\ RegistryTypes /\ SourceTypes /\ RequestTypes /\ ThreadTypes
      /\ HistoryTypes /\ Listed /\ late \subseteq Procs /\ p # None
      /\ Shape(p) /\ LockOK(p)
    BY Facts DEF IndInv
  <1> /\ pc[p] = "close_remove" /\ registry_lock = None /\ Unlink(t) /\ Return(p)
      /\ life' = [life EXCEPT ![t] = "destroyed"]
      /\ mutation_log' = [mutation_log EXCEPT ![t] = <<>>]
      /\ state' = state /\ commit_in_flight' = commit_in_flight /\ timer' = timer
      /\ timeout_abort_pending' = timeout_abort_pending
      /\ audit_pending' = audit_pending
      /\ bind_lock' = bind_lock /\ registry_lock' = registry_lock
      /\ active' = active /\ session' = session
      /\ req_txn' = req_txn /\ req_owner' = req_owner /\ req_status' = req_status
      /\ effects' = effects /\ audits' = audits
      /\ UNCHANGED <<requestVars, historyVars>>
    BY <1>0 DEF CloseRemove, requestVars, historyVars
  <1>3. (ProviderAbort(t) /\ BoundRelease) \/ (provider' = provider /\ bound_count' = bound_count)
    BY <1>0 DEF CloseRemove
  <1> pc[p] \in Closing BY DEF Closing
  <1> /\ p \notin late /\ pc[p] \notin Downing /\ Works(p)
    <2>1. Works(p) BY DEF Works
    <2> QED BY <2>1, CallersLabels
  <1> t \in Txns /\ life[t] \in {"released", "destroyed"}
    <2>1. cur[p] \in Txns /\ cur[p] # None BY CallerHas
    <2> QED BY <1>0, <2>1 DEF LockOK
  <1>7. bind_lock[t] = None
    <2> SUFFICES ASSUME bind_lock[t] # None PROVE FALSE OBVIOUS
    <2>1. bind_lock[t] \in Procs \cup {None} BY DEF TxnTypes
    <2>2. PICK q \in Procs : bind_lock[t] = q BY <2>1
    <2> LockOK(q) /\ Shape(q) /\ q # None BY Facts
    <2>4. Holds(q) /\ cur[q] = t BY <2>2 DEF LockOK
    <2>5. /\ pc[q] \notin Closing /\ cur[q] # None /\ (q \in late => Commits(q))
      BY <2>4, HoldersWork
    <2>6. CASE q \in late
      BY <2>5, <2>6 DEF LockOK, HoldsRegistry
    <2>7. CASE q \notin late
      <3>1. life[t] = "open" BY <2>4, <2>5, <2>7 DEF LockOK
      <3> QED BY <3>1
    <2> QED BY <2>6, <2>7
  <1> /\ registry' \in Seq(Txns) /\ Listed' /\ \A u : Linked(u)' <=> Linked(u) /\ u # t
    BY Unlinked DEF RegistryTypes
  <1> ThreadTypes' /\ Alone(p) /\ Idle(p)' BY Returned
  <1> pc'[p] = "idle" /\ p \notin late' /\ ~Token(p)'
    <2>1. pc'[p] = "idle" /\ p \notin late' BY DEF Idle
    <2> QED BY <2>1 DEF Token
  <1>11. ThreadOK(p)'
    <2>1. (\A u \in Txns : bind_lock[u] # p) /\ registry_lock # p BY NoLocks
    <2> QED BY <2>1, IdleOK
  <1> /\ life'[t] = "destroyed" /\ \A u \in Txns : u # t => life'[u] = life[u]
    BY DEF TxnTypes
  <1>13. /\ mutation_log' \in [Txns -> Seq(Layers)]
         /\ \A u \in Txns : Len(mutation_log'[u]) <= LogCapacity
         /\ \A u \in Txns : u # t => mutation_log'[u] = mutation_log[u]
    BY LogEmptied
  <1> provider' \in [Txns -> {"none", "open", "committed"}] /\ OnlyOpenForgotten
    BY <1>3, ProviderAborted, ProviderSame DEF SourceTypes
  <1>15. bound_count' \in 0..Cap BY <1>3, CountReleased DEF SourceTypes
  <1>16. TypeOK'
    <2>1. life' \in [Txns -> {"unborn", "open", "released", "destroyed"}]
      BY DEF TxnTypes
    <2>2. TxnTypes' BY <1>13, <2>1 DEF TxnTypes
    <2>3. RegistryTypes' BY DEF RegistryTypes
    <2>4. SourceTypes' BY <1>15 DEF SourceTypes
    <2> QED BY <2>2, <2>3, <2>4, TypesKept, TypeParts
  <1>17. OwnLocks(p) BY LocksUnchanged
  <1>18. \A u \in Txns : provider[u] = "committed" => provider'[u] = "committed"
    BY DEF OnlyOpenForgotten
  <1>19. \A q \in Procs : Answers(q, t)' => Answers(q, t)
    BY DEF Answers, Alone, SameCall
  <1>20. TxnOK(t) BY DEF IndInv
  <1>21. Virgin(t) => Virgin(t)'
    <2>1. late' \subseteq Procs BY DEF ThreadTypes
    <2>2. provider'[t] = provider[t] \/ (provider[t] = "open" /\ provider'[t] = "none")
      BY DEF OnlyOpenForgotten
    <2> QED BY <1>19, <2>1, <2>2, VirginStays
  <1>22. TxnOK(t)'
    <2>1. /\ ~Linked(t)' /\ life'[t] # "open" /\ life'[t] # "unborn" /\ life'[t] # "released"
      OBVIOUS
    <2> QED BY <1>18, <1>20, <1>21, <2>1 DEF TxnOK
  <1>23. Minds(p, t)
    <2>1. life[t] # "open" OBVIOUS
    <2>2. Live(t)' <=> Live(t) BY DEF Live
    <2> QED BY <1>7, <1>18, <2>1, <2>2 DEF Minds, Steady
  <1>24. ASSUME NEW u \in Txns, u # t PROVE Untouched(p, u)
    <2>1. Same(u) BY <1>24 DEF Same, OnlyOpenForgotten
    <2>2. ~Commits(p) /\ pc[p] # "down_lock" /\ pc[p] # "down_walk"
      BY DEF Commits, Committing, Downing
    <2>3. Stays(p, u)
      BY <1>0, <1>24, <2>2 DEF Stays, Pends, Charged, Answers, Frees
    <2> QED BY <1>13, <1>24, <2>1, <2>3 DEF Untouched
  <1>25. pc[p] # "commit_wait" OBVIOUS
  <1>26. TouchesOnly(p, t)
    BY <1>11, <1>17, <1>22, <1>23, <1>24, <1>25 DEF TouchesOnly
  <1> QED BY <1>16, <1>26, TouchOne

LEMMA AbortVisitKeeps ==
    ASSUME IndInv, NEW p \in Procs, AbortVisit(p)
    PROVE  IndInv'
  <1> /\ TypeOK /\ TxnTypes /\ RegistryTypes /\ SourceTypes /\ RequestTypes /\ ThreadTypes
      /\ HistoryTypes /\ Listed /\ late \subseteq Procs /\ p # None
    BY Facts DEF IndInv
  <1> /\ pc[p] = "abort_walk" /\ life' = life /\ audit_pending' = audit_pending
      /\ bind_lock' = bind_lock /\ registry' = registry /\ registry_lock' = registry_lock
      /\ provider' = provider /\ bound_count' = bound_count
      /\ active' = active /\ session' = session
      /\ req_txn' = req_txn /\ req_owner' = req_owner /\ req_status' = req_status
      /\ effects' = effects /\ audits' = audits /\ staged' = staged
      /\ UNCHANGED <<registryVars, sourceVars, requestVars, historyVars>>
    BY DEF AbortVisit, registryVars, sourceVars, requestVars, historyVars
  <1> /\ cur' = cur /\ verdict' = verdict /\ late' = late /\ late_session' = late_session
      /\ layer' = layer /\ after' = after
    BY DEF AbortVisit
  <1>1. PICK t \in Txns :
           /\ NextVisit(p, t) /\ bind_lock[t] = None
           /\ visited' = [visited EXCEPT ![p] = @ \cup {t}]
           /\ IF state[t] = "BOUND" /\ Touches(t, layer[p])
              THEN /\ state' = [state EXCEPT ![t] = "ABORTED"]
                   /\ commit_in_flight' = commit_in_flight \ {t}
                   /\ timeout_abort_pending' = timeout_abort_pending \ {t}
                   /\ timer' = timer \ {t}
                   /\ mutation_log' = [mutation_log EXCEPT ![t] = <<>>]
                   /\ Goto(p, "abort_undo")
              ELSE UNCHANGED <<state, commit_in_flight, timeout_abort_pending, timer,
                               mutation_log, pc>>
    BY DEF AbortVisit
  <1> /\ after[p] \in {"idle", "commit_audit"}
      /\ after[p] # "idle" => cur[p] # None
      /\ p \in late => /\ after[p] = "idle" /\ cur[p] = None
                       /\ late_session[p] <= session
      /\ p \notin late /\ cur[p] # None => life[cur[p]] = "open"
      /\ \A u \in Txns : bind_lock[u] # p
      /\ registry_lock = p
      /\ pc[p] \notin Closing /\ pc[p] \notin Downing /\ ~Commits(p)
      /\ pc[p] # "commit_wait" /\ pc[p] # "late_release"
    BY AbortFacts
  <1> /\ Listed' /\ \A u : Linked(u)' <=> Linked(u) BY DEF Linked, Listed
  <1>4. visited' \in [Procs -> SUBSET Txns] BY <1>1 DEF ThreadTypes
  <1>5. \A u \in Txns : Stays(p, u) BY SameStays
  <1> pc' = pc \/ pc' = [pc EXCEPT ![p] = "abort_undo"] BY <1>1 DEF Goto
  <1> /\ ThreadTypes' /\ Alone(p)
      /\ pc'[p] = "abort_walk" \/ pc'[p] = "abort_undo"
    <2>1. "abort_undo" \in Labels BY DEF Labels
    <2>2. pc' \in [Procs -> Labels] BY <2>1 DEF ThreadTypes
    <2>3. ThreadTypes' BY <1>4, <2>2 DEF ThreadTypes
    <2>4. Alone(p) BY <1>1 DEF Alone, SameCall, ThreadTypes
    <2> QED BY <2>3, <2>4 DEF ThreadTypes
  <1>8. ThreadOK(p)' /\ ~Token(p)'
    <2>1. pc'[p] \in Aborting /\ pc'[p] # "abort_lock" /\ ~Token(p)' BY DEF Aborting, Token
    <2> QED BY <2>1, AbortingOK
  <1>9. CASE ~(state[t] = "BOUND" /\ Touches(t, layer[p]))
    <2>1. UNCHANGED restVars BY <1>1, <1>9 DEF restVars, flagVars
    <2>2. registry_lock \in {None, p} /\ registry_lock' \in {None, p} OBVIOUS
    <2> QED BY <1>5, <1>8, <2>1, <2>2, RegistryMoves
  <1>10. CASE state[t] = "BOUND" /\ Touches(t, layer[p])
    <2> /\ state' = [state EXCEPT ![t] = "ABORTED"]
        /\ commit_in_flight' = commit_in_flight \ {t}
        /\ timeout_abort_pending' = timeout_abort_pending \ {t}
        /\ timer' = timer \ {t}
        /\ mutation_log' = [mutation_log EXCEPT ![t] = <<>>]
        /\ state[t] = "BOUND" /\ bind_lock[t] = None /\ TxnOK(t)
      BY <1>1, <1>10 DEF IndInv
    <2>2. /\ mutation_log' \in [Txns -> Seq(Layers)]
          /\ \A u \in Txns : Len(mutation_log'[u]) <= LogCapacity
          /\ \A u \in Txns : u # t => mutation_log'[u] = mutation_log[u]
      BY LogEmptied
    <2>3. state'[t] = "ABORTED" /\ \A u \in Txns : u # t => state'[u] = state[u]
      BY DEF TxnTypes
    <2>4. TypeOK'
      <3>1. "ABORTED" \in Active \cup Terminal BY DEF Terminal
      <3>2. state' \in [Txns -> Active \cup Terminal] BY <3>1 DEF TxnTypes
      <3>3. /\ commit_in_flight' \subseteq Txns /\ timer' \subseteq Txns
            /\ timeout_abort_pending' \subseteq Txns
        BY DEF TxnTypes
      <3>4. TxnTypes' BY <2>2, <3>2, <3>3 DEF TxnTypes
      <3> QED BY <3>4, TypesKept, TypeParts
    <2> /\ state'[t] \in Terminal /\ state'[t] # "UNBOUND" /\ state'[t] # "COMMITTED"
        /\ state[t] \notin Terminal /\ state[t] # "UNBOUND" /\ state[t] # "TIMED_OUT"
        /\ state'[t] # "BOUND" /\ state'[t] # "TIMED_OUT"
      BY <2>3 DEF Terminal
    <2>6. ~Live(t)' BY DEF Live
    <2>7. Freed(t) => Freed(t)' BY <1>5, RolesStay
    <2>8. TxnOK(t)'
      <3>1. t \notin timeout_abort_pending' /\ life[t] # "unborn"
        BY DEF TxnOK
      <3>2. life'[t] = "released" => Freed(t)' BY <2>7 DEF TxnOK
      <3> QED BY <2>6, <3>1, <3>2 DEF TxnOK
    <2>9. Minds(p, t)
      <3>1. t \notin commit_in_flight' OBVIOUS
      <3> QED BY <2>6, <3>1 DEF Minds, Steady
    <2>10. ASSUME NEW u \in Txns, u # t PROVE Untouched(p, u)
      <3>1. /\ u \in timer' <=> u \in timer
            /\ u \in commit_in_flight' <=> u \in commit_in_flight
            /\ u \in timeout_abort_pending' <=> u \in timeout_abort_pending
        BY <2>10
      <3>2. Same(u) BY <2>3, <2>10, <3>1 DEF Same
      <3> QED BY <1>5, <2>2, <2>10, <3>2 DEF Untouched
    <2>11. OwnLocks(p) BY LocksUnchanged
    <2>12. TouchesOnly(p, t)
      BY <1>8, <2>8, <2>9, <2>10, <2>11 DEF TouchesOnly
    <2> QED BY <2>4, <2>12, TouchOne
  <1> QED BY <1>9, <1>10

LEMMA DownVisitKeeps ==
    ASSUME IndInv, NEW p \in Procs, DownVisit(p)
    PROVE  IndInv'
  <1> /\ TypeOK /\ TxnTypes /\ RegistryTypes /\ SourceTypes /\ RequestTypes /\ ThreadTypes
      /\ HistoryTypes /\ Listed /\ late \subseteq Procs /\ p # None
    BY Facts DEF IndInv
  <1> /\ pc[p] = "down_walk" /\ pc' = pc /\ audit_pending' = audit_pending
      /\ bind_lock' = bind_lock /\ registry_lock' = registry_lock /\ provider' = provider
      /\ active' = active /\ session' = session
      /\ req_txn' = req_txn /\ req_owner' = req_owner /\ req_status' = req_status
      /\ effects' = effects /\ audits' = audits
      /\ UNCHANGED <<sourceVars, requestVars, historyVars>>
    BY DEF DownVisit, sourceVars, requestVars, historyVars
  <1> /\ cur' = cur /\ verdict' = verdict /\ late' = late /\ late_session' = late_session
      /\ layer' = layer /\ after' = after
    BY DEF DownVisit
  <1>1. PICK t \in Txns :
           /\ NextVisit(p, t) /\ bind_lock[t] = None
           /\ state' = [state EXCEPT ![t] = IF state[t] = "BOUND" THEN "SOURCE_DOWN" ELSE @]
           /\ IF state[t] = "BOUND" \/ (state[t] = "TIMED_OUT" /\ t \in commit_in_flight)
              THEN /\ commit_in_flight' = commit_in_flight \ {t}
                   /\ timeout_abort_pending' = timeout_abort_pending \ {t}
                   /\ mutation_log' = [mutation_log EXCEPT ![t] = <<>>]
              ELSE UNCHANGED <<commit_in_flight, timeout_abort_pending, mutation_log>>
           /\ timer' = IF state[t] = "BOUND" THEN timer \ {t} ELSE timer
           /\ IF (state[t] = "TIMED_OUT" /\ t \in commit_in_flight) /\ life[t] = "released"
              THEN Unlink(t) /\ life' = [life EXCEPT ![t] = "destroyed"]
              ELSE registry' = registry /\ life' = life
           /\ visited' = [visited EXCEPT ![p] = @ \cup {t}]
    BY DEF DownVisit
  <1> DEFINE gone == (state[t] = "TIMED_OUT" /\ t \in commit_in_flight) /\ life[t] = "released"
  <1> /\ t \notin visited[p] /\ Linked(t) /\ TxnOK(t) /\ t # None
      /\ life[t] = "open" \/ life[t] = "released"
    <2>1. t \notin visited[p] /\ Linked(t) BY <1>1, NextListed
    <2>2. TxnOK(t) BY <1>1 DEF IndInv
    <2>3. life[t] \in {"open", "released"} BY <2>1, <2>2 DEF TxnOK
    <2> QED BY <1>1, <2>1, <2>2, <2>3, Constants
  <1> /\ registry' \in Seq(Txns) /\ Listed'
      /\ \A u : u # t => (Linked(u)' <=> Linked(u))
      /\ gone => ~Linked(t)' /\ life' = [life EXCEPT ![t] = "destroyed"]
      /\ ~gone => Linked(t)' /\ life' = life
    <2>1. CASE gone
      <3>1. /\ registry' \in Seq(Txns) /\ Listed' /\ \A u : Linked(u)' <=> Linked(u) /\ u # t
        BY <1>1, <2>1, Unlinked DEF RegistryTypes
      <3> QED BY <1>1, <2>1, <3>1
    <2>2. CASE ~gone BY <1>1, <2>2 DEF RegistryTypes, Linked, Listed
    <2> QED BY <2>1, <2>2
  <1> /\ \A u \in Txns : u # t => life'[u] = life[u] /\ state'[u] = state[u]
      /\ gone => life'[t] = "destroyed"
      /\ ~gone => life'[t] = life[t]
      /\ state[t] = "BOUND" => state'[t] = "SOURCE_DOWN"
      /\ state[t] # "BOUND" => state'[t] = state[t]
    BY <1>1 DEF TxnTypes
  <1> /\ \A u \in Txns : u # t => mutation_log'[u] = mutation_log[u]
      /\ mutation_log' \in [Txns -> Seq(Layers)]
      /\ \A u \in Txns : Len(mutation_log'[u]) <= LogCapacity
    BY <1>1, LogEmptied DEF TxnTypes
  <1> /\ commit_in_flight' \subseteq commit_in_flight
      /\ timeout_abort_pending' \subseteq timeout_abort_pending /\ timer' \subseteq timer
      /\ \A u \in Txns : u # t => /\ u \in commit_in_flight' <=> u \in commit_in_flight
                                  /\ u \in timer' <=> u \in timer
                                  /\ u \in timeout_abort_pending' <=> u \in timeout_abort_pending
    BY <1>1
  <1> /\ state[t] \in Terminal => state'[t] = state[t]
      /\ state'[t] = "UNBOUND" => state[t] = "UNBOUND"
      /\ state[t] # "UNBOUND" => state'[t] \in Terminal
      /\ state'[t] # "BOUND"
      /\ state'[t] = "COMMITTED" => state[t] = "COMMITTED"
      /\ state'[t] = "TIMED_OUT" => state[t] = "TIMED_OUT"
      /\ state'[t] \in Active \cup Terminal
    <2>1. state[t] \in Active \cup Terminal BY DEF TxnTypes
    <2> QED BY <2>1 DEF Active, Terminal
  <1> ~Live(t)'
    <2>1. t \in commit_in_flight' => ~(state[t] = "TIMED_OUT" /\ t \in commit_in_flight)
      BY <1>1
    <2> QED BY <2>1 DEF Live
  <1> HIDE DEF gone
  <1> /\ ThreadTypes' /\ Alone(p) /\ visited'[p] = visited[p] \cup {t}
    <2>1. visited' \in [Procs -> SUBSET Txns] BY <1>1 DEF ThreadTypes
    <2> QED BY <1>1, <2>1 DEF ThreadTypes, Alone, SameCall
  <1>10. TypeOK'
    <2>1. state' \in [Txns -> Active \cup Terminal] BY <1>1 DEF TxnTypes
    <2>2. life' \in [Txns -> {"unborn", "open", "released", "destroyed"}]
      BY DEF TxnTypes
    <2>3. TxnTypes' BY <2>1, <2>2 DEF TxnTypes
    <2>4. RegistryTypes' BY DEF RegistryTypes
    <2> QED BY <2>3, <2>4, TypesKept, TypeParts
  <1> /\ pc[p] # "commit_wait" /\ ~Token(p)' /\ pc[p] \in Downing
      /\ pc[p] \notin Closing /\ pc[p] # "late_release"
    BY DEF Token, Downing, Closing
  <1>12. ASSUME NEW u \in Txns, u # t PROVE Untouched(p, u)
    <2>1. Same(u) BY <1>12 DEF Same
    <2>2. Pends(p, u) => Pends(p, u)' BY <1>12 DEF Pends
    <2>3. (Commits(p)' <=> Commits(p)) BY DEF Commits
    <2>4. Stays(p, u) BY <2>2, <2>3 DEF Stays, Charged, Answers, Frees
    <2> QED BY <1>12, <2>1, <2>4 DEF Untouched
  <1>13. \A q \in Procs : Answers(q, t)' => Answers(q, t) BY DEF Answers
  <1>14. TxnOK(t)'
    <2>1. /\ Linked(t)' => life'[t] \in {"open", "released"}
          /\ life'[t] = "open" => Linked(t)'
          /\ life'[t] # "unborn"
      OBVIOUS
    <2>2. state'[t] = "UNBOUND" => Virgin(t)'
      BY DEF TxnOK, Virgin
    <2>3. t \in timeout_abort_pending' => state'[t] = "TIMED_OUT"
      BY <1>1 DEF TxnOK
    <2>4. audits'[t] = 1 => state'[t] \in Terminal BY DEF TxnOK
    <2>5. life'[t] = "released" => Freed(t)'
      <3> SUFFICES ASSUME life'[t] = "released" PROVE Freed(t)' OBVIOUS
      <3>1. ~gone /\ life[t] = "released" OBVIOUS
      <3>2. Freed(t) BY <3>1 DEF TxnOK, gone
      <3>3. PICK q \in Procs : Frees(q, t) BY <3>2 DEF Freed
      <3>4. Frees(q, t)' BY <3>3 DEF Frees
      <3> QED BY <3>4 DEF Freed
    <2> QED BY <2>1, <2>2, <2>3, <2>4, <2>5 DEF TxnOK
  <1>15. Minds(p, t)
    <2>1. life[t] = "open" => life'[t] = "open" BY DEF gone
    <2>2. life[t] \in {"released", "destroyed"} => life'[t] \in {"released", "destroyed"} OBVIOUS
    <2> QED BY <1>1, <2>1, <2>2 DEF Minds, Steady
  <1>16. ThreadOK(p)'
    <2> Shape(p) /\ LockOK(p) /\ MutateOK(p) /\ CommitOK(p) /\ LateOK(p) BY Facts
    <2> /\ Mutates(p)' <=> Mutates(p)
        /\ Commits(p)' <=> Commits(p)
        /\ Holds(p)' <=> Holds(p)
        /\ HoldsRegistry(p)' <=> HoldsRegistry(p)
        /\ Works(p)' <=> Works(p)
      BY DEF Mutates, Commits, Holds, HoldsRegistry, Works
    <2>3. Holds(p) => cur[p] # t BY <1>1 DEF LockOK
    <2>4. Holds(p) => cur[p] \in Txns
      <3>1. Holds(p) => cur[p] # None BY HoldersWork
      <3> QED BY <3>1 DEF ThreadTypes
    <2>5. Shape(p)' BY DEF Shape
    <2>6. LockOK(p)'
      <3>1. ASSUME p \notin late, cur[p] # None PROVE life'[cur[p]] = "open"
        <4>1. life[cur[p]] = "open" BY <3>1 DEF LockOK
        <4>2. cur[p] \in Txns BY <3>1 DEF ThreadTypes
        <4> QED BY <1>15, <4>1, <4>2 DEF Minds
      <3>2. p \in late => ~Commits(p)
        BY DEF Shape, Commits, Committing, Downing, Handling, Aborting
      <3> QED BY <3>1, <3>2 DEF LockOK
    <2>7. MutateOK(p)'
      <3>1. pc[p] \notin FirstBinding BY DEF FirstBinding
      <3> QED BY <2>3, <2>4, <3>1 DEF MutateOK, Holds
    <2>8. CommitOK(p)'
      <3>1. pc[p] # "final" OBVIOUS
      <3> QED BY <2>3, <2>4, <3>1 DEF CommitOK, Holds
    <2>9. ASSUME p \in late, cur[p] \in visited'[p]
          PROVE  state'[cur[p]] \in Terminal /\ ~Live(cur[p])'
      <3>1. CASE cur[p] = t
        <4>1. ~Virgin(t) BY <2>9, <3>1 DEF Virgin
        <4>2. state[t] # "UNBOUND" BY <4>1 DEF TxnOK
        <4>3. Live(cur[p])' <=> Live(t)' BY <3>1 DEF Live
        <4> QED BY <3>1, <4>2, <4>3
      <3>2. CASE cur[p] # t
        <4>1. cur[p] \in visited[p] BY <2>9, <3>2
        <4>2. cur[p] \in Txns BY <4>1 DEF ThreadTypes
        <4>3. state[cur[p]] \in Terminal /\ ~Live(cur[p]) BY <2>9, <4>1 DEF LateOK
        <4> QED BY <3>2, <4>2, <4>3 DEF Live
      <3> QED BY <3>1, <3>2
    <2>10. ASSUME p \in late, late_session[p] < session, cur[p] # None,
                  Linked(cur[p])', Live(cur[p])'
           PROVE  Pending(cur[p])'
      <3>1. PICK v \in Txns : v = cur[p] BY <2>10 DEF ThreadTypes
      <3>2. Linked(v)' /\ Live(v)' BY <2>10, <3>1 DEF Linked, Live
      <3>3. v # t BY <3>2
      <3>4. Linked(v) /\ Live(v) BY <3>2, <3>3 DEF Live
      <3>5. Pending(v) BY <2>10, <3>1, <3>4 DEF LateOK
      <3>6. Pends(p, v) => Pends(p, v)' BY <3>3 DEF Pends
      <3>7. Pending(v)' BY <3>5, <3>6, PendingStays
      <3> QED BY <3>1, <3>7 DEF Pending, Pends
    <2>11. LateOK(p)'
      <3>1. pc[p] # "late_walk" /\ pc[p] \notin {"late_release", "commit_release"} OBVIOUS
      <3> QED BY <2>9, <2>10, <3>1 DEF LateOK
    <2> QED BY <2>5, <2>6, <2>7, <2>8, <2>11 DEF ThreadOK
  <1>17. OwnLocks(p) BY LocksUnchanged
  <1>18. TouchesOnly(p, t)
    BY <1>12, <1>14, <1>15, <1>16, <1>17 DEF TouchesOnly
  <1> QED BY <1>1, <1>10, <1>18, TouchOne

(* The new session finds every walk of the old one still to come.           *)
LEMMA SourceResumesKeeps ==
    ASSUME IndInv, SourceResumes
    PROVE  IndInv'
  <1> /\ TypeOK /\ TxnTypes /\ RegistryTypes /\ SourceTypes /\ RequestTypes /\ ThreadTypes
      /\ HistoryTypes /\ Listed /\ late \subseteq Procs
    BY TypeParts DEF IndInv, ThreadTypes
  <1> /\ ~active /\ active' = TRUE /\ session' = session + 1 /\ session < MaxSession
      /\ provider' = provider /\ bound_count' = bound_count /\ registry' = registry
      /\ UNCHANGED <<txnVars, registryVars, requestVars, procVars, historyVars>>
    BY DEF SourceResumes, registryVars
  <1> /\ life' = life /\ state' = state /\ commit_in_flight' = commit_in_flight
      /\ timeout_abort_pending' = timeout_abort_pending /\ timer' = timer
      /\ mutation_log' = mutation_log /\ audit_pending' = audit_pending
      /\ bind_lock' = bind_lock /\ registry_lock' = registry_lock
      /\ req_txn' = req_txn /\ req_owner' = req_owner /\ req_status' = req_status
      /\ effects' = effects /\ audits' = audits
    BY DEF txnVars, flagVars, registryVars, requestVars, historyVars
  <1> Listed' /\ \A u : Linked(u)' <=> Linked(u) BY DEF Linked, Listed
  <1> /\ Alone(None) /\ (Token(None)' <=> Token(None)) /\ cur' = cur /\ late' = late
      /\ \A u : Pending(u)' <=> Pending(u)
    BY NoThread
  <1> TypeOK' /\ session' \in Int /\ session <= session'
    <2>1. session' \in 1..MaxSession /\ session' \in Int /\ session <= session'
      BY Constants, SMT DEF SourceTypes
    <2>2. active' \in BOOLEAN OBVIOUS
    <2>3. SourceTypes' BY <2>1, <2>2 DEF SourceTypes
    <2> QED BY <2>1, <2>3, TypesKept, TypeParts
  <1>5. ASSUME NEW u \in Txns PROVE TxnOK(u)'
    <2>1. Stays(None, u) BY NoThreadStays
    <2>2. /\ Linked(u) /\ Live(u) /\ u \in commit_in_flight /\ Owned(u) => Owned(u)'
          /\ Freed(u) => Freed(u)'
          /\ \A q \in Procs : Answers(q, u)' => Answers(q, u)
      BY <2>1, RolesStay
    <2>3. Same(u) /\ TxnOK(u) BY DEF Same, IndInv
    <2>4. Virgin(u) => Virgin(u)' BY DEF Virgin
    <2>5. ~active' /\ Linked(u) /\ Live(u) => Pending(u)' OBVIOUS
    <2>6. Linked(u) /\ Live(u) /\ u \in commit_in_flight => Owned(u)'
      BY <2>2, <2>3 DEF TxnOK
    <2> QED BY <2>2, <2>3, <2>4, <2>5, <2>6, TxnKept
  <1>6. ASSUME NEW q \in Procs PROVE ThreadOK(q)'
    <2>1. pc' = pc /\ SameCall(q) BY DEF procVars, SameCall
    <2>2. pc'[q] = "commit_wait" => \E r \in Slots : req_owner'[r] = q
      BY <2>1, Facts DEF CommitOK
    <2>3. ASSUME NEW u \in Txns PROVE Guards(q, u)
      <3>1. TxnOK(u) BY DEF IndInv
      <3>2. bind_lock[u] = q => Linked(u) BY Facts, HeldListed
      <3>3. Virgin(u) => Virgin(u)' BY DEF Virgin
      <3>4. Live(u)' <=> Live(u) BY DEF Live
      <3>5. Linked(u)' /\ Live(u)' => Pending(u)'
        BY <3>1, <3>4 DEF TxnOK
      <3>6. active' OBVIOUS
      <3> QED BY <3>2, <3>3, <3>5, <3>6 DEF Guards
    <2>4. Relies(q) BY <2>1, <2>2, <2>3 DEF Relies
    <2> QED BY <2>4, RelyKeeps
  <1>7. (\A r \in Slots : SlotOK(r)') /\ OneToken'
    <2>1. None \notin Procs BY Constants
    <2> QED BY <2>1, SlotsStay
  <1> QED BY <1>5, <1>6, <1>7 DEF IndInv

-----------------------------------------------------------------------------
(* Mutations and commits: the thread has the transaction's bind_lock.       *)

LEMMA MutatesFacts ==
    ASSUME IndInv, NEW p \in Procs, pc[p] \in Mutating
    PROVE  /\ p \notin late /\ cur[p] \in Txns /\ cur[p] # None
           /\ life[cur[p]] = "open" /\ Linked(cur[p]) /\ bind_lock[cur[p]] = p
           /\ \A u \in Txns : bind_lock[u] = p => u = cur[p]
           /\ registry_lock # p
           /\ audits[cur[p]] = 0 /\ Len(mutation_log[cur[p]]) < LogCapacity
           /\ pc[p] \in FirstBinding => Virgin(cur[p]) /\ (active \/ Pending(cur[p]))
           /\ pc[p] \notin Closing /\ pc[p] \notin Downing /\ ~Commits(p)
           /\ pc[p] # "commit_wait"
  <1> /\ Shape(p) /\ LockOK(p) /\ MutateOK(p) /\ ThreadTypes BY Facts
  <1>2. p \notin late /\ pc[p] \notin Downing BY CallersLabels
  <1> /\ Mutates(p) /\ Holds(p) /\ Works(p)
    BY DEF Mutates, Holds, Works
  <1> /\ pc[p] \notin Closing /\ pc[p] # "commit_wait" /\ pc[p] \notin Committing
      /\ pc[p] \notin Walking
    BY DEF Mutating, Closing, Committing, Walking
  <1>5. ~Commits(p) /\ ~HoldsRegistry(p) BY <1>2 DEF Commits, HoldsRegistry
  <1> cur[p] \in Txns /\ cur[p] # None /\ life[cur[p]] = "open"
    BY <1>2, CallerHas
  <1>7. TxnOK(cur[p]) BY DEF IndInv
  <1>8. Linked(cur[p]) BY <1>7 DEF TxnOK
  <1>9. /\ bind_lock[cur[p]] = p /\ \A u \in Txns : bind_lock[u] = p => u = cur[p]
        /\ registry_lock # p
    BY <1>5 DEF LockOK
  <1> QED BY <1>2, <1>5, <1>8, <1>9 DEF MutateOK

LEMMA BeginSucceedsKeeps ==
    ASSUME IndInv, NEW p \in Procs, BeginSucceeds(p)
    PROVE  IndInv'
  <1>0. PICK t : t = cur[p] OBVIOUS
  <1> /\ TypeOK /\ TxnTypes /\ RegistryTypes /\ SourceTypes /\ RequestTypes /\ ThreadTypes
      /\ HistoryTypes /\ Listed /\ late \subseteq Procs /\ p # None
    BY Facts DEF IndInv
  <1> /\ pc[p] = "mutate_begin" /\ active /\ Goto(p, "mutate_bind")
      /\ provider' = [provider EXCEPT ![t] = "open"]
      /\ registry' = registry /\ bound_count' = bound_count
      /\ UNCHANGED <<txnVars, registryVars, requestVars, callVars, historyVars>>
    BY <1>0 DEF BeginSucceeds, registryVars
  <1> /\ life' = life /\ state' = state /\ commit_in_flight' = commit_in_flight
      /\ timeout_abort_pending' = timeout_abort_pending /\ timer' = timer
      /\ mutation_log' = mutation_log /\ audit_pending' = audit_pending
      /\ bind_lock' = bind_lock /\ registry_lock' = registry_lock
      /\ active' = active /\ session' = session
      /\ req_txn' = req_txn /\ req_owner' = req_owner /\ req_status' = req_status
      /\ effects' = effects /\ audits' = audits
    BY DEF BeginSucceeds, txnVars, flagVars, registryVars, requestVars, historyVars
  <1> /\ p \notin late /\ t \in Txns /\ t # None
      /\ life[t] = "open" /\ Linked(t) /\ bind_lock[t] = p
      /\ \A u \in Txns : bind_lock[u] = p => u = t
      /\ registry_lock # p
      /\ audits[t] = 0 /\ Len(mutation_log[t]) < LogCapacity
      /\ pc[p] \in FirstBinding => Virgin(t)
      /\ pc[p] \notin Closing /\ pc[p] \notin Downing /\ ~Commits(p)
      /\ pc[p] # "commit_wait"
    <2>1. pc[p] \in Mutating BY DEF Mutating
    <2> QED BY <1>0, <2>1, MutatesFacts
  <1> Virgin(t) /\ TxnOK(t)
    <2>1. pc[p] \in FirstBinding BY DEF FirstBinding
    <2> QED BY <2>1 DEF IndInv
  <1>4. ThreadTypes' /\ Alone(p) /\ SameCall(p) /\ pc'[p] = "mutate_bind" /\ late' = late
        /\ cur' = cur
    <2>1. "mutate_bind" \in Labels BY DEF Labels
    <2> QED BY <2>1, Went DEF callVars
  <1> Listed' /\ \A u : Linked(u)' <=> Linked(u) BY DEF Linked, Listed
  <1>6. /\ provider' \in [Txns -> {"none", "open", "committed"}]
        /\ provider'[t] = "open" /\ \A u \in Txns : u # t => provider'[u] = provider[u]
        /\ provider'[t] # "committed"
    BY SMT DEF SourceTypes
  <1>7. TypeOK'
    <2>1. SourceTypes' BY <1>6 DEF SourceTypes
    <2> QED BY <1>4, <2>1, TypesKept, TypeParts
  <1>8. Virgin(t)' BY <1>4, <1>6 DEF Virgin
  <1>9. ThreadOK(p)' /\ ~Token(p)'
    <2>1. pc'[p] \in Mutating /\ ~Token(p)' BY <1>4 DEF Mutating, Token
    <2> QED BY <1>0, <1>4, <1>8, <2>1, MutatingOK
  <1>10. \A u \in Txns : Stays(p, u) BY <1>4, Facts, CallerStays
  <1>11. /\ Linked(t) /\ Pending(t) => Pending(t)'
         /\ Linked(t) /\ Live(t) /\ t \in commit_in_flight /\ Owned(t) => Owned(t)'
    BY <1>4, <1>10, RolesStay
  <1>12. effects[t] # 1 BY DEF TxnOK, Virgin
  <1>13. Live(t)' <=> Live(t) BY DEF Live
  <1>14. TxnOK(t)'
    <2>1. /\ life'[t] # "released" /\ life'[t] # "unborn" /\ active' OBVIOUS
    <2> QED BY <1>8, <1>11, <1>12, <1>13, <2>1 DEF TxnOK
  <1>15. Minds(p, t)
    <2>1. provider[t] # "committed" BY DEF Virgin
    <2> QED BY <1>10, <1>13, <2>1 DEF Minds, Steady, Stays
  <1>16. ASSUME NEW u \in Txns, u # t PROVE Untouched(p, u)
    BY <1>6, <1>10, <1>16 DEF Untouched, Same
  <1>17. OwnLocks(p) BY LocksUnchanged
  <1>18. TouchesOnly(p, t)
    BY <1>4, <1>9, <1>14, <1>15, <1>16, <1>17 DEF TouchesOnly
  <1> QED BY <1>7, <1>18, TouchOne

(* The bind: the walk of a source that went down meanwhile is still to come. *)
LEMMA FirstBindKeeps ==
    ASSUME IndInv, NEW p \in Procs, CompleteFirstBind(p), state[cur[p]] = "UNBOUND"
    PROVE  IndInv'
  <1>0. PICK t : t = cur[p] OBVIOUS
  <1> /\ TypeOK /\ TxnTypes /\ RegistryTypes /\ SourceTypes /\ RequestTypes /\ ThreadTypes
      /\ HistoryTypes /\ Listed /\ late \subseteq Procs /\ p # None
    BY Facts DEF IndInv
  <1> /\ pc[p] = "mutate_bind" /\ state[t] = "UNBOUND" /\ Goto(p, "mutate_op")
      /\ state' = [state EXCEPT ![t] = "BOUND"]
      /\ life' = life /\ commit_in_flight' = commit_in_flight
      /\ timeout_abort_pending' = timeout_abort_pending /\ timer' = timer
      /\ mutation_log' = mutation_log /\ audit_pending' = audit_pending
      /\ bind_lock' = bind_lock /\ registry' = registry /\ registry_lock' = registry_lock
      /\ UNCHANGED <<registryVars, sourceVars, requestVars, callVars, historyVars>>
    BY <1>0 DEF CompleteFirstBind, registryVars, sourceVars
  <1> /\ active' = active /\ session' = session /\ provider' = provider
      /\ req_txn' = req_txn /\ req_owner' = req_owner /\ req_status' = req_status
      /\ effects' = effects /\ audits' = audits
    BY DEF sourceVars, requestVars, historyVars
  <1>1. /\ p \notin late /\ t \in Txns /\ t # None
        /\ life[t] = "open" /\ Linked(t) /\ bind_lock[t] = p
        /\ \A u \in Txns : bind_lock[u] = p => u = t
        /\ registry_lock # p
        /\ audits[t] = 0 /\ Len(mutation_log[t]) < LogCapacity
        /\ pc[p] \in FirstBinding => Virgin(t) /\ (active \/ Pending(t))
        /\ pc[p] \notin Closing /\ pc[p] \notin Downing /\ ~Commits(p)
        /\ pc[p] # "commit_wait"
    <2>1. pc[p] \in Mutating BY DEF Mutating
    <2> QED BY <1>0, <2>1, MutatesFacts
  <1> Virgin(t) /\ (active \/ Pending(t)) /\ TxnOK(t)
    <2>1. pc[p] \in FirstBinding BY DEF FirstBinding
    <2> QED BY <1>1, <2>1 DEF IndInv
  <1> /\ ThreadTypes' /\ Alone(p) /\ SameCall(p) /\ pc'[p] = "mutate_op"
      /\ late' = late /\ cur' = cur
    <2>1. "mutate_op" \in Labels BY DEF Labels
    <2> QED BY <2>1, Went DEF callVars
  <1> Listed' /\ \A u : Linked(u)' <=> Linked(u) BY DEF Linked, Listed
  <1>3. /\ state'[t] = "BOUND" /\ \A u \in Txns : u # t => state'[u] = state[u]
        /\ state'[t] # "UNBOUND" /\ state'[t] # "COMMITTED" /\ state[t] \notin Terminal
    BY <1>1 DEF TxnTypes, Terminal
  <1>4. TypeOK'
    <2>1. "BOUND" \in Active \cup Terminal BY DEF Active
    <2>2. state' \in [Txns -> Active \cup Terminal] BY <2>1 DEF TxnTypes
    <2>3. TxnTypes' BY <2>2 DEF TxnTypes
    <2> QED BY <2>3, TypesKept, TypeParts
  <1>5. ThreadOK(p)' /\ ~Token(p)'
    <2>1. pc'[p] \in Mutating /\ pc'[p] \notin FirstBinding /\ ~Token(p)'
      BY DEF Mutating, FirstBinding, Token
    <2> QED BY <1>0, <1>1, <2>1, MutatingOK
  <1> \A u \in Txns : Stays(p, u) BY <1>1, Facts, CallerStays
  <1>7. Linked(t) /\ Pending(t) => Pending(t)' BY <1>1, RolesStay
  <1>8. TxnOK(t)'
    <2>1. /\ life'[t] # "released" /\ life'[t] # "unborn" /\ audits'[t] # 1 BY <1>1, SMT
    <2>2. t \notin timeout_abort_pending /\ t \notin commit_in_flight
      BY DEF TxnOK, Virgin
    <2>3. ~active' => Pending(t)'
      <3>1. active => active' OBVIOUS
      <3> QED BY <1>1, <1>7, <3>1
    <2> QED BY <1>1, <1>3, <2>1, <2>2, <2>3 DEF TxnOK
  <1>9. Minds(p, t) BY <1>1, <1>3 DEF Minds, Steady, Stays
  <1>10. ASSUME NEW u \in Txns, u # t PROVE Untouched(p, u)
    BY <1>3, <1>10 DEF Untouched, Same
  <1>11. OwnLocks(p) BY LocksUnchanged
  <1>12. TouchesOnly(p, t)
    BY <1>1, <1>5, <1>8, <1>9, <1>10, <1>11 DEF TouchesOnly
  <1> QED BY <1>1, <1>4, <1>12, TouchOne

LEMMA MutateLogKeeps ==
    ASSUME IndInv, NEW p \in Procs, MutateLog(p)
    PROVE  IndInv'
  <1>0. PICK t : t = cur[p] OBVIOUS
  <1> /\ TypeOK /\ TxnTypes /\ RegistryTypes /\ SourceTypes /\ RequestTypes /\ ThreadTypes
      /\ HistoryTypes /\ Listed /\ late \subseteq Procs /\ p # None
    BY Facts DEF IndInv
  <1> /\ pc[p] = "mutate_log" /\ Unlock(t) /\ Return(p)
      /\ life' = life /\ state' = state /\ commit_in_flight' = commit_in_flight
      /\ timeout_abort_pending' = timeout_abort_pending /\ timer' = timer
      /\ registry' = registry /\ registry_lock' = registry_lock
      /\ effects' = effects /\ audits' = audits
      /\ UNCHANGED <<registryVars, sourceVars, requestVars>>
    BY <1>0 DEF MutateLog, flagVars, registryVars
  <1> /\ active' = active /\ session' = session /\ provider' = provider
      /\ req_txn' = req_txn /\ req_owner' = req_owner /\ req_status' = req_status
    BY DEF sourceVars, requestVars
  <1>1. PICK l \in Layers : mutation_log' = [mutation_log EXCEPT ![t] = Append(@, l)]
    BY <1>0 DEF MutateLog
  <1>2. \/ audit_pending' = audit_pending \cup {t} /\ staged' = staged \cup {t}
        \/ audit_pending' = audit_pending /\ staged' = staged
    BY <1>0 DEF MutateLog
  <1>3. /\ p \notin late /\ t \in Txns /\ t # None
        /\ life[t] = "open" /\ Linked(t) /\ bind_lock[t] = p
        /\ \A u \in Txns : bind_lock[u] = p => u = t
        /\ registry_lock # p
        /\ audits[t] = 0 /\ Len(mutation_log[t]) < LogCapacity
        /\ pc[p] \notin Closing /\ pc[p] \notin Downing /\ ~Commits(p)
        /\ pc[p] # "commit_wait"
    <2>1. pc[p] \in Mutating BY DEF Mutating
    <2> QED BY <1>0, <2>1, MutatesFacts
  <1> ThreadTypes' /\ Alone(p) /\ Idle(p)' BY Returned
  <1> Listed' /\ \A u : Linked(u)' <=> Linked(u) BY DEF Linked, Listed
  <1> /\ bind_lock' \in [Txns -> Procs \cup {None}] /\ \A u \in Txns : bind_lock'[u] # p
      /\ OwnLocks(p)
    BY <1>3, Unlocked
  <1>5. /\ mutation_log' \in [Txns -> Seq(Layers)]
        /\ \A u \in Txns : Len(mutation_log'[u]) <= LogCapacity
        /\ \A u \in Txns : u # t => mutation_log'[u] = mutation_log[u]
    <2> mutation_log \in [Txns -> Seq(Layers)] BY DEF TxnTypes
    <2>2. mutation_log[t] \in Seq(Layers) BY <1>3
    <2>3. /\ Append(mutation_log[t], l) \in Seq(Layers)
          /\ Len(Append(mutation_log[t], l)) <= LogCapacity
      BY <1>3, <2>2, Constants, SMT
    <2>4. \A u \in Txns : mutation_log'[u] = IF u = t THEN Append(mutation_log[t], l)
                                             ELSE mutation_log[u]
      BY <1>1, <1>3
    <2>5. mutation_log' \in [Txns -> Seq(Layers)] BY <1>1, <2>3
    <2> QED BY <2>3, <2>4, <2>5 DEF TxnTypes
  <1>6. TypeOK'
    <2>1. audit_pending' \subseteq Txns /\ staged' \subseteq Txns
      BY <1>2, <1>3 DEF TxnTypes, HistoryTypes
    <2>2. TxnTypes' BY <1>5, <2>1 DEF TxnTypes
    <2>3. HistoryTypes' BY <2>1 DEF HistoryTypes
    <2> QED BY <2>2, <2>3, TypesKept, TypeParts
  <1> pc'[p] = "idle" /\ p \notin late' /\ late' \subseteq Procs /\ ~Token(p)'
    <2>1. pc'[p] = "idle" /\ p \notin late' /\ late' \subseteq Procs
      BY DEF Idle, ThreadTypes
    <2> QED BY <2>1 DEF Token
  <1>8. ThreadOK(p)' BY <1>3, IdleOK
  <1>9. \A u \in Txns : Stays(p, u) BY <1>3, Facts, CallerStays
  <1>10. /\ Linked(t) /\ Pending(t) => Pending(t)'
         /\ Linked(t) /\ Live(t) /\ t \in commit_in_flight /\ Owned(t) => Owned(t)'
         /\ \A q \in Procs : Answers(q, t)' => Answers(q, t)
    BY <1>9, RolesStay, <1>3
  <1>11. Live(t)' <=> Live(t) BY DEF Live
  <1>12. Virgin(t) => Virgin(t)' BY <1>10, VirginStays
  <1>13. TxnOK(t)'
    <2>1. life'[t] # "released" /\ audits'[t] # 1 /\ audits'[t] = 0 /\ TxnOK(t)
      BY <1>3, SMT DEF IndInv
    <2>2. active => active' OBVIOUS
    <2>3. /\ ~active' /\ Linked(t)' /\ Live(t)' => Pending(t)'
          /\ Linked(t)' /\ Live(t)' /\ t \in commit_in_flight' => Owned(t)'
      BY <1>10, <1>11, <2>1, <2>2 DEF TxnOK
    <2> QED BY <1>12, <2>1, <2>3 DEF TxnOK
  <1>14. Minds(p, t) BY <1>3, <1>9, <1>11 DEF Minds, Steady, Stays
  <1>15. ASSUME NEW u \in Txns, u # t PROVE Untouched(p, u)
    <2>1. u \in audit_pending' <=> u \in audit_pending BY <1>2, <1>15
    <2> QED BY <1>5, <1>9, <1>15, <2>1 DEF Untouched, Same
  <1>16. TouchesOnly(p, t)
    BY <1>3, <1>8, <1>13, <1>14, <1>15 DEF TouchesOnly
  <1> QED BY <1>3, <1>6, <1>16, TouchOne

LEMMA CommitterFacts ==
    ASSUME IndInv, NEW p \in Procs, pc[p] \in Committing, p \notin late
    PROVE  /\ cur[p] \in Txns /\ cur[p] # None /\ Commits(p) /\ Shape(p)
           /\ life[cur[p]] = "open" /\ Linked(cur[p]) /\ bind_lock[cur[p]] = p
           /\ \A u \in Txns : bind_lock[u] = p => u = cur[p]
           /\ registry_lock # p
           /\ TxnOK(cur[p]) /\ state[cur[p]] # "UNBOUND"
           /\ pc[p] \notin Closing /\ pc[p] \notin Downing
  <1>1. Shape(p) /\ LockOK(p) /\ CommitOK(p) /\ ThreadTypes BY Facts
  <1>2. pc[p] \notin Closing /\ pc[p] \notin Downing /\ pc[p] \notin Walking
    BY DEF Committing, Closing, Downing, Walking
  <1>3. Commits(p) /\ Holds(p) /\ Works(p) /\ ~HoldsRegistry(p)
    BY <1>2 DEF Commits, Holds, Works, HoldsRegistry
  <1>4. cur[p] \in Txns /\ cur[p] # None /\ life[cur[p]] = "open"
    BY <1>1, <1>2, <1>3, CallerHas
  <1>5. TxnOK(cur[p]) BY <1>4 DEF IndInv
  <1> QED BY <1>1, <1>2, <1>3, <1>4, <1>5 DEF LockOK, CommitOK, TxnOK

(* A thread leaves alone the transactions it does not work on.              *)
LEMMA OthersStay ==
    ASSUME NEW p, NEW t, cur[p] = t, cur'[p] = t \/ cur'[p] = None, pc[p] \notin Downing
    PROVE  /\ \A u \in Txns : u # t => Stays(p, u)
           /\ \A u : ~Pends(p, u)
  <1>1. \A u : ~Pends(p, u) BY NotDowning
  <1> QED BY <1>1, Constants DEF Stays, Charged, Answers, Frees

LEMMA CommitAdmittedKeeps ==
    ASSUME IndInv, NEW p \in Procs, CommitAdmitted(p)
    PROVE  IndInv'
  <1>0. PICK t : t = cur[p] OBVIOUS
  <1> /\ TypeOK /\ TxnTypes /\ RegistryTypes /\ SourceTypes /\ RequestTypes /\ ThreadTypes
      /\ HistoryTypes /\ Listed /\ late \subseteq Procs /\ p # None /\ Shape(p) /\ LockOK(p)
    BY Facts DEF IndInv
  <1> /\ pc[p] = "commit_lock" /\ state[t] = "BOUND" /\ Lock(p, t) /\ Goto(p, "commit_send")
      /\ commit_in_flight' = commit_in_flight \cup {t}
      /\ life' = life /\ state' = state /\ timer' = timer /\ mutation_log' = mutation_log
      /\ timeout_abort_pending' = timeout_abort_pending /\ audit_pending' = audit_pending
      /\ registry' = registry /\ registry_lock' = registry_lock
      /\ UNCHANGED <<registryVars, sourceVars, requestVars, callVars, historyVars>>
    BY <1>0 DEF CommitAdmitted, registryVars
  <1> /\ active' = active /\ session' = session /\ provider' = provider
      /\ req_txn' = req_txn /\ req_owner' = req_owner /\ req_status' = req_status
      /\ effects' = effects /\ audits' = audits /\ cur' = cur /\ late' = late
    BY DEF sourceVars, requestVars, historyVars, callVars
  <1> /\ p \notin late /\ pc[p] \notin Downing /\ pc[p] \notin Closing /\ ~Commits(p)
      /\ pc[p] # "commit_wait"
      /\ t \in Txns /\ t # None /\ life[t] = "open" /\ TxnOK(t)
      /\ \A u \in Txns : bind_lock[u] # p
      /\ registry_lock # p
    <2> /\ pc[p] \in Calling /\ pc[p] \notin Closing /\ pc[p] \notin Committing
        /\ pc[p] # "commit_wait"
      BY DEF Calling, Closing, Committing
    <2>2. p \notin late /\ pc[p] \notin Downing BY CallersLabels
    <2>3. Works(p) /\ ~Commits(p) BY <2>2 DEF Works, Commits
    <2>4. t \in Txns /\ t # None /\ life[t] = "open"
      BY <1>0, <2>2, <2>3, CallerHas
    <2> QED BY <2>2, <2>3, <2>4, NoLocks DEF IndInv
  <1> /\ ThreadTypes' /\ Alone(p) /\ pc'[p] = "commit_send"
    <2>1. "commit_send" \in Labels BY DEF Labels
    <2> QED BY <2>1, Went
  <1> /\ bind_lock' \in [Txns -> Procs \cup {None}] /\ bind_lock'[t] = p
      /\ \A u \in Txns : bind_lock'[u] = p => u = t
      /\ OwnLocks(p)
    BY Locked
  <1> Listed' /\ \A u : Linked(u)' <=> Linked(u) BY DEF Linked, Listed
  <1>1. TypeOK'
    <2>1. TxnTypes' BY DEF TxnTypes
    <2> QED BY <2>1, TypesKept, TypeParts
  <1> state[t] # "UNBOUND" /\ state[t] # "TIMED_OUT" /\ state[t] \notin Terminal
    BY DEF Terminal
  <1>2. /\ ThreadOK(p)' /\ ~Token(p)' /\ Charged(p, t)'
    <2>1. /\ pc'[p] \in Committing /\ ~Token(p)' /\ pc'[p] # "commit_wait" /\ pc'[p] # "final"
          /\ pc'[p] # "commit_release"
      BY DEF Committing, Token
    <2>2. CommitOK(p)' BY <1>0, <2>1 DEF CommitOK
    <2> QED BY <1>0, <2>1, <2>2, CommittingOK DEF Charged, Commits
  <1> \A u \in Txns : Stays(p, u) BY CallerStays
  <1>4. TxnOK(t)'
    <2>1. Linked(t) /\ Pending(t) => Pending(t)' BY RolesStay
    <2>2. Owned(t)' BY <1>2, OwnedByNext
    <2>3. life'[t] # "released" /\ life'[t] # "unborn" OBVIOUS
    <2>4. ~active' => ~active OBVIOUS
    <2> QED BY <2>1, <2>2, <2>3, <2>4 DEF TxnOK, Live
  <1>5. Minds(p, t)
    <2>1. bind_lock[t] = None BY DEF Lock
    <2> QED BY <2>1 DEF Minds, Steady, Stays, Live
  <1>6. ASSUME NEW u \in Txns, u # t PROVE Untouched(p, u)
    BY <1>6 DEF Untouched, Same
  <1>7. TouchesOnly(p, t) BY <1>2, <1>4, <1>5, <1>6 DEF TouchesOnly
  <1> QED BY <1>1, <1>7, TouchOne

LEMMA CommitFailsKeeps ==
    ASSUME IndInv, NEW p \in Procs, CommitFails(p)
    PROVE  IndInv'
  <1>0. PICK t : t = cur[p] OBVIOUS
  <1> /\ TypeOK /\ TxnTypes /\ RegistryTypes /\ SourceTypes /\ RequestTypes /\ ThreadTypes
      /\ HistoryTypes /\ Listed /\ late \subseteq Procs /\ p # None
    BY Facts DEF IndInv
  <1> /\ pc[p] = "commit_fails" /\ Unlock(t) /\ Goto(p, "commit_audit")
      /\ commit_in_flight' = commit_in_flight \ {t}
      /\ life' = life /\ state' = state /\ timer' = timer /\ mutation_log' = mutation_log
      /\ timeout_abort_pending' = timeout_abort_pending /\ audit_pending' = audit_pending
      /\ registry' = registry /\ registry_lock' = registry_lock
      /\ UNCHANGED <<registryVars, sourceVars, requestVars, callVars, historyVars>>
    BY <1>0 DEF CommitFails, registryVars
  <1> /\ active' = active /\ session' = session /\ provider' = provider
      /\ req_txn' = req_txn /\ req_owner' = req_owner /\ req_status' = req_status
      /\ effects' = effects /\ audits' = audits /\ cur' = cur /\ late' = late
    BY DEF sourceVars, requestVars, historyVars, callVars
  <1> /\ p \notin late /\ t \in Txns /\ t # None /\ TxnOK(t) /\ state[t] # "UNBOUND"
      /\ life[t] = "open" /\ registry_lock # p /\ bind_lock[t] = p
      /\ \A u \in Txns : bind_lock[u] = p => u = t
      /\ \A u \in Txns : u # t => Stays(p, u)
      /\ \A u : ~Pends(p, u)
      /\ pc[p] # "commit_wait"
    <2>1. pc[p] \in Committing /\ pc[p] # "commit_wait" BY DEF Committing
    <2>2. p \notin late BY Facts, CallersLabels
    <2>3. /\ t \in Txns /\ t # None /\ TxnOK(t) /\ state[t] # "UNBOUND" /\ Shape(p)
          /\ life[t] = "open" /\ registry_lock # p /\ bind_lock[t] = p
          /\ \A u \in Txns : bind_lock[u] = p => u = t
          /\ pc[p] \notin Closing /\ pc[p] \notin Downing
      BY <1>0, <2>1, <2>2, CommitterFacts
    <2>4. (\A u \in Txns : u # t => Stays(p, u)) /\ (\A u : ~Pends(p, u))
      BY <1>0, <2>3, OthersStay
    <2> QED BY <2>1, <2>2, <2>3, <2>4
  <1> /\ ThreadTypes' /\ Alone(p) /\ pc'[p] = "commit_audit"
    <2>1. "commit_audit" \in Labels BY DEF Labels
    <2> QED BY <2>1, Went
  <1> /\ bind_lock' \in [Txns -> Procs \cup {None}] /\ OwnLocks(p)
      /\ \A u \in Txns : bind_lock'[u] # p
    BY Unlocked
  <1> Listed' /\ \A u : Linked(u)' <=> Linked(u) BY DEF Linked, Listed
  <1>1. TypeOK'
    <2>1. TxnTypes' BY DEF TxnTypes
    <2> QED BY <2>1, TypesKept, TypeParts
  <1>2. ThreadOK(p)' /\ ~Token(p)'
    <2>1. pc'[p] \in Calling /\ ~Token(p)' BY DEF Calling, Token
    <2> QED BY <1>0, <2>1, CallingOK
  <1>3. TxnOK(t)'
    <2>1. Pending(t) => Pending(t)' BY PendingStays
    <2>2. life'[t] # "released" /\ life'[t] # "unborn" /\ t \notin commit_in_flight' OBVIOUS
    <2>3. ~active' => ~active OBVIOUS
    <2>4. Live(t)' => Live(t) BY DEF Live
    <2> QED BY <2>1, <2>2, <2>3, <2>4 DEF TxnOK
  <1>4. Minds(p, t) BY DEF Minds, Steady, Live
  <1>5. ASSUME NEW u \in Txns, u # t PROVE Untouched(p, u)
    BY <1>5 DEF Untouched, Same
  <1>6. TouchesOnly(p, t) BY <1>2, <1>3, <1>4, <1>5 DEF TouchesOnly
  <1> QED BY <1>1, <1>6, TouchOne

LEMMA CommitAuditKeeps ==
    ASSUME IndInv, NEW p \in Procs, CommitAudit(p)
    PROVE  IndInv'
  <1>0. PICK t : t = cur[p] OBVIOUS
  <1> /\ TypeOK /\ TxnTypes /\ RegistryTypes /\ SourceTypes /\ RequestTypes /\ ThreadTypes
      /\ HistoryTypes /\ Listed /\ late \subseteq Procs /\ p # None /\ Shape(p) /\ LockOK(p)
    BY Facts DEF IndInv
  <1> /\ pc[p] = "commit_audit" /\ bind_lock[t] = None /\ Return(p)
      /\ life' = life /\ state' = state /\ timer' = timer /\ mutation_log' = mutation_log
      /\ commit_in_flight' = commit_in_flight
      /\ timeout_abort_pending' = timeout_abort_pending
      /\ bind_lock' = bind_lock /\ registry' = registry /\ registry_lock' = registry_lock
      /\ effects' = effects /\ staged' = staged
      /\ UNCHANGED <<registryVars, sourceVars, requestVars>>
    BY <1>0 DEF CommitAudit, registryVars, flagVars
  <1> /\ active' = active /\ session' = session /\ provider' = provider
      /\ req_txn' = req_txn /\ req_owner' = req_owner /\ req_status' = req_status
    BY DEF sourceVars, requestVars
  <1>1. \/ state[t] \in Terminal /\ EmitAudit(t)
        \/ audit_pending' = audit_pending /\ audits' = audits
    BY <1>0 DEF CommitAudit
  <1> /\ p \notin late /\ pc[p] \notin Downing /\ pc[p] \notin Closing /\ ~Commits(p)
      /\ pc[p] # "commit_wait" /\ t \in Txns /\ TxnOK(t)
      /\ \A u \in Txns : bind_lock[u] # p
      /\ registry_lock # p
    <2> /\ pc[p] \in Calling /\ pc[p] \notin Closing /\ pc[p] \notin Committing
        /\ pc[p] # "commit_wait"
      BY DEF Calling, Closing, Committing
    <2>2. p \notin late /\ pc[p] \notin Downing BY CallersLabels
    <2>3. Works(p) /\ ~Commits(p) BY <2>2 DEF Works, Commits
    <2>4. t \in Txns BY <1>0, <2>2, <2>3, CallerHas
    <2> QED BY <2>2, <2>3, <2>4, NoLocks DEF IndInv
  <1> ThreadTypes' /\ Alone(p) /\ Idle(p)' BY Returned
  <1> pc'[p] = "idle" /\ p \notin late' /\ late' \subseteq Procs /\ ~Token(p)'
    <2>1. pc'[p] = "idle" /\ p \notin late' /\ late' \subseteq Procs
      BY DEF Idle, ThreadTypes
    <2> QED BY <2>1 DEF Token
  <1> Listed' /\ \A u : Linked(u)' <=> Linked(u) BY DEF Linked, Listed
  <1> /\ audits' \in [Txns -> Nat] /\ audit_pending' \subseteq Txns /\ audits'[t] <= 1
      /\ t \in audit_pending' => audits'[t] = 0
      /\ audits'[t] = 1 => state[t] \in Terminal
      /\ \A u \in Txns : u # t => /\ audits'[u] = audits[u]
                                  /\ u \in audit_pending' <=> u \in audit_pending
    <2>1. CASE state[t] \in Terminal /\ EmitAudit(t) BY <2>1, Audited
    <2>2. CASE audit_pending' = audit_pending /\ audits' = audits
      BY <2>2 DEF TxnOK, TxnTypes, HistoryTypes
    <2> QED BY <1>1, <2>1, <2>2
  <1>4. TypeOK'
    <2>1. TxnTypes' /\ HistoryTypes' BY DEF TxnTypes, HistoryTypes
    <2> QED BY <2>1, TypesKept, TypeParts
  <1>5. ThreadOK(p)' BY IdleOK
  <1>6. \A u \in Txns : Stays(p, u) BY CallerStays
  <1>7. /\ Linked(t) /\ Pending(t) => Pending(t)'
        /\ Linked(t) /\ Live(t) /\ t \in commit_in_flight /\ Owned(t) => Owned(t)'
        /\ Freed(t) => Freed(t)'
        /\ \A q \in Procs : Answers(q, t)' => Answers(q, t)
    BY <1>6, RolesStay
  <1>8. Virgin(t) => Virgin(t)' BY <1>7, VirginStays
  <1>9. TxnOK(t)'
    <2>1. (Live(t)' <=> Live(t)) /\ (~active' => ~active) BY DEF Live
    <2> QED BY <1>7, <1>8, <2>1 DEF TxnOK
  <1>10. Minds(p, t) BY <1>6 DEF Minds, Steady, Stays, Live
  <1>11. ASSUME NEW u \in Txns, u # t PROVE Untouched(p, u)
    BY <1>6, <1>11 DEF Untouched, Same
  <1>12. OwnLocks(p) BY LocksUnchanged
  <1>13. TouchesOnly(p, t)
    BY <1>5, <1>9, <1>10, <1>11, <1>12 DEF TouchesOnly
  <1> QED BY <1>4, <1>13, TouchOne

=============================================================================
