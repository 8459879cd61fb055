----------------------------- MODULE LcsProofs ------------------------------
(***************************************************************************)
(* Proofs about two parts of the layered registry (LCS) that share nothing *)
(* but the sources: SequenceGate, for any number of sources and threads,   *)
(* any backups and any width of the counter; and KeyRefresh, for any keys, *)
(* order, writers and bounds.                                              *)
(***************************************************************************)
EXTENDS KeyRefresh, SequenceGate, TLAPS

(* Arithmetic that both parts need.                                         *)
LEMMA NatOrder ==
    /\ \A a \in Nat : 0 <= a /\ a <= a /\ a >= a /\ a <= a + 1 /\ a + 1 \in Nat
    /\ \A a, b \in Nat : (a <= b <=> b >= a) /\ (a <= b => 1..a \subseteq 1..b)
    /\ 1..0 = {} /\ 0 \in Nat
  OBVIOUS

LEMMA LeTrans == \A a, b, c \in Nat : a <= b /\ b <= c => a <= c
  OBVIOUS

LEMMA LastOfRange == \A a \in Nat : \A n \in 1..(a + 1) : n \in 1..a \/ n = a + 1
  OBVIOUS

LEMMA NatElements == \A s \in Seq(Nat) : \A i \in 1..Len(s) : s[i] \in Nat
  OBVIOUS

LEMMA AppendFacts ==
  ASSUME NEW s \in Seq(Nat), NEW e \in Nat
  PROVE  /\ Append(s, e) \in Seq(Nat)
         /\ Len(Append(s, e)) = Len(s) + 1
         /\ Append(s, e)[Len(s) + 1] = e
         /\ \A n \in 1..Len(s) : Append(s, e)[n] = s[n]
  OBVIOUS

-----------------------------------------------------------------------------
(* The sequence gate.  GateIndInv is inductive.                             *)

USE SequenceAssumption DEF Sequence, Request, PendingCommit, counterVars, gateVars,
                           sourceVars, readerVars

(* GateInit establishes the inductive invariant.                               *)
LEMMA GateInitInd == GateInit => GateIndInv
<1> SUFFICES ASSUME GateInit PROVE GateIndInv
  OBVIOUS
<1>1. \A w \in Mutators : writer[w] = Nil
  BY DEF GateInit
<1>2. \A d \in Readers : reader[d] = Nil
  BY DEF GateInit
<1>3. GateTypeOK
  <2>1. writer \in [Mutators -> Request \cup {Nil}]
    BY Zenon DEF GateInit
  <2>2. /\ reader \in [Readers -> Sequence \cup {Nil}]
        /\ snapshot \in [Readers -> Sequence \cup {Nil}]
        /\ reading \in [Readers -> Sources \cup {Nil}]
        /\ stored \in [Readers -> SUBSET Sequence]
    BY Zenon DEF GateInit
  <2>3. persisted \in [Sources -> SUBSET Sequence]
    BY DEF GateInit
  <2>4. sequence_initialized \in BOOLEAN
    BY Zenon DEF GateInit
  <2>5. next_sequence \in Sequence /\ offset \in Sequence
    BY DEF GateInit
  <2>6. /\ phase = "idle"
        /\ holder = Nil /\ target = Nil /\ max_dispatched = Nil
        /\ backup = {} /\ staged = {} /\ active = {} /\ commits = {} /\ rejected = {}
        /\ validated = {}
    BY Zenon DEF GateInit
  <2> HIDE DEF Sequence, Request, PendingCommit
  <2> QED
    BY <2>1, <2>2, <2>3, <2>4, <2>5, <2>6 DEF GateTypeOK
<1>4. GateInv /\ StagedInv /\ AccountedInv /\ InFlightSequencesDistinct
  BY <1>1, <1>2, SMTT(30) DEF GateInit, GateInv, StagedInv, AccountedInv, InFlightSequencesDistinct
<1>5. ReadsInv
  BY DEF GateInit, ReadsInv
<1> QED
  BY <1>3, <1>4, <1>5 DEF GateIndInv

(* Type correctness is preserved by every step: the counter stays within    *)
(* its width because each operation checks for overflow first.              *)
LEMMA GateTypeStep == GateIndInv /\ [GateNext]_sequenceVars => GateTypeOK'
<1> SUFFICES ASSUME GateIndInv, [GateNext]_sequenceVars PROVE GateTypeOK'
  OBVIOUS
<1> USE DEF GateTypeOK, GateIndInv
<1>1. ASSUME NEW s \in Sources, NEW m \in Sequence, Register(s, m) PROVE GateTypeOK'
  BY <1>1 DEF Register, EffectiveNextSequence
<1>2. ASSUME NEW s \in Sources, SourceDown(s) PROVE GateTypeOK'
  BY <1>2 DEF SourceDown
<1>3. ASSUME NEW w \in Mutators, NEW s \in Sources, AllocateSequence(w, s) PROVE GateTypeOK'
  BY <1>3 DEF AllocateSequence
<1>4. ASSUME NEW w \in Mutators, WriterPersists(w) PROVE GateTypeOK'
  BY <1>4 DEF WriterPersists
<1>5. ASSUME NEW w \in Mutators, WriterFails(w) PROVE GateTypeOK'
  BY <1>5 DEF WriterFails
<1>6. ASSUME NEW r \in Restorers, NEW s \in Sources, NEW stream \in Backups,
             RestoreAcquire(r, s, stream)
      PROVE  GateTypeOK'
  BY <1>6 DEF RestoreAcquire
<1>7. CASE RestoreStep
  <2>1. CASE RestoreValidate
    BY <2>1 DEF RestoreValidate
  <2>2. ASSUME NEW b \in backup, RestoreDispatch(b) PROVE GateTypeOK'
    BY <2>2 DEF RestoreDispatch, GateValidates
  <2>3. CASE RestoreFail
    BY <2>3 DEF RestoreFail
  <2>4. CASE RestoreSendCommit
    BY <2>4 DEF RestoreSendCommit, GateInv
  <2>5. CASE RestoreCommitReturns
    BY <2>5 DEF RestoreCommitReturns
  <2>6. CASE RestoreRelease
    BY <2>6 DEF RestoreRelease, GateCleared
  <2> QED
    BY <1>7, <2>1, <2>2, <2>3, <2>4, <2>5, <2>6, Zenon DEF RestoreStep
<1>8. ASSUME NEW c \in commits, SourceCommits(c) PROVE GateTypeOK'
  BY <1>8 DEF SourceCommits
<1>9. ASSUME NEW c \in commits, SourceDropsCommit(c) PROVE GateTypeOK'
  BY <1>9 DEF SourceDropsCommit
<1>10. ASSUME NEW d \in Readers, NEW q \in Sequence, SourceAnswers(d, q) PROVE GateTypeOK'
  BY <1>10 DEF SourceAnswers
<1>11. ASSUME NEW d \in Readers, ValidateResponse(d) \/ MaterializeResponse(d) PROVE GateTypeOK'
  BY <1>11, Zenon DEF ValidateResponse, MaterializeResponse
<1>14. ASSUME NEW d \in Readers, NEW s \in Sources, NEW early \in BOOLEAN, ReadBegins(d, s, early)
       PROVE  GateTypeOK'
  <2>1. /\ reading' \in [Readers -> Sources \cup {Nil}]
        /\ snapshot' \in [Readers -> Sequence \cup {Nil}]
        /\ stored' \in [Readers -> SUBSET Sequence]
    BY <1>14 DEF ReadBegins
  <2> QED
    BY <1>14, <2>1, Zenon DEF ReadBegins
<1>15. ASSUME NEW d \in Readers, ReadEnds(d) PROVE GateTypeOK'
  <2>1. /\ reading' \in [Readers -> Sources \cup {Nil}]
        /\ snapshot' \in [Readers -> Sequence \cup {Nil}]
        /\ reader' \in [Readers -> Sequence \cup {Nil}]
        /\ stored' \in [Readers -> SUBSET Sequence]
    BY <1>15 DEF ReadEnds
  <2> QED
    BY <1>15, <2>1, Zenon DEF ReadEnds
<1>12. CASE Reboot
  <2>1. writer' \in [Mutators -> Request \cup {Nil}]
    BY <1>12 DEF Reboot
  <2>2. /\ reader' \in [Readers -> Sequence \cup {Nil}]
        /\ snapshot' \in [Readers -> Sequence \cup {Nil}]
        /\ reading' \in [Readers -> Sources \cup {Nil}]
        /\ stored' \in [Readers -> SUBSET Sequence]
    BY <1>12, Zenon DEF Reboot
  <2>3. next_sequence' \in Sequence /\ offset' \in Sequence
    BY <1>12 DEF Reboot, GateCleared
  <2> QED
    BY <1>12, <2>1, <2>2, <2>3, Zenon DEF Reboot, GateCleared
<1>13. CASE UNCHANGED sequenceVars
  BY <1>13, SMTT(30) DEF sequenceVars
<1> HIDE DEF GateTypeOK, GateIndInv, Sequence, Request, PendingCommit, counterVars, gateVars,
           sourceVars, readerVars
<1> QED
  BY <1>1, <1>2, <1>3, <1>4, <1>5, <1>6, <1>7, <1>8, <1>9, <1>10, <1>11,
     <1>12, <1>13, <1>14, <1>15, Zenon DEF GateNext

(* Only a reboot moves the counter back.                                    *)
LEMMA CounterGrows ==
    GateIndInv /\ [GateNext]_sequenceVars /\ ~Reboot => next_sequence <= next_sequence'
<1> SUFFICES ASSUME GateIndInv, [GateNext]_sequenceVars, ~Reboot
             PROVE  next_sequence <= next_sequence'
  OBVIOUS
<1> next_sequence \in Nat
  BY DEF GateIndInv, GateTypeOK
<1>1. ASSUME NEW s \in Sources, NEW m \in Sequence, Register(s, m)
      PROVE  next_sequence <= next_sequence'
  BY <1>1 DEF Register, EffectiveNextSequence, GateIndInv, GateInv
<1>2. ASSUME NEW w \in Mutators, NEW s \in Sources, AllocateSequence(w, s)
      PROVE  next_sequence <= next_sequence'
  BY <1>2 DEF AllocateSequence
<1>3. CASE RestoreRelease
  BY <1>3 DEF RestoreRelease, GateIndInv, GateTypeOK
<1>4. CASE next_sequence' = next_sequence
  BY <1>4
<1> QED
  BY <1>1, <1>2, <1>3, <1>4, Zenon DEF GateNext, SourceDown, WriterPersists, WriterFails,
     RestoreAcquire, RestoreStep, RestoreValidate, RestoreDispatch, RestoreFail,
     RestoreSendCommit, RestoreCommitReturns, SourceCommits, SourceDropsCommit, ReadBegins,
     SourceAnswers, ValidateResponse, MaterializeResponse, ReadEnds, sequenceVars

(* What is known of a read stays true: the counter it captured is not       *)
(* passed backwards, and what its source held when it began stays below it. *)
LEMMA ReadsStep == GateIndInv /\ [GateNext]_sequenceVars => ReadsInv'
<1> SUFFICES ASSUME GateIndInv, [GateNext]_sequenceVars, NEW x \in Readers
             PROVE  (/\ snapshot[x] # Nil => snapshot[x] <= next_sequence
                     /\ \A q \in stored[x] :
                            q < next_sequence /\ (snapshot[x] # Nil => q < snapshot[x])
                     /\ x \in validated => reader[x] # Nil /\ reader[x] < next_sequence)'
  BY Zenon DEF ReadsInv
<1> DEFINE
  Known ==
    /\ snapshot[x] # Nil => snapshot[x] <= next_sequence
    /\ \A q \in stored[x] : q < next_sequence /\ (snapshot[x] # Nil => q < snapshot[x])
    /\ x \in validated => reader[x] # Nil /\ reader[x] < next_sequence
  Kept ==
    /\ snapshot'[x] = snapshot[x] /\ stored'[x] = stored[x]
    /\ x \in validated' => reader'[x] = reader[x] /\ reader[x] # Nil /\ reader[x] < next_sequence
<1> SUFFICES Known'
  OBVIOUS
<1>0. /\ next_sequence \in Nat /\ next_sequence' \in Nat
      /\ snapshot[x] \in Nat \cup {Nil} /\ reader[x] \in Nat \cup {Nil}
      /\ stored[x] \subseteq Nat /\ \A s \in Sources : persisted[s] \subseteq Nat
  BY GateTypeStep DEF GateIndInv, GateTypeOK
<1>1. Known
  BY Zenon DEF GateIndInv, ReadsInv
<1>2. CASE Reboot
  BY <1>2 DEF Reboot
<1>3. ASSUME NEW d \in Readers, ReadEnds(d), d = x
      PROVE  snapshot'[x] = Nil /\ stored'[x] = {} /\ x \notin validated'
  BY <1>3 DEF ReadEnds, GateIndInv, GateTypeOK
<1>4. ASSUME NEW d \in Readers, NEW s \in Sources, NEW early \in BOOLEAN, ReadBegins(d, s, early), d = x
      PROVE  /\ next_sequence' = next_sequence /\ snapshot'[x] \in {Nil, next_sequence}
             /\ \A q \in stored'[x] : q \in Nat /\ q < next_sequence
             /\ reader' = reader /\ validated' = validated
  <2>1. /\ next_sequence' = next_sequence /\ snapshot'[x] \in {Nil, next_sequence}
        /\ stored'[x] = IF s \in active THEN persisted[s] \ staged ELSE {}
        /\ reader' = reader /\ validated' = validated
    BY <1>4 DEF ReadBegins, GateIndInv, GateTypeOK
  <2>2. s \in active => \A q \in persisted[s] \ staged : q < next_sequence
    BY DEF GateIndInv, AccountedInv, Accounted
  <2> QED
    BY <1>0, <2>1, <2>2
<1>5. ASSUME Kept, ~Reboot PROVE Known'
  <2>1. next_sequence <= next_sequence'
    BY <1>5, CounterGrows
  <2> QED
    BY <1>0, <1>1, <1>5, <2>1
<1>6. CASE UNCHANGED readerVars
  BY <1>1, <1>2, <1>5, <1>6
<1>7. ASSUME NEW d \in Readers, NEW q \in Sequence, SourceAnswers(d, q), ~Reboot PROVE Kept
  BY <1>1, <1>7 DEF SourceAnswers, GateIndInv, GateTypeOK
<1>8. ASSUME NEW d \in Readers, ValidateResponse(d), ~Reboot PROVE Kept
  BY <1>0, <1>1, <1>8 DEF ValidateResponse, IsFuture
<1>9. ASSUME NEW d \in Readers, MaterializeResponse(d), ~Reboot PROVE Kept
  BY <1>1, <1>9 DEF MaterializeResponse, GateIndInv, GateTypeOK
<1>10. ASSUME NEW d \in Readers, d # x,
              ReadEnds(d) \/ \E s \in Sources, early \in BOOLEAN : ReadBegins(d, s, early)
       PROVE  Kept
  BY <1>1, <1>10, Zenon DEF ReadEnds, ReadBegins, GateIndInv, GateTypeOK
<1>11. ASSUME NEW d \in Readers, ReadEnds(d) PROVE Known'
  BY <1>2, <1>3, <1>5, <1>10, <1>11, Zenon
<1>12. ASSUME NEW d \in Readers, NEW s \in Sources, NEW early \in BOOLEAN, ReadBegins(d, s, early)
       PROVE  Known'
  <2>1. CASE d = x
    BY <1>0, <1>1, <1>4, <1>12, <2>1
  <2>2. CASE d # x
    BY <1>2, <1>5, <1>10, <1>12, <2>2, Zenon
  <2> QED
    BY <2>1, <2>2
<1> HIDE DEF Known, Kept
<1> QED
  BY <1>2, <1>5, <1>6, <1>7, <1>8, <1>9, <1>11, <1>12, Zenon DEF GateNext, Register, SourceDown,
     AllocateSequence, WriterPersists, WriterFails, RestoreAcquire, RestoreStep, RestoreValidate,
     RestoreDispatch, RestoreFail, RestoreSendCommit, RestoreCommitReturns, RestoreRelease,
     SourceCommits, SourceDropsCommit, sequenceVars

(* The other conjuncts are preserved too.  Only an allocation, a            *)
(* registration and the release of the gate move the counter, and none of   *)
(* them happens while another restore holds the gate.                       *)
LEMMA GateStep == GateIndInv /\ [GateNext]_sequenceVars => GateIndInv'
<1> DEFINE Rest == GateInv /\ StagedInv /\ AccountedInv /\ InFlightSequencesDistinct
<1> SUFFICES ASSUME GateIndInv, [GateNext]_sequenceVars PROVE Rest'
  BY GateTypeStep, ReadsStep DEF GateIndInv
<1> USE DEF GateTypeOK, GateIndInv, GateInv, StagedInv, AccountedInv, Accounted,
            InFlightSequencesDistinct
<1>1. ASSUME NEW s \in Sources, NEW m \in Sequence, Register(s, m) PROVE Rest'
  BY <1>1 DEF Register, EffectiveNextSequence
<1>2. ASSUME NEW s \in Sources, SourceDown(s) PROVE Rest'
  BY <1>2 DEF SourceDown
<1>3. ASSUME NEW w \in Mutators, NEW s \in Sources, AllocateSequence(w, s) PROVE Rest'
  BY <1>3 DEF AllocateSequence
<1>4. ASSUME NEW w \in Mutators, WriterPersists(w) PROVE Rest'
  BY <1>4 DEF WriterPersists
<1>5. ASSUME NEW w \in Mutators, WriterFails(w) PROVE Rest'
  BY <1>5 DEF WriterFails
<1>6. ASSUME NEW r \in Restorers, NEW s \in Sources, NEW stream \in Backups,
             RestoreAcquire(r, s, stream)
      PROVE  Rest'
  BY <1>6, SMTT(30) DEF RestoreAcquire
<1>7. CASE RestoreStep
  <2>1. CASE RestoreValidate
    BY <2>1, Zenon DEF RestoreValidate
  <2>2. ASSUME NEW b \in backup, RestoreDispatch(b) PROVE Rest'
    BY <2>2 DEF RestoreDispatch, GateValidates
  <2>3. CASE RestoreFail
    BY <2>3 DEF RestoreFail
  <2>4. CASE RestoreSendCommit
    BY <2>4 DEF RestoreSendCommit
  <2>5. CASE RestoreCommitReturns
    BY <2>5 DEF RestoreCommitReturns
  <2>6. CASE RestoreRelease
    BY <2>6 DEF RestoreRelease, GateCleared
  <2> QED
    BY <1>7, <2>1, <2>2, <2>3, <2>4, <2>5, <2>6 DEF RestoreStep
<1>8. ASSUME NEW c \in commits, SourceCommits(c) PROVE Rest'
  BY <1>8 DEF SourceCommits
<1>9. ASSUME NEW c \in commits, SourceDropsCommit(c) PROVE Rest'
  BY <1>9 DEF SourceDropsCommit
<1>10. ASSUME NEW d \in Readers, NEW q \in Sequence, SourceAnswers(d, q) PROVE Rest'
  BY <1>10 DEF SourceAnswers
<1>11. ASSUME NEW d \in Readers, ValidateResponse(d) \/ MaterializeResponse(d) PROVE Rest'
  <2>1. \A x \in Readers : reader'[x] # Nil => reader'[x] = reader[x]
    BY <1>11 DEF ValidateResponse, MaterializeResponse
  <2>2. UNCHANGED <<counterVars, gateVars, sourceVars, writer>>
    BY <1>11 DEF ValidateResponse, MaterializeResponse
  <2> QED
    BY <2>1, <2>2
<1>14. ASSUME NEW d \in Readers, NEW s \in Sources, NEW early \in BOOLEAN, ReadBegins(d, s, early)
       PROVE  Rest'
  BY <1>14 DEF ReadBegins
<1>15. ASSUME NEW d \in Readers, ReadEnds(d) PROVE Rest'
  <2>1. \A x \in Readers : reader'[x] # Nil => reader'[x] = reader[x]
    BY <1>15 DEF ReadEnds
  <2> QED
    BY <1>15, <2>1 DEF ReadEnds
<1>12. CASE Reboot
  <2>1. \A w \in Mutators : writer'[w] = Nil
    BY <1>12 DEF Reboot
  <2>2. \A d \in Readers : reader'[d] = Nil
    BY <1>12 DEF Reboot
  <2> QED
    BY <1>12, <2>1, <2>2 DEF Reboot, GateCleared
<1>13. CASE UNCHANGED sequenceVars
  BY <1>13 DEF sequenceVars
<1> HIDE DEF Rest, GateIndInv, GateTypeOK, GateInv, StagedInv, AccountedInv, Accounted,
           InFlightSequencesDistinct, Sequence, Request, PendingCommit, counterVars, gateVars,
           sourceVars, readerVars
<1> QED
  BY <1>1, <1>2, <1>3, <1>4, <1>5, <1>6, <1>7, <1>8, <1>9, <1>10, <1>11,
     <1>12, <1>13, <1>14, <1>15, Zenon DEF GateNext

(* The counter and every other variable keep their type in every reachable  *)
(* state of the kernel's sequence bookkeeping.                              *)
THEOREM GateTypes == GateSpec => []GateTypeOK
<1>1. GateIndInv => GateTypeOK
  BY DEF GateIndInv
<1> QED
  BY GateInitInd, GateStep, <1>1, PTL DEF GateSpec

(* No two undecided requests carry the same sequence, whatever the timing   *)
(* of allocations, restores, late commits and reboots.                      *)
THEOREM SequencesDistinct == GateSpec => []InFlightSequencesDistinct
<1>1. GateIndInv => InFlightSequencesDistinct
  BY DEF GateIndInv
<1> QED
  BY GateInitInd, GateStep, <1>1, PTL DEF GateSpec

(* restore_sequence_gate_release_terminal never takes its overflow exit.    *)
THEOREM NoReleaseOverflow == GateSpec => []ReleaseNeverOverflows
<1>1. GateIndInv => ReleaseNeverOverflows
  BY DEF GateIndInv, StagedInv, ReleaseNeverOverflows, GateTypeOK
<1> QED
  BY GateInitInd, GateStep, <1>1, PTL DEF GateSpec

(* pkm_lcs_allocate_sequence always issues a sequence above everything any  *)
(* connected source stores: outside a restore every stored sequence is      *)
(* below the counter, and during one allocation is blocked.                 *)
THEOREM AllocationOutranks == GateSpec => AllocationOutranksPersisted
<1> DEFINE Outranks == \A w \in Mutators : \A s \in active :
        (writer[w] = Nil /\ writer'[w] # Nil) =>
            \A q \in persisted[s] : q < writer'[w].sequence
<1>1. GateIndInv /\ [GateNext]_sequenceVars => [Outranks]_sequenceVars
  <2> SUFFICES ASSUME GateIndInv, GateNext, NEW w \in Mutators, NEW s \in active,
                      writer[w] = Nil, writer'[w] # Nil,
                      NEW q \in persisted[s]
               PROVE  q < writer'[w].sequence
    BY Zenon
  <2>1. PICK x \in Mutators, t \in Sources : AllocateSequence(x, t)
    BY Zenon DEF GateNext, GateIndInv, GateTypeOK, Register, SourceDown, WriterPersists, WriterFails,
           RestoreAcquire, RestoreStep, RestoreValidate, RestoreDispatch,
           RestoreFail, RestoreSendCommit, RestoreCommitReturns, RestoreRelease,
           SourceCommits, SourceDropsCommit, SourceAnswers, ValidateResponse,
           MaterializeResponse, ReadBegins, ReadEnds, Reboot
  <2>2. writer'[w].sequence = next_sequence
    BY <2>1 DEF AllocateSequence, GateIndInv, GateTypeOK
  <2>3. staged = {}
    BY <2>1 DEF AllocateSequence, GateIndInv, GateTypeOK, GateInv, StagedInv
  <2> QED
    BY <2>2, <2>3 DEF GateIndInv, AccountedInv, Accounted
<1> QED
  BY GateInitInd, GateStep, <1>1, PTL DEF GateSpec, AllocationOutranksPersisted

(* Validation of a response refuses a stored entry only while the restore   *)
(* that dispatched it holds the gate; a read that judges the frame again    *)
(* refuses it only against a counter captured before the entry was there.   *)
THEOREM FutureOnlyOverlapping == GateSpec => FutureOnlyIfConcurrent
<1> DEFINE Overlaps == \A d \in Readers :
        (d \notin rejected /\ d \in rejected') =>
            /\ reader[d] \notin stored[d]
            /\ d \notin validated => holder # Nil /\ reader[d] \in staged
            /\ d \in validated => snapshot[d] # Nil
<1>1. GateIndInv /\ [GateNext]_sequenceVars => [Overlaps]_sequenceVars
  <2> SUFFICES ASSUME GateIndInv, GateNext, NEW d \in Readers,
                      d \notin rejected, d \in rejected'
               PROVE  /\ reader[d] \notin stored[d]
                      /\ d \notin validated => holder # Nil /\ reader[d] \in staged
                      /\ d \in validated => snapshot[d] # Nil
    BY Zenon
  <2>0. /\ next_sequence \in Nat /\ snapshot[d] \in Nat \cup {Nil}
        /\ reader[d] \in Nat \cup {Nil} /\ stored[d] \subseteq Nat
        /\ snapshot[d] # Nil => snapshot[d] <= next_sequence
        /\ \A q \in stored[d] : q < next_sequence /\ (snapshot[d] # Nil => q < snapshot[d])
        /\ d \in validated => reader[d] # Nil /\ reader[d] < next_sequence
    BY DEF GateIndInv, GateTypeOK, ReadsInv
  <2>1. PICK x \in Readers : ValidateResponse(x) \/ MaterializeResponse(x)
    BY Zenon DEF GateNext, Register, SourceDown, AllocateSequence, WriterPersists, WriterFails,
           RestoreAcquire, RestoreStep, RestoreValidate, RestoreDispatch,
           RestoreFail, RestoreSendCommit, RestoreCommitReturns, RestoreRelease,
           SourceCommits, SourceDropsCommit, SourceAnswers, ReadBegins, ReadEnds, Reboot
  <2>2. CASE ValidateResponse(x)
    <3>1. reader[d] # Nil /\ d \notin validated /\ reader[d] >= next_sequence
      BY <2>2 DEF ValidateResponse, IsFuture
    <3>2. reader[d] \in staged
      BY <2>0, <3>1 DEF GateIndInv, AccountedInv, Accounted
    <3>3. holder # Nil
      BY <3>2, Zenon DEF GateIndInv, GateTypeOK, GateInv, StagedInv
    <3> QED
      BY <2>0, <3>1, <3>2, <3>3
  <2>3. CASE MaterializeResponse(x)
    <3>1. d \in validated
      BY <2>3, Zenon DEF MaterializeResponse
    <3>2. reader[d] >= IF snapshot[d] = Nil THEN next_sequence ELSE snapshot[d]
      BY <2>3, Zenon DEF MaterializeResponse, IsFuture
    <3> QED
      BY <2>0, <3>1, <3>2
  <2> QED
    BY <2>1, <2>2, <2>3
<1> QED
  BY GateInitInd, GateStep, <1>1, PTL DEF GateSpec, FutureOnlyIfConcurrent

HIDE SequenceAssumption DEF Sequence, Request, PendingCommit, counterVars, gateVars,
                            sourceVars, readerVars

-----------------------------------------------------------------------------
(* The refresh of the kernel-read keys: a change counted as walked was read, *)
(* and a walk never puts an older content in force.  IndInv is inductive.   *)
(* Most steps of a thread move only the thread; the lemma Elsewhere is about *)
(* them all.                                                                *)

(* Which threads do what: only writers dispatch and note, only a work item  *)
(* does the work, on its own key.                                           *)
RoleOK(p) ==
    /\ pc[p] \in {"dispatch", "note change", "queue"} => p \in Writers
    /\ pc[p] \in {"note change", "queue"} => key[p] \in Deferred
    /\ pc[p] = "note" => key[p] \in Counted
    /\ pc[p] = "settle" => p \in Counted
    /\ task[p] = "event" => p \in Writers
    /\ task[p] = "work" => p \in Deferred
    /\ p \in Deferred =>
          /\ pc[p] \in {"idle", "lock", "publish", "note", "settle"}
          /\ pc[p] # "idle" => task[p] = "work" /\ key[p] = p

RoleInv == \A p \in Procs : RoleOK(p)

(* Whoever has read a deferred key and not yet published holds its mutex.   *)
LockInv ==
    \A p \in Procs : pc[p] = "publish" /\ key[p] \in Deferred => mutex[key[p]] = p

(* What is in force is no newer than the key, and no newer than what a      *)
(* thread that holds the mutex has read.                                    *)
ReadInv ==
    /\ \A k \in Keys : inforce[k] <= content[k]
    /\ \A k \in Counted : table[k] <= content[k]
    /\ \A p \in Procs : pc[p] = "publish" =>
          /\ key[p] \in Deferred => inforce[key[p]] <= got[p]
          /\ key[p] \in Counted => table[key[p]] <= got[p]
          /\ got[p] <= content[key[p]]

(* The work item's count covers changes its walk reads, then has read, then *)
(* has judged.                                                              *)
CountOK(k) ==
    /\ taken[k] <= noted[k] /\ walked[k] <= noted[k]
    /\ \A n \in 1..noted[k] : changes[k][n] <= content[k]
    /\ pc[k] = "publish" => \A n \in 1..taken[k] : changes[k][n] <= got[k]
    /\ pc[k] \in {"note", "settle"} =>
          \A n \in 1..taken[k] : changes[k][n] <= judged[k]
    /\ \A n \in 1..walked[k] : changes[k][n] <= judged[k]

CountInv == \A k \in Counted : CountOK(k)

IndInv == TypeOK /\ RoleInv /\ LockInv /\ ReadInv /\ CountInv

-----------------------------------------------------------------------------
(* What a step of thread p leaves alone: where the other threads are.       *)
ThreadTypes ==
    /\ pc \in [Procs -> Labels] /\ task \in [Procs -> Tasks]
    /\ key \in [Procs -> Keys] /\ step \in [Procs -> 1..Len(Order)]
    /\ present \in [Procs -> SUBSET Keys]
    /\ subkey \in [Writers -> BOOLEAN] /\ rerun \in [Writers -> BOOLEAN]

Alone(p) ==
    \A q \in Procs \ {p} : pc'[q] = pc[q] /\ task'[q] = task[q] /\ key'[q] = key[q]

Moved(p) == ThreadTypes' /\ Alone(p)

(* Zenon proves a leaf unless it names another prover.                      *)
USE Zenon

LEMMA OrderKeys == \A i \in 1..Len(Order) : Order[i] \in Keys
  BY KeyAssumption, SMT DEF KeyAssumption

LEMMA KeysAreKeys ==
    /\ Counted \subseteq Deferred /\ Deferred \subseteq Keys
    /\ Deferred \subseteq Procs /\ Writers \subseteq Procs /\ Boot \in Procs
    /\ Writers \cap Deferred = {} /\ Boot \notin Deferred /\ Boot \notin Writers
    /\ None \notin Procs
  BY KeyAssumption DEF KeyAssumption, Procs

LEMMA FirstKey == Order[1] \in Keys /\ 1 \in 1..Len(Order)
  BY KeyAssumption, SMT DEF KeyAssumption

LEMMA BoundTypes ==
    /\ Len(Order) \in Nat /\ Len(Order) > 0
    /\ MaxWrites \in Nat /\ MaxFaults \in Nat
  BY KeyAssumption, SMT DEF KeyAssumption

(* A thread that is done is idle, or the bootstrap is over.                 *)
LEMMA DoneMoves ==
    ASSUME TypeOK, NEW p \in Procs, Done(p)
    PROVE  /\ Moved(p)
           /\ pc'[p] = IF p = Boot THEN "done" ELSE "idle"
           /\ task'[p] = "none"
  <1>1. ThreadTypes BY DEF TypeOK, ThreadTypes
  <1>2. Order[1] \in Keys /\ 1 \in 1..Len(Order)
    BY FirstKey
  <1>3. pc'[p] = (IF p = Boot THEN "done" ELSE "idle") /\ task'[p] = "none"
    BY <1>1 DEF Done, Goto, ThreadTypes
  <1>4. Alone(p)
    BY <1>1 DEF Done, Goto, ThreadTypes, Alone
  <1>5. /\ pc' \in [Procs -> Labels] /\ task' \in [Procs -> Tasks]
        /\ key' \in [Procs -> Keys] /\ step' \in [Procs -> 1..Len(Order)]
        /\ present' \in [Procs -> SUBSET Keys]
    BY <1>1, <1>2 DEF Done, Goto, ThreadTypes, Labels, Tasks
  <1>6. subkey' \in [Writers -> BOOLEAN] /\ rerun' \in [Writers -> BOOLEAN]
    <2>1. CASE p \in Writers
      BY <2>1, <1>1 DEF Done, ThreadTypes
    <2>2. CASE p \notin Writers
      BY <2>2, <1>1 DEF Done, ThreadTypes, writeVars
    <2> QED BY <2>1, <2>2
  <1> QED BY <1>3, <1>4, <1>5, <1>6 DEF Moved, ThreadTypes

(* The bootstrap's next stage is a key to discover or the watches.          *)
LEMMA StageMoves ==
    ASSUME TypeOK, NEW p \in Procs, NextStage(p), UNCHANGED <<task, writeVars>>,
           present' \in [Procs -> SUBSET Keys]
    PROVE  Moved(p) /\ pc'[p] \in {"discover", "arm"} /\ task'[p] = task[p]
  <1>1. ThreadTypes BY DEF TypeOK, ThreadTypes
  <1>2. task' = task /\ subkey' = subkey /\ rerun' = rerun BY DEF writeVars
  <1>3. CASE step[p] < Len(Order)
    <2>1. step[p] + 1 \in 1..Len(Order) BY <1>1, <1>3, BoundTypes, SMT DEF ThreadTypes
    <2>2. Order[step[p] + 1] \in Keys BY <2>1, OrderKeys
    <2>3. /\ step' = [step EXCEPT ![p] = @ + 1]
          /\ key' = [key EXCEPT ![p] = Order[step[p] + 1]]
          /\ pc' = [pc EXCEPT ![p] = "discover"]
      BY <1>3 DEF NextStage, Goto
    <2>4. ThreadTypes' BY <1>1, <1>2, <2>1, <2>2, <2>3 DEF ThreadTypes, Labels
    <2>5. Alone(p) BY <1>1, <1>2, <2>3 DEF ThreadTypes, Alone
    <2> QED BY <1>1, <1>2, <2>3, <2>4, <2>5 DEF Moved, ThreadTypes
  <1>4. CASE ~(step[p] < Len(Order))
    <2>1. step' = step /\ key' = key /\ pc' = [pc EXCEPT ![p] = "arm"]
      BY <1>4 DEF NextStage, Goto
    <2>2. ThreadTypes' BY <1>1, <1>2, <2>1 DEF ThreadTypes, Labels
    <2>3. Alone(p) BY <1>1, <1>2, <2>1 DEF ThreadTypes, Alone
    <2> QED BY <1>1, <1>2, <2>1, <2>2, <2>3 DEF Moved, ThreadTypes
  <1> QED BY <1>3, <1>4

(* A writer re-runs the bootstrap from its first key.                       *)
LEMMA RerunMoves ==
    ASSUME TypeOK, NEW w \in Writers, Rerun(w)
    PROVE  Moved(w) /\ pc'[w] = "discover" /\ task'[w] = "boot"
  <1>1. ThreadTypes BY DEF TypeOK, ThreadTypes
  <1>2. Order[1] \in Keys BY FirstKey
  <1>3. w \in Procs BY KeysAreKeys
  <1>4. /\ task' = [task EXCEPT ![w] = "boot"] /\ key' = [key EXCEPT ![w] = Order[1]]
        /\ rerun' = [rerun EXCEPT ![w] = FALSE] /\ pc' = [pc EXCEPT ![w] = "discover"]
        /\ subkey' = subkey /\ step' = step /\ present' = present
    BY DEF Rerun, Goto, bootVars
  <1>5. ThreadTypes' BY <1>1, <1>2, <1>3, <1>4 DEF ThreadTypes, Labels, Tasks
  <1>6. Alone(w) BY <1>1, <1>4 DEF ThreadTypes, Alone
  <1> QED BY <1>1, <1>3, <1>4, <1>5, <1>6 DEF Moved, ThreadTypes

(* After an event a writer re-runs the bootstrap or returns.                *)
LEMMA EventMoves ==
    ASSUME TypeOK, NEW w \in Writers, NextEvent(w)
    PROVE  Moved(w) /\ pc'[w] \in {"discover", "idle"} /\ task'[w] \in {"boot", "none"}
  <1>1. w \in Procs /\ w # Boot BY KeysAreKeys
  <1>2. CASE rerun[w] BY <1>2, RerunMoves DEF NextEvent
  <1>3. CASE ~rerun[w] BY <1>1, <1>3, DoneMoves DEF NextEvent
  <1> QED BY <1>2, <1>3

(* After a refresh: a bootstrap goes on, a writer's call too, a work item   *)
(* is done or has its count to settle.                                      *)
LEMMA RefreshedMoves ==
    ASSUME TypeOK, NEW p \in Procs, RoleOK(p), pc[p] # "idle",
           NEW good, Refreshed(p, good)
    PROVE  /\ Moved(p)
           /\ \/ /\ p \notin Deferred
                 /\ pc'[p] \in {"discover", "arm", "fallback", "idle"}
                 /\ task'[p] \in {"boot", "none"}
              \/ p \in Deferred /\ pc'[p] = "idle" /\ task'[p] = "none"
              \/ /\ p \in Counted /\ pc'[p] = "settle" /\ task'[p] = "work"
                 /\ key'[p] = p
  <1>1. ThreadTypes BY DEF TypeOK, ThreadTypes
  <1>2. CASE task[p] = "boot"
    <2>1. p \notin Deferred BY <1>2 DEF RoleOK
    <2>2. task' = task /\ UNCHANGED writeVars /\ present' = present
      BY <1>2 DEF Refreshed
    <2>3. CASE NextStage(p)
      BY <2>1, <2>2, <2>3, <1>1, <1>2, StageMoves DEF ThreadTypes
    <2>4. CASE Goto(p, "fallback") /\ UNCHANGED <<step, key>>
      <3>1. /\ pc' = [pc EXCEPT ![p] = "fallback"] /\ step' = step /\ key' = key
            /\ subkey' = subkey /\ rerun' = rerun
        BY <2>2, <2>4 DEF Goto, writeVars
      <3>2. ThreadTypes' BY <1>1, <2>2, <3>1 DEF ThreadTypes, Labels
      <3>3. Alone(p) BY <1>1, <2>2, <3>1 DEF ThreadTypes, Alone
      <3> QED BY <1>1, <1>2, <2>1, <2>2, <3>1, <3>2, <3>3 DEF Moved, ThreadTypes
    <2> QED BY <1>2, <2>3, <2>4 DEF Refreshed
  <1>3. CASE task[p] = "event"
    <2>1. p \in Writers /\ p \notin Deferred BY <1>3, KeysAreKeys DEF RoleOK
    <2>2. NextEvent(p) BY <1>3 DEF Refreshed
    <2> QED BY <2>1, <2>2, EventMoves
  <1>4. CASE task[p] = "work" /\ key[p] \notin Counted
    <2>1. p \in Deferred /\ p # Boot BY <1>4, KeysAreKeys DEF RoleOK
    <2>2. Done(p) BY <1>4 DEF Refreshed
    <2> QED BY <2>1, <2>2, DoneMoves
  <1>5. CASE task[p] = "work" /\ key[p] \in Counted
    <2>1. p \in Deferred /\ key[p] = p BY <1>5 DEF RoleOK
    <2>2. /\ pc' = [pc EXCEPT ![p] = "settle"] /\ task' = task /\ key' = key
          /\ subkey' = subkey /\ rerun' = rerun /\ step' = step /\ present' = present
      BY <1>5 DEF Refreshed, Goto, writeVars, bootVars
    <2>3. ThreadTypes' BY <1>1, <2>2 DEF ThreadTypes, Labels
    <2>4. Alone(p) BY <1>1, <2>2 DEF ThreadTypes, Alone
    <2> QED BY <1>1, <1>5, <2>1, <2>2, <2>3, <2>4 DEF Moved, ThreadTypes
  <1> QED BY <1>2, <1>3, <1>4, <1>5 DEF Refreshed

-----------------------------------------------------------------------------
(* The types no thread of its own carries.                                  *)
StoreTypes ==
    /\ content \in [Keys -> Nat]
    /\ writes \in 0..MaxWrites /\ faults \in 0..MaxFaults
    /\ armed \subseteq Keys /\ fallback \in BOOLEAN
    /\ mutex \in [Keys -> Procs \cup {None}]
    /\ inforce \in [Keys -> Nat] /\ judged \in [Keys -> Nat]
    /\ table \in [Counted -> Nat] /\ ingest \in [Counted -> BOOLEAN]
    /\ pending \in [Deferred -> BOOLEAN] /\ timer \in [Deferred -> 0..2]
    /\ noted \in [Counted -> Nat] /\ walked \in [Counted -> Nat]
    /\ taken \in [Counted -> Nat]
    /\ changes \in [Counted -> Seq(Nat)]
    /\ \A k \in Counted : Len(changes[k]) = noted[k]
    /\ got \in [Procs -> Nat]
    /\ ok \in [Procs -> BOOLEAN] /\ contextOk \in [Procs -> BOOLEAN]

LEMMA TypeParts == (TypeOK <=> ThreadTypes /\ StoreTypes) /\ (TypeOK' <=> ThreadTypes' /\ StoreTypes')
  BY DEF TypeOK, ThreadTypes, StoreTypes

(* One more failure stays within the bound.                                 *)
LEMMA FaultType ==
    ASSUME faults \in 0..MaxFaults, UNCHANGED faults \/ Fault
    PROVE  faults' \in 0..MaxFaults
  BY BoundTypes, SMT DEF Fault

(* A step that moves one thread keeps every other thread's role.            *)
LEMMA OthersKeepRoles ==
    ASSUME RoleInv, NEW p \in Procs, Alone(p), RoleOK(p)'
    PROVE  RoleInv'
  <1> SUFFICES ASSUME NEW q \in Procs PROVE RoleOK(q)'
    BY DEF RoleInv
  <1>1. CASE q = p BY <1>1
  <1>2. CASE q # p
    <2>1. pc'[q] = pc[q] /\ task'[q] = task[q] /\ key'[q] = key[q]
      BY <1>2 DEF Alone
    <2>2. RoleOK(q) BY DEF RoleInv
    <2> QED BY <2>1, <2>2 DEF RoleOK
  <1> QED BY <1>1, <1>2

(* A thread that stands at none of the refresh's own labels keeps the locks,*)
(* readings and counts as they are, though the keys may have changed and    *)
(* defaults may have been restored.                                         *)
LEMMA Elsewhere ==
    ASSUME IndInv, TypeOK', NEW p \in Procs, Alone(p),
           pc'[p] \notin {"publish", "note", "settle"},
           \A q \in Procs \ {p} : got'[q] = got[q],
           \A k \in Keys : content[k] <= content'[k],
           \A k \in Keys : inforce'[k] = inforce[k] \/ inforce'[k] = 0,
           UNCHANGED <<mutex, table, judged, countVars, walked, taken>>
    PROVE  LockInv' /\ ReadInv' /\ CountInv'
  <1> USE KeysAreKeys
  <1>0. TypeOK /\ RoleInv /\ LockInv /\ ReadInv /\ CountInv BY DEF IndInv
  <1>a. /\ mutex' = mutex /\ table' = table /\ judged' = judged
        /\ noted' = noted /\ changes' = changes /\ walked' = walked /\ taken' = taken
    BY DEF countVars
  <1>b. /\ content \in [Keys -> Nat] /\ content' \in [Keys -> Nat]
        /\ inforce \in [Keys -> Nat] /\ inforce' \in [Keys -> Nat]
        /\ table \in [Counted -> Nat] /\ got \in [Procs -> Nat]
        /\ judged \in [Keys -> Nat] /\ key \in [Procs -> Keys]
        /\ noted \in [Counted -> Nat] /\ changes \in [Counted -> Seq(Nat)]
        /\ \A k \in Counted : Len(changes[k]) = noted[k]
    BY <1>0 DEF TypeOK
  <1>1. LockInv'
    <2> SUFFICES ASSUME NEW q \in Procs, pc'[q] = "publish", key'[q] \in Deferred
                 PROVE  mutex'[key'[q]] = q
      BY DEF LockInv
    <2>1. q # p OBVIOUS
    <2>2. pc[q] = "publish" /\ key'[q] = key[q] BY <2>1 DEF Alone
    <2> QED BY <1>0, <1>a, <2>2 DEF LockInv
  <1>2. ReadInv'
    <2>1. ASSUME NEW k \in Keys PROVE inforce'[k] <= content'[k]
      <3>1. inforce[k] <= content[k] /\ content[k] <= content'[k]
        BY <1>0 DEF ReadInv
      <3>2. inforce'[k] = inforce[k] \/ inforce'[k] = 0 OBVIOUS
      <3>3. inforce[k] \in Nat /\ content[k] \in Nat /\ content'[k] \in Nat
        BY <1>b
      <3>4. inforce[k] <= content'[k] BY <3>1, <3>3, LeTrans
      <3>5. 0 <= content'[k] BY <3>3, NatOrder
      <3> QED BY <3>2, <3>4, <3>5
    <2>2. ASSUME NEW k \in Counted PROVE table'[k] <= content'[k]
      <3>1. table[k] <= content[k] /\ content[k] <= content'[k]
        BY <1>0 DEF ReadInv
      <3>2. table[k] \in Nat /\ content[k] \in Nat /\ content'[k] \in Nat
        BY <1>b
      <3> QED BY <1>a, <3>1, <3>2, LeTrans
    <2>3. ASSUME NEW q \in Procs, pc'[q] = "publish"
          PROVE  /\ key'[q] \in Deferred => inforce'[key'[q]] <= got'[q]
                 /\ key'[q] \in Counted => table'[key'[q]] <= got'[q]
                 /\ got'[q] <= content'[key'[q]]
      <3>1. q # p BY <2>3
      <3>2. pc[q] = "publish" /\ key'[q] = key[q] /\ got'[q] = got[q]
        BY <2>3, <3>1 DEF Alone
      <3>3. /\ key[q] \in Deferred => inforce[key[q]] <= got[q]
            /\ key[q] \in Counted => table[key[q]] <= got[q]
            /\ got[q] <= content[key[q]]
        BY <1>0, <3>2 DEF ReadInv
      <3>4. key[q] \in Keys BY <1>b
      <3>5. /\ content[key[q]] <= content'[key[q]]
            /\ inforce'[key[q]] = inforce[key[q]] \/ inforce'[key[q]] = 0
        BY <3>4
      <3>6. /\ got[q] \in Nat /\ content[key[q]] \in Nat
            /\ content'[key[q]] \in Nat
        BY <1>b, <3>4
      <3>7. got[q] <= content'[key[q]]
        <4>1. got[q] <= content[key[q]] /\ content[key[q]] <= content'[key[q]]
          BY <3>3, <3>5
        <4> QED BY <3>6, <4>1, SMT
      <3>8. key[q] \in Deferred => inforce'[key[q]] <= got[q]
        <4>1. 0 <= got[q] BY <3>6, NatOrder
        <4> QED BY <3>3, <3>5, <4>1
      <3> QED BY <1>a, <3>2, <3>3, <3>7, <3>8
    <2> QED BY <2>1, <2>2, <2>3 DEF ReadInv
  <1>3. CountInv'
    <2> SUFFICES ASSUME NEW k \in Counted PROVE CountOK(k)'
      BY DEF CountInv
    <2>1. CountOK(k) /\ k \in Procs /\ k \in Keys
      BY <1>0 DEF CountInv
    <2>2. ASSUME NEW n \in 1..noted[k] PROVE changes[k][n] <= content'[k]
      <3>1. changes[k][n] <= content[k] /\ content[k] <= content'[k]
        BY <2>1 DEF CountOK
      <3>2. changes[k] \in Seq(Nat) /\ n \in 1..Len(changes[k])
        BY <1>b
      <3>3. changes[k][n] \in Nat BY <3>2, NatElements
      <3>4. content[k] \in Nat /\ content'[k] \in Nat BY <1>b, <2>1
      <3> QED BY <3>1, <3>3, <3>4, LeTrans
    <2>3. k = p \/ (pc'[k] = pc[k] /\ got'[k] = got[k])
      BY <2>1 DEF Alone
    <2>4. CASE k = p
      BY <1>a, <2>1, <2>2, <2>4 DEF CountOK
    <2>5. CASE pc'[k] = pc[k] /\ got'[k] = got[k]
      BY <1>a, <2>1, <2>2, <2>5 DEF CountOK
    <2> QED BY <2>3, <2>4, <2>5
  <1> QED BY <1>1, <1>2, <1>3

-----------------------------------------------------------------------------
(* A write commits: its key's content does not shrink.                      *)
LEMMA CommitStep ==
    ASSUME IndInv, NEW w \in Writers, NEW k \in Keys, Commit(w, k)
    PROVE  IndInv'
  <1> USE KeysAreKeys
  <1>0. TypeOK /\ RoleInv BY DEF IndInv
  <1>1. ThreadTypes /\ StoreTypes BY <1>0, TypeParts
  <1>2. w \in Procs OBVIOUS
  <1>3. /\ key' = [key EXCEPT ![w] = k] /\ pc' = [pc EXCEPT ![w] = "dispatch"]
        /\ task' = task /\ rerun' = rerun /\ step' = step /\ present' = present
        /\ subkey' \in [Writers -> BOOLEAN]
    BY <1>1 DEF Commit, Goto, bootVars, ThreadTypes
  <1>4. ThreadTypes' BY <1>1, <1>3 DEF ThreadTypes, Labels
  <1>5. content' \in [Keys -> Nat] /\ \A j \in Keys : content[j] <= content'[j]
    <2>1. content \in [Keys -> Nat] BY <1>1 DEF StoreTypes
    <2>2. content' = [content EXCEPT ![k] = @ + 1] \/ content' = content
      BY DEF Commit
    <2> QED BY <2>1, <2>2, SMT
  <1>6. writes' \in 0..MaxWrites
    BY <1>1, BoundTypes, SMT DEF Commit, StoreTypes
  <1>7. /\ faults' = faults /\ armed' = armed /\ fallback' = fallback
        /\ mutex' = mutex /\ inforce' = inforce /\ table' = table /\ judged' = judged
        /\ pending' = pending /\ timer' = timer /\ noted' = noted
        /\ changes' = changes /\ walked' = walked /\ ingest' = ingest
        /\ got' = got /\ ok' = ok /\ contextOk' = contextOk /\ taken' = taken
    BY DEF Commit, watchVars, forceVars, queueVars, countVars, walkVars
  <1>8. StoreTypes' BY <1>1, <1>5, <1>6, <1>7 DEF StoreTypes
  <1>9. TypeOK' BY <1>4, <1>8, TypeParts
  <1>10. Alone(w) BY <1>1, <1>3 DEF ThreadTypes, Alone
  <1>11. pc'[w] = "dispatch" /\ task'[w] = task[w] /\ w \notin Deferred /\ w \notin Counted
    BY <1>1, <1>2, <1>3 DEF ThreadTypes
  <1>12. RoleOK(w)' BY <1>0, <1>2, <1>11 DEF RoleInv, RoleOK
  <1>13. RoleInv' BY <1>0, <1>2, <1>10, <1>12, OthersKeepRoles
  <1>14. LockInv' /\ ReadInv' /\ CountInv'
    BY <1>2, <1>5, <1>7, <1>9, <1>10, <1>11, Elsewhere DEF countVars
  <1> QED BY <1>9, <1>13, <1>14 DEF IndInv

(* What the steps between the refreshes leave alone.                        *)
LEMMA QuietStep ==
    ASSUME IndInv, NEW p \in Procs, Moved(p), RoleOK(p)',
           pc'[p] \notin {"publish", "note", "settle"},
           faults' \in 0..MaxFaults, armed' \subseteq Keys, fallback' \in BOOLEAN,
           inforce' \in [Keys -> Nat],
           \A k \in Keys : inforce'[k] = inforce[k] \/ inforce'[k] = 0,
           timer' \in [Deferred -> 0..2],
           UNCHANGED <<treeVars, mutex, table, judged, pending, countVars, walked,
                       ingest, walkVars, taken>>
    PROVE  IndInv'
  <1>0. TypeOK /\ RoleInv BY DEF IndInv
  <1>1. ThreadTypes /\ StoreTypes BY <1>0, TypeParts
  <1>2. /\ content' = content /\ writes' = writes /\ mutex' = mutex
        /\ table' = table /\ judged' = judged /\ pending' = pending
        /\ noted' = noted /\ changes' = changes /\ walked' = walked
        /\ ingest' = ingest /\ got' = got /\ ok' = ok /\ contextOk' = contextOk
        /\ taken' = taken
    BY DEF treeVars, countVars, walkVars
  <1>3. StoreTypes' BY <1>1, <1>2 DEF StoreTypes
  <1>4. TypeOK' /\ Alone(p) BY <1>3, TypeParts DEF Moved
  <1>5. RoleInv' BY <1>0, <1>4, OthersKeepRoles
  <1>6. \A k \in Keys : content[k] <= content'[k] BY <1>1, <1>2, NatOrder DEF StoreTypes
  <1>7. LockInv' /\ ReadInv' /\ CountInv'
    BY <1>2, <1>4, <1>6, Elsewhere DEF countVars
  <1> QED BY <1>4, <1>5, <1>7 DEF IndInv

(* The events are collected and their delivery begins.                      *)
LEMMA DispatchStep ==
    ASSUME IndInv, NEW w \in Writers, Dispatch(w)
    PROVE  IndInv'
  <1> USE KeysAreKeys
  <1>0. TypeOK /\ RoleInv BY DEF IndInv
  <1>1. ThreadTypes /\ StoreTypes BY <1>0, TypeParts
  <1>2. w \in Procs /\ w # Boot /\ w \notin Deferred /\ w \notin Counted OBVIOUS
  <1>3. UNCHANGED faults \/ Fault BY DEF Dispatch
  <1>4. faults' \in 0..MaxFaults BY <1>1, <1>3, FaultType DEF StoreTypes
  <1>5. /\ UNCHANGED <<treeVars, mutex, table, judged, pending, countVars, walked,
                       ingest, walkVars, taken>>
        /\ armed' = armed /\ fallback' = fallback /\ inforce' = inforce /\ timer' = timer
    BY DEF Dispatch, watchVars, forceVars, queueVars
  <1>6. /\ armed' \subseteq Keys /\ fallback' \in BOOLEAN /\ inforce' \in [Keys -> Nat]
        /\ timer' \in [Deferred -> 0..2]
    BY <1>1, <1>5 DEF StoreTypes
  <1>7. PICK mine \in BOOLEAN, again \in BOOLEAN :
          \/ /\ mine
             /\ rerun' = [rerun EXCEPT ![w] = again]
             /\ IF key[w] \in Deferred
                THEN Goto(w, "note change") /\ UNCHANGED task
                ELSE Goto(w, "lock") /\ task' = [task EXCEPT ![w] = "event"]
             /\ UNCHANGED <<key, subkey, bootVars>>
          \/ ~mine /\ again /\ Rerun(w)
          \/ ~mine /\ ~again /\ Done(w)
    BY DEF Dispatch
  <1>8. /\ Moved(w) /\ pc'[w] \notin {"publish", "note", "settle"}
        /\ RoleOK(w)'
    <2>1. CASE Rerun(w)
      <3>1. Moved(w) /\ pc'[w] = "discover" /\ task'[w] = "boot"
        BY <1>0, <2>1, RerunMoves
      <3> QED BY <1>2, <3>1 DEF RoleOK
    <2>2. CASE Done(w)
      <3>1. Moved(w) /\ pc'[w] = "idle" /\ task'[w] = "none"
        BY <1>0, <1>2, <2>2, DoneMoves
      <3> QED BY <1>2, <3>1 DEF RoleOK
    <2>3. CASE /\ rerun' = [rerun EXCEPT ![w] = again]
               /\ key[w] \in Deferred
               /\ Goto(w, "note change") /\ UNCHANGED task
               /\ UNCHANGED <<key, subkey, bootVars>>
      <3>1. /\ pc' = [pc EXCEPT ![w] = "note change"] /\ task' = task /\ key' = key
            /\ subkey' = subkey /\ step' = step /\ present' = present
        BY <2>3 DEF Goto, bootVars
      <3>2. ThreadTypes' BY <1>1, <2>3, <3>1 DEF ThreadTypes, Labels
      <3>3. Alone(w) BY <1>1, <3>1 DEF ThreadTypes, Alone
      <3>4. pc'[w] = "note change" BY <1>1, <1>2, <3>1 DEF ThreadTypes
      <3>5. RoleOK(w)' BY <1>0, <1>2, <2>3, <3>1, <3>4 DEF RoleInv, RoleOK
      <3> QED BY <3>2, <3>3, <3>4, <3>5 DEF Moved
    <2>4. CASE /\ rerun' = [rerun EXCEPT ![w] = again]
               /\ Goto(w, "lock") /\ task' = [task EXCEPT ![w] = "event"]
               /\ UNCHANGED <<key, subkey, bootVars>>
      <3>1. /\ pc' = [pc EXCEPT ![w] = "lock"] /\ key' = key
            /\ subkey' = subkey /\ step' = step /\ present' = present
        BY <2>4 DEF Goto, bootVars
      <3>2. ThreadTypes' BY <1>1, <2>4, <3>1 DEF ThreadTypes, Labels, Tasks
      <3>3. Alone(w) BY <1>1, <2>4, <3>1 DEF ThreadTypes, Alone
      <3>4. pc'[w] = "lock" /\ task'[w] = "event"
        BY <1>1, <1>2, <2>4, <3>1 DEF ThreadTypes
      <3>5. RoleOK(w)' BY <1>2, <3>4 DEF RoleOK
      <3> QED BY <3>2, <3>3, <3>4, <3>5 DEF Moved
    <2> QED BY <1>7, <2>1, <2>2, <2>3, <2>4
  <1> QED BY <1>2, <1>4, <1>5, <1>6, <1>8, QuietStep

(* The work item is queued, and the writer goes on.                         *)
LEMMA QueueStep ==
    ASSUME IndInv, NEW w \in Writers, Queue(w)
    PROVE  IndInv'
  <1> USE KeysAreKeys
  <1>0. TypeOK /\ RoleInv BY DEF IndInv
  <1>1. ThreadTypes /\ StoreTypes BY <1>0, TypeParts
  <1>2. w \in Procs /\ w \notin Deferred /\ w \notin Counted OBVIOUS
  <1>3. key[w] \in Deferred BY <1>0, <1>2 DEF Queue, RoleInv, RoleOK
  <1>4. Requeue(key[w]) \in 0..2 BY <1>1, <1>3, SMT DEF Requeue, StoreTypes
  <1>5. timer' \in [Deferred -> 0..2] BY <1>1, <1>4 DEF Queue, StoreTypes
  <1>6. /\ UNCHANGED <<treeVars, mutex, table, judged, pending, countVars, walked,
                       ingest, walkVars, taken>>
        /\ armed' = armed /\ fallback' = fallback /\ inforce' = inforce
        /\ faults' = faults
    BY DEF Queue, watchVars, forceVars
  <1>7. /\ armed' \subseteq Keys /\ fallback' \in BOOLEAN /\ inforce' \in [Keys -> Nat]
        /\ faults' \in 0..MaxFaults
    BY <1>1, <1>6 DEF StoreTypes
  <1>8. Moved(w) /\ pc'[w] \in {"discover", "idle"} /\ task'[w] \in {"boot", "none"}
    BY <1>0, EventMoves DEF Queue
  <1>9. RoleOK(w)' BY <1>2, <1>8 DEF RoleOK
  <1> QED BY <1>2, <1>5, <1>6, <1>7, <1>8, <1>9, QuietStep

(* A key is looked up: only a bootstrap does that, and no work item is one. *)
LEMMA DiscoverStep ==
    ASSUME IndInv, NEW p \in Procs, Discover(p)
    PROVE  IndInv'
  <1> USE KeysAreKeys
  <1>0. TypeOK /\ RoleInv BY DEF IndInv
  <1>1. ThreadTypes /\ StoreTypes BY <1>0, TypeParts
  <1>2. pc[p] = "discover" BY DEF Discover
  <1>3. RoleOK(p) /\ p \notin Deferred /\ p \notin Counted
    BY <1>0, <1>2 DEF RoleInv, RoleOK
  <1>4. UNCHANGED faults \/ Fault BY DEF Discover
  <1>5. faults' \in 0..MaxFaults BY <1>1, <1>4, FaultType DEF StoreTypes
  <1>6. /\ UNCHANGED <<treeVars, mutex, table, judged, pending, countVars, walked,
                       ingest, walkVars, taken>>
        /\ armed' = armed /\ fallback' = fallback /\ inforce' = inforce /\ timer' = timer
    BY DEF Discover, watchVars, forceVars, queueVars
  <1>7. /\ armed' \subseteq Keys /\ fallback' \in BOOLEAN /\ inforce' \in [Keys -> Nat]
        /\ timer' \in [Deferred -> 0..2]
    BY <1>1, <1>6 DEF StoreTypes
  <1>8. /\ Moved(p) /\ pc'[p] \in {"lock", "reset", "discover", "arm", "fallback", "idle", "done"}
        /\ task'[p] = task[p] \/ task'[p] = "none"
    <2>1. CASE /\ present' = [present EXCEPT ![p] = @ \cup {key[p]}]
               /\ Goto(p, "lock")
               /\ UNCHANGED <<faults, task, key, writeVars, step>>
      <3>1. /\ pc' = [pc EXCEPT ![p] = "lock"] /\ task' = task /\ key' = key
            /\ subkey' = subkey /\ rerun' = rerun /\ step' = step
        BY <2>1 DEF Goto, writeVars
      <3>2. key[p] \in Keys BY <1>1 DEF ThreadTypes
      <3>3. ThreadTypes' BY <1>1, <2>1, <3>1, <3>2 DEF ThreadTypes, Labels
      <3>4. Alone(p) BY <1>1, <3>1 DEF ThreadTypes, Alone
      <3> QED BY <1>1, <3>1, <3>3, <3>4 DEF Moved, ThreadTypes
    <2>2. CASE Goto(p, "reset") /\ UNCHANGED <<step, key, task, writeVars, present>>
      <3>1. /\ pc' = [pc EXCEPT ![p] = "reset"] /\ task' = task /\ key' = key
            /\ subkey' = subkey /\ rerun' = rerun /\ step' = step /\ present' = present
        BY <2>2 DEF Goto, writeVars
      <3>3. ThreadTypes' BY <1>1, <3>1 DEF ThreadTypes, Labels
      <3>4. Alone(p) BY <1>1, <3>1 DEF ThreadTypes, Alone
      <3> QED BY <1>1, <3>1, <3>3, <3>4 DEF Moved, ThreadTypes
    <2>3. CASE NextStage(p) /\ UNCHANGED <<task, writeVars, present>>
      <3>1. present' \in [Procs -> SUBSET Keys] BY <1>1, <2>3 DEF ThreadTypes
      <3>2. Moved(p) /\ pc'[p] \in {"discover", "arm"} /\ task'[p] = task[p]
        BY <1>0, <2>3, <3>1, StageMoves
      <3> QED BY <3>2
    <2>4. CASE Goto(p, "fallback") /\ UNCHANGED <<task, key, writeVars, bootVars>>
      <3>1. /\ pc' = [pc EXCEPT ![p] = "fallback"] /\ task' = task /\ key' = key
            /\ subkey' = subkey /\ rerun' = rerun /\ step' = step /\ present' = present
        BY <2>4 DEF Goto, writeVars, bootVars
      <3>3. ThreadTypes' BY <1>1, <3>1 DEF ThreadTypes, Labels
      <3>4. Alone(p) BY <1>1, <3>1 DEF ThreadTypes, Alone
      <3> QED BY <1>1, <3>1, <3>3, <3>4 DEF Moved, ThreadTypes
    <2>5. CASE Done(p)
      BY <1>0, <2>5, DoneMoves
    <2>6. \/ /\ present' = [present EXCEPT ![p] = @ \cup {key[p]}]
             /\ Goto(p, "lock")
             /\ UNCHANGED <<faults, task, key, writeVars, step>>
          \/ Goto(p, "reset") /\ UNCHANGED <<step, key, task, writeVars, present>>
          \/ NextStage(p) /\ UNCHANGED <<task, writeVars, present>>
          \/ Goto(p, "fallback") /\ UNCHANGED <<task, key, writeVars, bootVars>>
          \/ Done(p)
      BY DEF Discover
    <2> QED BY <2>1, <2>2, <2>3, <2>4, <2>5, <2>6
  <1>9. RoleOK(p)' BY <1>3, <1>8 DEF RoleOK
  <1> QED BY <1>5, <1>6, <1>7, <1>8, <1>9, QuietStep

(* The defaults are restored.                                               *)
LEMMA ResetStep ==
    ASSUME IndInv, NEW p \in Procs, Reset(p)
    PROVE  IndInv'
  <1> USE KeysAreKeys
  <1>0. TypeOK /\ RoleInv BY DEF IndInv
  <1>1. ThreadTypes /\ StoreTypes BY <1>0, TypeParts
  <1>2. pc[p] = "reset" BY DEF Reset
  <1>3. RoleOK(p) /\ p \notin Deferred /\ p \notin Counted
    BY <1>0, <1>2 DEF RoleInv, RoleOK
  <1>4. inforce' \in [Keys -> Nat]
    BY <1>1 DEF Reset, StoreTypes
  <1>5. \A k \in Keys : inforce'[k] = inforce[k] \/ inforce'[k] = 0
    BY <1>1 DEF Reset, StoreTypes
  <1>6. /\ UNCHANGED <<treeVars, mutex, table, judged, pending, countVars, walked,
                       ingest, walkVars, taken>>
        /\ armed' = armed /\ fallback' = fallback /\ timer' = timer /\ faults' = faults
    BY DEF Reset, watchVars, queueVars
  <1>7. /\ armed' \subseteq Keys /\ fallback' \in BOOLEAN /\ faults' \in 0..MaxFaults
        /\ timer' \in [Deferred -> 0..2]
    BY <1>1, <1>6 DEF StoreTypes
  <1>8. present' \in [Procs -> SUBSET Keys] BY <1>1 DEF Reset, ThreadTypes
  <1>9. Moved(p) /\ pc'[p] \in {"discover", "arm"} /\ task'[p] = task[p]
    BY <1>0, <1>8, StageMoves DEF Reset
  <1>10. RoleOK(p)' BY <1>3, <1>9 DEF RoleOK
  <1> QED BY <1>4, <1>5, <1>6, <1>7, <1>9, <1>10, QuietStep

(* The watches are armed, and the bootstrap is over.                        *)
LEMMA ArmStep ==
    ASSUME IndInv, NEW p \in Procs, ArmFull(p)
    PROVE  IndInv'
  <1> USE KeysAreKeys
  <1>0. TypeOK /\ RoleInv BY DEF IndInv
  <1>1. ThreadTypes /\ StoreTypes BY <1>0, TypeParts
  <1>2. pc[p] \in {"arm", "fallback"} BY DEF ArmFull
  <1>3. RoleOK(p) /\ p \notin Deferred /\ p \notin Counted
    BY <1>0, <1>2 DEF RoleInv, RoleOK
  <1>4. UNCHANGED faults \/ Fault BY DEF ArmFull
  <1>5. faults' \in 0..MaxFaults BY <1>1, <1>4, FaultType DEF StoreTypes
  <1>6. armed' \subseteq Keys /\ fallback' \in BOOLEAN
    BY <1>1 DEF ArmFull, ThreadTypes
  <1>7. /\ UNCHANGED <<treeVars, mutex, table, judged, pending, countVars, walked,
                       ingest, walkVars, taken>>
        /\ inforce' = inforce /\ timer' = timer
    BY DEF ArmFull, forceVars, queueVars
  <1>8. inforce' \in [Keys -> Nat] /\ timer' \in [Deferred -> 0..2]
    BY <1>1, <1>7 DEF StoreTypes
  <1>9. Moved(p) /\ pc'[p] \in {"idle", "done"} /\ task'[p] = "none"
    BY <1>0, DoneMoves DEF ArmFull
  <1>10. RoleOK(p)' BY <1>3, <1>9 DEF RoleOK
  <1> QED BY <1>5, <1>6, <1>7, <1>8, <1>9, <1>10, QuietStep

-----------------------------------------------------------------------------
(* A change is noted with the content it is about.                          *)
LEMMA NoteStep ==
    ASSUME IndInv, NEW w \in Writers, Note(w)
    PROVE  IndInv'
  <1> USE KeysAreKeys
  <1>0. TypeOK /\ RoleInv /\ LockInv /\ ReadInv /\ CountInv BY DEF IndInv
  <1>1. ThreadTypes /\ StoreTypes BY <1>0, TypeParts
  <1>2. w \in Procs /\ w \notin Deferred /\ w \notin Counted OBVIOUS
  <1>3. key[w] \in Deferred BY <1>0, <1>2 DEF Note, RoleInv, RoleOK
  <1>4. /\ content' = content /\ writes' = writes /\ faults' = faults
        /\ armed' = armed /\ fallback' = fallback /\ mutex' = mutex
        /\ inforce' = inforce /\ table' = table /\ judged' = judged
        /\ timer' = timer /\ walked' = walked /\ ingest' = ingest /\ task' = task
        /\ key' = key /\ subkey' = subkey /\ rerun' = rerun /\ step' = step
        /\ present' = present /\ got' = got /\ ok' = ok /\ contextOk' = contextOk
        /\ taken' = taken /\ pc' = [pc EXCEPT ![w] = "queue"]
    BY DEF Note, treeVars, watchVars, forceVars, writeVars, bootVars, walkVars, Goto
  <1>5. ThreadTypes' /\ Alone(w) /\ pc'[w] = "queue"
    BY <1>1, <1>2, <1>4 DEF ThreadTypes, Alone, Labels
  <1>6. pending' \in [Deferred -> BOOLEAN]
    BY <1>1, <1>3 DEF Note, StoreTypes
  <1>7. ASSUME key[w] \in Counted PROVE StoreTypes' /\ CountInv'
    <2> DEFINE k == key[w]
    <2>1. /\ noted' = [noted EXCEPT ![k] = @ + 1]
          /\ changes' = [changes EXCEPT ![k] = Append(@, content[k])]
      BY <1>7 DEF Note
    <2>2. /\ noted \in [Counted -> Nat] /\ changes \in [Counted -> Seq(Nat)]
          /\ content \in [Keys -> Nat]
          /\ \A j \in Counted : Len(changes[j]) = noted[j]
      BY <1>1 DEF StoreTypes
    <2>3. content[k] \in Nat /\ changes[k] \in Seq(Nat) /\ noted[k] \in Nat
      BY <2>2, <1>7
    <2>4. /\ Append(changes[k], content[k]) \in Seq(Nat)
          /\ Len(Append(changes[k], content[k])) = Len(changes[k]) + 1
          /\ Append(changes[k], content[k])[Len(changes[k]) + 1] = content[k]
          /\ \A n \in 1..Len(changes[k]) : Append(changes[k], content[k])[n] = changes[k][n]
      BY <2>3, AppendFacts
    <2>5. /\ noted'[k] = noted[k] + 1 /\ changes'[k] = Append(changes[k], content[k])
          /\ \A j \in Counted : j # k => noted'[j] = noted[j] /\ changes'[j] = changes[j]
      BY <1>7, <2>1, <2>2
    <2>6. noted' \in [Counted -> Nat]
      <3>1. noted[k] + 1 \in Nat BY <2>3, NatOrder
      <3> QED BY <2>1, <2>2, <3>1
    <2>7. changes' \in [Counted -> Seq(Nat)]
      BY <2>1, <2>2, <2>4
    <2>8. \A j \in Counted : Len(changes'[j]) = noted'[j]
      BY <1>7, <2>2, <2>4, <2>5
    <2>9. StoreTypes' BY <1>1, <1>4, <1>6, <2>6, <2>7, <2>8 DEF StoreTypes
    <2>10. ASSUME NEW j \in Counted PROVE CountOK(j)'
      <3>1. CountOK(j) /\ j # w /\ j \in Procs BY <1>0 DEF CountInv
      <3>2. pc'[j] = pc[j] BY <1>5, <3>1 DEF Alone
      <3>3. CASE j # k
        BY <1>4, <2>5, <3>1, <3>2, <3>3 DEF CountOK
      <3>4. CASE j = k
        <4>1. taken[j] \in Nat /\ walked[j] \in Nat BY <1>1 DEF StoreTypes
        <4>2. taken'[j] <= noted'[j] /\ walked'[j] <= noted'[j]
          <5>1. taken[j] <= noted[j] /\ walked[j] <= noted[j] BY <3>1 DEF CountOK
          <5>2. noted[j] <= noted[j] + 1 /\ noted[j] + 1 \in Nat /\ noted[j] \in Nat
            BY <2>3, <3>4, NatOrder
          <5>3. taken[j] <= noted[j] + 1 /\ walked[j] <= noted[j] + 1
            BY <4>1, <5>1, <5>2, LeTrans
          <5> QED BY <1>4, <2>5, <3>4, <5>3
        <4>3. \A n \in 1..noted[j] : changes'[j][n] = changes[j][n]
          BY <2>2, <2>4, <2>5, <3>4
        <4>4. 1..taken[j] \subseteq 1..noted[j] /\ 1..walked[j] \subseteq 1..noted[j]
          BY <2>3, <3>1, <3>4, <4>1, NatOrder DEF CountOK
        <4>5. ASSUME NEW n \in 1..noted'[j] PROVE changes'[j][n] <= content'[j]
          <5>1. n \in 1..noted[j] \/ n = noted[j] + 1
            BY <2>3, <2>5, <3>4, <4>5, LastOfRange
          <5>2. CASE n \in 1..noted[j]
            BY <1>4, <3>1, <4>3, <5>2 DEF CountOK
          <5>3. CASE n = noted[j] + 1
            <6>1. changes'[j][n] = content[j]
              BY <2>2, <2>4, <2>5, <3>4, <5>3
            <6> QED BY <1>4, <2>3, <3>4, <6>1, NatOrder
          <5> QED BY <5>1, <5>2, <5>3
        <4> QED BY <1>4, <3>1, <3>2, <4>2, <4>3, <4>4, <4>5 DEF CountOK
      <3> QED BY <3>3, <3>4
    <2> QED BY <2>9, <2>10 DEF CountInv
  <1>8. ASSUME key[w] \notin Counted PROVE StoreTypes' /\ CountInv'
    <2>1. noted' = noted /\ changes' = changes BY <1>8 DEF Note, countVars
    <2>2. StoreTypes' BY <1>1, <1>4, <1>6, <2>1 DEF StoreTypes
    <2>3. ASSUME NEW j \in Counted PROVE CountOK(j)'
      <3>1. CountOK(j) /\ j # w /\ j \in Procs BY <1>0 DEF CountInv
      <3>2. pc'[j] = pc[j] BY <1>5, <3>1 DEF Alone
      <3> QED BY <1>4, <2>1, <3>1, <3>2 DEF CountOK
    <2> QED BY <2>2, <2>3 DEF CountInv
  <1>9. StoreTypes' /\ CountInv' BY <1>7, <1>8
  <1>10. TypeOK' BY <1>5, <1>9, TypeParts
  <1>11. RoleOK(w)'
    BY <1>0, <1>2, <1>3, <1>4, <1>5 DEF RoleInv, RoleOK
  <1>12. RoleInv' BY <1>0, <1>2, <1>5, <1>11, OthersKeepRoles
  <1>13. \A q \in Procs : pc'[q] = "publish" => pc[q] = "publish"
    BY <1>5 DEF Alone
  <1>14. LockInv' BY <1>0, <1>4, <1>13 DEF LockInv
  <1>15. ReadInv' BY <1>0, <1>4, <1>13 DEF ReadInv
  <1> QED BY <1>9, <1>10, <1>12, <1>14, <1>15 DEF IndInv

(* A key is read, a deferred one under its mutex: what is read is no older  *)
(* than what is in force, or than any change noted.                         *)
LEMMA WalkStep ==
    ASSUME IndInv, NEW p \in Procs, Walk(p)
    PROVE  IndInv'
  <1> USE KeysAreKeys
  <1>0. TypeOK /\ RoleInv /\ LockInv /\ ReadInv /\ CountInv BY DEF IndInv
  <1>1. ThreadTypes /\ StoreTypes BY <1>0, TypeParts
  <1>2. /\ content' = content /\ writes' = writes
        /\ armed' = armed /\ fallback' = fallback
        /\ inforce' = inforce /\ table' = table /\ judged' = judged
        /\ pending' = pending /\ timer' = timer /\ noted' = noted
        /\ changes' = changes /\ walked' = walked /\ ingest' = ingest /\ task' = task
        /\ key' = key /\ subkey' = subkey /\ rerun' = rerun /\ step' = step
        /\ present' = present /\ taken' = taken /\ pc' = [pc EXCEPT ![p] = "publish"]
        /\ got' = [got EXCEPT ![p] = content[key[p]]]
    BY DEF Walk, treeVars, watchVars, forceVars, queueVars, countVars, writeVars,
           bootVars, Goto
  <1>3. ThreadTypes' /\ Alone(p) /\ pc'[p] = "publish"
    BY <1>1, <1>2 DEF ThreadTypes, Alone, Labels
  <1>4. key[p] \in Keys BY <1>1 DEF ThreadTypes
  <1>5. content[key[p]] \in Nat BY <1>1, <1>4 DEF StoreTypes
  <1>6. /\ got' \in [Procs -> Nat] /\ got'[p] = content[key[p]]
        /\ \A q \in Procs \ {p} : got'[q] = got[q]
    BY <1>1, <1>2, <1>5 DEF StoreTypes
  <1>7. UNCHANGED faults \/ Fault BY DEF Walk
  <1>8. faults' \in 0..MaxFaults BY <1>1, <1>7, FaultType DEF StoreTypes
  <1>9. ok' \in [Procs -> BOOLEAN] /\ contextOk' \in [Procs -> BOOLEAN]
    <2>1. PICK good \in BOOLEAN, context \in BOOLEAN :
             ok' = [ok EXCEPT ![p] = good] /\ contextOk' = [contextOk EXCEPT ![p] = context]
      BY DEF Walk
    <2>2. ok \in [Procs -> BOOLEAN] /\ contextOk \in [Procs -> BOOLEAN]
      BY <1>1 DEF StoreTypes
    <2> QED BY <2>1, <2>2
  <1>10. \/ mutex' = mutex /\ key[p] \notin Deferred
         \/ /\ key[p] \in Deferred /\ mutex[key[p]] = None
            /\ mutex' = [mutex EXCEPT ![key[p]] = p]
    BY DEF Walk
  <1>11. mutex' \in [Keys -> Procs \cup {None}]
    <2>1. mutex \in [Keys -> Procs \cup {None}] /\ p \in Procs \cup {None}
      BY <1>1 DEF StoreTypes
    <2> QED BY <1>10, <2>1
  <1>12. StoreTypes'
    BY <1>1, <1>2, <1>6, <1>8, <1>9, <1>11 DEF StoreTypes
  <1>13. TypeOK' BY <1>3, <1>12, TypeParts
  <1>14. pc[p] = "lock" BY DEF Walk
  <1>15. RoleOK(p)'
    BY <1>0, <1>2, <1>3, <1>14 DEF RoleInv, RoleOK
  <1>16. RoleInv' BY <1>0, <1>3, <1>15, OthersKeepRoles
  <1>17. LockInv'
    <2> SUFFICES ASSUME NEW q \in Procs, pc'[q] = "publish", key[q] \in Deferred
                 PROVE  mutex'[key[q]] = q
      BY <1>2 DEF LockInv
    <2>1. key[q] \in Keys /\ mutex \in [Keys -> Procs \cup {None}]
      BY <1>1 DEF ThreadTypes, StoreTypes
    <2>2. CASE q = p BY <1>10, <2>1, <2>2
    <2>3. CASE q # p
      <3>1. pc[q] = "publish" BY <1>3, <2>3 DEF Alone
      <3>2. mutex[key[q]] = q /\ q # None BY <1>0, <3>1 DEF LockInv
      <3> QED BY <1>10, <2>1, <3>2
    <2> QED BY <2>2, <2>3
  <1>18. ReadInv'
    <2>1. \A k \in Keys : inforce'[k] <= content'[k]
      BY <1>0, <1>2 DEF ReadInv
    <2>2. \A k \in Counted : table'[k] <= content'[k]
      BY <1>0, <1>2 DEF ReadInv
    <2>3. ASSUME NEW q \in Procs, pc'[q] = "publish"
          PROVE  /\ key'[q] \in Deferred => inforce'[key'[q]] <= got'[q]
                 /\ key'[q] \in Counted => table'[key'[q]] <= got'[q]
                 /\ got'[q] <= content'[key'[q]]
      <3>1. CASE q = p
        <4>1. got'[q] <= content'[key'[q]] BY <1>2, <1>5, <1>6, <3>1, NatOrder
        <4> QED BY <1>2, <1>4, <1>6, <2>1, <2>2, <3>1, <4>1
      <3>2. CASE q # p
        <4>1. pc[q] = "publish" BY <1>3, <2>3, <3>2 DEF Alone
        <4> QED BY <1>0, <1>2, <1>6, <3>2, <4>1 DEF ReadInv
      <3> QED BY <3>1, <3>2
    <2> QED BY <2>1, <2>2, <2>3 DEF ReadInv
  <1>19. CountInv'
    <2> SUFFICES ASSUME NEW k \in Counted PROVE CountOK(k)'
      BY DEF CountInv
    <2>1. CountOK(k) /\ k \in Procs BY <1>0 DEF CountInv
    <2>2. CASE k = p
      <3>1. key[p] = p BY <1>0, <1>14, <2>2 DEF RoleInv, RoleOK
      <3>2. 1..taken[k] \subseteq 1..noted[k]
        BY <1>1, <2>1, NatOrder DEF CountOK, StoreTypes
      <3>3. \A n \in 1..taken[k] : changes'[k][n] <= got'[k]
        BY <1>2, <1>6, <2>1, <2>2, <3>1, <3>2 DEF CountOK
      <3>4. pc'[k] \notin {"note", "settle"} BY <1>3, <2>2
      <3> QED BY <1>2, <2>1, <3>3, <3>4 DEF CountOK
    <2>3. CASE k # p
      <3>1. pc'[k] = pc[k] /\ got'[k] = got[k]
        BY <1>3, <1>6, <2>1, <2>3 DEF Alone
      <3> QED BY <1>2, <2>1, <3>1 DEF CountOK
    <2> QED BY <2>2, <2>3
  <1> QED BY <1>13, <1>16, <1>17, <1>18, <1>19 DEF IndInv

(* The role a thread has after a refresh.                                   *)
LEMMA RefreshedRole ==
    ASSUME NEW p \in Procs,
           \/ /\ p \notin Deferred
              /\ pc'[p] \in {"discover", "arm", "fallback", "idle"}
              /\ task'[p] \in {"boot", "none"}
           \/ p \in Deferred /\ pc'[p] = "idle" /\ task'[p] = "none"
           \/ /\ p \in Counted /\ pc'[p] = "settle" /\ task'[p] = "work"
              /\ key'[p] = p
    PROVE  RoleOK(p)' /\ pc'[p] \notin {"publish", "note"}
  BY KeysAreKeys DEF RoleOK

(* What was read is put in force or refused, and the mutex is released.     *)
LEMMA PublishStep ==
    ASSUME IndInv, NEW p \in Procs, Publish(p)
    PROVE  IndInv'
  <1> USE KeysAreKeys
  <1> DEFINE k == key[p]
  <1>0. TypeOK /\ RoleInv /\ LockInv /\ ReadInv /\ CountInv BY DEF IndInv
  <1>1. ThreadTypes /\ StoreTypes BY <1>0, TypeParts
  <1>2. pc[p] = "publish" BY DEF Publish
  <1>3. RoleOK(p) /\ k \in Keys BY <1>0, <1>1 DEF RoleInv, ThreadTypes
  <1>4. /\ content' = content /\ writes' = writes /\ faults' = faults
        /\ armed' = armed /\ fallback' = fallback
        /\ pending' = pending /\ timer' = timer /\ noted' = noted
        /\ changes' = changes /\ walked' = walked /\ ingest' = ingest
        /\ taken' = taken
    BY DEF Publish, treeVars, watchVars, queueVars, countVars
  <1>5. /\ inforce' = inforce \/ inforce' = [inforce EXCEPT ![k] = got[p]]
        /\ \/ table' = table
           \/ k \in Counted /\ table' = [table EXCEPT ![k] = got[p]]
        /\ judged' = [judged EXCEPT ![k] = Larger(@, got[p])]
        /\ \/ mutex[k] = p /\ mutex' = [mutex EXCEPT ![k] = None]
           \/ mutex' = mutex
    BY DEF Publish
  <1>6. /\ got[p] \in Nat /\ judged[k] \in Nat /\ content[k] \in Nat
        /\ inforce \in [Keys -> Nat] /\ table \in [Counted -> Nat]
        /\ judged \in [Keys -> Nat] /\ mutex \in [Keys -> Procs \cup {None}]
        /\ got \in [Procs -> Nat]
    BY <1>1, <1>3 DEF StoreTypes
  <1>7. /\ Larger(judged[k], got[p]) \in Nat /\ judged[k] <= Larger(judged[k], got[p])
        /\ got[p] <= Larger(judged[k], got[p])
    BY <1>6, SMT DEF Larger
  <1>8. /\ judged' \in [Keys -> Nat] /\ judged'[k] = Larger(judged[k], got[p])
        /\ \A j \in Keys : j # k => judged'[j] = judged[j]
    BY <1>3, <1>5, <1>6, <1>7
  <1>9. ASSUME NEW j \in Keys PROVE judged[j] <= judged'[j]
    <2>1. CASE j = k BY <1>7, <1>8, <2>1
    <2>2. CASE j # k BY <1>6, <1>8, <2>2, NatOrder
    <2> QED BY <2>1, <2>2
  <1>10. /\ inforce' \in [Keys -> Nat] /\ table' \in [Counted -> Nat]
         /\ mutex' \in [Keys -> Procs \cup {None}]
    BY <1>5, <1>6
  <1>11. \/ /\ k \in Counted /\ pc' = [pc EXCEPT ![p] = "note"]
            /\ UNCHANGED <<task, key, writeVars, bootVars, got, ok, contextOk>>
         \/ /\ k \notin Counted /\ Refreshed(p, Accepted(p))
            /\ got' = [got EXCEPT ![p] = 0] /\ ok' = [ok EXCEPT ![p] = TRUE]
            /\ contextOk' = contextOk
    BY DEF Publish, Goto
  <1>12. /\ Moved(p) /\ RoleOK(p)'
         /\ pc'[p] # "publish" /\ (k \in Counted => pc'[p] = "note")
         /\ k \notin Counted => pc'[p] # "note"
    <2>1. CASE /\ k \in Counted /\ pc' = [pc EXCEPT ![p] = "note"]
               /\ UNCHANGED <<task, key, writeVars, bootVars, got, ok, contextOk>>
      <3>1. /\ task' = task /\ key' = key /\ subkey' = subkey /\ rerun' = rerun
            /\ step' = step /\ present' = present
        BY <2>1 DEF writeVars, bootVars
      <3>2. ThreadTypes' /\ Alone(p) /\ pc'[p] = "note"
        BY <1>1, <2>1, <3>1 DEF ThreadTypes, Alone, Labels
      <3>3. RoleOK(p)' BY <1>2, <1>3, <2>1, <3>1, <3>2 DEF RoleOK
      <3> QED BY <2>1, <3>2, <3>3 DEF Moved
    <2>2. CASE k \notin Counted /\ Refreshed(p, Accepted(p))
      <3>1. pc[p] # "idle" BY <1>2
      <3> DEFINE good == Accepted(p)
      <3>2. Refreshed(p, good) BY <2>2
      <3> HIDE DEF good
      <3>3. /\ Moved(p)
            /\ \/ /\ p \notin Deferred
                  /\ pc'[p] \in {"discover", "arm", "fallback", "idle"}
                  /\ task'[p] \in {"boot", "none"}
               \/ p \in Deferred /\ pc'[p] = "idle" /\ task'[p] = "none"
               \/ /\ p \in Counted /\ pc'[p] = "settle" /\ task'[p] = "work"
                  /\ key'[p] = p
        BY <1>0, <1>3, <3>1, <3>2, RefreshedMoves
      <3>4. RoleOK(p)' /\ pc'[p] \notin {"publish", "note"}
        BY <3>3, RefreshedRole
      <3> QED BY <2>2, <3>3, <3>4
    <2> QED BY <1>11, <2>1, <2>2
  <1>13. /\ got' \in [Procs -> Nat] /\ ok' \in [Procs -> BOOLEAN]
         /\ contextOk' \in [Procs -> BOOLEAN]
         /\ \A q \in Procs \ {p} : got'[q] = got[q]
    <2>1. ok \in [Procs -> BOOLEAN] /\ contextOk \in [Procs -> BOOLEAN]
      BY <1>1 DEF StoreTypes
    <2>2. CASE UNCHANGED <<got, ok, contextOk>> BY <1>6, <2>1, <2>2
    <2>3. CASE /\ got' = [got EXCEPT ![p] = 0] /\ ok' = [ok EXCEPT ![p] = TRUE]
               /\ contextOk' = contextOk
      BY <1>6, <2>1, <2>3
    <2> QED BY <1>11, <2>2, <2>3
  <1>14. StoreTypes'
    BY <1>1, <1>4, <1>8, <1>10, <1>13 DEF StoreTypes
  <1>15. TypeOK' BY <1>12, <1>14, TypeParts DEF Moved
  <1>16. RoleInv' BY <1>0, <1>12, OthersKeepRoles DEF Moved
  <1>17. ASSUME NEW q \in Procs, pc'[q] = "publish"
         PROVE  /\ q # p /\ pc[q] = "publish" /\ key'[q] = key[q] /\ got'[q] = got[q]
                /\ key[q] \in Keys
                /\ key[q] \in Deferred => key[q] # k
    <2>1. q # p BY <1>12, <1>17
    <2>2. pc[q] = "publish" /\ key'[q] = key[q] /\ got'[q] = got[q]
      BY <1>12, <1>13, <1>17, <2>1 DEF Moved, Alone
    <2>3. ASSUME key[q] \in Deferred, key[q] = k PROVE FALSE
      BY <1>0, <1>2, <2>1, <2>2, <2>3 DEF LockInv
    <2>4. key[q] \in Keys BY <1>1 DEF ThreadTypes
    <2> QED BY <2>1, <2>2, <2>3, <2>4
  <1>18. LockInv'
    <2> SUFFICES ASSUME NEW q \in Procs, pc'[q] = "publish", key'[q] \in Deferred
                 PROVE  mutex'[key'[q]] = q
      BY DEF LockInv
    <2>1. mutex[key[q]] = q BY <1>0, <1>17 DEF LockInv
    <2>2. mutex'[key[q]] = mutex[key[q]] BY <1>5, <1>6, <1>17
    <2> QED BY <1>17, <2>1, <2>2
  <1>19. got[p] <= content[k] BY <1>0, <1>2 DEF ReadInv
  <1>20. ReadInv'
    <2>1. ASSUME NEW j \in Keys PROVE inforce'[j] <= content'[j]
      <3>1. inforce[j] <= content[j] BY <1>0 DEF ReadInv
      <3>2. inforce'[j] = inforce[j] \/ (j = k /\ inforce'[j] = got[p])
        BY <1>5, <1>6
      <3> QED BY <1>4, <1>19, <3>1, <3>2
    <2>2. ASSUME NEW j \in Counted PROVE table'[j] <= content'[j]
      <3>1. table[j] <= content[j] BY <1>0 DEF ReadInv
      <3>2. table'[j] = table[j] \/ (j = k /\ table'[j] = got[p])
        BY <1>5, <1>6
      <3> QED BY <1>4, <1>19, <3>1, <3>2
    <2>3. ASSUME NEW q \in Procs, pc'[q] = "publish"
          PROVE  /\ key'[q] \in Deferred => inforce'[key'[q]] <= got'[q]
                 /\ key'[q] \in Counted => table'[key'[q]] <= got'[q]
                 /\ got'[q] <= content'[key'[q]]
      <3>1. /\ pc[q] = "publish" /\ key'[q] = key[q] /\ got'[q] = got[q]
            /\ key[q] \in Keys /\ (key[q] \in Deferred => key[q] # k)
        BY <1>17, <2>3
      <3>2. /\ key[q] \in Deferred => inforce[key[q]] <= got[q]
            /\ key[q] \in Counted => table[key[q]] <= got[q]
            /\ got[q] <= content[key[q]]
        BY <1>0, <3>1 DEF ReadInv
      <3>3. key[q] \in Deferred => inforce'[key[q]] = inforce[key[q]]
        BY <1>5, <1>6, <3>1
      <3>4. key[q] \in Counted => table'[key[q]] = table[key[q]]
        BY <1>5, <1>6, <3>1
      <3> QED BY <1>4, <3>1, <3>2, <3>3, <3>4
    <2> QED BY <2>1, <2>2, <2>3 DEF ReadInv
  <1>21. CountInv'
    <2> SUFFICES ASSUME NEW c \in Counted PROVE CountOK(c)'
      BY DEF CountInv
    <2>1. CountOK(c) /\ c \in Procs /\ c \in Keys BY <1>0 DEF CountInv
    <2>2. judged[c] \in Nat /\ judged'[c] \in Nat /\ judged[c] <= judged'[c]
      BY <1>6, <1>8, <1>9, <2>1
    <2>3. /\ noted[c] \in Nat /\ taken[c] \in Nat /\ walked[c] \in Nat
          /\ changes[c] \in Seq(Nat) /\ Len(changes[c]) = noted[c]
      BY <1>1 DEF StoreTypes
    <2>4. 1..taken[c] \subseteq 1..noted[c] /\ 1..walked[c] \subseteq 1..noted[c]
      BY <2>1, <2>3, NatOrder DEF CountOK
    <2>5. ASSUME NEW n \in 1..noted[c], changes[c][n] <= judged[c]
          PROVE  changes[c][n] <= judged'[c]
      <3>1. changes[c][n] \in Nat BY <2>3, <2>5, NatElements
      <3> QED BY <2>2, <2>5, <3>1, LeTrans
    <2>6. \A n \in 1..walked[c] : changes[c][n] <= judged'[c]
      BY <2>1, <2>4, <2>5 DEF CountOK
    <2>7. CASE c = p
      <3>1. key[p] = p BY <1>2, <1>3, <2>7 DEF RoleOK
      <3>2. pc'[c] = "note" BY <1>12, <2>7, <3>1
      <3>3. ASSUME NEW n \in 1..taken[c] PROVE changes[c][n] <= judged'[c]
        <4>1. changes[c][n] <= got[p] /\ n \in 1..Len(changes[c])
          BY <1>2, <2>1, <2>3, <2>4, <2>7 DEF CountOK
        <4>2. changes[c][n] \in Nat BY <2>3, <4>1, NatElements
        <4>3. got[p] <= judged'[c] BY <1>7, <1>8, <2>7, <3>1
        <4> QED BY <1>6, <2>2, <4>1, <4>2, <4>3, LeTrans
      <3>4. pc'[c] # "publish" BY <3>2
      <3> QED BY <1>4, <2>1, <2>6, <3>3, <3>4 DEF CountOK
    <2>8. CASE c # p
      <3>1. pc'[c] = pc[c] /\ got'[c] = got[c]
        BY <1>12, <1>13, <2>1, <2>8 DEF Moved, Alone
      <3>2. pc[c] \in {"note", "settle"} => \A n \in 1..taken[c] : changes[c][n] <= judged'[c]
        BY <2>1, <2>4, <2>5 DEF CountOK
      <3> QED BY <1>4, <2>1, <2>6, <3>1, <3>2 DEF CountOK
    <2> QED BY <2>7, <2>8
  <1> QED BY <1>15, <1>16, <1>18, <1>20, <1>21 DEF IndInv

(* The result of a counted key's refresh is recorded.                       *)
LEMMA NoteIngestStep ==
    ASSUME IndInv, NEW p \in Procs, NoteIngest(p)
    PROVE  IndInv'
  <1> USE KeysAreKeys
  <1>0. TypeOK /\ RoleInv /\ LockInv /\ ReadInv /\ CountInv BY DEF IndInv
  <1>1. ThreadTypes /\ StoreTypes BY <1>0, TypeParts
  <1>2. pc[p] = "note" BY DEF NoteIngest
  <1>3. RoleOK(p) /\ key[p] \in Counted BY <1>0, <1>2 DEF RoleInv, RoleOK
  <1>4. /\ content' = content /\ writes' = writes /\ faults' = faults
        /\ armed' = armed /\ fallback' = fallback /\ mutex' = mutex
        /\ inforce' = inforce /\ table' = table /\ judged' = judged
        /\ pending' = pending /\ timer' = timer /\ noted' = noted
        /\ changes' = changes /\ walked' = walked /\ taken' = taken
    BY DEF NoteIngest, treeVars, watchVars, forceVars, queueVars, countVars
  <1>5. /\ ingest' \in [Counted -> BOOLEAN] /\ got' \in [Procs -> Nat]
        /\ ok' \in [Procs -> BOOLEAN] /\ contextOk' \in [Procs -> BOOLEAN]
        /\ \A q \in Procs \ {p} : got'[q] = got[q]
    BY <1>1, <1>3 DEF NoteIngest, StoreTypes
  <1>6. /\ Moved(p)
        /\ \/ /\ p \notin Deferred
              /\ pc'[p] \in {"discover", "arm", "fallback", "idle"}
              /\ task'[p] \in {"boot", "none"}
           \/ p \in Deferred /\ pc'[p] = "idle" /\ task'[p] = "none"
           \/ /\ p \in Counted /\ pc'[p] = "settle" /\ task'[p] = "work"
              /\ key'[p] = p
    <2>1. pc[p] # "idle" /\ Refreshed(p, TRUE) BY <1>2 DEF NoteIngest
    <2> QED BY <1>0, <1>3, <2>1, RefreshedMoves
  <1>7. RoleOK(p)' /\ pc'[p] \notin {"publish", "note"} BY <1>6, RefreshedRole
  <1>8. StoreTypes' BY <1>1, <1>4, <1>5 DEF StoreTypes
  <1>9. TypeOK' /\ Alone(p) BY <1>6, <1>8, TypeParts DEF Moved
  <1>10. RoleInv' BY <1>0, <1>7, <1>9, OthersKeepRoles
  <1>11. \A q \in Procs : pc'[q] = "publish" =>
            pc[q] = "publish" /\ key'[q] = key[q] /\ got'[q] = got[q]
    BY <1>5, <1>7, <1>9 DEF Alone
  <1>12. LockInv' BY <1>0, <1>4, <1>11 DEF LockInv
  <1>13. ReadInv' BY <1>0, <1>4, <1>11 DEF ReadInv
  <1>14. ASSUME NEW c \in Counted PROVE CountOK(c)'
    <2>1. CountOK(c) /\ c \in Procs BY <1>0 DEF CountInv
    <2>2. CASE c = p
      BY <1>2, <1>4, <1>7, <2>1, <2>2 DEF CountOK
    <2>3. CASE c # p
      <3>1. pc'[c] = pc[c] /\ got'[c] = got[c] BY <1>5, <1>9, <2>1, <2>3 DEF Alone
      <3> QED BY <1>4, <2>1, <3>1 DEF CountOK
    <2> QED BY <2>2, <2>3
  <1> QED BY <1>9, <1>10, <1>12, <1>13, <1>14 DEF IndInv, CountInv

(* The count the walk started from is published.                            *)
LEMMA SettleStep ==
    ASSUME IndInv, NEW k \in Counted, Settle(k)
    PROVE  IndInv'
  <1> USE KeysAreKeys
  <1>0. TypeOK /\ RoleInv /\ LockInv /\ ReadInv /\ CountInv BY DEF IndInv
  <1>1. ThreadTypes /\ StoreTypes BY <1>0, TypeParts
  <1>2. pc[k] = "settle" /\ k \in Procs /\ k # Boot /\ k \in Deferred BY DEF Settle
  <1>3. /\ content' = content /\ writes' = writes /\ faults' = faults
        /\ armed' = armed /\ fallback' = fallback /\ mutex' = mutex
        /\ inforce' = inforce /\ table' = table /\ judged' = judged
        /\ pending' = pending /\ timer' = timer /\ noted' = noted
        /\ changes' = changes /\ ingest' = ingest
        /\ got' = got /\ ok' = ok /\ contextOk' = contextOk
        /\ walked' = [walked EXCEPT ![k] = taken[k]]
        /\ taken' = [taken EXCEPT ![k] = 0]
    BY DEF Settle, treeVars, watchVars, forceVars, queueVars, countVars, walkVars
  <1>4. Moved(k) /\ pc'[k] = "idle" /\ task'[k] = "none"
    BY <1>0, <1>2, DoneMoves DEF Settle
  <1>5. /\ walked' \in [Counted -> Nat] /\ taken' \in [Counted -> Nat]
        /\ walked'[k] = taken[k] /\ taken'[k] = 0
        /\ \A j \in Counted : j # k => walked'[j] = walked[j] /\ taken'[j] = taken[j]
    BY <1>1, <1>3 DEF StoreTypes
  <1>6. StoreTypes' BY <1>1, <1>3, <1>5 DEF StoreTypes
  <1>7. TypeOK' /\ Alone(k) BY <1>4, <1>6, TypeParts DEF Moved
  <1>8. RoleOK(k)' BY <1>2, <1>4 DEF RoleOK
  <1>9. RoleInv' BY <1>0, <1>2, <1>7, <1>8, OthersKeepRoles
  <1>10. \A q \in Procs : pc'[q] = "publish" => pc[q] = "publish" /\ key'[q] = key[q]
    BY <1>4, <1>7 DEF Alone
  <1>11. LockInv' BY <1>0, <1>3, <1>10 DEF LockInv
  <1>12. ReadInv' BY <1>0, <1>3, <1>10 DEF ReadInv
  <1>13. ASSUME NEW c \in Counted PROVE CountOK(c)'
    <2>1. CountOK(c) /\ c \in Procs BY <1>0 DEF CountInv
    <2>2. CASE c = k
      <3>1. noted[c] \in Nat BY <1>1 DEF StoreTypes
      <3>2. taken'[c] <= noted'[c]
        <4>1. 0 <= noted[c] BY <3>1, NatOrder
        <4> QED BY <1>3, <1>5, <2>2, <4>1
      <3>3. pc'[c] \notin {"publish", "note", "settle"} BY <1>4, <2>2
      <3>4. pc[c] \in {"note", "settle"} BY <1>2, <2>2
      <3> QED BY <1>3, <1>5, <2>1, <2>2, <3>2, <3>3, <3>4 DEF CountOK
    <2>3. CASE c # k
      <3>1. pc'[c] = pc[c] BY <1>7, <2>1, <2>3 DEF Alone
      <3> QED BY <1>3, <1>5, <2>1, <2>3, <3>1 DEF CountOK
    <2> QED BY <2>2, <2>3
  <1> QED BY <1>7, <1>9, <1>11, <1>12, <1>13 DEF IndInv, CountInv

(* The work item starts from the count noted so far, or finds nothing       *)
(* pending.                                                                 *)
LEMMA WorkStep ==
    ASSUME IndInv, NEW k \in Deferred, Work(k)
    PROVE  IndInv'
  <1> USE KeysAreKeys
  <1>0. TypeOK /\ RoleInv /\ LockInv /\ ReadInv /\ CountInv BY DEF IndInv
  <1>1. ThreadTypes /\ StoreTypes BY <1>0, TypeParts
  <1>2. k \in Procs /\ k \in Keys /\ k \notin Writers OBVIOUS
  <1>3. /\ content' = content /\ writes' = writes /\ faults' = faults
        /\ armed' = armed /\ fallback' = fallback /\ mutex' = mutex
        /\ inforce' = inforce /\ table' = table /\ judged' = judged
        /\ noted' = noted /\ changes' = changes /\ walked' = walked
        /\ ingest' = ingest /\ got' = got /\ ok' = ok /\ contextOk' = contextOk
        /\ subkey' = subkey /\ rerun' = rerun /\ step' = step /\ present' = present
    BY DEF Work, treeVars, watchVars, forceVars, countVars, writeVars, bootVars, walkVars
  <1>4. timer' \in [Deferred -> 0..2] BY <1>1, SMT DEF Work, StoreTypes
  <1>5. CASE pending[k]
    <2>1. /\ pending' = [pending EXCEPT ![k] = FALSE]
          /\ taken' = IF k \in Counted THEN [taken EXCEPT ![k] = noted[k]] ELSE taken
          /\ task' = [task EXCEPT ![k] = "work"]
          /\ key' = [key EXCEPT ![k] = k]
          /\ pc' = [pc EXCEPT ![k] = "lock"]
      BY <1>5 DEF Work, Goto
    <2>2. ThreadTypes' /\ Alone(k)
      BY <1>1, <1>2, <1>3, <2>1 DEF ThreadTypes, Alone, Labels, Tasks
    <2>3. pc'[k] = "lock" /\ task'[k] = "work" /\ key'[k] = k
      BY <1>1, <1>2, <2>1 DEF ThreadTypes
    <2>4. pending' \in [Deferred -> BOOLEAN] BY <1>1, <2>1 DEF StoreTypes
    <2>5. /\ taken' \in [Counted -> Nat]
          /\ \A c \in Counted : taken'[c] = taken[c] \/ (c = k /\ taken'[c] = noted[c])
      BY <1>1, <2>1 DEF StoreTypes
    <2>6. StoreTypes' BY <1>1, <1>3, <1>4, <2>4, <2>5 DEF StoreTypes
    <2>7. TypeOK' BY <2>2, <2>6, TypeParts
    <2>8. RoleOK(k)' BY <1>2, <2>3 DEF RoleOK
    <2>9. RoleInv' BY <1>0, <1>2, <2>2, <2>8, OthersKeepRoles
    <2>10. \A q \in Procs : pc'[q] = "publish" => pc[q] = "publish" /\ key'[q] = key[q]
      BY <2>2, <2>3 DEF Alone
    <2>11. LockInv' BY <1>0, <1>3, <2>10 DEF LockInv
    <2>12. ReadInv' BY <1>0, <1>3, <2>10 DEF ReadInv
    <2>13. ASSUME NEW c \in Counted PROVE CountOK(c)'
      <3>1. CountOK(c) /\ c \in Procs BY <1>0 DEF CountInv
      <3>2. noted[c] \in Nat BY <1>1 DEF StoreTypes
      <3>3. taken'[c] <= noted'[c] BY <1>3, <2>5, <3>1, <3>2, NatOrder DEF CountOK
      <3>4. CASE c = k
        <4>1. pc'[c] \notin {"publish", "note", "settle"} BY <2>3, <3>4
        <4> QED BY <1>3, <3>1, <3>3, <4>1 DEF CountOK
      <3>5. CASE c # k
        <4>1. pc'[c] = pc[c] /\ taken'[c] = taken[c]
          BY <2>2, <2>5, <3>1, <3>5 DEF Alone
        <4> QED BY <1>3, <3>1, <4>1 DEF CountOK
      <3> QED BY <3>4, <3>5
    <2> QED BY <2>7, <2>9, <2>11, <2>12, <2>13 DEF IndInv, CountInv
  <1>6. CASE ~pending[k]
    <2>1. pending' = pending /\ taken' = taken /\ task' = task /\ key' = key /\ pc' = pc
      BY <1>6 DEF Work
    <2>2. ThreadTypes' BY <1>1, <1>3, <2>1 DEF ThreadTypes
    <2>3. StoreTypes' BY <1>1, <1>3, <1>4, <2>1 DEF StoreTypes
    <2>4. TypeOK' BY <2>2, <2>3, TypeParts
    <2>5. RoleInv' BY <1>0, <2>1 DEF RoleInv, RoleOK
    <2>6. LockInv' BY <1>0, <1>3, <2>1 DEF LockInv
    <2>7. ReadInv' BY <1>0, <1>3, <2>1 DEF ReadInv
    <2>8. CountInv' BY <1>0, <1>3, <2>1 DEF CountInv, CountOK
    <2> QED BY <2>4, <2>5, <2>6, <2>7, <2>8 DEF IndInv
  <1> QED BY <1>5, <1>6

(* A window passes.                                                         *)
LEMMA TickStep ==
    ASSUME IndInv, NEW k \in Deferred, Tick(k)
    PROVE  IndInv'
  <1>1. TypeOK /\ RoleInv /\ LockInv /\ ReadInv /\ CountInv BY DEF IndInv
  <1>2. /\ content' = content /\ writes' = writes /\ faults' = faults
        /\ armed' = armed /\ fallback' = fallback /\ mutex' = mutex
        /\ inforce' = inforce /\ table' = table /\ judged' = judged
        /\ pending' = pending /\ noted' = noted /\ changes' = changes
        /\ walked' = walked /\ ingest' = ingest /\ pc' = pc /\ task' = task
        /\ key' = key /\ subkey' = subkey /\ rerun' = rerun /\ step' = step
        /\ present' = present /\ got' = got /\ ok' = ok /\ contextOk' = contextOk
        /\ taken' = taken
    BY DEF Tick, treeVars, watchVars, forceVars, countVars, writeVars, bootVars, walkVars
  <1>3. timer' \in [Deferred -> 0..2] BY <1>1, SMT DEF Tick, TypeOK
  <1>4. TypeOK' BY <1>1, <1>2, <1>3 DEF TypeOK
  <1>5. RoleInv' BY <1>1, <1>2 DEF RoleInv, RoleOK
  <1>6. LockInv' BY <1>1, <1>2 DEF LockInv
  <1>7. ReadInv' BY <1>1, <1>2 DEF ReadInv
  <1>8. CountInv' BY <1>1, <1>2 DEF CountInv, CountOK
  <1> QED BY <1>4, <1>5, <1>6, <1>7, <1>8 DEF IndInv

LEMMA StutterStep ==
    ASSUME IndInv, UNCHANGED vars
    PROVE  IndInv'
  <1>1. TypeOK /\ RoleInv /\ LockInv /\ ReadInv /\ CountInv BY DEF IndInv
  <1>2. /\ content' = content /\ writes' = writes /\ faults' = faults
        /\ armed' = armed /\ fallback' = fallback /\ mutex' = mutex
        /\ inforce' = inforce /\ table' = table /\ judged' = judged
        /\ pending' = pending /\ timer' = timer /\ noted' = noted
        /\ changes' = changes
        /\ walked' = walked /\ ingest' = ingest /\ pc' = pc /\ task' = task
        /\ key' = key /\ subkey' = subkey /\ rerun' = rerun /\ step' = step
        /\ present' = present /\ got' = got /\ ok' = ok /\ contextOk' = contextOk
        /\ taken' = taken
    BY DEF vars, treeVars, watchVars, forceVars, queueVars, countVars, writeVars,
           bootVars, walkVars
  <1>4. TypeOK' BY <1>1, <1>2 DEF TypeOK
  <1>5. RoleInv' BY <1>1, <1>2 DEF RoleInv, RoleOK
  <1>6. LockInv' BY <1>1, <1>2 DEF LockInv
  <1>7. ReadInv' BY <1>1, <1>2 DEF ReadInv
  <1>8. CountInv' BY <1>1, <1>2 DEF CountInv, CountOK
  <1> QED BY <1>4, <1>5, <1>6, <1>7, <1>8 DEF IndInv

-----------------------------------------------------------------------------
(* A source registers with some of its keys, and nothing is in force.       *)
LEMMA InitInv == Init => IndInv
  <1> SUFFICES ASSUME Init PROVE IndInv
    OBVIOUS
  <1> USE KeysAreKeys
  <1>1. content \in [Keys -> Nat] BY SMT DEF Init
  <1>2. Order[1] \in Keys /\ 1 \in 1..Len(Order) BY FirstKey
  <1>3. writes \in 0..MaxWrites /\ faults \in 0..MaxFaults
    BY BoundTypes, SMT DEF Init
  <1>4. /\ armed \subseteq Keys /\ fallback \in BOOLEAN
        /\ mutex \in [Keys -> Procs \cup {None}]
        /\ inforce \in [Keys -> Nat] /\ judged \in [Keys -> Nat]
        /\ table \in [Counted -> Nat] /\ ingest \in [Counted -> BOOLEAN]
        /\ pending \in [Deferred -> BOOLEAN] /\ timer \in [Deferred -> 0..2]
    <2>1. None \in Procs \cup {None} OBVIOUS
    <2>2. mutex \in [Keys -> Procs \cup {None}] BY <2>1 DEF Init
    <2>3. /\ inforce \in [Keys -> Nat] /\ judged \in [Keys -> Nat]
          /\ table \in [Counted -> Nat] /\ timer \in [Deferred -> 0..2]
      BY SMT DEF Init
    <2>4. armed \subseteq Keys /\ fallback \in BOOLEAN BY DEF Init
    <2>5. ingest \in [Counted -> BOOLEAN] /\ pending \in [Deferred -> BOOLEAN]
      BY DEF Init
    <2> QED BY <2>2, <2>3, <2>4, <2>5
  <1>5. /\ noted \in [Counted -> Nat] /\ walked \in [Counted -> Nat]
        /\ taken \in [Counted -> Nat]
        /\ changes \in [Counted -> Seq(Nat)]
        /\ \A k \in Counted : Len(changes[k]) = noted[k]
    BY SMT DEF Init
  <1>6. /\ pc \in [Procs -> Labels] /\ task \in [Procs -> Tasks]
        /\ \A p \in Procs : pc[p] \in {"discover", "idle"} /\ task[p] \in {"boot", "none"}
        /\ \A p \in Deferred : pc[p] = "idle"
    BY DEF Init, Labels, Tasks
  <1>7. /\ subkey \in [Writers -> BOOLEAN] /\ rerun \in [Writers -> BOOLEAN]
        /\ key \in [Procs -> Keys] /\ step \in [Procs -> 1..Len(Order)]
        /\ present \in [Procs -> SUBSET Keys] /\ got \in [Procs -> Nat]
        /\ ok \in [Procs -> BOOLEAN] /\ contextOk \in [Procs -> BOOLEAN]
    BY <1>2 DEF Init
  <1>8. TypeOK BY <1>1, <1>3, <1>4, <1>5, <1>6, <1>7 DEF TypeOK
  <1>9. RoleInv BY <1>6 DEF RoleInv, RoleOK
  <1>10. \A p \in Procs : pc[p] \notin {"publish", "note", "settle"} BY <1>6
  <1>11. LockInv BY <1>10 DEF LockInv
  <1>12. /\ \A k \in Keys : inforce[k] = 0
         /\ \A k \in Counted : table[k] = 0
         /\ \A k \in Counted : noted[k] = 0 /\ walked[k] = 0 /\ taken[k] = 0
    BY DEF Init
  <1>13. ReadInv
    <2>1. \A k \in Keys : content[k] \in Nat /\ 0 <= content[k] BY <1>1, NatOrder
    <2>2. \A k \in Keys : inforce[k] <= content[k] BY <1>12, <2>1
    <2>3. \A k \in Counted : table[k] <= content[k] BY <1>12, <2>1
    <2> QED BY <1>10, <2>2, <2>3 DEF ReadInv
  <1>14. CountInv
    <2> SUFFICES ASSUME NEW k \in Counted PROVE CountOK(k)
      BY DEF CountInv
    <2>1. noted[k] = 0 /\ walked[k] = 0 /\ taken[k] = 0 /\ 1..0 = {} BY <1>12, NatOrder
    <2>2. pc[k] \notin {"publish", "note", "settle"} BY <1>10
    <2> QED BY <2>1, <2>2, NatOrder DEF CountOK
  <1> QED BY <1>8, <1>9, <1>11, <1>13, <1>14 DEF IndInv

(* Every step of every thread and work item keeps the invariant.            *)
LEMMA NextInv == IndInv /\ [Next]_vars => IndInv'
  <1> SUFFICES ASSUME IndInv, [Next]_vars PROVE IndInv'
    OBVIOUS
  <1>1. ASSUME NEW w \in Writers, NEW k \in Keys, Commit(w, k) PROVE IndInv'
    BY <1>1, CommitStep
  <1>2. ASSUME NEW p \in Procs, Step(p) PROVE IndInv'
    <2>1. CASE p \in Writers /\ Dispatch(p) BY <2>1, DispatchStep
    <2>2. CASE p \in Writers /\ Note(p) BY <2>2, NoteStep
    <2>3. CASE p \in Writers /\ Queue(p) BY <2>3, QueueStep
    <2>4. CASE Discover(p) BY <2>4, DiscoverStep
    <2>5. CASE Reset(p) BY <2>5, ResetStep
    <2>6. CASE ArmFull(p) BY <2>6, ArmStep
    <2>7. CASE Walk(p) BY <2>7, WalkStep
    <2>8. CASE Publish(p) BY <2>8, PublishStep
    <2>9. CASE NoteIngest(p) BY <2>9, NoteIngestStep
    <2>10. CASE p \in Counted /\ Settle(p) BY <2>10, SettleStep
    <2> QED BY <1>2, <2>1, <2>2, <2>3, <2>4, <2>5, <2>6, <2>7, <2>8, <2>9, <2>10 DEF Step
  <1>3. ASSUME NEW k \in Deferred, Tick(k) PROVE IndInv' BY <1>3, TickStep
  <1>4. ASSUME NEW k \in Deferred, Work(k) PROVE IndInv' BY <1>4, WorkStep
  <1>5. CASE UNCHANGED vars BY <1>5, StutterStep
  <1> QED BY <1>1, <1>2, <1>3, <1>4, <1>5 DEF Next

(* The invariant holds throughout.                                          *)
LEMMA SpecInv == Spec => []IndInv
  BY InitInv, NextInv, PTL DEF Spec

(* Type correctness, for any set of keys, writers and any bootstrap order.  *)
THEOREM KeyRefreshTypes == Spec => []TypeOK
  <1>1. IndInv => TypeOK BY DEF IndInv
  <1> QED BY <1>1, SpecInv, PTL

(* ntfe/ingest.c: whatever runs beside the work item, a change it reports   *)
(* walked was read and published or refused.                                *)
THEOREM WalkedWasRead == Spec => []WalkedMeansRead
  <1>1. IndInv => WalkedMeansRead
    <2> SUFFICES ASSUME IndInv, NEW k \in Counted
                 PROVE  /\ walked[k] <= noted[k]
                        /\ \A n \in 1..walked[k] : judged[k] >= changes[k][n]
      BY DEF WalkedMeansRead
    <2>1. CountOK(k) /\ TypeOK /\ k \in Keys
      BY KeysAreKeys DEF IndInv, CountInv
    <2>2. ASSUME NEW n \in 1..walked[k] PROVE judged[k] >= changes[k][n]
      <3>1. changes[k][n] <= judged[k] BY <2>1 DEF CountOK
      <3>2. /\ judged[k] \in Nat /\ changes[k] \in Seq(Nat)
            /\ noted[k] \in Nat /\ walked[k] \in Nat /\ Len(changes[k]) = noted[k]
        BY <2>1 DEF TypeOK
      <3>3. n \in 1..Len(changes[k]) BY <2>1, <3>2, NatOrder DEF CountOK
      <3>4. changes[k][n] \in Nat BY <3>2, <3>3, NatElements
      <3> QED BY <3>1, <3>2, <3>4
    <2> QED BY <2>1, <2>2 DEF CountOK
  <1> QED BY <1>1, SpecInv, PTL

(* One step puts no older content in force.                                 *)
LEMMA ForceStep ==
    ASSUME IndInv, [Next]_vars
    PROVE  /\ \A k \in Deferred : inforce'[k] >= inforce[k] \/ inforce'[k] = 0
           /\ \A k \in Counted : table'[k] >= table[k]
  <1> USE KeysAreKeys
  <1>0. TypeOK /\ ReadInv BY DEF IndInv
  <1>1. /\ inforce \in [Keys -> Nat] /\ table \in [Counted -> Nat]
        /\ got \in [Procs -> Nat] /\ key \in [Procs -> Keys]
    BY <1>0 DEF TypeOK
  <1>2. ASSUME inforce' = inforce \/ (\E k \in Keys : inforce' = [inforce EXCEPT ![k] = 0]),
               table' = table
        PROVE  /\ \A k \in Deferred : inforce'[k] >= inforce[k] \/ inforce'[k] = 0
               /\ \A k \in Counted : table'[k] >= table[k]
    <2>1. \A k \in Keys : inforce'[k] = inforce[k] \/ inforce'[k] = 0
      BY <1>1, <1>2
    <2> QED BY <1>1, <1>2, <2>1, NatOrder
  <1>3. ASSUME NEW p \in Procs, Publish(p)
        PROVE  /\ \A k \in Deferred : inforce'[k] >= inforce[k] \/ inforce'[k] = 0
               /\ \A k \in Counted : table'[k] >= table[k]
    <2>1. /\ key[p] \in Deferred => inforce[key[p]] <= got[p]
          /\ key[p] \in Counted => table[key[p]] <= got[p]
      BY <1>0, <1>3 DEF Publish, ReadInv
    <2>2. /\ inforce' = inforce \/ inforce' = [inforce EXCEPT ![key[p]] = got[p]]
          /\ \/ table' = table
             \/ key[p] \in Counted /\ table' = [table EXCEPT ![key[p]] = got[p]]
      BY <1>3 DEF Publish
    <2>3. got[p] \in Nat BY <1>1
    <2>4. ASSUME NEW k \in Deferred PROVE inforce'[k] >= inforce[k]
      <3>1. inforce'[k] = inforce[k] \/ (k = key[p] /\ inforce'[k] = got[p])
        BY <1>1, <2>2
      <3>2. inforce[k] \in Nat BY <1>1
      <3> QED BY <2>1, <2>3, <3>1, <3>2, NatOrder
    <2>5. ASSUME NEW k \in Counted PROVE table'[k] >= table[k]
      <3>1. table'[k] = table[k] \/ (k = key[p] /\ table'[k] = got[p])
        BY <1>1, <2>2
      <3>2. table[k] \in Nat BY <1>1
      <3> QED BY <2>1, <2>3, <3>1, <3>2, NatOrder
    <2> QED BY <2>4, <2>5
  <1>4. ASSUME NEW p \in Procs, Reset(p)
        PROVE  (\E k \in Keys : inforce' = [inforce EXCEPT ![k] = 0]) /\ table' = table
    BY <1>1, <1>4 DEF Reset
  <1>5. ASSUME NEW p \in Procs, Step(p), ~Publish(p), ~Reset(p)
        PROVE  inforce' = inforce /\ table' = table
    BY <1>5 DEF Step, Dispatch, Note, Queue, Discover, ArmFull, Walk, NoteIngest,
                       Settle, forceVars
  <1>6. ASSUME NEW w \in Writers, NEW k \in Keys, Commit(w, k)
        PROVE  inforce' = inforce /\ table' = table
    BY <1>6 DEF Commit, forceVars
  <1>7. ASSUME NEW k \in Deferred, Tick(k) \/ Work(k)
        PROVE  inforce' = inforce /\ table' = table
    BY <1>7 DEF Tick, Work, forceVars
  <1>8. CASE UNCHANGED vars
    <2>1. inforce' = inforce /\ table' = table BY <1>8 DEF vars, forceVars
    <2> QED BY <1>2, <2>1
  <1>9. CASE Next
    BY <1>2, <1>3, <1>4, <1>5, <1>6, <1>7, <1>9 DEF Next
  <1> QED BY <1>8, <1>9

(* Refreshes of one key that overlap never go back: the mutex is taken      *)
(* before the key is read.                                                  *)
THEOREM RefreshMonotone == Spec => RefreshNeverGoesBack
  <1>1. IndInv /\ [Next]_vars =>
          [/\ \A k \in Deferred : inforce'[k] >= inforce[k] \/ inforce'[k] = 0
           /\ \A k \in Counted : table'[k] >= table[k]]_vars
    BY ForceStep
  <1> QED BY <1>1, SpecInv, PTL DEF Spec, RefreshNeverGoesBack
=============================================================================
