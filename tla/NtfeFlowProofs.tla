--------------------------- MODULE NtfeFlowProofs ---------------------------
(***************************************************************************)
(* Proofs about NtfeFlow, for any number of CPUs, owners, packets and      *)
(* publications: types, the lock, that the lock-free lookup implements     *)
(* SentenceCell, that the verdict a packet is given is fresh, that the     *)
(* owners it was judged by are the recorded ones, and that every token     *)
(* reference is accounted for.                                             *)
(***************************************************************************)
EXTENDS NtfeFlow, FiniteSetTheorems, TLAPS

(* Zenon proves a leaf unless it names another prover.                      *)
USE Zenon DEF pubVars, flowVars, cellVars, ownerVars, snapVars, readVars, idVars, Goto

(* What a step of a CPU can be.                                             *)
LEMMA StepCases ==
    ASSUME NEW c \in Cpus, Step(c)
    PROVE  \/ SnapshotPolicy(c) \/ SnapshotEpoch(c) \/ Lookup(c) \/ View(c)
           \/ Attribute(c) \/ EvalFails(c) \/ Judge(c) \/ Write(c) \/ Apply(c)
  BY DEF Step

LEMMA SlotFacts ==
    /\ 0 \in Slots
    /\ \A s \in Slots : Other(s) \in Slots /\ Other(s) # s
  BY SMT DEF Slots, Other

(* How many slots hold a reference to o is a number.                        *)
LEMMA HoldersFinite ==
    ASSUME NEW T, T \subseteq Slots
    PROVE  IsFiniteSet(T)
<1>1. IsFiniteSet({0, 1})
  <2>1. IsFiniteSet({})
    BY FS_EmptySet
  <2>2. IsFiniteSet({} \cup {0})
    BY <2>1, FS_AddElement
  <2>3. IsFiniteSet(({} \cup {0}) \cup {1})
    BY <2>2, FS_AddElement
  <2>4. ({} \cup {0}) \cup {1} = {0, 1}
    OBVIOUS
  <2> QED
    BY <2>3, <2>4
<1>2. T \in SUBSET {0, 1}
  BY DEF Slots
<1> QED
  BY <1>1, <1>2, FS_Subset

LEMMA HoldersCount ==
    ASSUME NEW T, T \subseteq Slots
    PROVE  Cardinality(T) \in Nat
BY HoldersFinite, FS_CardinalityType

LEMMA TypeFacts ==
    /\ NoSentence \in Sentence
    /\ NoPolicy \in Policy
    /\ None \in Identity
    /\ Owners \subseteq Identity
  BY DEF NoSentence, NoVerdict, Sentence, Verdict, NoPolicy, Policy, Identity, Slots

LEMMA SentenceEdits ==
    ASSUME NEW s \in Sentence, NEW r \in Sentence
    PROVE  /\ [s EXCEPT !.generation = 0] \in Sentence
           /\ [s EXCEPT !.generation = r.generation] \in Sentence
           /\ [s EXCEPT !.policy_generation = r.policy_generation] \in Sentence
           /\ [s EXCEPT !.expires_at = r.expires_at] \in Sentence
           /\ [s EXCEPT !.verdict = r.verdict] \in Sentence
  BY DEF Sentence

LEMMA NatFacts == 0 \in Nat /\ \A n \in Nat : n + 1 \in Nat
  BY SMT

LEMMA TypeInit == Init => TypeOK
<1> SUFFICES ASSUME Init PROVE TypeOK
  OBVIOUS
<1>1. settled \in Seq(Nat) /\ Len(settled) = generation + 1
  BY SMT DEF Init
<1>2. refs \in [Owners -> Int]
  BY SMT DEF Init
<1> QED
  BY <1>1, <1>2, TypeFacts, SlotFacts, NatFacts DEF Init, TypeOK, Pcs

(* Each publication keeps the history as long as the counter.               *)
LEMMA TypePublish == TypeOK /\ Publish => TypeOK'
<1> SUFFICES ASSUME TypeOK, Publish PROVE TypeOK'
  OBVIOUS
<1> USE DEF TypeOK, Publish
<1>1. Settled(generation) \in Nat
  BY SMT DEF Settled
<1>2. CASE StampPolicy
  <2>1. /\ generation' \in Nat
        /\ settled' \in Seq(Nat) /\ Len(settled') = generation' + 1
    BY <1>1, <1>2, SMT DEF StampPolicy
  <2>2. publishing' \in Policy
    BY <1>2, SMT DEF StampPolicy, Policy
  <2> QED
    BY <1>2, <2>1, <2>2 DEF StampPolicy
<1>3. CASE AdvanceContext
  <2>1. /\ generation' \in Nat
        /\ settled' \in Seq(Nat) /\ Len(settled') = generation' + 1
    BY <1>3, SMT DEF AdvanceContext
  <2> QED
    BY <1>3, <2>1 DEF AdvanceContext
<1>4. CASE SwapPolicy
  BY <1>4, TypeFacts DEF SwapPolicy
<1>5. CASE SwapContext
  BY <1>5, NatFacts DEF SwapContext
<1> QED
  BY <1>2, <1>3, <1>4, <1>5

(* A lookup only ever fills its buffer with fields of sentences.            *)
LEMMA TypeLookup ==
    ASSUME TypeOK, NEW c \in Cpus, Lookup(c)
    PROVE  TypeOK'
<1>0. Other(slot[c]) \in Slots
  <2>1. slot[c] \in Slots
    BY DEF TypeOK
  <2> QED
    BY <2>1, SlotFacts
<1> USE DEF TypeOK
<1>f. UNCHANGED <<pubVars, clock, packets, flowVars, cellVars, ownerVars, snapVars, seen, idVars>>
  BY DEF Lookup
<1> DEFINE s == sentence[reading[c]]
<1>1. reading[c] \in Slots /\ s \in Sentence /\ buf[c] \in Sentence /\ version[reading[c]] \in Nat
  OBVIOUS
<1>2. ASSUME Missed(c) PROVE /\ pc' \in [Cpus -> Pcs]
                             /\ reading' \in [Cpus -> Slots]
                             /\ got' \in [Cpus -> Sentence \cup {Miss}]
                             /\ cur' \in [Cpus -> Sentence]
  BY <1>2 DEF Missed, Pcs
<1>3. ASSUME OwnSentence(c) PROVE /\ pc' \in [Cpus -> Pcs]
                                  /\ reading' \in [Cpus -> Slots]
  <2>1. CASE loopback /\ extension
    BY <1>0, <1>3, <2>1 DEF OwnSentence, Pcs
  <2>2. CASE ~(loopback /\ extension)
    BY <1>3, <2>2 DEF OwnSentence, Pcs
  <2> QED
    BY <2>1, <2>2
<1>4. CASE ReadTry(c)
  BY <1>f, <1>1, <1>2, <1>4 DEF ReadTry, Pcs
<1>5. CASE ReadGeneration(c)
  <2>1. [buf[c] EXCEPT !.generation = s.generation] \in Sentence
    BY <1>1, SentenceEdits
  <2>2. buf' \in [Cpus -> Sentence]
    BY <1>5, <2>1 DEF ReadGeneration
  <2> QED
    BY <1>f, <1>2, <1>5, <2>2 DEF ReadGeneration, Pcs
<1>6. CASE ReadPolicyGeneration(c)
  <2>1. [buf[c] EXCEPT !.policy_generation = s.policy_generation] \in Sentence
    BY <1>1, SentenceEdits
  <2>2. buf' \in [Cpus -> Sentence]
    BY <1>6, <2>1 DEF ReadPolicyGeneration
  <2> QED
    BY <1>f, <1>6, <2>2 DEF ReadPolicyGeneration, Pcs
<1>7. CASE ReadExpiresAt(c)
  <2>1. [buf[c] EXCEPT !.expires_at = s.expires_at] \in Sentence
    BY <1>1, SentenceEdits
  <2>2. buf' \in [Cpus -> Sentence]
    BY <1>7, <2>1 DEF ReadExpiresAt
  <2> QED
    BY <1>f, <1>7, <2>2 DEF ReadExpiresAt, Pcs
<1>8. CASE ReadVerdict(c)
  <2>1. [buf[c] EXCEPT !.verdict = s.verdict] \in Sentence
    BY <1>1, SentenceEdits
  <2>2. buf' \in [Cpus -> Sentence]
    BY <1>8, <2>1 DEF ReadVerdict
  <2> QED
    BY <1>f, <1>8, <2>2 DEF ReadVerdict, Pcs
<1>9. CASE ReadTorn(c)
  BY <1>f, <1>2, <1>9 DEF ReadTorn
<1>10. CASE ReadOwn(c)
  BY <1>f, <1>1, <1>3, <1>10 DEF ReadOwn, Pcs
<1>11. CASE ReadOther(c)
  BY <1>f, <1>1, <1>11 DEF ReadOther, Pcs
<1> QED
  BY <1>4, <1>5, <1>6, <1>7, <1>8, <1>9, <1>10, <1>11 DEF Lookup

(* A CPU that leaves drops its locals and its own references.               *)
LEMMA TypeLeave ==
    ASSUME TypeOK, NEW c \in Cpus, Leave(c)
    PROVE  TypeOK'
<1>1. refs' \in [Owners -> Int]
  <2>1. \A o \in Owners : Cardinality({s \in Slots : Holds(c, s, o)}) \in Nat
    <3>1. \A o \in Owners : {s \in Slots : Holds(c, s, o)} \subseteq Slots
      OBVIOUS
    <3> QED
      BY <3>1, HoldersCount
  <2>2. refs \in [Owners -> Int]
    BY DEF TypeOK
  <2>3. refs' = [o \in Owners |->
                   refs[o] - Cardinality({s \in Slots : Holds(c, s, o)})]
    BY DEF Leave
  <2> QED
    BY <2>1, <2>2, <2>3, SMT
<1> QED
  BY <1>1, TypeFacts, SlotFacts, NatFacts DEF Leave, Forget, TypeOK, Pcs

(* Identifying an endpoint counts references up and down.                   *)
LEMMA TypeAttribute ==
    ASSUME TypeOK, NEW c \in Cpus, Attribute(c)
    PROVE  TypeOK'
<1>1. ASSUME NextEnd(c)
      PROVE  end' \in [Cpus -> Slots] /\ pc' \in [Cpus -> Pcs]
  <2>1. 1 \in Slots
    BY DEF Slots
  <2> QED
    BY <1>1, <2>1 DEF NextEnd, Pcs, TypeOK
<1>2. refs \in [Owners -> Int]
  BY DEF TypeOK
<1>3. \A o \in Owners : [refs EXCEPT ![o] = @ + 1] \in [Owners -> Int]
  BY <1>2, SMT
<1>4. \A o : [refs EXCEPT ![o] = @ - 1] \in [Owners -> Int]
  <2>1. \A o \in Owners : [refs EXCEPT ![o] = @ - 1] \in [Owners -> Int]
    BY <1>2, SMT
  <2>2. ASSUME NEW o, o \notin Owners
        PROVE  [refs EXCEPT ![o] = @ - 1] = refs
    BY <1>2, <2>2
  <2> QED
    BY <1>2, <2>1, <2>2
<1> USE DEF TypeOK
<1>f. UNCHANGED <<pubVars, clock, packets, flowVars, cellVars, snapVars, readVars, cur, seen>>
  BY DEF Attribute
<1>5. end[c] \in Slots
  OBVIOUS
<1>6. \A o \in Identity :
         [ids EXCEPT ![c][end[c]] = o] \in [Cpus -> [Slots -> Identity]]
  BY <1>5
<1>q. ASSUME owner' \in [Slots -> Identity], refs' \in [Owners -> Int],
             end' \in [Cpus -> Slots], pc' \in [Cpus -> Pcs],
             ids' \in [Cpus -> [Slots -> Identity]]
      PROVE  TypeOK'
  BY <1>f, <1>q
<1>7. CASE ReadRecorded(c)
  BY <1>f, <1>1, <1>5, <1>6, <1>7 DEF ReadRecorded
<1>8. CASE ResolveAbsent(c)
  BY <1>f, <1>1, <1>8 DEF ResolveAbsent
<1>9. CASE ResolveOwner(c)
  <2>1. Candidates[end[c]] \subseteq Owners
    BY <1>5, FlowAssumption
  <2>2. PICK o \in Candidates[end[c]] :
          /\ ids' = [ids EXCEPT ![c][end[c]] = o]
          /\ refs' = [refs EXCEPT ![o] = @ + 1]
    BY <1>f, <1>9 DEF ResolveOwner
  <2>3. ids' \in [Cpus -> [Slots -> Identity]] /\ refs' \in [Owners -> Int]
    BY <1>3, <1>6, <2>1, <2>2, TypeFacts
  <2>4. CASE extension
    BY <1>f, <1>5, <1>9, <2>3, <2>4 DEF ResolveOwner, Pcs
  <2>5. CASE ~extension
    BY <1>f, <1>1, <1>9, <2>3, <2>5 DEF ResolveOwner
  <2> QED
    BY <2>4, <2>5
<1>10. CASE Record(c)
  <2>0. end' \in [Cpus -> Slots] /\ pc' \in [Cpus -> Pcs]
    BY <1>1, <1>10 DEF Record
  <2>1. ids[c][end[c]] \in Identity /\ owner[end[c]] \in Identity
    BY <1>5
  <2>2. CASE owner[end[c]] = None
    <3>1. /\ owner' = [owner EXCEPT ![end[c]] = ids[c][end[c]]]
          /\ UNCHANGED <<refs, ids>>
      BY <1>10, <2>2 DEF Record
    <3>2. owner' \in [Slots -> Identity]
      BY <2>1, <3>1
    <3> QED
      BY <1>q, <2>0, <3>1, <3>2
  <2>3. CASE owner[end[c]] # None
    <3>1. /\ refs' = [refs EXCEPT ![ids[c][end[c]]] = @ - 1]
          /\ ids' = [ids EXCEPT ![c][end[c]] = owner[end[c]]]
          /\ UNCHANGED owner
      BY <1>10, <2>3 DEF Record
    <3>2. ids' \in [Cpus -> [Slots -> Identity]]
      BY <1>6, <2>1, <3>1
    <3> HIDE DEF TypeOK
    <3>3. refs' \in [Owners -> Int]
      BY <1>4, <3>1
    <3> USE DEF TypeOK
    <3> QED
      BY <1>q, <2>0, <3>1, <3>2, <3>3
  <2> QED
    BY <2>2, <2>3
<1> QED
  BY <1>7, <1>8, <1>9, <1>10 DEF Attribute

(* A judgement is a sentence.                                               *)
LEMMA TypeJudge ==
    ASSUME TypeOK, NEW c \in Cpus, Judge(c)
    PROVE  TypeOK'
<1>1. /\ epoch[c] \in Nat /\ policy[c] \in Policy /\ now[c] \in Nat
      /\ seen[c] \in Nat /\ slot[c] \in Slots
  BY DEF TypeOK
<1>2. Judgement(c) \in Sentence
  BY <1>1, SMT DEF Judgement, Expiry, Sentence, Verdict, Policy
<1> QED
  BY <1>2, TypeFacts DEF Judge, TypeOK, Pcs

(* A write changes one field of one sentence at a time.                     *)
LEMMA TypeWrite ==
    ASSUME TypeOK, NEW c \in Cpus, Write(c)
    PROVE  TypeOK'
<1>1. /\ slot[c] \in Slots /\ sentence[slot[c]] \in Sentence
      /\ cur[c] \in Sentence /\ version[slot[c]] \in Nat
  BY DEF TypeOK
<1>2. Other(slot[c]) \in Slots
  BY <1>1, SlotFacts
<1>3. version[slot[c]] + 1 \in Nat
  BY <1>1, SMT
<1>f. UNCHANGED <<pubVars, clock, packets, flowVars, ownerVars, snapVars, start, buf,
                  got, cur, seen, idVars>>
  BY DEF Write
<1>4. ASSUME NEW from, NEW to \in Pcs, NEW s \in Sentence,
             WriteField(c, from, to, s)
      PROVE  TypeOK'
  BY <1>f, <1>1, <1>4 DEF WriteField, TypeOK
<1>5. CASE WriteBegin(c)
  BY <1>f, <1>5 DEF WriteBegin, TypeOK, Pcs
<1>6. CASE WriteEnd(c)
  <2>1. version' \in [Slots -> Nat] /\ busy' \in [Slots -> BOOLEAN]
    BY <1>1, <1>3, <1>6 DEF WriteEnd, TypeOK
  <2>2. reading' \in [Cpus -> Slots] /\ pc' \in [Cpus -> Pcs]
    <3>1. CASE loopback /\ extension
      BY <1>2, <1>6, <3>1 DEF WriteEnd, OwnSentence, TypeOK, Pcs
    <3>2. CASE ~(loopback /\ extension)
      BY <1>6, <3>2 DEF WriteEnd, OwnSentence, TypeOK, Pcs
    <3> QED
      BY <3>1, <3>2
  <2> QED
    BY <1>f, <1>6, <2>1, <2>2 DEF WriteEnd, TypeOK
<1>7. {"w_policy", "w_expires", "w_verdict", "stamp", "end"}
         \subseteq Pcs
  BY DEF Pcs
<1> QED
  BY <1>1, <1>4, <1>5, <1>6, <1>7, SentenceEdits DEF Write

LEMMA TypeStep == TypeOK /\ [Next]_vars => TypeOK'
<1> SUFFICES ASSUME TypeOK, [Next]_vars PROVE TypeOK'
  OBVIOUS
<1>1. CASE Tick
  BY <1>1, NatFacts DEF Tick, TypeOK
<1>2. CASE Destroy
  <2>1. refs' \in [Owners -> Int]
    <3>1. \A o \in Owners : {s \in Slots : owner[s] = o} \subseteq Slots
      OBVIOUS
    <3>2. \A o \in Owners : Cardinality({s \in Slots : owner[s] = o}) \in Nat
      BY <3>1, HoldersCount
    <3>3. refs \in [Owners -> Int]
      BY DEF TypeOK
    <3>4. refs' = [o \in Owners |->
                     refs[o] - Cardinality({s \in Slots : owner[s] = o})]
      BY <1>2 DEF Destroy
    <3> QED
      BY <3>2, <3>3, <3>4, SMT
  <2> QED
    BY <1>2, <2>1 DEF Destroy, TypeOK
<1>3. ASSUME NEW c \in Cpus, Step(c) PROVE TypeOK'
  <2>1. CASE SnapshotPolicy(c)
    <3>1. packets' \in Nat
      BY <2>1, NatFacts DEF SnapshotPolicy, TypeOK
    <3>2. slot' \in [Cpus -> Slots]
      BY <2>1, SlotFacts DEF SnapshotPolicy, TypeOK
    <3> QED
      BY <2>1, <3>1, <3>2 DEF SnapshotPolicy, TypeOK, Pcs
  <2>2. CASE SnapshotEpoch(c)
    BY <2>2 DEF SnapshotEpoch, TypeOK, Pcs
  <2>3. CASE View(c)
    <3>1. CASE policy[c].forest
      <4>1. /\ start' = [start EXCEPT ![c] = 0]
            /\ buf' = [buf EXCEPT ![c] = NoSentence]
            /\ got' = [got EXCEPT ![c] = Miss]
            /\ seen' = [seen EXCEPT ![c] = context]
            /\ end' = [end EXCEPT ![c] = 0]
            /\ pc' = [pc EXCEPT ![c] = "identify"]
            /\ UNCHANGED <<pubVars, clock, packets, flowVars, cellVars, ownerVars,
                           snapVars, reading, cur, ids>>
        BY <2>3, <3>1 DEF View, Forget
      <4> QED
        BY <4>1, TypeFacts, SlotFacts, NatFacts DEF TypeOK, Pcs
    <3>2. CASE ~policy[c].forest
      BY <2>3, <3>2, TypeLeave DEF View
    <3> QED
      BY <3>1, <3>2
  <2>4. CASE EvalFails(c) \/ Apply(c)
    BY <2>4, TypeLeave DEF EvalFails, Apply
  <2> QED
    BY <1>3, <2>1, <2>2, <2>3, <2>4, StepCases, TypeLookup, TypeAttribute,
       TypeJudge, TypeWrite
<1>4. CASE UNCHANGED vars
  BY <1>4 DEF vars, TypeOK
<1> QED
  BY <1>1, <1>2, <1>3, <1>4, TypePublish DEF Next

-----------------------------------------------------------------------------
(* A step of one CPU leaves the locals of every other CPU alone.            *)
Same(d) ==
    /\ pc'[d] = pc[d] /\ slot'[d] = slot[d] /\ reading'[d] = reading[d]
    /\ now'[d] = now[d] /\ policy'[d] = policy[d] /\ epoch'[d] = epoch[d]
    /\ start'[d] = start[d] /\ buf'[d] = buf[d] /\ got'[d] = got[d]
    /\ cur'[d] = cur[d] /\ seen'[d] = seen[d] /\ end'[d] = end[d]
    /\ ids'[d] = ids[d]

LEMMA OthersSame ==
    ASSUME TypeOK, NEW c \in Cpus, NEW d \in Cpus, d # c, Step(c)
    PROVE  Same(d)
<1>1. CASE SnapshotPolicy(c)
  BY <1>1 DEF SnapshotPolicy, Same, TypeOK
<1>2. CASE SnapshotEpoch(c)
  BY <1>2 DEF SnapshotEpoch, Same, TypeOK
<1>3. ASSUME Leave(c) PROVE Same(d)
  BY <1>3 DEF Leave, Forget, Same, TypeOK
<1>4. CASE Lookup(c)
  <2>f. UNCHANGED <<snapVars, seen, idVars>>
    BY <1>4 DEF Lookup
  <2>1. ASSUME Missed(c), UNCHANGED <<start, buf>> PROVE Same(d)
    BY <2>f, <2>1 DEF Missed, Same, TypeOK
  <2>2. CASE ReadTry(c)
    BY <2>f, <2>1, <2>2 DEF ReadTry, Same, TypeOK
  <2>3. CASE ReadGeneration(c)
    BY <2>f, <2>1, <2>3 DEF ReadGeneration, Same, TypeOK
  <2>4. CASE ReadPolicyGeneration(c)
    BY <2>f, <2>4 DEF ReadPolicyGeneration, Same, TypeOK
  <2>5. CASE ReadExpiresAt(c)
    BY <2>f, <2>5 DEF ReadExpiresAt, Same, TypeOK
  <2>6. CASE ReadVerdict(c)
    BY <2>f, <2>6 DEF ReadVerdict, Same, TypeOK
  <2>7. CASE ReadTorn(c)
    BY <2>1, <2>7 DEF ReadTorn
  <2>8. CASE ReadOwn(c)
    <3>1. ASSUME OwnSentence(c)
          PROVE  pc'[d] = pc[d] /\ reading'[d] = reading[d]
      BY <3>1 DEF OwnSentence, TypeOK
    <3>2. pc'[d] = pc[d] /\ reading'[d] = reading[d] /\ cur'[d] = cur[d]
      BY <2>8, <3>1 DEF ReadOwn, TypeOK
    <3>3. got'[d] = got[d] /\ UNCHANGED <<start, buf>>
      BY <2>8 DEF ReadOwn, TypeOK
    <3> QED
      BY <2>f, <3>2, <3>3 DEF Same
  <2>9. CASE ReadOther(c)
    BY <2>f, <2>9 DEF ReadOther, Same, TypeOK
  <2> QED
    BY <1>4, <2>2, <2>3, <2>4, <2>5, <2>6, <2>7, <2>8, <2>9 DEF Lookup
<1>5. CASE View(c)
  <2>1. CASE policy[c].forest
    <3>1. /\ seen' = [seen EXCEPT ![c] = context]
          /\ Forget(c)
          /\ end' = [end EXCEPT ![c] = 0]
          /\ pc' = [pc EXCEPT ![c] = "identify"]
          /\ UNCHANGED <<snapVars, reading, cur, ids>>
      BY <1>5, <2>1 DEF View
    <3> QED
      BY <3>1 DEF Forget, Same, TypeOK
  <2> QED
    BY <1>3, <1>5, <2>1 DEF View
<1>6. CASE Attribute(c)
  <2>f. UNCHANGED <<snapVars, readVars, cur, seen>>
    BY <1>6 DEF Attribute
  <2>1. ASSUME NextEnd(c) PROVE pc'[d] = pc[d] /\ end'[d] = end[d]
    BY <2>1 DEF NextEnd, TypeOK
  <2>2. CASE ReadRecorded(c)
    BY <2>f, <2>1, <2>2 DEF ReadRecorded, Same, TypeOK
  <2>3. CASE ResolveAbsent(c)
    BY <2>f, <2>1, <2>3 DEF ResolveAbsent, Same, TypeOK
  <2>4. CASE ResolveOwner(c)
    BY <2>f, <2>1, <2>4 DEF ResolveOwner, Same, TypeOK
  <2>5. CASE Record(c)
    BY <2>f, <2>1, <2>5 DEF Record, Same, TypeOK
  <2> QED
    BY <1>6, <2>2, <2>3, <2>4, <2>5 DEF Attribute
<1>7. CASE EvalFails(c) \/ Apply(c)
  BY <1>3, <1>7 DEF EvalFails, Apply
<1>8. CASE Judge(c)
  BY <1>8 DEF Judge, Same, TypeOK
<1>9. CASE Write(c)
  <2>f. UNCHANGED <<snapVars, start, buf, got, cur, seen, idVars>>
    BY <1>9 DEF Write
  <2>1. ASSUME NEW from, NEW to, NEW s, WriteField(c, from, to, s)
        PROVE  Same(d)
    BY <2>f, <2>1 DEF WriteField, Same, TypeOK
  <2>2. CASE WriteBegin(c)
    BY <2>f, <2>2 DEF WriteBegin, Same, TypeOK
  <2>3. CASE WriteEnd(c)
    BY <2>f, <2>3 DEF WriteEnd, OwnSentence, Same, TypeOK
  <2> QED
    BY <1>9, <2>1, <2>2, <2>3 DEF Write
<1> QED
  BY <1>1, <1>2, <1>4, <1>5, <1>6, <1>7, <1>8, <1>9, StepCases

(* Only a write touches the slots, their sequence counts and the lock.      *)
LEMMA CellSame ==
    ASSUME NEW c \in Cpus, Step(c), ~Write(c)
    PROVE  UNCHANGED cellVars
<1>1. ASSUME Leave(c) PROVE UNCHANGED cellVars
  BY <1>1 DEF Leave
<1> QED
  BY <1>1, StepCases DEF SnapshotPolicy, SnapshotEpoch, Lookup, View,
     Attribute, EvalFails, Judge, Apply

-----------------------------------------------------------------------------
(* The lock is held exactly through a write, and the open write is the one  *)
(* of the lock's holder.                                                    *)
Writing == {"clear", "w_policy", "w_expires", "w_verdict", "stamp", "end"}

LockInv ==
    /\ \A c \in Cpus : pc[c] \in Writing => lock = c
    /\ lock \in Cpus => pc[lock] \in Writing /\ busy[slot[lock]]
    /\ \A s \in Slots : busy[s] => lock \in Cpus /\ slot[lock] = s

LEMMA NotWriting ==
    ASSUME TypeOK, NEW c \in Cpus, Step(c), ~Write(c)
    PROVE  pc[c] \notin Writing /\ pc'[c] \notin Writing
<1>p. pc \in [Cpus -> Pcs]
  BY DEF TypeOK
<1>1. CASE SnapshotPolicy(c)
  BY <1>p, <1>1 DEF SnapshotPolicy, Writing
<1>2. CASE SnapshotEpoch(c)
  <2>1. pc[c] = "epoch" /\ (pc'[c] = "try" \/ pc'[c] = "view")
    BY <1>p, <1>2 DEF SnapshotEpoch
  <2> QED
    BY <2>1 DEF Writing
<1>3. ASSUME Leave(c) PROVE pc'[c] \notin Writing
  BY <1>p, <1>3 DEF Leave, Writing
<1>4. CASE Lookup(c)
  <2>1. ASSUME Missed(c) PROVE pc'[c] \in {"view", "final"}
    BY <1>p, <2>1 DEF Missed
  <2>2. ASSUME OwnSentence(c) PROVE pc'[c] \in {"try", "final"}
    BY <1>p, <2>2 DEF OwnSentence
  <2>3. pc[c] \in {"try", "generation", "policy_generation", "expires_at",
                   "verdict", "retry"}
    BY <1>4 DEF Lookup, ReadTry, ReadGeneration, ReadPolicyGeneration,
       ReadExpiresAt, ReadVerdict, ReadTorn, ReadOwn, ReadOther
  <2>4. pc'[c] \in {"view", "final", "try", "generation", "policy_generation",
                    "expires_at", "verdict", "retry"}
    <3>1. CASE ReadTry(c) \/ ReadGeneration(c)
      BY <1>p, <2>1, <3>1 DEF ReadTry, ReadGeneration
    <3>2. CASE ReadPolicyGeneration(c) \/ ReadExpiresAt(c) \/ ReadVerdict(c)
      BY <1>p, <3>2 DEF ReadPolicyGeneration, ReadExpiresAt, ReadVerdict
    <3>3. CASE ReadTorn(c) \/ ReadOwn(c) \/ ReadOther(c)
      BY <1>p, <2>1, <2>2, <3>3 DEF ReadTorn, ReadOwn, ReadOther
    <3> QED
      BY <1>4, <3>1, <3>2, <3>3 DEF Lookup
  <2> QED
    BY <2>3, <2>4 DEF Writing
<1>5. CASE View(c)
  <2>1. pc[c] = "view"
    BY <1>5 DEF View
  <2>2. pc'[c] = "identify" \/ Leave(c)
    BY <1>p, <1>5 DEF View
  <2> QED
    BY <1>3, <2>1, <2>2 DEF Writing
<1>6. CASE Attribute(c)
  <2>1. pc[c] \in {"identify", "record"}
    BY <1>6 DEF Attribute, ReadRecorded, ResolveAbsent, ResolveOwner,
       Record
  <2>2. ASSUME NextEnd(c) PROVE pc'[c] \in {"identify", "record", "eval"}
    BY <1>p, <2>2 DEF NextEnd
  <2>3. pc'[c] \in {"identify", "record", "eval"}
    BY <1>6, <1>p, <2>2 DEF Attribute, ReadRecorded, ResolveAbsent,
       ResolveOwner, Record
  <2> QED
    BY <2>1, <2>3 DEF Writing
<1>7. CASE EvalFails(c) \/ Apply(c)
  BY <1>3, <1>7 DEF EvalFails, Apply, Writing
<1>8. CASE Judge(c)
  <2>1. pc[c] = "eval" /\ (pc'[c] = "write" \/ pc'[c] = "final")
    BY <1>p, <1>8 DEF Judge
  <2> QED
    BY <2>1 DEF Writing
<1> QED
  BY <1>1, <1>2, <1>4, <1>5, <1>6, <1>7, <1>8, StepCases

LEMMA LockInit == Init => LockInv
BY FlowAssumption, SlotFacts DEF Init, LockInv, Writing

LEMMA LockStep ==
    ASSUME TypeOK, LockInv, [Next]_vars
    PROVE  LockInv'
<1>n. None \notin Cpus
  BY FlowAssumption
<1>1. ASSUME UNCHANGED <<cellVars, pc, slot>> PROVE LockInv'
  BY <1>1 DEF LockInv, cellVars
<1>2. CASE Publish \/ Tick \/ Destroy \/ UNCHANGED vars
  <2>1. UNCHANGED <<cellVars, pc, slot>>
    BY <1>2 DEF Publish, Tick, Destroy, vars, snapVars
  <2> QED
    BY <1>1, <2>1
<1>3. ASSUME NEW c \in Cpus, Step(c), ~Write(c) PROVE LockInv'
  <2>1. UNCHANGED cellVars
    BY <1>3, CellSame
  <2>2. pc[c] \notin Writing /\ pc'[c] \notin Writing
    BY <1>3, NotWriting
  <2>3. \A d \in Cpus : d # c => pc'[d] = pc[d] /\ slot'[d] = slot[d]
    BY <1>3, OthersSame DEF Same
  <2>4. lock # c
    BY <1>3, <2>2 DEF LockInv
  <2>5. \A d \in Cpus : pc'[d] \in Writing => lock' = d
    BY <2>1, <2>2, <2>3 DEF LockInv, cellVars
  <2>6. lock' \in Cpus => pc'[lock'] \in Writing /\ busy'[slot'[lock']]
    BY <2>1, <2>3, <2>4 DEF LockInv, cellVars
  <2>7. \A s \in Slots : busy'[s] => lock' \in Cpus /\ slot'[lock'] = s
    BY <2>1, <2>3, <2>4 DEF LockInv, cellVars
  <2> QED
    BY <2>5, <2>6, <2>7 DEF LockInv
<1>4. ASSUME NEW c \in Cpus, Write(c) PROVE LockInv'
  <2>f. UNCHANGED slot /\ slot[c] \in Slots
    BY <1>4 DEF Write, snapVars, TypeOK
  <2>p. pc \in [Cpus -> Pcs] /\ busy \in [Slots -> BOOLEAN]
    BY DEF TypeOK
  <2>1. CASE WriteBegin(c)
    <3>1. /\ lock = None /\ lock' = c
          /\ busy' = [busy EXCEPT ![slot[c]] = TRUE]
          /\ pc' = [pc EXCEPT ![c] = "clear"]
      BY <2>1 DEF WriteBegin
    <3>2. \A s \in Slots : ~busy[s]
      BY <1>n, <3>1 DEF LockInv
    <3>3. \A d \in Cpus : pc[d] \notin Writing
      BY <1>n, <3>1 DEF LockInv
    <3>4. "clear" \in Writing
      BY DEF Writing
    <3> QED
      BY <1>4, <2>f, <2>p, <3>1, <3>2, <3>3, <3>4 DEF LockInv
  <2>2. ASSUME NEW from \in Writing, NEW to \in Writing, NEW s,
               WriteField(c, from, to, s)
        PROVE  LockInv'
    <3>1. pc[c] \in Writing /\ pc' = [pc EXCEPT ![c] = to]
      BY <2>2 DEF WriteField
    <3>2. UNCHANGED <<busy, lock>>
      BY <2>2 DEF WriteField
    <3>3. lock = c
      BY <3>1 DEF LockInv
    <3>4. \A d \in Cpus : d # c => pc'[d] = pc[d]
      BY <2>p, <3>1
    <3>5. pc'[c] \in Writing
      BY <2>p, <2>2, <3>1
    <3> QED
      BY <2>f, <3>2, <3>3, <3>4, <3>5 DEF LockInv
  <2>3. CASE WriteEnd(c)
    <3>1. /\ pc[c] = "end" /\ lock' = None
          /\ busy' = [busy EXCEPT ![slot[c]] = FALSE]
          /\ OwnSentence(c)
      BY <2>3 DEF WriteEnd
    <3>2. lock = c
      BY <3>1 DEF LockInv, Writing
    <3>3. \A s \in Slots : ~busy'[s]
      BY <2>f, <2>p, <3>1, <3>2 DEF LockInv
    <3>4. \A d \in Cpus : d # c => pc'[d] = pc[d]
      BY <2>p, <3>1 DEF OwnSentence
    <3>5. pc'[c] = "try" \/ pc'[c] = "final"
      BY <2>p, <3>1 DEF OwnSentence
    <3>6. \A d \in Cpus : pc'[d] \notin Writing
      BY <3>2, <3>4, <3>5 DEF LockInv, Writing
    <3> QED
      BY <1>n, <3>1, <3>3, <3>6 DEF LockInv
  <2>w. {"clear", "w_policy", "w_expires", "w_verdict", "stamp", "end"}
           \subseteq Writing
    BY DEF Writing
  <2> QED
    BY <1>4, <2>1, <2>2, <2>3, <2>w DEF Write
<1> QED
  BY <1>2, <1>3, <1>4 DEF Next

-----------------------------------------------------------------------------
(* How far the writer of a slot and the reader of a slot have come: what is *)
(* written so far agrees with the new sentence; what is read so far agrees  *)
(* with the slot unless a write is open or was finished meanwhile.          *)
Fetching == {"generation", "policy_generation", "expires_at", "verdict", "retry"}

WriterOK(c) ==
    LET s == sentence[slot[c]] IN
    /\ pc[c] \in {"w_expires", "w_verdict", "stamp", "end"} =>
          s.policy_generation = cur[c].policy_generation
    /\ pc[c] \in {"w_verdict", "stamp", "end"} =>
          s.expires_at = cur[c].expires_at
    /\ pc[c] \in {"stamp", "end"} => s.verdict = cur[c].verdict
    /\ pc[c] = "end" => s.generation = cur[c].generation

Fetched(c) ==
    LET s == sentence[reading[c]] IN
    /\ pc[c] # "generation" => buf[c].generation = s.generation
    /\ pc[c] \in {"expires_at", "verdict", "retry"} =>
          buf[c].policy_generation = s.policy_generation
    /\ pc[c] \in {"verdict", "retry"} => buf[c].expires_at = s.expires_at
    /\ pc[c] = "retry" => buf[c].verdict = s.verdict

ReaderOK(c) ==
    pc[c] \in Fetching =>
        /\ start[c] <= version[reading[c]]
        /\ ~busy[reading[c]] /\ version[reading[c]] = start[c] => Fetched(c)

CellInv == \A c \in Cpus : WriterOK(c) /\ ReaderOK(c)

LEMMA FieldFacts ==
    ASSUME NEW s \in Sentence, NEW x
    PROVE  /\ LET e == [s EXCEPT !.generation = x] IN
              /\ e.generation = x
              /\ e.policy_generation = s.policy_generation
              /\ e.expires_at = s.expires_at /\ e.verdict = s.verdict
           /\ LET e == [s EXCEPT !.policy_generation = x] IN
              /\ e.policy_generation = x /\ e.generation = s.generation
              /\ e.expires_at = s.expires_at /\ e.verdict = s.verdict
           /\ LET e == [s EXCEPT !.expires_at = x] IN
              /\ e.expires_at = x /\ e.generation = s.generation
              /\ e.policy_generation = s.policy_generation
              /\ e.verdict = s.verdict
           /\ LET e == [s EXCEPT !.verdict = x] IN
              /\ e.verdict = x /\ e.generation = s.generation
              /\ e.policy_generation = s.policy_generation
              /\ e.expires_at = s.expires_at
  BY DEF Sentence

LEMMA SentencesEqual ==
    ASSUME NEW a \in Sentence, NEW b \in Sentence,
           a.generation = b.generation,
           a.policy_generation = b.policy_generation,
           a.expires_at = b.expires_at, a.verdict = b.verdict
    PROVE  a = b
  BY SMT DEF Sentence

LEMMA CellInit == Init => CellInv
BY DEF Init, CellInv, WriterOK, ReaderOK, Fetching

(* A step that leaves a CPU and the slots alone.                            *)
LEMMA CellFrame ==
    ASSUME NEW c \in Cpus, WriterOK(c), ReaderOK(c), UNCHANGED cellVars,
           pc'[c] = pc[c], slot'[c] = slot[c], reading'[c] = reading[c],
           start'[c] = start[c], buf'[c] = buf[c], cur'[c] = cur[c]
    PROVE  WriterOK(c)' /\ ReaderOK(c)'
BY DEF WriterOK, ReaderOK, Fetched

(* A lookup, one field at a time.                                           *)
LEMMA ReaderLookup ==
    ASSUME TypeOK, NEW c \in Cpus, ReaderOK(c), Lookup(c)
    PROVE  ReaderOK(c)'
<1>f. UNCHANGED cellVars
  BY DEF Lookup
<1>p. /\ pc \in [Cpus -> Pcs] /\ start \in [Cpus -> Nat]
      /\ buf \in [Cpus -> Sentence] /\ reading[c] \in Slots
      /\ version[reading[c]] \in Nat
  BY DEF TypeOK
<1>b. buf[c] \in Sentence
  BY <1>p
<1>m. ASSUME Missed(c) \/ OwnSentence(c) \/ Goto(c, "view") \/ Goto(c, "final")
      PROVE  ReaderOK(c)'
  <2>1. pc'[c] \in {"view", "final", "try"}
    BY <1>p, <1>m DEF Missed, OwnSentence
  <2> QED
    BY <2>1 DEF ReaderOK, Fetching
<1> DEFINE s == sentence[reading[c]]
<1>1. CASE ReadTry(c)
  <2>1. CASE busy[reading[c]]
    BY <1>1, <1>m, <2>1 DEF ReadTry
  <2>2. CASE ~busy[reading[c]]
    <3>1. /\ start'[c] = version[reading[c]] /\ pc'[c] = "generation"
          /\ UNCHANGED reading
      BY <1>p, <1>1, <2>2 DEF ReadTry
    <3>2. start'[c] <= version'[reading'[c]]
      BY <1>f, <1>p, <3>1, SMT
    <3> QED
      BY <3>1, <3>2 DEF ReaderOK, Fetched
  <2> QED
    BY <2>1, <2>2
<1>2. CASE ReadGeneration(c)
  <2>1. CASE s.generation = 0
    BY <1>2, <1>m, <2>1 DEF ReadGeneration
  <2>2. CASE s.generation # 0
    <3>1. /\ pc[c] = "generation" /\ pc'[c] = "policy_generation"
          /\ buf'[c] = [buf[c] EXCEPT !.generation = s.generation]
          /\ UNCHANGED <<reading, start>>
      BY <1>p, <1>2, <2>2 DEF ReadGeneration
    <3>2. buf'[c].generation = s.generation
      BY <1>b, <3>1, FieldFacts, SMT
    <3> QED
      BY <1>f, <3>1, <3>2 DEF ReaderOK, Fetched, Fetching
  <2> QED
    BY <2>1, <2>2
<1>3. CASE ReadPolicyGeneration(c)
  <2>1. /\ pc[c] = "policy_generation" /\ pc'[c] = "expires_at"
        /\ buf'[c] = [buf[c] EXCEPT !.policy_generation = s.policy_generation]
        /\ UNCHANGED <<reading, start>>
    BY <1>p, <1>3 DEF ReadPolicyGeneration
  <2>2. /\ buf'[c].policy_generation = s.policy_generation
        /\ buf'[c].generation = buf[c].generation
    BY <1>b, <2>1, FieldFacts, SMT
  <2> QED
    BY <1>f, <2>1, <2>2 DEF ReaderOK, Fetched, Fetching
<1>4. CASE ReadExpiresAt(c)
  <2>1. /\ pc[c] = "expires_at" /\ pc'[c] = "verdict"
        /\ buf'[c] = [buf[c] EXCEPT !.expires_at = s.expires_at]
        /\ UNCHANGED <<reading, start>>
    BY <1>p, <1>4 DEF ReadExpiresAt
  <2>2. /\ buf'[c].expires_at = s.expires_at
        /\ buf'[c].generation = buf[c].generation
        /\ buf'[c].policy_generation = buf[c].policy_generation
    BY <1>b, <2>1, FieldFacts, SMT
  <2> QED
    BY <1>f, <2>1, <2>2 DEF ReaderOK, Fetched, Fetching
<1>5. CASE ReadVerdict(c)
  <2>1. /\ pc[c] = "verdict" /\ pc'[c] = "retry"
        /\ buf'[c] = [buf[c] EXCEPT !.verdict = s.verdict]
        /\ UNCHANGED <<reading, start>>
    BY <1>p, <1>5 DEF ReadVerdict
  <2>2. /\ buf'[c].verdict = s.verdict
        /\ buf'[c].generation = buf[c].generation
        /\ buf'[c].policy_generation = buf[c].policy_generation
        /\ buf'[c].expires_at = buf[c].expires_at
    BY <1>b, <2>1, FieldFacts, SMT
  <2> QED
    BY <1>f, <2>1, <2>2 DEF ReaderOK, Fetched, Fetching
<1>6. CASE ReadTorn(c) \/ ReadOwn(c) \/ ReadOther(c)
  BY <1>m, <1>6 DEF ReadTorn, ReadOwn, ReadOther
<1> QED
  BY <1>1, <1>2, <1>3, <1>4, <1>5, <1>6 DEF Lookup

(* A write keeps the writer's account and spoils every overlapping lookup.  *)
LEMMA WriterWrites ==
    ASSUME TypeOK, NEW c \in Cpus, WriterOK(c), Write(c)
    PROVE  WriterOK(c)' /\ ReaderOK(c)'
<1>p. /\ pc \in [Cpus -> Pcs] /\ sentence \in [Slots -> Sentence]
      /\ slot[c] \in Slots
  BY DEF TypeOK
<1>f. UNCHANGED <<slot, cur, start, buf>>
  BY DEF Write
<1> DEFINE s == sentence[slot[c]]
<1>s. s \in Sentence
  BY <1>p
<1>v. ASSUME pc'[c] \in {"clear", "w_policy", "try", "final"}
      PROVE  WriterOK(c)' /\ ReaderOK(c)'
  BY <1>v DEF WriterOK, ReaderOK, Fetching
<1>1. CASE WriteBegin(c)
  <2>1. pc'[c] = "clear"
    BY <1>p, <1>1 DEF WriteBegin
  <2> QED
    BY <1>v, <2>1
<1>2. CASE WriteEnd(c)
  <2>1. pc'[c] \in {"try", "final"}
    BY <1>p, <1>2 DEF WriteEnd, OwnSentence
  <2> QED
    BY <1>v, <2>1
<1>w. ASSUME NEW from, NEW to, NEW t, WriteField(c, from, to, t)
      PROVE  pc[c] = from /\ pc'[c] = to /\ sentence'[slot'[c]] = t
  BY <1>p, <1>f, <1>w DEF WriteField
<1>3. CASE WriteField(c, "clear", "w_policy", [s EXCEPT !.generation = 0])
  BY <1>v, <1>w, <1>3
<1>4. CASE WriteField(c, "w_policy", "w_expires",
             [s EXCEPT !.policy_generation = cur[c].policy_generation])
  <2>1. /\ pc'[c] = "w_expires"
        /\ sentence'[slot'[c]]
             = [s EXCEPT !.policy_generation = cur[c].policy_generation]
    BY <1>w, <1>4
  <2>2. sentence'[slot'[c]].policy_generation = cur[c].policy_generation
    BY <1>s, <2>1, FieldFacts, SMT
  <2> QED
    BY <1>f, <2>1, <2>2 DEF WriterOK, ReaderOK, Fetching
<1>5. CASE WriteField(c, "w_expires", "w_verdict",
             [s EXCEPT !.expires_at = cur[c].expires_at])
  <2>1. /\ pc[c] = "w_expires" /\ pc'[c] = "w_verdict"
        /\ sentence'[slot'[c]] = [s EXCEPT !.expires_at = cur[c].expires_at]
    BY <1>w, <1>5
  <2>2. /\ sentence'[slot'[c]].policy_generation = s.policy_generation
        /\ sentence'[slot'[c]].expires_at = cur[c].expires_at
    BY <1>s, <2>1, FieldFacts, SMT
  <2> QED
    BY <1>f, <2>1, <2>2 DEF WriterOK, ReaderOK, Fetching
<1>6. CASE WriteField(c, "w_verdict", "stamp",
             [s EXCEPT !.verdict = cur[c].verdict])
  <2>1. /\ pc[c] = "w_verdict" /\ pc'[c] = "stamp"
        /\ sentence'[slot'[c]] = [s EXCEPT !.verdict = cur[c].verdict]
    BY <1>w, <1>6
  <2>2. /\ sentence'[slot'[c]].policy_generation = s.policy_generation
        /\ sentence'[slot'[c]].expires_at = s.expires_at
        /\ sentence'[slot'[c]].verdict = cur[c].verdict
    BY <1>s, <2>1, FieldFacts, SMT
  <2> QED
    BY <1>f, <2>1, <2>2 DEF WriterOK, ReaderOK, Fetching
<1>7. CASE WriteField(c, "stamp", "end",
             [s EXCEPT !.generation = cur[c].generation])
  <2>1. /\ pc[c] = "stamp" /\ pc'[c] = "end"
        /\ sentence'[slot'[c]] = [s EXCEPT !.generation = cur[c].generation]
    BY <1>w, <1>7
  <2>2. /\ sentence'[slot'[c]].policy_generation = s.policy_generation
        /\ sentence'[slot'[c]].expires_at = s.expires_at
        /\ sentence'[slot'[c]].verdict = s.verdict
        /\ sentence'[slot'[c]].generation = cur[c].generation
    BY <1>s, <2>1, FieldFacts, SMT
  <2> QED
    BY <1>f, <2>1, <2>2 DEF WriterOK, ReaderOK, Fetching
<1> QED
  BY <1>1, <1>2, <1>3, <1>4, <1>5, <1>6, <1>7 DEF Write

(* What a write does to the slots, seen from the other CPUs.                *)
LEMMA WriteEffect ==
    ASSUME TypeOK, LockInv, NEW c \in Cpus, Write(c)
    PROVE  \/ /\ lock = None
              /\ UNCHANGED <<sentence, version>>
              /\ \A r \in Slots : ~busy'[r] => ~busy[r]
           \/ /\ lock = c
              /\ UNCHANGED <<version, busy>>
              /\ \A r \in Slots : ~busy[r] => sentence'[r] = sentence[r]
           \/ /\ lock = c
              /\ UNCHANGED sentence
              /\ version'[slot[c]] = version[slot[c]] + 1
              /\ \A r \in Slots : r # slot[c] =>
                    version'[r] = version[r] /\ busy'[r] = busy[r]
<1>p. /\ sentence \in [Slots -> Sentence] /\ version \in [Slots -> Nat]
      /\ busy \in [Slots -> BOOLEAN] /\ slot[c] \in Slots
  BY DEF TypeOK
<1>1. CASE WriteBegin(c)
  <2>1. /\ lock = None /\ UNCHANGED <<sentence, version>>
        /\ busy' = [busy EXCEPT ![slot[c]] = TRUE]
    BY <1>1 DEF WriteBegin
  <2>2. \A r \in Slots : ~busy'[r] => ~busy[r]
    BY <1>p, <2>1
  <2> QED
    BY <2>1, <2>2
<1>2. CASE WriteEnd(c)
  <2>1. /\ pc[c] = "end" /\ UNCHANGED sentence
        /\ version' = [version EXCEPT ![slot[c]] = version[slot[c]] + 1]
        /\ busy' = [busy EXCEPT ![slot[c]] = FALSE]
    BY <1>2 DEF WriteEnd
  <2>2. lock = c
    BY <2>1 DEF LockInv, Writing
  <2>3. version'[slot[c]] = version[slot[c]] + 1
    BY <1>p, <2>1
  <2>4. \A r \in Slots : r # slot[c] =>
                    version'[r] = version[r] /\ busy'[r] = busy[r]
    BY <1>p, <2>1
  <2> QED
    BY <2>1, <2>2, <2>3, <2>4
<1>3. ASSUME NEW from \in Writing, NEW to, NEW t, WriteField(c, from, to, t)
      PROVE  /\ lock = c
             /\ UNCHANGED <<version, busy>>
             /\ \A r \in Slots : ~busy[r] => sentence'[r] = sentence[r]
  <2>1. /\ pc[c] \in Writing /\ UNCHANGED <<version, busy>>
        /\ sentence' = [sentence EXCEPT ![slot[c]] = t]
    BY <1>3 DEF WriteField
  <2>2. lock = c /\ busy[slot[c]]
    BY <2>1 DEF LockInv
  <2>3. \A r \in Slots : ~busy[r] => sentence'[r] = sentence[r]
    BY <1>p, <2>1, <2>2
  <2> QED
    BY <2>1, <2>2, <2>3
<1>w. {"clear", "w_policy", "w_expires", "w_verdict", "stamp"} \subseteq Writing
  BY DEF Writing
<1> QED
  BY <1>1, <1>2, <1>3, <1>w DEF Write

LEMMA OthersRead ==
    ASSUME TypeOK, LockInv, NEW c \in Cpus, Write(c), NEW d \in Cpus, d # c,
           ReaderOK(d)
    PROVE  WriterOK(d)' /\ ReaderOK(d)'
<1>1. Same(d)
  BY OthersSame DEF Step
<1>2. pc[d] \notin Writing
  BY WriteEffect, FlowAssumption DEF LockInv
<1>3. WriterOK(d)'
  BY <1>1, <1>2 DEF WriterOK, Same, Writing
<1> DEFINE r == reading[d]
<1>p. r \in Slots /\ start[d] \in Nat /\ version[r] \in Nat
  BY DEF TypeOK
<1>4. ReaderOK(d)'
  <2>0. ASSUME ~busy[r] => sentence'[r] = sentence[r],
               ~busy'[r] => ~busy[r], version'[r] = version[r]
        PROVE  ReaderOK(d)'
    BY <1>1, <2>0 DEF ReaderOK, Fetched, Same
  <2>1. ASSUME start[d] <= version[r], version'[r] = version[r] + 1
        PROVE  start[d] <= version'[r] /\ version'[r] # start[d]
    BY <1>p, <2>1, SMT
  <2>2. ASSUME version'[r] = version[r] + 1
        PROVE  ReaderOK(d)'
    BY <1>1, <2>1, <2>2 DEF ReaderOK, Same
  <2> QED
    BY <1>p, <2>0, <2>2, WriteEffect
<1> QED
  BY <1>3, <1>4

LEMMA CellStep ==
    ASSUME TypeOK, LockInv, CellInv, [Next]_vars
    PROVE  CellInv'
<1> SUFFICES ASSUME NEW d \in Cpus
             PROVE  WriterOK(d)' /\ ReaderOK(d)'
  BY DEF CellInv
<1>d. WriterOK(d) /\ ReaderOK(d)
  BY DEF CellInv
<1>1. CASE Publish \/ Tick \/ Destroy \/ UNCHANGED vars
  <2>1. UNCHANGED <<cellVars, pc, slot, reading, start, buf, cur>>
    BY <1>1 DEF Publish, Tick, Destroy, vars
  <2> QED
    BY <1>d, <2>1, CellFrame
<1>2. ASSUME NEW c \in Cpus, Step(c), ~Write(c), c # d
      PROVE  WriterOK(d)' /\ ReaderOK(d)'
  BY <1>d, <1>2, CellFrame, CellSame, OthersSame DEF Same
<1>3. ASSUME Step(d), ~Write(d)
      PROVE  WriterOK(d)' /\ ReaderOK(d)'
  <2>1. pc'[d] \notin Writing
    BY <1>3, NotWriting
  <2>2. WriterOK(d)'
    BY <2>1 DEF WriterOK, Writing
  <2>3. CASE Lookup(d)
    BY <1>d, <2>2, <2>3, ReaderLookup
  <2>p. pc \in [Cpus -> Pcs]
    BY DEF TypeOK
  <2>4. CASE ~Lookup(d)
    <3>1. ASSUME Leave(d) PROVE pc'[d] = "idle"
      BY <2>p, <3>1 DEF Leave
    <3>2. ASSUME NextEnd(d) PROVE pc'[d] \in {"identify", "eval"}
      BY <2>p, <3>2 DEF NextEnd
    <3>3. ASSUME SnapshotPolicy(d) \/ SnapshotEpoch(d) \/ Judge(d)
          PROVE  pc'[d] \in {"epoch", "try", "view", "write", "final"}
      <4>1. CASE SnapshotPolicy(d)
        BY <2>p, <4>1 DEF SnapshotPolicy
      <4>2. CASE SnapshotEpoch(d)
        BY <2>p, <4>2 DEF SnapshotEpoch
      <4>3. CASE Judge(d)
        BY <2>p, <4>3 DEF Judge
      <4> QED
        BY <3>3, <4>1, <4>2, <4>3
    <3>4. ASSUME View(d) PROVE pc'[d] \in {"identify", "idle"}
      BY <2>p, <3>1, <3>4 DEF View
    <3>5. ASSUME Attribute(d) PROVE pc'[d] \in {"identify", "record", "eval"}
      BY <2>p, <3>2, <3>5 DEF Attribute, ReadRecorded, ResolveAbsent,
         ResolveOwner, Record
    <3>6. ASSUME EvalFails(d) \/ Apply(d) PROVE pc'[d] = "idle"
      BY <3>1, <3>6 DEF EvalFails, Apply
    <3>7. pc'[d] \notin Fetching
      BY <1>3, <2>4, <3>3, <3>4, <3>5, <3>6, StepCases DEF Fetching
    <3> QED
      BY <2>2, <3>7 DEF ReaderOK
  <2> QED
    BY <2>3, <2>4
<1>4. ASSUME NEW c \in Cpus, Write(c)
      PROVE  WriterOK(d)' /\ ReaderOK(d)'
  BY <1>d, <1>4, WriterWrites, OthersRead
<1> QED
  BY <1>1, <1>2, <1>3, <1>4 DEF Next

-----------------------------------------------------------------------------
(* The refinement: opening a write replaces the cell's value, finishing it  *)
(* changes nothing for a reader, a lookup that succeeds returns the value.  *)
IndInv == TypeOK /\ LockInv /\ CellInv

LEMMA HeldFrame ==
    ASSUME TypeOK, LockInv, NEW c \in Cpus, Step(c), ~Write(c)
    PROVE  UNCHANGED Held
<1>1. UNCHANGED cellVars
  BY CellSame
<1>2. lock # c
  BY NotWriting DEF LockInv
<1>3. \A d \in Cpus : d # c => cur'[d] = cur[d]
  BY OthersSame DEF Same
<1>4. \A s \in Slots : busy[s] => cur'[lock] = cur[lock]
  BY <1>2, <1>3 DEF LockInv
<1> QED
  BY <1>1, <1>4 DEF Held

LEMMA HeldWrite ==
    ASSUME IndInv, NEW c \in Cpus, Write(c)
    PROVE  \/ UNCHANGED Held
           \/ /\ Held' = [Held EXCEPT ![slot[c]] = cur[c]]
              /\ Held'[slot[c]] = cur[c]
<1>i. TypeOK /\ LockInv /\ CellInv
  BY DEF IndInv
<1>p. /\ sentence \in [Slots -> Sentence] /\ busy \in [Slots -> BOOLEAN]
      /\ slot[c] \in Slots /\ cur[c] \in Sentence
  BY <1>i DEF TypeOK
<1>f. UNCHANGED <<slot, cur>>
  BY DEF Write
<1>1. CASE WriteBegin(c)
  <2>1. /\ lock = None /\ lock' = c /\ UNCHANGED sentence
        /\ busy' = [busy EXCEPT ![slot[c]] = TRUE]
    BY <1>1 DEF WriteBegin
  <2>2. \A s \in Slots : ~busy[s]
    BY <1>i, <2>1, FlowAssumption DEF LockInv
  <2>3. Held = sentence
    BY <1>p, <2>2 DEF Held
  <2>4. \A s \in Slots : Held'[s] = IF s = slot[c] THEN cur[c] ELSE sentence[s]
    BY <1>p, <1>f, <2>1, <2>2 DEF Held
  <2>5. Held' = [Held EXCEPT ![slot[c]] = cur[c]]
    <3>1. Held' = [s \in Slots |-> IF s = slot[c] THEN cur[c] ELSE sentence[s]]
      BY <1>p, <1>f, <2>1, <2>2 DEF Held
    <3> QED
      BY <1>p, <2>3, <3>1
  <2> QED
    BY <1>p, <2>4, <2>5
<1>2. CASE WriteEnd(c)
  <2>1. /\ pc[c] = "end" /\ UNCHANGED sentence
        /\ busy' = [busy EXCEPT ![slot[c]] = FALSE]
    BY <1>2 DEF WriteEnd
  <2>2. lock = c
    BY <1>i, <2>1 DEF LockInv, Writing
  <2>3. \A s \in Slots : busy[s] <=> s = slot[c]
    BY <1>i, <2>2 DEF LockInv
  <2>4. \A s \in Slots : ~busy'[s]
    BY <1>p, <2>1, <2>3
  <2>5. WriterOK(c)
    BY <1>i DEF CellInv
  <2>6. /\ sentence[slot[c]].generation = cur[c].generation
        /\ sentence[slot[c]].policy_generation = cur[c].policy_generation
        /\ sentence[slot[c]].expires_at = cur[c].expires_at
        /\ sentence[slot[c]].verdict = cur[c].verdict
    BY <2>1, <2>5 DEF WriterOK
  <2>7. sentence[slot[c]] = cur[c]
    BY <1>p, <2>6, SentencesEqual
  <2> QED
    BY <2>1, <2>2, <2>3, <2>4, <2>7 DEF Held
<1>3. ASSUME NEW from \in Writing, NEW to, NEW t, WriteField(c, from, to, t)
      PROVE  UNCHANGED Held
  <2>1. /\ pc[c] \in Writing /\ UNCHANGED <<busy, lock>>
        /\ sentence' = [sentence EXCEPT ![slot[c]] = t]
    BY <1>3 DEF WriteField
  <2>2. busy[slot[c]]
    BY <1>i, <2>1 DEF LockInv
  <2>3. \A s \in Slots : ~busy[s] => sentence'[s] = sentence[s]
    BY <1>p, <2>1, <2>2
  <2> QED
    BY <1>f, <2>1, <2>3 DEF Held
<1>w. {"clear", "w_policy", "w_expires", "w_verdict", "stamp"} \subseteq Writing
  BY DEF Writing
<1> QED
  BY <1>1, <1>2, <1>3, <1>w DEF Write

(* A lookup that was not torn has the whole sentence its slot holds.        *)
LEMMA LookupWhole ==
    ASSUME IndInv, NEW c \in Cpus, pc[c] = "retry", ~Torn(c)
    PROVE  buf[c] = Held[reading[c]] /\ buf[c] \in Sentence
<1>i. TypeOK /\ ReaderOK(c)
  BY DEF IndInv, CellInv
<1>p. /\ reading[c] \in Slots /\ buf[c] \in Sentence
      /\ sentence[reading[c]] \in Sentence
  BY <1>i DEF TypeOK
<1>1. ~busy[reading[c]] /\ version[reading[c]] = start[c]
  BY DEF Torn
<1>2. Fetched(c)
  BY <1>i, <1>1 DEF ReaderOK, Fetching
<1>3. /\ buf[c].generation = sentence[reading[c]].generation
      /\ buf[c].policy_generation = sentence[reading[c]].policy_generation
      /\ buf[c].expires_at = sentence[reading[c]].expires_at
      /\ buf[c].verdict = sentence[reading[c]].verdict
  BY <1>2 DEF Fetched
<1>4. buf[c] = sentence[reading[c]]
  BY <1>p, <1>3, SentencesEqual
<1>5. Held[reading[c]] = sentence[reading[c]]
  BY <1>p, <1>1 DEF Held
<1> QED
  BY <1>p, <1>4, <1>5

(* What a lookup answers.                                                   *)
LEMMA LookupAnswer ==
    ASSUME IndInv, NEW c \in Cpus, Lookup(c)
    PROVE  \/ UNCHANGED got
           \/ got' = [got EXCEPT ![c] = Miss]
           \/ got' = [got EXCEPT ![c] = Held[reading[c]]]
<1>1. ASSUME Missed(c) PROVE got' = [got EXCEPT ![c] = Miss]
  BY <1>1 DEF Missed
<1>2. CASE ReadOwn(c) \/ ReadOther(c)
  BY <1>2, LookupWhole DEF ReadOwn, ReadOther
<1>3. CASE ReadTry(c) \/ ReadGeneration(c) \/ ReadTorn(c)
  BY <1>1, <1>3 DEF ReadTry, ReadGeneration, ReadTorn
<1>4. CASE ReadPolicyGeneration(c) \/ ReadExpiresAt(c) \/ ReadVerdict(c)
  BY <1>4 DEF ReadPolicyGeneration, ReadExpiresAt, ReadVerdict
<1> QED
  BY <1>2, <1>3, <1>4 DEF Lookup

LEMMA CellRefines ==
    ASSUME IndInv, [Next]_vars
    PROVE  Cell!Next \/ UNCHANGED <<Held, got>>
<1>i. TypeOK /\ LockInv
  BY DEF IndInv
<1>1. CASE Publish \/ Tick \/ Destroy \/ UNCHANGED vars
  BY <1>1 DEF Publish, Tick, Destroy, vars, Held
<1>2. ASSUME NEW c \in Cpus, Write(c)
      PROVE  Cell!Next \/ UNCHANGED <<Held, got>>
  <2>1. UNCHANGED got /\ cur[c] \in Sentence /\ slot[c] \in Slots
    BY <1>i, <1>2 DEF Write, TypeOK
  <2>2. CASE /\ Held' = [Held EXCEPT ![slot[c]] = cur[c]]
             /\ Held'[slot[c]] = cur[c]
    <3>1. Cell!Replace(slot[c])
      BY <2>1, <2>2 DEF Cell!Replace
    <3> QED
      BY <2>1, <3>1 DEF Cell!Next
  <2> QED
    BY <1>2, <2>1, <2>2, HeldWrite
<1>3. ASSUME NEW c \in Cpus, Step(c), ~Write(c)
      PROVE  Cell!Next \/ UNCHANGED <<Held, got>>
  <2>1. UNCHANGED Held
    BY <1>i, <1>3, HeldFrame
  <2>2. reading[c] \in Slots
    BY <1>i DEF TypeOK
  <2>3. \/ UNCHANGED got
        \/ got' = [got EXCEPT ![c] = Miss]
        \/ got' = [got EXCEPT ![c] = Held[reading[c]]]
    <3>1. ASSUME Forget(c) PROVE got' = [got EXCEPT ![c] = Miss]
      BY <3>1 DEF Forget
    <3>2. CASE View(c) \/ EvalFails(c) \/ Apply(c)
      BY <3>1, <3>2 DEF View, EvalFails, Apply, Leave
    <3>3. CASE SnapshotPolicy(c) \/ SnapshotEpoch(c) \/ Attribute(c) \/ Judge(c)
      BY <3>3 DEF SnapshotPolicy, SnapshotEpoch, Attribute, Judge
    <3> QED
      BY <1>3, <3>2, <3>3, LookupAnswer, StepCases
  <2>4. CASE got' = [got EXCEPT ![c] = Miss]
    BY <1>3, <2>1, <2>4 DEF Cell!Next, Cell!LookupMiss
  <2>5. CASE got' = [got EXCEPT ![c] = Held[reading[c]]]
    BY <1>3, <2>1, <2>2, <2>5 DEF Cell!Next, Cell!Lookup
  <2> QED
    BY <2>1, <2>3, <2>4, <2>5
<1> QED
  BY <1>1, <1>2, <1>3 DEF Next

LEMMA Inductive == Spec => []IndInv
<1>1. Init => IndInv
  BY TypeInit, LockInit, CellInit DEF IndInv
<1>2. IndInv /\ [Next]_vars => IndInv'
  BY TypeStep, LockStep, CellStep DEF IndInv
<1> QED
  BY <1>1, <1>2, PTL DEF Spec

(* Every variable keeps its type, for any number of CPUs and packets.       *)
THEOREM FlowTypeCorrect == Spec => []TypeOK
<1>1. IndInv => TypeOK
  BY DEF IndInv
<1> QED
  BY <1>1, Inductive, PTL

(* ntfe_sentence_read against ntfe_sentence_write: the lock-free lookup     *)
(* implements an atomic cell. A lookup that succeeds returned one whole     *)
(* sentence, the one its slot held at that moment, however many CPUs read   *)
(* and write it.                                                            *)
THEOREM LookupRefinesCell == Spec => LookupIsAtomic
<1>1. Init => Cell!Init
  <2> SUFFICES ASSUME Init PROVE Cell!Init
    OBVIOUS
  <2>1. Held = [s \in Slots |-> NoSentence]
    BY DEF Init, Held
  <2> QED
    BY <2>1 DEF Init, Cell!Init
<1>2. IndInv /\ [Next]_vars => [Cell!Next]_<<Held, got>>
  BY CellRefines
<1> QED
  BY <1>1, <1>2, Inductive, PTL DEF Spec, LookupIsAtomic, Cell!Spec
-----------------------------------------------------------------------------


(* Freshness. A sentence is good when it was judged from the policy it is   *)
(* stamped with, from a context no older than the one settled at its        *)
(* generation, and lapses when its judgement does.                          *)
GoodIn(x, g, st) ==
    /\ x.generation <= g
    /\ x.verdict.policy = x.policy_generation
    /\ st[x.generation + 1] <= x.verdict.context
    /\ x.expires_at = Expiry(x.policy_generation, x.verdict.t)

Good(x) == GoodIn(x, generation, settled)

HistoryOK == \A i \in 1..Len(settled) : settled[i] <= context

(* The places at which a CPU has a sentence to apply.                       *)
Deciding(c) ==
    \/ pc[c] \in Writing \cup {"write", "final"}
    \/ pc[c] \in Fetching \cup {"try"} /\ reading[c] # slot[c]

FreshOK(c) ==
    /\ Good(cur[c])
    /\ epoch[c] <= generation
    /\ pc[c] \in {"identify", "record", "eval"} => Settled(epoch[c]) <= seen[c]
    /\ Deciding(c) => Current(c, cur[c])

FreshInv ==
    /\ HistoryOK
    /\ Good(NoSentence)
    /\ \A s \in Slots : Good(Held[s])
    /\ \A c \in Cpus : FreshOK(c)

LEMMA PubSame ==
    ASSUME NEW c \in Cpus, Step(c)
    PROVE  UNCHANGED pubVars
<1>1. ASSUME Leave(c) PROVE UNCHANGED pubVars
  BY <1>1 DEF Leave
<1> QED
  BY <1>1, StepCases DEF SnapshotPolicy, SnapshotEpoch, Lookup, View,
     Attribute, EvalFails, Judge, Write, Apply

(* A publication appends to the history; nothing else touches it.           *)
LEMMA HistoryStep ==
    ASSUME TypeOK, HistoryOK, [Next]_vars
    PROVE  /\ HistoryOK'
           /\ generation <= generation'
           /\ \A i \in 1..(generation + 1) : settled'[i] = settled[i]
<1>t. /\ generation \in Nat /\ context \in Nat /\ settled \in Seq(Nat)
      /\ Len(settled) = generation + 1
  BY DEF TypeOK
<1> USE DEF HistoryOK
<1>0. ASSUME UNCHANGED pubVars
      PROVE  /\ HistoryOK'
             /\ generation <= generation'
             /\ \A i \in 1..(generation + 1) : settled'[i] = settled[i]
  BY <1>t, <1>0, SMT
<1>1. CASE StampPolicy
  <2>1. /\ generation' = generation + 1 /\ UNCHANGED context
        /\ settled' = Append(settled, settled[generation + 1])
    BY <1>1 DEF StampPolicy, Settled
  <2> QED
    BY <1>t, <2>1, SMT
<1>2. CASE AdvanceContext
  <2>1. /\ generation' = generation + 1 /\ UNCHANGED context
        /\ settled' = Append(settled, context)
    BY <1>2 DEF AdvanceContext
  <2> QED
    BY <1>t, <2>1, SMT
<1>3. CASE SwapPolicy \/ SwapContext
  <2>1. UNCHANGED <<generation, settled>> /\ context' \in {context, context + 1}
    BY <1>3 DEF SwapPolicy, SwapContext
  <2> QED
    BY <1>t, <2>1, SMT
<1>5. CASE Tick \/ Destroy \/ UNCHANGED vars
  <2>1. UNCHANGED pubVars
    BY <1>5 DEF Tick, Destroy, vars
  <2> QED
    BY <1>0, <2>1
<1> QED
  BY <1>0, <1>1, <1>2, <1>3, <1>5, PubSame DEF Next, Publish

LEMMA GoodStays ==
    ASSUME TypeOK, TypeOK', HistoryOK, [Next]_vars,
           NEW x \in Sentence, GoodIn(x, generation, settled)
    PROVE  GoodIn(x, generation', settled')
<1>1. /\ generation \in Nat /\ generation' \in Nat
  BY DEF TypeOK
<1>2. x.generation \in Nat
  BY DEF Sentence
<1>3. x.generation <= generation
  BY DEF GoodIn
<1>4. /\ x.generation <= generation' /\ x.generation + 1 \in 1..(generation + 1)
  BY <1>1, <1>2, <1>3, HistoryStep, SMT
<1>5. settled'[x.generation + 1] = settled[x.generation + 1]
  BY <1>4, HistoryStep
<1> QED
  BY <1>4, <1>5 DEF GoodIn

LEMMA SettledStays ==
    ASSUME TypeOK, TypeOK', HistoryOK, [Next]_vars, NEW e \in Nat, e <= generation
    PROVE  e <= generation' /\ settled'[e + 1] = settled[e + 1]
<1>1. /\ generation \in Nat /\ generation' \in Nat
  BY DEF TypeOK
<1>2. e <= generation' /\ e + 1 \in 1..(generation + 1)
  BY <1>1, HistoryStep, SMT
<1> QED
  BY <1>2, HistoryStep

LEMMA FreshInit == Init => FreshInv
<1> SUFFICES ASSUME Init PROVE FreshInv
  OBVIOUS
<1>1. HistoryOK
  BY SMT DEF Init, HistoryOK
<1>2. Good(NoSentence)
  <2>1. 0 \notin Timed
    BY FlowAssumption
  <2>2. Expiry(0, 0) = 0
    BY <2>1 DEF Expiry
  <2> QED
    BY <2>2, SMT DEF Init, Good, GoodIn, NoSentence, NoVerdict
<1>3. Held = [s \in Slots |-> NoSentence]
  BY DEF Init, Held
<1>4. \A c \in Cpus : FreshOK(c)
  <2>1. epoch = [c \in Cpus |-> 0] /\ generation = 0
    BY DEF Init
  <2>2. \A c \in Cpus : epoch[c] <= generation
    BY <2>1, SMT
  <2>3. \A c \in Cpus : pc[c] = "idle" /\ cur[c] = NoSentence
    BY DEF Init
  <2>4. \A c \in Cpus : ~Deciding(c)
    BY <2>3 DEF Deciding, Writing, Fetching
  <2> QED
    BY <1>2, <2>2, <2>3, <2>4 DEF FreshOK
<1> QED
  BY <1>1, <1>2, <1>3, <1>4 DEF FreshInv

LEMMA FreshFrame ==
    ASSUME TypeOK, TypeOK', HistoryOK, [Next]_vars, NEW c \in Cpus, FreshOK(c),
           pc'[c] = pc[c], slot'[c] = slot[c], reading'[c] = reading[c],
           now'[c] = now[c], policy'[c] = policy[c], epoch'[c] = epoch[c],
           cur'[c] = cur[c], seen'[c] = seen[c]
    PROVE  FreshOK(c)'
<1>1. cur[c] \in Sentence /\ epoch[c] \in Nat
  BY DEF TypeOK
<1>2. GoodIn(cur[c], generation', settled')
  BY <1>1, GoodStays DEF FreshOK, Good
<1>3. /\ epoch[c] <= generation'
      /\ settled'[epoch[c] + 1] = settled[epoch[c] + 1]
  BY <1>1, SettledStays DEF FreshOK
<1>4. Deciding(c)' => Deciding(c)
  BY DEF Deciding
<1>5. Current(c, cur[c]) => Current(c, cur[c])'
  BY DEF Current
<1> QED
  BY <1>2, <1>3, <1>4, <1>5 DEF FreshOK, Good, Settled

LEMMA FreshLookup ==
    ASSUME IndInv, FreshInv, NEW c \in Cpus, Lookup(c)
    PROVE  FreshOK(c)'
<1>f. UNCHANGED <<generation, settled, slot, now, policy, epoch, seen>>
  BY DEF Lookup
<1>o. FreshOK(c)
  BY DEF FreshInv
<1>p. /\ pc \in [Cpus -> Pcs] /\ cur \in [Cpus -> Sentence]
      /\ reading \in [Cpus -> Slots] /\ reading[c] \in Slots
  BY DEF TypeOK, IndInv
<1>1. ASSUME Good(cur'[c]), pc'[c] \in Fetching \cup {"try", "view", "final"},
             Deciding(c)' => Current(c, cur'[c])
      PROVE  FreshOK(c)'
  <2>1. pc'[c] \notin {"identify", "record", "eval"}
    BY <1>1 DEF Fetching
  <2>2. Good(cur[c])'
    BY <1>f, <1>1 DEF Good, GoodIn
  <2>3. Deciding(c)' => Current(c, cur[c])'
    BY <1>f, <1>1 DEF Current
  <2> QED
    BY <1>f, <1>o, <2>1, <2>2, <2>3 DEF FreshOK
<1>2. ASSUME Missed(c), pc[c] \in Fetching \cup {"try"} PROVE FreshOK(c)'
  <2>1. UNCHANGED <<cur, reading>>
    BY <1>2 DEF Missed
  <2>2. \/ pc'[c] = "view"
        \/ pc'[c] = "final" /\ reading[c] # slot[c]
    BY <1>p, <1>2 DEF Missed
  <2>3. Deciding(c)' => Deciding(c)
    BY <1>2, <2>2 DEF Deciding, Writing, Fetching
  <2> QED
    BY <1>o, <1>1, <2>1, <2>2, <2>3 DEF FreshOK
<1>3. ASSUME pc[c] \in Fetching \cup {"try"}, pc'[c] \in Fetching,
             UNCHANGED <<cur, reading>>
      PROVE  FreshOK(c)'
  <2>1. Deciding(c)' => Deciding(c)
    BY <1>f, <1>3 DEF Deciding, Writing, Fetching
  <2> QED
    BY <1>o, <1>1, <1>3, <2>1 DEF FreshOK
<1>e. /\ {"generation", "policy_generation", "expires_at", "verdict", "retry"}
            \subseteq Fetching
  BY DEF Fetching
<1>4. CASE ReadTry(c)
  <2>1. pc[c] = "try"
    BY <1>4 DEF ReadTry
  <2>2. Missed(c) \/ (pc'[c] = "generation" /\ UNCHANGED <<cur, reading>>)
    BY <1>p, <1>4 DEF ReadTry
  <2> QED
    BY <1>2, <1>3, <1>e, <2>1, <2>2
<1>5. CASE ReadGeneration(c)
  <2>1. pc[c] = "generation"
    BY <1>5 DEF ReadGeneration
  <2>2. \/ Missed(c)
        \/ pc'[c] = "policy_generation" /\ UNCHANGED <<cur, reading>>
    BY <1>p, <1>5 DEF ReadGeneration
  <2> QED
    BY <1>2, <1>3, <1>e, <2>1, <2>2
<1>6. CASE ReadPolicyGeneration(c) \/ ReadExpiresAt(c) \/ ReadVerdict(c)
  <2>1. /\ pc[c] \in {"policy_generation", "expires_at", "verdict"}
        /\ pc'[c] \in {"expires_at", "verdict", "retry"}
        /\ UNCHANGED <<cur, reading>>
    BY <1>p, <1>6 DEF ReadPolicyGeneration, ReadExpiresAt, ReadVerdict
  <2> QED
    BY <1>3, <1>e, <2>1
<1>7. CASE ReadTorn(c)
  BY <1>2, <1>7, <1>e DEF ReadTorn
<1>g. ASSUME pc[c] = "retry", ~Torn(c) PROVE Good(buf[c])
  <2>1. buf[c] = Held[reading[c]]
    BY <1>g, LookupWhole
  <2> QED
    BY <1>p, <2>1 DEF FreshInv
<1>8. CASE ReadOwn(c)
  <2>1. pc[c] = "retry" /\ ~Torn(c)
    BY <1>8 DEF ReadOwn
  <2>2. CASE Current(c, buf[c])
    <3>1. cur' = [cur EXCEPT ![c] = buf[c]] /\ OwnSentence(c)
      BY <1>8, <2>2 DEF ReadOwn
    <3>2. cur'[c] = buf[c]
      BY <1>p, <3>1
    <3>3. pc'[c] \in {"try", "final"}
      BY <1>p, <3>1 DEF OwnSentence
    <3> QED
      BY <1>1, <1>g, <2>1, <2>2, <3>2, <3>3
  <2>3. CASE ~Current(c, buf[c])
    <3>1. pc'[c] = "view" /\ UNCHANGED cur
      BY <1>p, <1>8, <2>3 DEF ReadOwn
    <3>2. ~Deciding(c)'
      BY <3>1 DEF Deciding, Writing, Fetching
    <3> QED
      BY <1>1, <1>o, <3>1, <3>2 DEF FreshOK
  <2> QED
    BY <2>2, <2>3
<1>9. CASE ReadOther(c)
  <2>1. pc[c] = "retry" /\ ~Torn(c) /\ reading[c] # slot[c]
    BY <1>9 DEF ReadOther
  <2>2. pc'[c] = "final"
    BY <1>p, <1>9 DEF ReadOther
  <2>3. \/ cur'[c] = buf[c] /\ Current(c, buf[c])
        \/ cur'[c] = cur[c]
    BY <1>p, <1>9 DEF ReadOther
  <2>4. Deciding(c)
    BY <1>e, <2>1 DEF Deciding
  <2>5. Good(cur'[c]) /\ Current(c, cur'[c])
    BY <1>g, <1>o, <2>1, <2>3, <2>4 DEF FreshOK
  <2> QED
    BY <1>1, <2>2, <2>5
<1> QED
  BY <1>4, <1>5, <1>6, <1>7, <1>8, <1>9 DEF Lookup

(* The other steps of a packet: its view is taken after its epoch, and its  *)
(* judgement is current by construction.                                    *)
LEMMA FreshOwn ==
    ASSUME IndInv, FreshInv, NEW c \in Cpus, Step(c), ~Lookup(c)
    PROVE  FreshOK(c)'
<1>o. FreshOK(c) /\ HistoryOK /\ Good(NoSentence)
  BY DEF FreshInv
<1>g. UNCHANGED <<generation, settled, context>>
  BY PubSame
<1>t. TypeOK
  BY DEF IndInv
<1>p. /\ pc \in [Cpus -> Pcs] /\ cur \in [Cpus -> Sentence]
      /\ seen \in [Cpus -> Nat] /\ epoch \in [Cpus -> Nat]
      /\ now \in [Cpus -> Nat] /\ policy \in [Cpus -> Policy]
      /\ slot \in [Cpus -> Slots] /\ reading \in [Cpus -> Slots]
  BY <1>t DEF TypeOK
<1>n. /\ generation \in Nat /\ context \in Nat /\ settled \in Seq(Nat)
      /\ Len(settled) = generation + 1 /\ epoch[c] \in Nat /\ now[c] \in Nat
  BY <1>t DEF TypeOK
<1>k. ASSUME Good(cur'[c]), epoch'[c] <= generation,
             pc'[c] \in {"identify", "record", "eval"} =>
                 Settled(epoch'[c]) <= seen'[c],
             Deciding(c)' => Current(c, cur[c])'
      PROVE  FreshOK(c)'
  <2>1. Good(cur[c])'
    BY <1>g, <1>k DEF Good, GoodIn
  <2> QED
    BY <1>g, <1>k, <2>1 DEF FreshOK, Settled
<1>1. CASE SnapshotPolicy(c)
  <2>1. pc'[c] = "epoch" /\ UNCHANGED <<cur, epoch>>
    BY <1>p, <1>1 DEF SnapshotPolicy
  <2>2. ~Deciding(c)'
    BY <2>1 DEF Deciding, Writing, Fetching
  <2> QED
    BY <1>k, <1>o, <2>1, <2>2 DEF FreshOK
<1>2. CASE SnapshotEpoch(c)
  <2>1. /\ pc'[c] \in {"try", "view"} /\ UNCHANGED <<cur, slot>>
        /\ epoch'[c] = generation /\ reading'[c] = slot[c]
    BY <1>p, <1>2 DEF SnapshotEpoch
  <2>2. ~Deciding(c)'
    BY <2>1 DEF Deciding, Writing, Fetching
  <2>3. epoch'[c] <= generation
    BY <1>n, <2>1, SMT
  <2> QED
    BY <1>k, <1>o, <2>1, <2>2, <2>3 DEF FreshOK
<1>3. ASSUME Leave(c) PROVE FreshOK(c)'
  <2>1. pc'[c] = "idle" /\ cur'[c] = NoSentence /\ epoch'[c] = 0
    BY <1>p, <1>3 DEF Leave
  <2>2. ~Deciding(c)'
    BY <2>1 DEF Deciding, Writing, Fetching
  <2>3. epoch'[c] <= generation
    BY <1>n, <2>1, SMT
  <2> QED
    BY <1>k, <1>o, <2>1, <2>2, <2>3
<1>4. CASE View(c)
  <2>1. CASE ~policy[c].forest
    BY <1>3, <1>4, <2>1 DEF View
  <2>2. CASE policy[c].forest
    <3>1. /\ pc' = [pc EXCEPT ![c] = "identify"]
          /\ seen' = [seen EXCEPT ![c] = context]
          /\ UNCHANGED <<cur, epoch>>
      BY <1>4, <2>2 DEF View
    <3>2. pc'[c] = "identify" /\ seen'[c] = context
      BY <1>p, <3>1
    <3>3. epoch[c] <= generation
      BY <1>o DEF FreshOK
    <3>4. Settled(epoch[c]) <= context
      BY <1>n, <1>o, <3>3, SMT DEF HistoryOK, Settled
    <3>5. ~Deciding(c)'
      BY <3>2 DEF Deciding, Writing, Fetching
    <3> QED
      BY <1>k, <1>o, <3>1, <3>2, <3>3, <3>4, <3>5 DEF FreshOK
  <2> QED
    BY <2>1, <2>2
<1>5. CASE Attribute(c)
  <2>1. UNCHANGED <<cur, epoch, seen>>
    BY <1>5 DEF Attribute
  <2>2. pc[c] \in {"identify", "record"}
    BY <1>5 DEF Attribute, ReadRecorded, ResolveAbsent, ResolveOwner,
       Record
  <2>3. ASSUME NextEnd(c) PROVE pc'[c] \in {"identify", "eval"}
    BY <1>p, <2>3 DEF NextEnd
  <2>4. pc'[c] \in {"identify", "record", "eval"}
    BY <1>p, <1>5, <2>3 DEF Attribute, ReadRecorded, ResolveAbsent,
       ResolveOwner, Record
  <2>5. ~Deciding(c)'
    BY <2>4 DEF Deciding, Writing, Fetching
  <2> QED
    BY <1>k, <1>o, <2>1, <2>2, <2>5 DEF FreshOK
<1>6. CASE EvalFails(c) \/ Apply(c)
  BY <1>3, <1>6 DEF EvalFails, Apply
<1>7. CASE Judge(c)
  <2>1. /\ pc[c] = "eval" /\ pc'[c] \in {"write", "final"}
        /\ cur'[c] = Judgement(c)
        /\ UNCHANGED <<policy, now, epoch, seen>>
    BY <1>p, <1>7 DEF Judge
  <2>2. Settled(epoch[c]) <= seen[c] /\ epoch[c] <= generation
    BY <1>o, <2>1 DEF FreshOK
  <2>3. /\ cur'[c].generation = epoch[c]
        /\ cur'[c].policy_generation = policy[c].generation
        /\ cur'[c].expires_at = Expiry(policy[c].generation, now[c])
        /\ cur'[c].verdict.policy = policy[c].generation
        /\ cur'[c].verdict.context = seen[c]
        /\ cur'[c].verdict.t = now[c]
    BY <2>1, SMT DEF Judgement
  <2>4. Good(cur'[c])
    BY <2>2, <2>3 DEF Good, GoodIn, Settled
  <2>5. ~(/\ Expiry(policy[c].generation, now[c]) # 0
          /\ now[c] >= Expiry(policy[c].generation, now[c]))
    <3>1. Expiry(policy[c].generation, now[c]) \in {0, now[c] + 1}
      BY DEF Expiry
    <3> QED
      BY <1>n, <3>1, SMT
  <2>6. Current(c, cur[c])'
    BY <2>1, <2>3, <2>5 DEF Current
  <2>7. pc'[c] \notin {"identify", "record", "eval"}
    BY <2>1
  <2> QED
    BY <1>k, <2>1, <2>2, <2>4, <2>6, <2>7
<1>8. CASE Write(c)
  <2>1. UNCHANGED <<cur, epoch, policy, now, slot>>
    BY <1>8 DEF Write
  <2>2. pc[c] \in Writing \cup {"write"}
    <3>1. ASSUME NEW from, NEW to, NEW t, WriteField(c, from, to, t)
          PROVE  pc[c] = from
      BY <3>1 DEF WriteField
    <3> QED
      BY <1>8, <3>1 DEF Write, WriteBegin, WriteEnd, Writing
  <2>3. pc'[c] \notin {"identify", "record", "eval"}
    <3>1. ASSUME NEW from, NEW to, NEW t, WriteField(c, from, to, t)
          PROVE  pc'[c] = to
      BY <1>p, <3>1 DEF WriteField
    <3>2. ASSUME OwnSentence(c) PROVE pc'[c] \in {"try", "final"}
      BY <1>p, <3>2 DEF OwnSentence
    <3>3. ASSUME WriteBegin(c) PROVE pc'[c] = "clear"
      BY <1>p, <3>3 DEF WriteBegin
    <3>4. pc'[c] \in {"clear", "w_policy", "w_expires", "w_verdict", "stamp",
                      "end", "try", "final"}
      BY <1>8, <3>1, <3>2, <3>3 DEF Write, WriteEnd
    <3> QED
      BY <3>4
  <2>4. Current(c, cur[c])
    BY <1>o, <2>2 DEF FreshOK, Deciding
  <2>5. Current(c, cur[c])'
    BY <2>1, <2>4 DEF Current
  <2> QED
    BY <1>k, <1>o, <2>1, <2>3, <2>5 DEF FreshOK
<1> QED
  BY <1>1, <1>2, <1>4, <1>5, <1>6, <1>7, <1>8, StepCases

LEMMA FreshStep ==
    ASSUME IndInv, FreshInv, [Next]_vars
    PROVE  FreshInv'
<1>t. TypeOK /\ TypeOK' /\ HistoryOK
  BY TypeStep DEF IndInv, FreshInv
<1>1. HistoryOK'
  BY <1>t, HistoryStep
<1>g. ASSUME NEW x \in Sentence, Good(x)
      PROVE  GoodIn(x, generation', settled')
  BY <1>t, <1>g, GoodStays DEF Good
<1>2. Good(NoSentence)'
  BY <1>g, TypeFacts DEF FreshInv, Good
<1>h. ASSUME NEW s \in Slots PROVE Held[s] \in Sentence
  <2>1. busy[s] => lock \in Cpus
    BY DEF IndInv, LockInv
  <2> QED
    BY <1>t, <2>1 DEF Held, TypeOK
<1>3. \A s \in Slots : GoodIn(Held[s], generation', settled')
  BY <1>g, <1>h DEF FreshInv
<1>4. ASSUME NEW c \in Cpus PROVE GoodIn(cur[c], generation', settled')
  <2>1. cur[c] \in Sentence /\ Good(cur[c])
    BY <1>t DEF TypeOK, FreshInv, FreshOK
  <2> QED
    BY <1>g, <2>1
<1>5. \A s \in Slots : Good(Held[s])'
  <2>1. CASE UNCHANGED Held
    BY <1>3, <2>1 DEF Good
  <2>2. ASSUME NEW c \in Cpus, Held' = [Held EXCEPT ![slot[c]] = cur[c]]
        PROVE  \A s \in Slots : Good(Held[s])'
    <3>1. \A s \in Slots : Held'[s] = cur[c] \/ Held'[s] = Held[s]
      BY <2>2 DEF Held
    <3> QED
      BY <1>3, <1>4, <3>1 DEF Good
  <2>3. CASE Publish \/ Tick \/ Destroy \/ UNCHANGED vars
    <3>1. UNCHANGED Held
      BY <2>3 DEF Publish, Tick, Destroy, vars, Held
    <3> QED
      BY <2>1, <3>1
  <2>4. ASSUME NEW c \in Cpus, Step(c) PROVE \A s \in Slots : Good(Held[s])'
    <3>1. CASE Write(c)
      BY <2>1, <2>2, <3>1, HeldWrite
    <3>2. CASE ~Write(c)
      <4>1. UNCHANGED Held
        BY <2>4, <3>2, HeldFrame DEF IndInv
      <4> QED
        BY <2>1, <4>1
    <3> QED
      BY <3>1, <3>2
  <2> QED
    BY <2>3, <2>4 DEF Next
<1>6. ASSUME NEW d \in Cpus PROVE FreshOK(d)'
  <2>0. FreshOK(d)
    BY DEF FreshInv
  <2>1. CASE Publish \/ Tick \/ Destroy \/ UNCHANGED vars
    <3>1. UNCHANGED <<pc, slot, reading, now, policy, epoch, cur, seen>>
      BY <2>1 DEF Publish, Tick, Destroy, vars
    <3> QED
      BY <1>t, <2>0, <3>1, FreshFrame
  <2>2. ASSUME NEW c \in Cpus, Step(c), c # d PROVE FreshOK(d)'
    <3>1. Same(d)
      BY <1>t, <2>2, OthersSame
    <3> QED
      BY <1>t, <2>0, <3>1, FreshFrame DEF Same
  <2>3. CASE Step(d)
    BY <2>3, FreshLookup, FreshOwn
  <2> QED
    BY <2>1, <2>2, <2>3 DEF Next
<1> QED
  BY <1>1, <1>2, <1>5, <1>6 DEF FreshInv

(* ntfe_flow_dispatch_policy: whatever the publishers and the other CPUs do *)
(* meanwhile, the verdict a packet is given was judged by its snapshot's    *)
(* policy, from a context at least as new as the one settled at its epoch,  *)
(* and has not lapsed.                                                      *)
THEOREM AppliedVerdictsFresh == Spec => []AppliedVerdictIsFresh
<1>1. IndInv /\ FreshInv => AppliedVerdictIsFresh
  <2> SUFFICES ASSUME IndInv, FreshInv, NEW c \in Cpus, pc[c] = "final"
               PROVE  LET v == cur[c].verdict IN
                      /\ v.policy = policy[c].generation
                      /\ v.context >= Settled(epoch[c])
                      /\ v.policy \in Timed => now[c] <= v.t
    BY DEF AppliedVerdictIsFresh
  <2>1. Good(cur[c]) /\ Current(c, cur[c])
    BY DEF FreshInv, FreshOK, Deciding
  <2>2. /\ cur[c] \in Sentence /\ now[c] \in Nat /\ epoch[c] \in Nat
        /\ settled \in Seq(Nat) /\ generation \in Nat
        /\ Len(settled) = generation + 1 /\ epoch[c] <= generation
    BY DEF IndInv, TypeOK, FreshInv, FreshOK
  <2>3. cur[c].verdict.t \in Nat /\ cur[c].verdict.context \in Nat
    BY <2>2 DEF Sentence, Verdict
  <2>4. Settled(epoch[c]) \in Nat
    BY <2>2, SMT DEF Settled
  <2>5. /\ cur[c].generation = epoch[c]
        /\ cur[c].policy_generation = policy[c].generation
        /\ ~(cur[c].expires_at # 0 /\ now[c] >= cur[c].expires_at)
    BY <2>1 DEF Current
  <2>6. /\ cur[c].verdict.policy = cur[c].policy_generation
        /\ Settled(epoch[c]) <= cur[c].verdict.context
        /\ cur[c].expires_at = Expiry(cur[c].verdict.policy, cur[c].verdict.t)
    BY <2>1, <2>5 DEF Good, GoodIn, Settled
  <2>7. ASSUME cur[c].verdict.policy \in Timed
        PROVE  now[c] <= cur[c].verdict.t
    <3>1. cur[c].expires_at = cur[c].verdict.t + 1
      BY <2>6, <2>7 DEF Expiry
    <3> QED
      BY <2>2, <2>3, <2>5, <3>1, SMT
  <2>8. cur[c].verdict.context >= Settled(epoch[c])
    BY <2>3, <2>4, <2>6
  <2> QED
    BY <2>5, <2>6, <2>7, <2>8
<1>2. Init => FreshInv
  BY FreshInit
<1>3. IndInv /\ FreshInv /\ [Next]_vars => FreshInv'
  BY FreshStep
<1> QED
  BY <1>1, <1>2, <1>3, Inductive, PTL DEF Spec

-----------------------------------------------------------------------------
(* Owners. An identity a CPU has for an endpoint of a tracked flow is the   *)
(* recorded one, but for the end it is about to record.                     *)
IdOK(c) ==
    \A s \in Slots : extension /\ ids[c][s] # None =>
        ids[c][s] = owner[s] \/ (pc[c] = "record" /\ end[c] = s)

IdInv == \A c \in Cpus : IdOK(c)

(* A recorded owner stays.                                                  *)
LEMMA OwnerStays ==
    ASSUME TypeOK, [Next]_vars, NEW s \in Slots, owner[s] # None
    PROVE  owner'[s] = owner[s]
<1>p. owner \in [Slots -> Identity]
  BY DEF TypeOK
<1>1. CASE Publish \/ Tick \/ Destroy \/ UNCHANGED vars
  BY <1>1 DEF Publish, Tick, Destroy, vars
<1>2. ASSUME NEW c \in Cpus, Step(c) PROVE owner'[s] = owner[s]
  <2>1. ASSUME Leave(c) PROVE UNCHANGED owner
    BY <2>1 DEF Leave
  <2>2. CASE Attribute(c)
    <3>1. ASSUME Record(c) PROVE owner'[s] = owner[s]
      BY <1>p, <3>1 DEF Record
    <3> QED
      BY <2>2, <3>1 DEF Attribute, ReadRecorded, ResolveAbsent,
         ResolveOwner
  <2>3. CASE ~Attribute(c)
    BY <1>2, <2>1, <2>3, StepCases DEF SnapshotPolicy, SnapshotEpoch,
       Lookup, View, EvalFails, Judge, Write, Apply
  <2> QED
    BY <2>2, <2>3
<1> QED
  BY <1>1, <1>2 DEF Next

LEMMA ExtensionStays ==
    ASSUME [Next]_vars
    PROVE  UNCHANGED extension
<1>1. CASE Publish \/ Tick \/ Destroy \/ UNCHANGED vars
  BY <1>1 DEF Publish, Tick, Destroy, vars
<1>2. ASSUME NEW c \in Cpus, Step(c) PROVE UNCHANGED extension
  <2>1. ASSUME Leave(c) PROVE UNCHANGED extension
    BY <2>1 DEF Leave
  <2> QED
    BY <1>2, <2>1, StepCases DEF SnapshotPolicy, SnapshotEpoch, Lookup,
       View, Attribute, EvalFails, Judge, Write, Apply
<1> QED
  BY <1>1, <1>2 DEF Next

LEMMA IdFrame ==
    ASSUME TypeOK, [Next]_vars, NEW c \in Cpus, IdOK(c), UNCHANGED ids[c],
           pc[c] = "record" => pc'[c] = "record" /\ end'[c] = end[c]
    PROVE  IdOK(c)'
BY OwnerStays, ExtensionStays DEF IdOK

LEMMA IdCleared ==
    ASSUME NEW c \in Cpus, ids'[c] = [s \in Slots |-> None]
    PROVE  IdOK(c)'
BY DEF IdOK

LEMMA IdAttribute ==
    ASSUME TypeOK, [Next]_vars, NEW c \in Cpus, IdOK(c), Attribute(c)
    PROVE  IdOK(c)'
<1>p. /\ pc \in [Cpus -> Pcs] /\ end \in [Cpus -> Slots] /\ end[c] \in Slots
      /\ ids \in [Cpus -> [Slots -> Identity]] /\ ids[c] \in [Slots -> Identity]
      /\ owner \in [Slots -> Identity]
  BY DEF TypeOK
<1>x. UNCHANGED extension
  BY ExtensionStays
<1>1. CASE ReadRecorded(c)
  <2>1. /\ pc[c] = "identify" /\ UNCHANGED owner
        /\ ids'[c] = [ids[c] EXCEPT ![end[c]] = owner[end[c]]]
    BY <1>p, <1>1 DEF ReadRecorded
  <2>2. \A s \in Slots : ids'[c][s] = owner[s] \/ ids'[c][s] = ids[c][s]
    BY <1>p, <2>1
  <2> QED
    BY <1>x, <2>1, <2>2 DEF IdOK
<1>2. CASE ResolveAbsent(c)
  <2>1. pc[c] = "identify" /\ UNCHANGED ids[c]
    BY <1>2 DEF ResolveAbsent
  <2> QED
    BY <2>1, IdFrame
<1>3. CASE ResolveOwner(c)
  <2>1. CASE ~extension
    BY <1>x, <2>1 DEF IdOK
  <2>2. CASE extension
    <3>1. /\ pc[c] = "identify" /\ pc'[c] = "record" /\ UNCHANGED <<end, owner>>
      BY <1>p, <1>3, <2>2 DEF ResolveOwner
    <3>2. \A s \in Slots : s # end[c] => ids'[c][s] = ids[c][s]
      BY <1>p, <1>3 DEF ResolveOwner
    <3> QED
      BY <1>x, <3>1, <3>2 DEF IdOK
  <2> QED
    BY <2>1, <2>2
<1>4. CASE Record(c)
  <2>1. CASE owner[end[c]] = None
    <3>1. /\ owner' = [owner EXCEPT ![end[c]] = ids[c][end[c]]]
          /\ UNCHANGED ids
      BY <1>4, <2>1 DEF Record
    <3>2. owner'[end[c]] = ids[c][end[c]]
      BY <1>p, <3>1
    <3>3. \A s \in Slots : s # end[c] => owner'[s] = owner[s]
      BY <1>p, <3>1
    <3> QED
      BY <1>x, <3>1, <3>2, <3>3 DEF IdOK
  <2>2. CASE owner[end[c]] # None
    <3>1. /\ UNCHANGED owner
          /\ ids'[c] = [ids[c] EXCEPT ![end[c]] = owner[end[c]]]
      BY <1>p, <1>4, <2>2 DEF Record
    <3>2. /\ ids'[c][end[c]] = owner[end[c]]
          /\ \A s \in Slots : s # end[c] => ids'[c][s] = ids[c][s]
      BY <1>p, <3>1
    <3> QED
      BY <1>x, <3>1, <3>2 DEF IdOK
  <2> QED
    BY <2>1, <2>2
<1> QED
  BY <1>1, <1>2, <1>3, <1>4 DEF Attribute

LEMMA IdStep ==
    ASSUME TypeOK, IdInv, [Next]_vars
    PROVE  IdInv'
<1> SUFFICES ASSUME NEW d \in Cpus PROVE IdOK(d)'
  BY DEF IdInv
<1>0. IdOK(d)
  BY DEF IdInv
<1>p. pc \in [Cpus -> Pcs] /\ ids \in [Cpus -> [Slots -> Identity]]
  BY DEF TypeOK
<1>1. CASE Publish \/ Tick \/ Destroy \/ UNCHANGED vars
  <2>1. UNCHANGED <<pc, end, ids>>
    BY <1>1 DEF Publish, Tick, Destroy, vars
  <2> QED
    BY <1>0, <2>1, IdFrame
<1>2. ASSUME NEW c \in Cpus, Step(c), c # d PROVE IdOK(d)'
  <2>1. Same(d)
    BY <1>2, OthersSame
  <2> QED
    BY <1>0, <2>1, IdFrame DEF Same
<1>3. CASE Step(d)
  <2>1. ASSUME Leave(d) PROVE IdOK(d)'
    <3>1. ids'[d] = [s \in Slots |-> None]
      BY <1>p, <2>1 DEF Leave
    <3> QED
      BY <3>1, IdCleared
  <2>2. ASSUME pc[d] # "record", UNCHANGED ids PROVE IdOK(d)'
    BY <1>0, <2>2, IdFrame
  <2>3. CASE SnapshotPolicy(d) \/ SnapshotEpoch(d)
    BY <2>2, <2>3 DEF SnapshotPolicy, SnapshotEpoch
  <2>4. CASE Lookup(d)
    <3>1. UNCHANGED ids
      BY <2>4 DEF Lookup
    <3>2. pc[d] # "record"
      BY <2>4 DEF Lookup, ReadTry, ReadGeneration, ReadPolicyGeneration,
         ReadExpiresAt, ReadVerdict, ReadTorn, ReadOwn, ReadOther
    <3> QED
      BY <2>2, <3>1, <3>2
  <2>5. CASE View(d)
    <3>1. Leave(d) \/ UNCHANGED ids
      BY <2>5 DEF View
    <3>2. pc[d] = "view"
      BY <2>5 DEF View
    <3> QED
      BY <2>1, <2>2, <3>1, <3>2
  <2>6. CASE Attribute(d)
    BY <1>0, <2>6, IdAttribute
  <2>7. CASE EvalFails(d) \/ Apply(d)
    BY <2>1, <2>7 DEF EvalFails, Apply
  <2>8. CASE Judge(d)
    <3>1. pc[d] = "eval"
      BY <2>8 DEF Judge
    <3>2. UNCHANGED ids \/ ids'[d] = [s \in Slots |-> None]
      BY <1>p, <2>8 DEF Judge
    <3> QED
      BY <2>2, <3>1, <3>2, IdCleared
  <2>9. CASE Write(d)
    <3>1. UNCHANGED ids
      BY <2>9 DEF Write
    <3>2. ASSUME NEW from, NEW to, NEW t, WriteField(d, from, to, t)
          PROVE  pc[d] = from
      BY <3>2 DEF WriteField
    <3>3. pc[d] # "record"
      BY <2>9, <3>2 DEF Write, WriteBegin, WriteEnd
    <3> QED
      BY <2>2, <3>1, <3>3
  <2> QED
    BY <1>3, <2>3, <2>4, <2>5, <2>6, <2>7, <2>8, <2>9, StepCases
<1> QED
  BY <1>1, <1>2, <1>3 DEF Next

(* ntfe_flow_identity: however the CPUs race to attribute an endpoint, each *)
(* judges it by the one owner the flow's extension recorded.                *)
THEOREM OwnersAgree == Spec => []JudgedByRecordedOwner
<1>1. Init => IdInv
  BY DEF Init, IdInv, IdOK
<1>2. TypeOK /\ IdInv /\ [Next]_vars => IdInv'
  BY IdStep
<1>3. IdInv => JudgedByRecordedOwner
  BY DEF IdInv, IdOK, JudgedByRecordedOwner
<1> QED
  BY <1>1, <1>2, <1>3, FlowTypeCorrect, PTL DEF Spec

-----------------------------------------------------------------------------
(* References. A CPU that has resolved an endpoint holds a reference to its *)
(* owner until it records it, or until its packet leaves if there is no     *)
(* extension to record it in.                                               *)
OnFlow(o) == {s \in Slots : alive /\ owner[s] = o}
InHand(o) == {cs \in Cpus \X Slots : Holds(cs[1], cs[2], o)}

RefInv ==
    \A o \in Owners :
        /\ IsFiniteSet(InHand(o))
        /\ refs[o] = Cardinality(OnFlow(o)) + Cardinality(InHand(o))

(* What a CPU has resolved where: nothing before it identifies, and nothing *)
(* yet for the end it is at.                                                *)
HandOK(c) ==
    /\ pc[c] = "record" => extension /\ ids[c][end[c]] # None
    /\ ~extension /\ pc[c] \notin {"identify", "eval", "final"} =>
          \A s \in Slots : ids[c][s] = None
    /\ ~extension /\ pc[c] = "identify" =>
          ids[c][end[c]] = None /\ (end[c] = 0 => ids[c][1] = None)
    /\ pc[c] # "idle" => alive

HandInv ==
    /\ \A c \in Cpus : HandOK(c)
    /\ ~extension => \A s \in Slots : owner[s] = None

LEMMA FlowStays ==
    ASSUME NEW c \in Cpus, Step(c)
    PROVE  UNCHANGED <<extension, alive>>
<1>1. ASSUME Leave(c) PROVE UNCHANGED <<extension, alive>>
  BY <1>1 DEF Leave
<1> QED
  BY <1>1, StepCases DEF SnapshotPolicy, SnapshotEpoch, Lookup, View, Attribute,
     EvalFails, Judge, Write, Apply

(* Nothing is resolved outside the identification of the ends.              *)
LEMMA HandQuiet ==
    ASSUME NEW c \in Cpus, HandOK(c), alive', UNCHANGED <<extension, ids[c]>>,
           pc'[c] \notin {"identify", "record"},
           pc[c] \in {"identify", "eval", "final"} => pc'[c] \in {"eval", "final"}
    PROVE  HandOK(c)'
BY DEF HandOK

LEMMA NextEndEffect ==
    ASSUME TypeOK, NEW c \in Cpus, NextEnd(c)
    PROVE  \/ pc'[c] = "identify" /\ end[c] = 0 /\ end'[c] = 1
           \/ pc'[c] = "eval" /\ end'[c] = end[c]
BY DEF NextEnd, TypeOK

LEMMA HandAttribute ==
    ASSUME TypeOK, HandInv, NEW c \in Cpus, Attribute(c)
    PROVE  HandOK(c)'
<1>p. /\ pc \in [Cpus -> Pcs] /\ end \in [Cpus -> Slots] /\ end[c] \in Slots
      /\ ids \in [Cpus -> [Slots -> Identity]] /\ ids[c] \in [Slots -> Identity]
  BY DEF TypeOK
<1>q. 0 \in Slots /\ 1 \in Slots /\ 0 # 1
  BY SMT DEF Slots
<1>1. /\ HandOK(c) /\ UNCHANGED extension /\ pc[c] \in {"identify", "record"}
      /\ alive'
  BY DEF HandInv, HandOK, Attribute, ReadRecorded, ResolveAbsent, ResolveOwner, Record
<1>2. CASE ReadRecorded(c)
  <2>1. extension
    BY <1>p, <1>2 DEF HandInv, ReadRecorded
  <2>2. pc'[c] # "record"
    BY <1>2, NextEndEffect DEF ReadRecorded
  <2> QED
    BY <1>1, <2>1, <2>2 DEF HandOK
<1>3. CASE ResolveAbsent(c)
  <2>1. NextEnd(c) /\ UNCHANGED ids /\ pc[c] = "identify"
    BY <1>3 DEF ResolveAbsent
  <2>2. \/ pc'[c] = "identify" /\ end[c] = 0 /\ end'[c] = 1
        \/ pc'[c] = "eval" /\ end'[c] = end[c]
    BY <2>1, NextEndEffect
  <2> QED
    BY <1>q, <1>1, <2>1, <2>2 DEF HandOK
<1>4. CASE ResolveOwner(c) /\ extension
  <2>1. PICK o \in Candidates[end[c]] : ids' = [ids EXCEPT ![c][end[c]] = o]
    BY <1>4 DEF ResolveOwner
  <2>2. o # None
    BY <1>p, FlowAssumption
  <2>3. pc'[c] = "record" /\ UNCHANGED end
    BY <1>p, <1>4 DEF ResolveOwner
  <2>4. ids'[c][end[c]] = o
    BY <1>p, <2>1
  <2> QED
    BY <1>1, <1>4, <2>2, <2>3, <2>4 DEF HandOK
<1>5. CASE ResolveOwner(c) /\ ~extension
  <2>1. NextEnd(c) /\ pc[c] = "identify"
    BY <1>5 DEF ResolveOwner
  <2>2. \/ pc'[c] = "identify" /\ end[c] = 0 /\ end'[c] = 1
        \/ pc'[c] = "eval" /\ end'[c] = end[c]
    BY <2>1, NextEndEffect
  <2>3. end[c] = 0 => ids'[c][1] = ids[c][1]
    BY <1>p, <1>q, <1>5 DEF ResolveOwner
  <2> QED
    BY <1>q, <1>1, <2>1, <2>2, <2>3 DEF HandOK
<1>6. CASE Record(c)
  <2>1. extension
    BY <1>1, <1>6 DEF HandOK, Record
  <2>2. pc'[c] # "record"
    BY <1>6, NextEndEffect DEF Record
  <2> QED
    BY <1>1, <2>1, <2>2 DEF HandOK
<1> QED
  BY <1>2, <1>3, <1>4, <1>5, <1>6 DEF Attribute

LEMMA HandLocal ==
    ASSUME TypeOK, HandInv, NEW c \in Cpus, Step(c)
    PROVE  HandOK(c)'
<1>p. /\ pc \in [Cpus -> Pcs] /\ end \in [Cpus -> Slots]
      /\ ids \in [Cpus -> [Slots -> Identity]]
  BY DEF TypeOK
<1>q. 0 \in Slots /\ 1 \in Slots
  BY DEF Slots
<1>1. HandOK(c) /\ UNCHANGED <<extension, alive>>
  BY FlowStays DEF HandInv
<1>2. ASSUME Leave(c) PROVE HandOK(c)'
  <2>1. pc'[c] = "idle" /\ ids'[c] = [s \in Slots |-> None]
    BY <1>p, <1>2 DEF Leave
  <2> QED
    BY <2>1 DEF HandOK
<1>3. CASE SnapshotPolicy(c) \/ SnapshotEpoch(c)
  <2>1. /\ UNCHANGED ids /\ alive /\ pc[c] \in {"idle", "epoch"}
        /\ pc'[c] \in {"epoch", "try", "view"}
    BY <1>p, <1>1, <1>3 DEF SnapshotPolicy, SnapshotEpoch, HandOK
  <2> QED
    BY <1>1, <2>1, HandQuiet
<1>4. CASE Lookup(c)
  <2>1. UNCHANGED ids
    BY <1>4 DEF Lookup
  <2>2. pc[c] \in {"try", "generation", "policy_generation", "expires_at",
                   "verdict", "retry"}
    BY <1>4 DEF Lookup, ReadTry, ReadGeneration, ReadPolicyGeneration,
       ReadExpiresAt, ReadVerdict, ReadTorn, ReadOwn, ReadOther
  <2>3. ASSUME Missed(c) \/ OwnSentence(c) PROVE pc'[c] \notin {"identify", "record"}
    BY <1>p, <2>3 DEF Missed, OwnSentence
  <2>4. CASE ReadTry(c) \/ ReadGeneration(c) \/ ReadTorn(c) \/ ReadOwn(c)
    <3>1. pc'[c] \notin {"identify", "record"}
      BY <1>p, <2>3, <2>4 DEF ReadTry, ReadGeneration, ReadTorn, ReadOwn
    <3> QED
      BY <1>1, <2>1, <2>2, <3>1, HandQuiet DEF HandOK
  <2>5. CASE \/ ReadPolicyGeneration(c) \/ ReadExpiresAt(c) \/ ReadVerdict(c)
             \/ ReadOther(c)
    <3>1. pc'[c] \notin {"identify", "record"}
      BY <1>p, <2>5 DEF ReadPolicyGeneration, ReadExpiresAt, ReadVerdict, ReadOther
    <3> QED
      BY <1>1, <2>1, <2>2, <3>1, HandQuiet DEF HandOK
  <2> QED
    BY <1>4, <2>4, <2>5 DEF Lookup
<1>5. CASE View(c)
  <2>1. pc[c] = "view"
    BY <1>5 DEF View
  <2>2. CASE policy[c].forest
    <3>1. pc'[c] = "identify" /\ end'[c] = 0 /\ UNCHANGED ids
      BY <1>p, <1>5, <2>2 DEF View
    <3> QED
      BY <1>q, <1>1, <2>1, <3>1 DEF HandOK
  <2> QED
    BY <1>2, <1>5, <2>2 DEF View
<1>6. CASE Attribute(c)
  BY <1>6, HandAttribute
<1>7. CASE EvalFails(c) \/ Apply(c)
  BY <1>2, <1>7 DEF EvalFails, Apply
<1>8. CASE Judge(c)
  <2>1. pc[c] = "eval"
    BY <1>8 DEF Judge
  <2>2. CASE extension
    <3>1. pc'[c] = "write"
      BY <1>p, <1>8, <2>2 DEF Judge
    <3> QED
      BY <1>1, <2>1, <2>2, <3>1 DEF HandOK
  <2>3. CASE ~extension
    <3>1. pc'[c] = "final" /\ UNCHANGED ids
      BY <1>p, <1>8, <2>3 DEF Judge
    <3> QED
      BY <1>1, <2>1, <3>1, HandQuiet DEF HandOK
  <2> QED
    BY <2>2, <2>3
<1>9. CASE Write(c)
  <2>1. UNCHANGED ids
    BY <1>9 DEF Write
  <2>2. ASSUME NEW from, NEW to, NEW t, WriteField(c, from, to, t)
        PROVE  pc[c] = from /\ pc'[c] = to
    BY <1>p, <2>2 DEF WriteField
  <2>3. ASSUME WriteBegin(c) \/ WriteEnd(c)
        PROVE  /\ pc[c] \in {"write", "end"}
               /\ pc'[c] \notin {"identify", "record"}
    BY <1>p, <2>3 DEF WriteBegin, WriteEnd, OwnSentence
  <2>4. CASE \E t : WriteField(c, "clear", "w_policy", t)
    <3>1. pc[c] = "clear" /\ pc'[c] = "w_policy"
      BY <2>2, <2>4
    <3> QED
      BY <1>1, <2>1, <3>1, HandQuiet DEF HandOK
  <2>5. CASE \E t : WriteField(c, "w_policy", "w_expires", t)
    <3>1. pc[c] = "w_policy" /\ pc'[c] = "w_expires"
      BY <2>2, <2>5
    <3> QED
      BY <1>1, <2>1, <3>1, HandQuiet DEF HandOK
  <2>6. CASE \E t : WriteField(c, "w_expires", "w_verdict", t)
    <3>1. pc[c] = "w_expires" /\ pc'[c] = "w_verdict"
      BY <2>2, <2>6
    <3> QED
      BY <1>1, <2>1, <3>1, HandQuiet DEF HandOK
  <2>7. CASE \E t : WriteField(c, "w_verdict", "stamp", t)
    <3>1. pc[c] = "w_verdict" /\ pc'[c] = "stamp"
      BY <2>2, <2>7
    <3> QED
      BY <1>1, <2>1, <3>1, HandQuiet DEF HandOK
  <2>8. CASE \E t : WriteField(c, "stamp", "end", t)
    <3>1. pc[c] = "stamp" /\ pc'[c] = "end"
      BY <2>2, <2>8
    <3> QED
      BY <1>1, <2>1, <3>1, HandQuiet DEF HandOK
  <2>9. CASE WriteBegin(c) \/ WriteEnd(c)
    BY <1>1, <2>1, <2>3, <2>9, HandQuiet DEF HandOK
  <2> QED
    BY <1>9, <2>4, <2>5, <2>6, <2>7, <2>8, <2>9 DEF Write
<1> QED
  BY <1>3, <1>4, <1>5, <1>6, <1>7, <1>8, <1>9, StepCases

LEMMA HandStep ==
    ASSUME TypeOK, HandInv, [Next]_vars
    PROVE  HandInv'
<1>1. CASE Publish \/ Tick \/ UNCHANGED vars
  <2>1. UNCHANGED <<pc, end, ids, alive, extension, owner>>
    BY <1>1 DEF Publish, Tick, vars
  <2> QED
    BY <2>1 DEF HandInv, HandOK
<1>2. CASE Destroy
  <2>1. UNCHANGED <<pc, end, ids, extension, owner>> /\ \A c \in Cpus : pc[c] = "idle"
    BY <1>2 DEF Destroy
  <2> QED
    BY <2>1 DEF HandInv, HandOK
<1>3. ASSUME NEW c \in Cpus, Step(c) PROVE HandInv'
  <2>1. UNCHANGED <<extension, alive>>
    BY <1>3, FlowStays
  <2>2. ASSUME NEW d \in Cpus PROVE HandOK(d)'
    <3>1. CASE d = c
      BY <1>3, <3>1, HandLocal
    <3>2. CASE d # c
      <4>1. Same(d) /\ HandOK(d)
        BY <1>3, <3>2, OthersSame DEF HandInv
      <4> QED
        BY <2>1, <4>1 DEF Same, HandOK
    <3> QED
      BY <3>1, <3>2
  <2>3. ASSUME ~extension PROVE UNCHANGED owner
    <3>1. ~Record(c)
      BY <2>3 DEF Record, HandInv, HandOK
    <3>2. ASSUME Leave(c) PROVE UNCHANGED owner
      BY <3>2 DEF Leave
    <3> QED
      BY <1>3, <3>1, <3>2, StepCases DEF SnapshotPolicy, SnapshotEpoch, Lookup,
         View, Attribute, ReadRecorded, ResolveAbsent, ResolveOwner, EvalFails,
         Judge, Write, Apply
  <2> QED
    BY <2>1, <2>2, <2>3 DEF HandInv
<1> QED
  BY <1>1, <1>2, <1>3 DEF Next

(* What the pairs in hand are after a step, from what each packet holds.    *)
LEMMA HandsLeft ==
    ASSUME NEW o, NEW R,
           \A d \in Cpus, s \in Slots :
               Holds(d, s, o)' <=> Holds(d, s, o) /\ <<d, s>> \notin R
    PROVE  InHand(o)' = InHand(o) \ R
<1>1. ASSUME NEW cs \in Cpus \X Slots
      PROVE  Holds(cs[1], cs[2], o)' <=> Holds(cs[1], cs[2], o) /\ cs \notin R
  <2>1. cs[1] \in Cpus /\ cs[2] \in Slots /\ cs = <<cs[1], cs[2]>>
    BY SMT
  <2> QED
    BY <2>1
<1> QED
  BY <1>1 DEF InHand

LEMMA HandsGain ==
    ASSUME NEW o, NEW x \in Cpus \X Slots,
           \A d \in Cpus, s \in Slots :
               Holds(d, s, o)' <=> Holds(d, s, o) \/ <<d, s>> = x
    PROVE  InHand(o)' = InHand(o) \cup {x}
<1>1. ASSUME NEW cs \in Cpus \X Slots
      PROVE  Holds(cs[1], cs[2], o)' <=> Holds(cs[1], cs[2], o) \/ cs = x
  <2>1. cs[1] \in Cpus /\ cs[2] \in Slots /\ cs = <<cs[1], cs[2]>>
    BY SMT
  <2> QED
    BY <2>1
<1> QED
  BY <1>1 DEF InHand

LEMMA HandsSame ==
    ASSUME NEW o,
           \A d \in Cpus, s \in Slots : Holds(d, s, o)' <=> Holds(d, s, o)
    PROVE  InHand(o)' = InHand(o)
<1>1. InHand(o)' = InHand(o) \ {}
  BY HandsLeft
<1> QED
  BY <1>1

LEMMA InHandPair ==
    ASSUME NEW o, NEW c \in Cpus, NEW s \in Slots
    PROVE  <<c, s>> \in InHand(o) <=> Holds(c, s, o)
<1>1. <<c, s>> \in Cpus \X Slots /\ <<c, s>>[1] = c /\ <<c, s>>[2] = s
  OBVIOUS
<1> QED
  BY <1>1 DEF InHand

(* A set of ends has as many members as it has ends 0 and 1.                *)
LEMMA EndsCount ==
    ASSUME NEW T, T \subseteq Slots
    PROVE  Cardinality(T) = (IF 0 \in T THEN 1 ELSE 0) + (IF 1 \in T THEN 1 ELSE 0)
<1>1. IsFiniteSet({}) /\ Cardinality({}) = 0
  BY FS_EmptySet
<1>2. /\ IsFiniteSet({} \cup {0}) /\ Cardinality({} \cup {0}) = 1
      /\ Cardinality({} \cup {1}) = 1
  <2>1. 0 \notin {} /\ 1 \notin {}
    OBVIOUS
  <2>2. /\ Cardinality({} \cup {0}) = Cardinality({}) + 1
        /\ Cardinality({} \cup {1}) = Cardinality({}) + 1
        /\ IsFiniteSet({} \cup {0})
    BY <1>1, <2>1, FS_AddElement
  <2> QED
    BY <1>1, <2>2, SMT
<1>3. Cardinality(({} \cup {0}) \cup {1}) = 2
  <2>1. 1 \notin {} \cup {0}
    BY SMT
  <2>2. Cardinality(({} \cup {0}) \cup {1}) = Cardinality({} \cup {0}) + 1
    BY <1>2, <2>1, FS_AddElement
  <2> QED
    BY <1>2, <2>2, SMT
<1>4. T = {} \/ T = {} \cup {0} \/ T = {} \cup {1} \/ T = ({} \cup {0}) \cup {1}
  <2>1. \A e \in T : e = 0 \/ e = 1
    BY DEF Slots
  <2>2. CASE 0 \in T
    BY <2>1, <2>2
  <2>3. CASE 0 \notin T
    BY <2>1, <2>3
  <2> QED
    BY <2>2, <2>3
<1>5. CASE T = {}
  BY <1>1, <1>5, SMT
<1>6. CASE T = {} \cup {0}
  BY <1>2, <1>6, SMT
<1>7. CASE T = {} \cup {1}
  BY <1>2, <1>7, SMT
<1>8. CASE T = ({} \cup {0}) \cup {1}
  BY <1>3, <1>8, SMT
<1> QED
  BY <1>4, <1>5, <1>6, <1>7, <1>8

LEMMA OnFlowCount ==
    ASSUME NEW o
    PROVE  Cardinality(OnFlow(o)) \in Nat
<1>1. OnFlow(o) \subseteq Slots
  BY DEF OnFlow
<1> QED
  BY <1>1, HoldersCount

(* A step that holds and keeps what was held and kept changes no count.     *)
LEMMA RefSame ==
    ASSUME RefInv, UNCHANGED <<refs, owner, alive>>,
           \A o \in Owners, d \in Cpus, s \in Slots :
               Holds(d, s, o)' <=> Holds(d, s, o)
    PROVE  RefInv'
<1>1. ASSUME NEW o \in Owners
      PROVE  InHand(o)' = InHand(o) /\ OnFlow(o)' = OnFlow(o)
  BY HandsSame DEF OnFlow
<1> QED
  BY <1>1 DEF RefInv

LEMMA OthersHold ==
    ASSUME TypeOK, NEW c \in Cpus, Step(c)
    PROVE  \A o \in Owners, d \in Cpus, s \in Slots :
               d # c => (Holds(d, s, o)' <=> Holds(d, s, o))
<1>1. UNCHANGED extension
  BY FlowStays
<1>2. ASSUME NEW o \in Owners, NEW d \in Cpus, NEW s \in Slots, d # c
      PROVE  Holds(d, s, o)' <=> Holds(d, s, o)
  <2>1. Same(d)
    BY <1>2, OthersSame
  <2> QED
    BY <1>1, <2>1 DEF Same, Holds
<1> QED
  BY <1>2

(* Outside the record of an end, a packet holds what it held.               *)
LEMMA RefQuiet ==
    ASSUME TypeOK, RefInv, NEW c \in Cpus, Step(c), UNCHANGED <<refs, owner>>,
           pc[c] # "record", pc'[c] # "record",
           extension \/ ids'[c] = ids[c]
    PROVE  RefInv'
<1>1. UNCHANGED <<extension, alive>>
  BY FlowStays
<1>2. \A o \in Owners, s \in Slots : Holds(c, s, o)' <=> Holds(c, s, o)
  BY <1>1 DEF Holds
<1>3. \A o \in Owners, d \in Cpus, s \in Slots :
          d # c => (Holds(d, s, o)' <=> Holds(d, s, o))
  BY OthersHold
<1>4. \A o \in Owners, d \in Cpus, s \in Slots : Holds(d, s, o)' <=> Holds(d, s, o)
  BY <1>2, <1>3
<1> QED
  BY <1>1, <1>4, RefSame
LEMMA RefResolve ==
    ASSUME TypeOK, HandInv, RefInv, NEW c \in Cpus, Step(c), ResolveOwner(c)
    PROVE  RefInv'
<1>p. /\ pc \in [Cpus -> Pcs] /\ end[c] \in Slots /\ refs \in [Owners -> Int]
      /\ ids \in [Cpus -> [Slots -> Identity]] /\ ids[c] \in [Slots -> Identity]
  BY DEF TypeOK
<1>1. UNCHANGED <<extension, alive, owner>> /\ pc[c] = "identify"
  BY FlowStays DEF ResolveOwner
<1>2. PICK p \in Candidates[end[c]] :
          /\ ids' = [ids EXCEPT ![c][end[c]] = p]
          /\ refs' = [refs EXCEPT ![p] = @ + 1]
  BY DEF ResolveOwner
<1>3. p \in Owners /\ p # None
  BY <1>p, FlowAssumption
<1>4. /\ ids'[c][end[c]] = p
      /\ \A s \in Slots : s # end[c] => ids'[c][s] = ids[c][s]
  BY <1>p, <1>2
<1>5. extension => pc'[c] = "record" /\ end'[c] = end[c]
  BY <1>p DEF ResolveOwner
<1>6. ~extension => ids[c][end[c]] = None
  BY <1>1 DEF HandInv, HandOK
<1>7. \A o \in Owners, s \in Slots : Holds(c, s, o) => ~extension /\ s # end[c]
  BY <1>1, <1>6, FlowAssumption DEF Holds
<1>8. \A o \in Owners, s \in Slots :
          Holds(c, s, o)' <=> Holds(c, s, o) \/ (s = end[c] /\ o = p)
  <2>1. CASE extension
    BY <1>1, <1>4, <1>5, <1>7, <2>1 DEF Holds
  <2>2. CASE ~extension
    BY <1>1, <1>3, <1>4, <1>7, <2>2 DEF Holds
  <2> QED
    BY <2>1, <2>2
<1>9. \A o \in Owners, d \in Cpus, s \in Slots :
          d # c => (Holds(d, s, o)' <=> Holds(d, s, o))
  BY OthersHold
<1>10. ASSUME NEW o \in Owners
       PROVE  /\ IsFiniteSet(InHand(o)')
              /\ refs'[o] = Cardinality(OnFlow(o)') + Cardinality(InHand(o)')
  <2>1. /\ IsFiniteSet(InHand(o)) /\ OnFlow(o)' = OnFlow(o)
        /\ refs[o] = Cardinality(OnFlow(o)) + Cardinality(InHand(o))
    BY <1>1 DEF RefInv, OnFlow
  <2>2. CASE o = p
    <3> DEFINE x == <<c, end[c]>>
    <3>1. x \in Cpus \X Slots /\ \A d, s : <<d, s>> = x <=> d = c /\ s = end[c]
      BY <1>p
    <3>2. \A d \in Cpus, s \in Slots :
              Holds(d, s, o)' <=> Holds(d, s, o) \/ <<d, s>> = x
      BY <1>8, <1>9, <2>2, <3>1
    <3>3. x \notin InHand(o)
      BY <1>p, <1>7, InHandPair
    <3>4. InHand(o)' = InHand(o) \cup {x}
      BY <3>1, <3>2, HandsGain
    <3>5. /\ IsFiniteSet(InHand(o)')
          /\ Cardinality(InHand(o)') = Cardinality(InHand(o)) + 1
      <4>1. /\ IsFiniteSet(InHand(o) \cup {x})
            /\ Cardinality(InHand(o) \cup {x}) =
               IF x \in InHand(o) THEN Cardinality(InHand(o))
                                   ELSE Cardinality(InHand(o)) + 1
        BY <2>1, FS_AddElement
      <4> QED
        BY <3>3, <3>4, <4>1
    <3>6. refs'[o] = refs[o] + 1
      BY <1>p, <1>2, <2>2
    <3>7. Cardinality(OnFlow(o)) \in Nat /\ Cardinality(InHand(o)) \in Nat
      BY <2>1, OnFlowCount, FS_CardinalityType
    <3> HIDE DEF x
    <3> QED
      BY <2>1, <3>5, <3>6, <3>7, SMT
  <2>3. CASE o # p
    <3>1. InHand(o)' = InHand(o)
      BY <1>8, <1>9, <2>3, HandsSame
    <3>2. refs'[o] = refs[o]
      BY <1>p, <1>2, <2>3
    <3> QED
      BY <2>1, <3>1, <3>2
  <2> QED
    BY <2>2, <2>3
<1> QED
  BY <1>10 DEF RefInv

LEMMA RefRecord ==
    ASSUME TypeOK, HandInv, RefInv, NEW c \in Cpus, Step(c), Record(c)
    PROVE  RefInv'
<1>p. /\ end[c] \in Slots /\ refs \in [Owners -> Int]
      /\ owner \in [Slots -> Identity] /\ ids[c] \in [Slots -> Identity]
  BY DEF TypeOK
<1>1. UNCHANGED <<extension, alive>> /\ pc[c] = "record" /\ pc'[c] # "record"
  BY FlowStays, NextEndEffect DEF Record
<1> DEFINE p == ids[c][end[c]]
           x == <<c, end[c]>>
<1>2. alive /\ extension /\ p # None
  BY <1>1 DEF HandInv, HandOK
<1>3. p \in Owners
  BY <1>p, <1>2 DEF Identity
<1>4. \A o \in Owners, s \in Slots : Holds(c, s, o) <=> s = end[c] /\ o = p
  BY <1>1, <1>2 DEF Holds
<1>5. \A o \in Owners, s \in Slots : ~Holds(c, s, o)'
  BY <1>1, <1>2 DEF Holds
<1>6. \A o \in Owners, d \in Cpus, s \in Slots :
          d # c => (Holds(d, s, o)' <=> Holds(d, s, o))
  BY OthersHold
<1>7. \A d, s : <<d, s>> \in {x} <=> d = c /\ s = end[c]
  OBVIOUS
<1>8. \/ /\ owner[end[c]] = None /\ UNCHANGED refs
         /\ owner' = [owner EXCEPT ![end[c]] = p]
      \/ UNCHANGED owner /\ refs' = [refs EXCEPT ![p] = @ - 1]
  BY DEF Record
<1>9. ASSUME NEW o \in Owners
      PROVE  /\ IsFiniteSet(InHand(o)')
             /\ refs'[o] = Cardinality(OnFlow(o)') + Cardinality(InHand(o)')
  <2>1. /\ IsFiniteSet(InHand(o))
        /\ refs[o] = Cardinality(OnFlow(o)) + Cardinality(InHand(o))
        /\ Cardinality(OnFlow(o)) \in Nat /\ Cardinality(InHand(o)) \in Nat
    BY OnFlowCount, FS_CardinalityType DEF RefInv
  <2>2. CASE o = p
    <3>1. \A d \in Cpus, s \in Slots :
              Holds(d, s, o)' <=> Holds(d, s, o) /\ <<d, s>> \notin {x}
      BY <1>4, <1>5, <1>6, <1>7, <2>2
    <3>2. InHand(o)' = InHand(o) \ {x}
      BY <3>1, HandsLeft
    <3>3. x \in InHand(o)
      BY <1>p, <1>4, <2>2, InHandPair
    <3>4. /\ IsFiniteSet(InHand(o)')
          /\ Cardinality(InHand(o)') = Cardinality(InHand(o)) - 1
      <4>1. /\ IsFiniteSet(InHand(o) \ {x})
            /\ Cardinality(InHand(o) \ {x}) =
               IF x \in InHand(o) THEN Cardinality(InHand(o)) - 1
                                   ELSE Cardinality(InHand(o))
        BY <2>1, FS_RemoveElement
      <4> QED
        BY <3>2, <3>3, <4>1
    <3>5. CASE owner[end[c]] = None /\ UNCHANGED refs
               /\ owner' = [owner EXCEPT ![end[c]] = p]
      <4>1. OnFlow(o)' = OnFlow(o) \cup {end[c]} /\ end[c] \notin OnFlow(o)
        BY <1>p, <1>1, <1>2, <2>2, <3>5 DEF OnFlow
      <4>2. IsFiniteSet(OnFlow(o))
        BY HoldersFinite DEF OnFlow
      <4>3. Cardinality(OnFlow(o)') = Cardinality(OnFlow(o)) + 1
        BY <4>1, <4>2, FS_AddElement
      <4> HIDE DEF x, p
      <4> QED
        BY <2>1, <3>4, <3>5, <4>3, SMT
    <3>6. CASE UNCHANGED owner /\ refs' = [refs EXCEPT ![p] = @ - 1]
      <4>1. OnFlow(o)' = OnFlow(o)
        BY <1>1, <3>6 DEF OnFlow
      <4>2. refs'[o] = refs[o] - 1
        BY <1>p, <2>2, <3>6
      <4> HIDE DEF x, p
      <4> QED
        BY <2>1, <3>4, <4>1, <4>2, SMT
    <3> QED
      BY <1>8, <3>5, <3>6
  <2>3. CASE o # p
    <3>1. InHand(o)' = InHand(o)
      BY <1>4, <1>5, <1>6, <2>3, HandsSame
    <3>2. refs'[o] = refs[o]
      BY <1>p, <1>8, <2>3
    <3>3. OnFlow(o)' = OnFlow(o)
      BY <1>p, <1>1, <1>2, <1>8, <2>3, FlowAssumption DEF OnFlow
    <3> QED
      BY <2>1, <3>1, <3>2, <3>3
  <2> QED
    BY <2>2, <2>3
<1> QED
  BY <1>9 DEF RefInv
LEMMA RefLeave ==
    ASSUME TypeOK, RefInv, NEW c \in Cpus, Step(c), Leave(c)
    PROVE  RefInv'
<1>p. ids \in [Cpus -> [Slots -> Identity]] /\ 0 \in Slots /\ 1 \in Slots
  BY DEF TypeOK, Slots
<1>1. UNCHANGED <<extension, alive, owner>>
  BY FlowStays DEF Leave
<1> DEFINE x == <<c, 0>>
           y == <<c, 1>>
<1>2. \A s \in Slots : ids'[c][s] = None
  BY <1>p DEF Leave
<1>3. \A o \in Owners, s \in Slots : ~Holds(c, s, o)'
  BY <1>2, FlowAssumption DEF Holds
<1>4. \A o \in Owners, d \in Cpus, s \in Slots :
          d # c => (Holds(d, s, o)' <=> Holds(d, s, o))
  BY OthersHold
<1>5. /\ \A d, s : d # c => <<d, s>> \notin {x} \cup {y}
      /\ \A s \in Slots : <<c, s>> \in {x} \cup {y}
      /\ x # y
  BY SMT DEF Slots
<1>6. ASSUME NEW o \in Owners
      PROVE  /\ IsFiniteSet(InHand(o)')
             /\ refs'[o] = Cardinality(OnFlow(o)') + Cardinality(InHand(o)')
  <2> DEFINE H == {s \in Slots : Holds(c, s, o)}
             A == InHand(o)
             B == A \ {x}
  <2>1. /\ IsFiniteSet(A) /\ OnFlow(o)' = OnFlow(o)
        /\ refs[o] = Cardinality(OnFlow(o)) + Cardinality(A)
    BY <1>1 DEF RefInv, OnFlow
  <2>2. Cardinality(OnFlow(o)) \in Nat /\ Cardinality(A) \in Nat
    BY <2>1, OnFlowCount, FS_CardinalityType
  <2>3. \A d \in Cpus, s \in Slots :
            Holds(d, s, o)' <=> Holds(d, s, o) /\ <<d, s>> \notin {x} \cup {y}
    BY <1>3, <1>4, <1>5
  <2>4. InHand(o)' = A \ ({x} \cup {y})
    BY <2>3, HandsLeft
  <2>5. InHand(o)' = B \ {y}
    BY <2>4
  <2>6. /\ IsFiniteSet(B)
        /\ Cardinality(B) = IF x \in A THEN Cardinality(A) - 1 ELSE Cardinality(A)
    BY <2>1, FS_RemoveElement
  <2>7. /\ IsFiniteSet(B \ {y})
        /\ Cardinality(B \ {y}) = IF y \in B THEN Cardinality(B) - 1 ELSE Cardinality(B)
    BY <2>6, FS_RemoveElement
  <2>8. (x \in A <=> 0 \in H) /\ (y \in B <=> 1 \in H)
    BY <1>p, <1>5, InHandPair
  <2>9. Cardinality(H) = (IF 0 \in H THEN 1 ELSE 0) + (IF 1 \in H THEN 1 ELSE 0)
    BY EndsCount
  <2>10. refs'[o] = refs[o] - Cardinality(H)
    BY DEF Leave
  <2> HIDE DEF A, B, H, x, y
  <2>11. Cardinality(B \ {y}) = Cardinality(A) - Cardinality(H)
    BY <2>2, <2>6, <2>7, <2>8, <2>9, SMT
  <2>12. Cardinality(H) \in Nat
    BY <2>9, SMT
  <2> QED
    BY <2>1, <2>2, <2>5, <2>7, <2>10, <2>11, <2>12, SMT
<1> QED
  BY <1>6 DEF RefInv

LEMMA RefDestroy ==
    ASSUME RefInv, Destroy
    PROVE  RefInv'
<1>1. ASSUME NEW o \in Owners
      PROVE  /\ IsFiniteSet(InHand(o)')
             /\ refs'[o] = Cardinality(OnFlow(o)') + Cardinality(InHand(o)')
  <2>1. /\ IsFiniteSet(InHand(o))
        /\ refs[o] = Cardinality(OnFlow(o)) + Cardinality(InHand(o))
        /\ Cardinality(OnFlow(o)) \in Nat /\ Cardinality(InHand(o)) \in Nat
    BY OnFlowCount, FS_CardinalityType DEF RefInv
  <2>2. UNCHANGED <<pc, end, ids, extension>>
    BY DEF Destroy
  <2>3. InHand(o)' = InHand(o)
    BY <2>2, HandsSame DEF Holds
  <2>4. refs'[o] = refs[o] - Cardinality(OnFlow(o))
    <3>1. OnFlow(o) = {s \in Slots : owner[s] = o}
      BY DEF OnFlow, Destroy
    <3>2. refs'[o] = refs[o] - Cardinality({s \in Slots : owner[s] = o})
      BY DEF Destroy
    <3> QED
      BY <3>1, <3>2
  <2>5. OnFlow(o)' = {}
    BY DEF OnFlow, Destroy
  <2>6. Cardinality(OnFlow(o)') = 0
    BY <2>5, FS_EmptySet
  <2> QED
    BY <2>1, <2>3, <2>4, <2>6, SMT
<1> QED
  BY <1>1 DEF RefInv

LEMMA RefLocal ==
    ASSUME TypeOK, HandInv, RefInv, NEW c \in Cpus, Step(c)
    PROVE  RefInv'
<1>p. pc \in [Cpus -> Pcs] /\ ids \in [Cpus -> [Slots -> Identity]]
  BY DEF TypeOK
<1>1. CASE SnapshotPolicy(c) \/ SnapshotEpoch(c)
  <2>1. /\ UNCHANGED <<ids, refs, owner>> /\ pc[c] \in {"idle", "epoch"}
        /\ pc'[c] \in {"epoch", "try", "view"}
    BY <1>p, <1>1 DEF SnapshotPolicy, SnapshotEpoch
  <2> QED
    BY <2>1, RefQuiet
<1>2. CASE Lookup(c)
  <2>1. UNCHANGED <<ids, refs, owner>>
    BY <1>2 DEF Lookup
  <2>2. ASSUME Missed(c) \/ OwnSentence(c) PROVE pc'[c] # "record"
    BY <1>p, <2>2 DEF Missed, OwnSentence
  <2>3. pc[c] # "record"
    BY <1>2 DEF Lookup, ReadTry, ReadGeneration, ReadPolicyGeneration,
       ReadExpiresAt, ReadVerdict, ReadTorn, ReadOwn, ReadOther
  <2>4. pc'[c] # "record"
    <3>1. CASE ReadTry(c) \/ ReadGeneration(c) \/ ReadTorn(c) \/ ReadOwn(c)
      BY <1>p, <2>2, <3>1 DEF ReadTry, ReadGeneration, ReadTorn, ReadOwn
    <3>2. CASE \/ ReadPolicyGeneration(c) \/ ReadExpiresAt(c) \/ ReadVerdict(c)
               \/ ReadOther(c)
      BY <1>p, <3>2 DEF ReadPolicyGeneration, ReadExpiresAt, ReadVerdict, ReadOther
    <3> QED
      BY <1>2, <3>1, <3>2 DEF Lookup
  <2> QED
    BY <2>1, <2>3, <2>4, RefQuiet
<1>3. CASE View(c) /\ policy[c].forest
  <2>1. UNCHANGED <<ids, refs, owner>> /\ pc[c] = "view" /\ pc'[c] = "identify"
    BY <1>p, <1>3 DEF View
  <2> QED
    BY <2>1, RefQuiet
<1>4. CASE ReadRecorded(c)
  <2>1. UNCHANGED <<refs, owner>> /\ pc[c] = "identify" /\ owner[end[c]] # None
        /\ NextEnd(c)
    BY <1>4 DEF ReadRecorded
  <2>2. extension
    BY <2>1 DEF HandInv, TypeOK
  <2>3. pc'[c] # "record"
    BY <2>1, NextEndEffect
  <2> QED
    BY <2>1, <2>2, <2>3, RefQuiet
<1>5. CASE ResolveAbsent(c)
  <2>1. UNCHANGED <<ids, refs, owner>> /\ pc[c] = "identify" /\ NextEnd(c)
    BY <1>5 DEF ResolveAbsent
  <2>2. pc'[c] # "record"
    BY <2>1, NextEndEffect
  <2> QED
    BY <2>1, <2>2, RefQuiet
<1>6. CASE Judge(c)
  <2>1. UNCHANGED <<refs, owner>> /\ pc[c] = "eval" /\ (extension \/ UNCHANGED ids)
    BY <1>6 DEF Judge
  <2>2. pc'[c] # "record"
    BY <1>p, <1>6 DEF Judge
  <2> QED
    BY <2>1, <2>2, RefQuiet
<1>7. CASE Write(c)
  <2>1. UNCHANGED <<ids, refs, owner>>
    BY <1>7 DEF Write
  <2>2. pc[c] # "record"
    BY <1>7 DEF Write, WriteBegin, WriteField, WriteEnd
  <2>3. ASSUME NEW from, NEW to, NEW t, WriteField(c, from, to, t)
        PROVE  pc'[c] = to
    BY <1>p, <2>3 DEF WriteField
  <2>4. ASSUME WriteBegin(c) \/ WriteEnd(c) PROVE pc'[c] # "record"
    BY <1>p, <2>4 DEF WriteBegin, WriteEnd, OwnSentence
  <2>5. pc'[c] # "record"
    BY <1>7, <2>3, <2>4 DEF Write
  <2> QED
    BY <2>1, <2>2, <2>5, RefQuiet
<1>8. ASSUME Leave(c) PROVE RefInv'
  BY <1>8, RefLeave
<1>9. CASE View(c) /\ ~policy[c].forest
  BY <1>8, <1>9 DEF View
<1>10. CASE EvalFails(c) \/ Apply(c)
  BY <1>8, <1>10 DEF EvalFails, Apply
<1>11. CASE ResolveOwner(c) \/ Record(c)
  BY <1>11, RefResolve, RefRecord
<1>12. CASE Attribute(c)
  BY <1>4, <1>5, <1>11, <1>12 DEF Attribute
<1> QED
  BY <1>1, <1>2, <1>3, <1>6, <1>7, <1>9, <1>10, <1>12, StepCases

LEMMA RefStep ==
    ASSUME TypeOK, HandInv, RefInv, [Next]_vars
    PROVE  RefInv'
<1>1. CASE Publish \/ Tick \/ UNCHANGED vars
  <2>1. UNCHANGED <<pc, end, ids, alive, extension, owner, refs>>
    BY <1>1 DEF Publish, Tick, vars
  <2> QED
    BY <2>1, RefSame DEF Holds
<1> QED
  BY <1>1, RefDestroy, RefLocal DEF Next

(* However the packets of a flow interleave, a token is held exactly as     *)
(* often as the flow's extension records it, or a packet on its way has it  *)
(* in hand: ntfe_flow_identity gives its reference to the record it wins    *)
(* and drops the one it loses, ntfe_identity_pair_release drops what was    *)
(* never recorded, and peios_ntfe_ct_destroy drops the records.             *)
THEOREM OwnerRefsHold == Spec => []OwnerRefsExact
<1>1. Init => RefInv
  <2> SUFFICES ASSUME Init PROVE RefInv
    OBVIOUS
  <2>1. /\ ids = [c \in Cpus |-> [s \in Slots |-> None]]
        /\ owner = [s \in Slots |-> None]
        /\ refs = [o \in Owners |-> 0]
    BY DEF Init
  <2>2. ASSUME NEW o \in Owners
        PROVE  /\ IsFiniteSet(InHand(o))
               /\ refs[o] = Cardinality(OnFlow(o)) + Cardinality(InHand(o))
    <3>1. OnFlow(o) = {}
      BY <2>1, FlowAssumption DEF OnFlow
    <3>2. ASSUME NEW cs \in Cpus \X Slots PROVE ids[cs[1]][cs[2]] = None
      <4>1. cs[1] \in Cpus /\ cs[2] \in Slots
        OBVIOUS
      <4> QED
        BY <2>1, <4>1
    <3>3. InHand(o) = {}
      BY <3>2, FlowAssumption DEF InHand, Holds
    <3>4. IsFiniteSet({}) /\ Cardinality({}) = 0
      BY FS_EmptySet
    <3>5. refs[o] = 0
      BY <2>1
    <3> QED
      BY <3>1, <3>3, <3>4, <3>5, SMT
  <2> QED
    BY <2>2 DEF RefInv
<1>2. Init => HandInv
  <2> SUFFICES ASSUME Init PROVE HandInv
    OBVIOUS
  <2>1. /\ pc = [c \in Cpus |-> "idle"]
        /\ ids = [c \in Cpus |-> [s \in Slots |-> None]]
        /\ owner = [s \in Slots |-> None]
    BY DEF Init
  <2>2. /\ \A c \in Cpus : pc[c] = "idle" /\ ids[c] = [s \in Slots |-> None]
        /\ \A s \in Slots : owner[s] = None
    BY <2>1
  <2>3. ASSUME NEW c \in Cpus PROVE HandOK(c)
    BY <2>2 DEF HandOK
  <2> QED
    BY <2>2, <2>3 DEF HandInv
<1>3. TypeOK /\ HandInv /\ [Next]_vars => HandInv'
  BY HandStep
<1>4. TypeOK /\ HandInv /\ RefInv /\ [Next]_vars => RefInv'
  BY RefStep
<1>5. RefInv => OwnerRefsExact
  BY DEF RefInv, OwnerRefsExact, OnFlow, InHand
<1> QED
  BY <1>1, <1>2, <1>3, <1>4, <1>5, FlowTypeCorrect, PTL DEF Spec
=============================================================================
