-------------------------- MODULE KacsAccessProofs --------------------------
(* Proofs about KacsAccessCheck, for every mapping, request, tree and list of *)
(* policies: types, what the trust label and the mandatory label withhold,    *)
(* that grants nest in the object tree, that a confined caller ends with      *)
(* nothing its confinement is not allowed by the object's own DACL, and that  *)
(* a walk grants what the first matching entry of each right says.            *)
EXTENDS KacsAccessCheck, TLAPS

\* Zenon proves a leaf unless it names another prover.
USE Zenon

-----------------------------------------------------------------------------
(* The sets of rights the pipeline is built from. *)

\* Mapping a mask of rights and generic rights gives rights.
LEMMA MapMaskRights ==
    ASSUME NEW m, m \subseteq Rights \cup Generic
    PROVE  MapMask(m) \subseteq Rights
  BY MappingAssumption DEF MapMask

\* The rights a valid request is about are rights.
LEMMA RelevantRights ==
    ASSUME NEW requests \in RequestSets, NEW r \in requests, ~Invalid(r)
    PROVE  Relevant(r) \subseteq Rights
  <1>1. r.desired \subseteq
            (Rights \cup Generic) \cup {"MAXIMUM_ALLOWED", "RESERVED"}
    BY RequestAssumption
  <1>2. "RESERVED" \notin r.desired
    BY DEF Invalid, Reserved
  <1>3. r.desired \ {"MAXIMUM_ALLOWED"} \subseteq Rights \cup Generic
    BY <1>1, <1>2
  <1>4. Mapped(r) \subseteq Rights
    BY <1>3, MapMaskRights DEF Mapped
  <1>5. QED
    BY <1>4, MappingAssumption DEF Relevant

\* Privileges, labels and ownership speak of rights only.
LEMMA SettledRights ==
    ASSUME NEW r, NEW i, NEW p, NEW dacl
    PROVE  /\ Seed(r, i) \subseteq Rights
           /\ MicDenied(r) \subseteq Rights
           /\ PipDenied(r) \subseteq Rights
           /\ PreGranted(r, i) \subseteq Rights
           /\ PreDecided(r, i) \subseteq Rights
           /\ PrivilegeGranted(r, i) \subseteq Rights
           /\ Implicit(r, p, dacl) \subseteq Rights
  <1>1. {"WRITE_DAC", "WRITE_OWNER", "DELETE", "ACCESS_SYSTEM_SECURITY"}
            \subseteq Rights
    BY MappingAssumption
  <1>2. Seed(r, i) \subseteq Rights
    BY <1>1, MappingAssumption DEF Seed
  <1>3. MicDenied(r) \subseteq Rights
    BY MappingAssumption DEF MicDenied
  <1>4. PipDenied(r) \subseteq Rights
    BY <1>1, MappingAssumption DEF PipDenied
  <1>5. Implicit(r, p, dacl) \subseteq Rights
    BY MappingAssumption DEF Implicit
  <1>6. QED
    BY <1>1, <1>2, <1>3, <1>4, <1>5
    DEF PreGranted, PreDecided, PrivilegeGranted

-----------------------------------------------------------------------------
(* Types. *)

\* A walk starts from rights, on every node.
LEMMA StartWalkTypes ==
    ASSUME NEW s, NEW p \in Passes, StartWalk(s, p)
    PROVE  /\ pc' = "walk" /\ pass' = p
           /\ granted' \in Grants /\ decided' \in Grants
  <1> DEFINE first == p = "normal"
             g == IF first THEN PreGranted(req, Intent(req, s)) ELSE {}
             d == IF first THEN PreDecided(req, Intent(req, s)) ELSE {}
             own == Implicit(req, p, DaclOf(s)) \ d
  <1>1. /\ pc' = "walk" /\ pass' = p
        /\ granted' = [n \in Nodes(req) |-> g \cup own]
        /\ decided' = [n \in Nodes(req) |-> d \cup own]
    BY DEF StartWalk
  <1>2. g \subseteq Rights /\ d \subseteq Rights /\ own \subseteq Rights
    BY SettledRights
  <1> HIDE DEF g, d, own
  <1>3. QED
    BY <1>1, <1>2 DEF Grants

\* TypeOK, one conjunct at a time, once the request is known to stay.
LEMMA TypesFollow ==
    ASSUME TypeOK, req' = req,
           pc' \in {"begin", "walk", "propagate", "result", "policy", "done", "error"},
           stage' \in {"base", "effective", "staged"}, pass' \in Passes,
           granted' \in Grants, decided' \in Grants, main' \in Grants,
           effective' \in Grants, staged' \in Grants,
           priv' \subseteq Rights, basePriv' \subseteq Rights,
           pc' = "propagate" => req.tree # <<>> /\ node' \in Nodes(req),
           pc' \notin {"begin", "error"} => ~Invalid(req)
    PROVE  TypeOK'
  BY DEF TypeOK, Grants

\* The bits an entry decides are rights.
LEMMA BitsRights ==
    ASSUME TypeOK, pc = "walk", NEW a
    PROVE  Bits(a) \subseteq Rights
  BY RelevantRights DEF TypeOK, Bits

\* The nodes an entry speaks of are nodes.
LEMMA TargetsNodes ==
    ASSUME NEW r, NEW a
    PROVE  Targets(r, a) \subseteq Nodes(r)
  BY DEF Targets, Subtree

\* A node's rights are rights.
LEMMA GrantsNode ==
    ASSUME NEW f \in Grants, NEW n \in Nodes(req)
    PROVE  f[n] \subseteq Rights
  BY DEF Grants

LEMMA BeginTypes ==
    ASSUME TypeOK, Begin
    PROVE  TypeOK'
  <1>1. /\ req' = req /\ stage' = stage /\ node' = node /\ main' = main
        /\ priv' = priv /\ basePriv' = basePriv
        /\ effective' = effective /\ staged' = staged
    BY DEF Begin, caap
  <1>2. CASE Invalid(req)
    <2>1. /\ pc' = "error" /\ pass' = pass
          /\ granted' = granted /\ decided' = decided
      BY <1>2 DEF Begin, walk
    <2>2. QED
      BY <1>1, <2>1, TypesFollow DEF TypeOK
  <1>3. CASE ~Invalid(req)
    <2>1. StartWalk("base", "normal")
      BY <1>3 DEF Begin
    <2>2. /\ pc' = "walk" /\ pass' = "normal"
          /\ granted' \in Grants /\ decided' \in Grants
      BY <2>1, StartWalkTypes DEF Passes
    <2>3. QED
      BY <1>1, <1>3, <2>2, TypesFollow DEF TypeOK, Passes
  <1>4. QED
    BY <1>2, <1>3

LEMMA NullGrantTypes ==
    ASSUME TypeOK, NullGrant
    PROVE  TypeOK'
  <1>1. /\ req' = req /\ pc' = pc /\ stage' = stage /\ pass' = pass
        /\ node' = node /\ main' = main /\ priv' = priv
        /\ basePriv' = basePriv /\ effective' = effective /\ staged' = staged
        /\ granted' = [n \in Nodes(req) |-> granted[n] \cup (All \ decided[n])]
        /\ decided' = [n \in Nodes(req) |-> decided[n] \cup All]
    BY DEF NullGrant, caap
  <1>2. \A n \in Nodes(req) : granted[n] \subseteq Rights /\ decided[n] \subseteq Rights
    BY GrantsNode DEF TypeOK
  <1>3. granted' \in Grants /\ decided' \in Grants
    BY <1>1, <1>2, MappingAssumption DEF Grants
  <1>4. QED
    BY <1>1, <1>3, TypesFollow DEF TypeOK

LEMMA BadAceTypes ==
    ASSUME TypeOK, BadAce
    PROVE  TypeOK'
  <1>1. /\ req' = req /\ stage' = stage /\ pass' = pass /\ node' = node
        /\ granted' = granted /\ decided' = decided /\ priv' = priv
        /\ basePriv' = basePriv /\ effective' = effective /\ staged' = staged
        /\ pc = "walk" /\ EvaluationFails
    BY DEF BadAce, AtAce, walk, caap
  <1>2. pc' \in {"error", "result"}
    BY <1>1 DEF EvaluationFails
  <1>3. main' = main \/ main' = [n \in Nodes(req) |-> basePriv]
    BY <1>1 DEF EvaluationFails
  <1>4. main' \in Grants
    BY <1>3 DEF TypeOK, Grants
  <1>5. QED
    BY <1>1, <1>2, <1>4, TypesFollow DEF TypeOK

LEMMA SkipAceTypes ==
    ASSUME TypeOK, SkipAce
    PROVE  TypeOK'
  <1>1. /\ req' = req /\ pc' = pc /\ stage' = stage /\ pass' = pass
        /\ node' = node /\ main' = main /\ priv' = priv
        /\ basePriv' = basePriv /\ effective' = effective /\ staged' = staged
        /\ granted' = granted /\ decided' = decided
    BY DEF SkipAce, caap
  <1>2. QED
    BY <1>1, TypesFollow DEF TypeOK

-----------------------------------------------------------------------------
(* What each step of a walk and of its end does, for all the proofs. *)

Kept == /\ req' = req /\ main' = main /\ priv' = priv /\ basePriv' = basePriv
        /\ effective' = effective /\ staged' = staged

LEMMA AllowEffect ==
    ASSUME AllowAce
    PROVE  /\ Kept /\ stage' = stage /\ pass' = pass /\ pc = "walk"
           /\ granted' = [n \in Nodes(req) |->
                            IF n \in Targets(req, Entry)
                                THEN granted[n] \cup (Bits(Entry) \ decided[n])
                                ELSE granted[n]]
           /\ decided' = [n \in Nodes(req) |->
                            IF n \in Targets(req, Entry)
                                THEN decided[n] \cup Bits(Entry)
                                ELSE decided[n]]
           /\ \/ pc' = "walk"
              \/ /\ pc' = "propagate" /\ node' = Len(req.tree)
                 /\ req.tree # <<>> /\ Targets(req, Entry) # {}
  BY DEF AllowAce, AtAce, Kept, caap

LEMMA DenyEffect ==
    ASSUME DenyAce
    PROVE  /\ Kept /\ stage' = stage /\ pass' = pass /\ pc = "walk" /\ pc' = pc
           /\ node' = node /\ granted' = granted
           /\ decided' = [n \in Nodes(req) |-> decided[n]
                \cup Denied(Bits(Entry), Targets(req, Entry), n)]
  BY DEF DenyAce, AtAce, Kept, caap

\* What a node gains when grants propagate: nothing decided, and nothing that
\* a child lacks.
Gain == LET children == {c \in Nodes(req) : DirectChild(req, c, node)} IN
        IF children = {} THEN {}
        ELSE {b \in Rights : \A c \in children : b \in granted[c]} \ decided[node]

LEMMA PropagateEffect ==
    ASSUME Propagate
    PROVE  /\ Kept /\ stage' = stage /\ pass' = pass /\ pc = "propagate"
           /\ granted' = [granted EXCEPT ![node] = granted[node] \cup Gain]
           /\ decided' = [decided EXCEPT ![node] = decided[node] \cup Gain]
           /\ node' = node - 1
           /\ pc' = IF node = 1 THEN "walk" ELSE "propagate"
  BY DEF Propagate, Kept, caap, Gain

LEMMA AllowTypes ==
    ASSUME TypeOK, AllowAce
    PROVE  TypeOK'
  <1> DEFINE bits == Bits(Entry)
             on == Targets(req, Entry)
  <1>1. /\ bits \subseteq Rights /\ on \subseteq Nodes(req)
    BY AllowEffect, BitsRights, TargetsNodes
  <1>2. \A n \in Nodes(req) : granted[n] \subseteq Rights /\ decided[n] \subseteq Rights
    BY GrantsNode DEF TypeOK
  <1> HIDE DEF bits, on
  <1>3. granted' \in Grants
    <2>1. granted' = [n \in Nodes(req) |->
                        IF n \in on THEN granted[n] \cup (bits \ decided[n])
                                    ELSE granted[n]]
      BY AllowEffect DEF bits, on
    <2>2. QED
      BY <1>1, <1>2, <2>1 DEF Grants
  <1>4. decided' \in Grants
    <2>1. decided' = [n \in Nodes(req) |->
                        IF n \in on THEN decided[n] \cup bits ELSE decided[n]]
      BY AllowEffect DEF bits, on
    <2>2. QED
      BY <1>1, <1>2, <2>1 DEF Grants
  <1>5. ASSUME pc' = "propagate"
        PROVE  req.tree # <<>> /\ node' \in Nodes(req)
    <2>1. req.tree # <<>> /\ on # {} /\ node' = Len(req.tree)
      BY <1>5, AllowEffect DEF on
    <2>2. Nodes(req) = 1..Len(req.tree) /\ Len(req.tree) \in Nat
      BY <2>1, RequestAssumption DEF Nodes, TypeOK, IsList
    <2>3. 1..Len(req.tree) # {}
      BY <1>1, <2>1, <2>2
    <2>4. QED
      BY <2>1, <2>2, <2>3, SMT
  <1>6. QED
    BY <1>3, <1>4, <1>5, AllowEffect, TypesFollow DEF TypeOK, Kept

LEMMA DenyTypes ==
    ASSUME TypeOK, DenyAce
    PROVE  TypeOK'
  <1> DEFINE bits == Bits(Entry)
             on == Targets(req, Entry)
  <1>1. bits \subseteq Rights
    BY DenyEffect, BitsRights
  <1> HIDE DEF bits, on
  <1>2. \A n \in Nodes(req) : decided[n] \subseteq Rights
    BY GrantsNode DEF TypeOK
  <1>3. \A n \in Nodes(req) : Denied(bits, on, n) \subseteq Rights
    BY <1>1 DEF Denied
  <1>4. decided' = [n \in Nodes(req) |-> decided[n] \cup Denied(bits, on, n)]
    BY DenyEffect DEF bits, on
  <1>5. decided' \in Grants
    BY <1>2, <1>3, <1>4 DEF Grants
  <1>6. QED
    BY <1>5, DenyEffect, TypesFollow DEF TypeOK, Kept

LEMMA PropagateTypes ==
    ASSUME TypeOK, Propagate
    PROVE  TypeOK'
  <1>1. Gain \subseteq Rights
    BY DEF Gain
  <1>2. req.tree # <<>> /\ node \in Nodes(req)
    BY PropagateEffect DEF TypeOK
  <1>3. granted' \in Grants
    <2>1. granted[node] \cup Gain \subseteq Rights
      BY <1>1, <1>2, GrantsNode DEF TypeOK
    <2>2. QED
      BY <1>2, <2>1, PropagateEffect DEF TypeOK, Grants
  <1>4. decided' \in Grants
    <2>1. decided[node] \cup Gain \subseteq Rights
      BY <1>1, <1>2, GrantsNode DEF TypeOK
    <2>2. QED
      BY <1>2, <2>1, PropagateEffect DEF TypeOK, Grants
  <1>5. ASSUME pc' = "propagate"
        PROVE  node' \in Nodes(req)
    <2>1. node # 1 /\ node' = node - 1
      BY <1>5, PropagateEffect
    <2>2. Nodes(req) = 1..Len(req.tree) /\ Len(req.tree) \in Nat
      BY <1>2, RequestAssumption DEF Nodes, TypeOK, IsList
    <2>3. QED
      BY <1>2, <2>1, <2>2, SMT
  <1>6. pc' \in {"walk", "propagate"}
    BY PropagateEffect
  <1>7. QED
    BY <1>2, <1>3, <1>4, <1>5, <1>6, PropagateEffect, TypesFollow
    DEF TypeOK, Kept

-----------------------------------------------------------------------------
(* The end of a walk and the policies. *)

LEMMA NextPassValues ==
    ASSUME NEW p
    PROVE  NextPass(p) \in {"restricted", "confined", "none"}
  BY DEF NextPass

\* What follows a walk is another identity's walk or the evaluation's result.
LEMMA ProceedEffect ==
    ASSUME TypeOK, NEW p, Proceed(p)
    PROVE  /\ req' = req /\ stage' = stage /\ node' = node
           /\ basePriv' = basePriv /\ effective' = effective /\ staged' = staged
           /\ granted' \in Grants /\ decided' \in Grants /\ pass' \in Passes
           /\ \/ pc' = "result"
              \/ pc' = "walk" /\ pass' \in {"restricted", "confined"}
  <1>1. /\ req' = req /\ stage' = stage /\ node' = node
        /\ basePriv' = basePriv /\ effective' = effective /\ staged' = staged
    BY DEF Proceed, caap
  <1>2. CASE NextPass(p) = "none"
    <2>1. pc' = "result" /\ pass' = pass /\ granted' = granted /\ decided' = decided
      BY <1>2 DEF Proceed, walk
    <2>2. QED
      BY <1>1, <2>1 DEF TypeOK
  <1>3. CASE NextPass(p) # "none"
    <2>1. NextPass(p) \in {"restricted", "confined"}
      BY <1>3, NextPassValues
    <2>2. StartWalk(stage, NextPass(p)) /\ NextPass(p) \in Passes
      BY <1>3, <2>1 DEF Proceed, Passes
    <2>3. /\ pc' = "walk" /\ pass' = NextPass(p)
          /\ granted' \in Grants /\ decided' \in Grants
      BY <2>2, StartWalkTypes
    <2>4. QED
      BY <1>1, <2>1, <2>2, <2>3
  <1>4. QED
    BY <1>2, <1>3

\* A rule starts a walk of the caller's own identity, or fails and leaves the
\* rights that privileges granted.
LEMMA EvaluateRuleEffect ==
    ASSUME TypeOK, NEW s, EvaluateRule(s)
    PROVE  /\ stage' = s /\ pass' \in Passes
           /\ granted' \in Grants /\ decided' \in Grants /\ main' \in Grants
           /\ \/ pc' = "result" /\ main' = [n \in Nodes(req) |-> basePriv]
              \/ pc' = "walk" /\ main' = main /\ StartWalk(s, "normal")
  <1>1. stage' = s
    BY DEF EvaluateRule
  <1>2. CASE DaclOf(s) = Broken
    <2>1. /\ pc' = "result" /\ main' = [n \in Nodes(req) |-> basePriv]
          /\ pass' = pass /\ granted' = granted /\ decided' = decided
      BY <1>2 DEF EvaluateRule, walk
    <2>2. main' \in Grants
      BY <2>1 DEF TypeOK, Grants
    <2>3. QED
      BY <1>1, <2>1, <2>2 DEF TypeOK
  <1>3. CASE DaclOf(s) # Broken
    <2>1. StartWalk(s, "normal") /\ main' = main
      BY <1>3 DEF EvaluateRule
    <2>2. /\ pc' = "walk" /\ pass' = "normal"
          /\ granted' \in Grants /\ decided' \in Grants
      BY <2>1, StartWalkTypes DEF Passes
    <2>3. QED
      BY <1>1, <2>1, <2>2 DEF TypeOK, Passes
  <1>4. QED
    BY <1>2, <1>3

LEMMA EndTypes ==
    ASSUME TypeOK, EndNormal \/ EndRestricted \/ EndConfined
    PROVE  TypeOK'
  <1>1. \A n \in Nodes(req) : main[n] \subseteq Rights /\ granted[n] \subseteq Rights
    BY GrantsNode DEF TypeOK
  <1>2. "WRITE_OWNER" \in Rights
    BY MappingAssumption
  <1>3. pc = "walk" /\ (\E p \in Passes : Proceed(p))
    BY DEF EndNormal, EndRestricted, EndConfined, WalkDone, Passes
  <1>4. main' \in Grants /\ priv' \subseteq Rights
    <2>1. CASE EndNormal
      <3>1. PICK take \in SUBSET {"WRITE_OWNER"} :
                /\ main' = [n \in Nodes(req) |-> granted[n] \cup take]
                /\ priv' = PrivilegeGranted(req, Intent(req, stage)) \cup take
        BY <2>1 DEF EndNormal
      <3>2. PrivilegeGranted(req, Intent(req, stage)) \subseteq Rights
        BY SettledRights
      <3>3. take \subseteq Rights
        BY <1>2
      <3>4. main' \in Grants
        BY <1>1, <3>1, <3>3 DEF Grants
      <3>5. QED
        BY <3>1, <3>2, <3>3, <3>4
    <2>2. CASE EndRestricted
      <3>1. /\ priv' = priv
            /\ main' = [n \in Nodes(req) |->
                 (IF req.writeRestricted
                    THEN (main[n] \ Write) \cup (main[n] \cap granted[n] \cap Write)
                    ELSE main[n] \cap granted[n]) \cup priv]
        BY <2>2 DEF EndRestricted
      <3>2. priv \subseteq Rights
        BY DEF TypeOK
      <3>3. main' \in Grants
        BY <1>1, <3>1, <3>2 DEF Grants
      <3>4. QED
        BY <3>1, <3>2, <3>3
    <2>3. CASE EndConfined
      <3>1. /\ priv' = priv
            /\ main' = [n \in Nodes(req) |-> main[n] \cap granted[n]]
        BY <2>3 DEF EndConfined, MergeAbsolute
      <3>2. main' \in Grants
        BY <1>1, <3>1 DEF Grants
      <3>3. QED
        BY <3>1, <3>2 DEF TypeOK
    <2>4. QED
      BY <2>1, <2>2, <2>3
  <1>5. /\ req' = req /\ stage' = stage /\ node' = node
        /\ basePriv' = basePriv /\ effective' = effective /\ staged' = staged
        /\ granted' \in Grants /\ decided' \in Grants /\ pass' \in Passes
        /\ pc' \in {"walk", "result"}
    BY <1>3, ProceedEffect
  <1>6. QED
    BY <1>3, <1>4, <1>5, TypesFollow DEF TypeOK

LEMMA NarrowTypes ==
    ASSUME TypeOK, NEW f \in Grants
    PROVE  Narrow(f) \in Grants
  <1>1. \A n \in Nodes(req) : f[n] \subseteq Rights
    BY GrantsNode
  <1>2. QED
    BY <1>1 DEF Narrow, Grants

LEMMA PolicyTypes ==
    ASSUME TypeOK, BaseResult \/ NextRule \/ EffectiveResult \/ StagedResult \/ Answer
    PROVE  TypeOK'
  <1>1. Narrow(effective) \in Grants /\ Narrow(staged) \in Grants
    BY NarrowTypes DEF TypeOK
  <1>2. CASE BaseResult
    <2>1. /\ req' = req /\ stage' = stage /\ node' = node /\ pass' = pass
          /\ granted' = granted /\ decided' = decided /\ main' = main
          /\ priv' = priv /\ effective' = main /\ staged' = main
          /\ basePriv' \subseteq priv /\ pc = "result" /\ pc' = "policy"
      BY <1>2 DEF BaseResult, walk
    <2>2. basePriv' \subseteq Rights
      BY <2>1 DEF TypeOK
    <2>3. QED
      BY <2>1, <2>2, TypesFollow DEF TypeOK
  <1>3. CASE NextRule
    <2>1. /\ req' = req /\ node' = node /\ priv' = priv /\ basePriv' = basePriv
          /\ effective' = effective /\ staged' = staged /\ pc = "policy"
      BY <1>3 DEF NextRule
    <2>2. \/ /\ pc' = pc /\ stage' = stage /\ pass' = pass /\ main' = main
             /\ granted' = granted /\ decided' = decided
          \/ EvaluateRule("effective")
      BY <1>3 DEF NextRule, walk
    <2>3. CASE EvaluateRule("effective")
      <3>1. /\ stage' = "effective" /\ pass' \in Passes
            /\ granted' \in Grants /\ decided' \in Grants /\ main' \in Grants
            /\ pc' \in {"result", "walk"}
        BY <2>3, EvaluateRuleEffect
      <3>2. QED
        BY <2>1, <3>1, TypesFollow DEF TypeOK
    <2>4. CASE /\ pc' = pc /\ stage' = stage /\ pass' = pass /\ main' = main
               /\ granted' = granted /\ decided' = decided
      BY <2>1, <2>4, TypesFollow DEF TypeOK
    <2>5. QED
      BY <2>2, <2>3, <2>4
  <1>4. CASE EffectiveResult
    <2>1. /\ req' = req /\ node' = node /\ priv' = priv /\ basePriv' = basePriv
          /\ effective' = Narrow(effective) /\ pc = "result"
      BY <1>4 DEF EffectiveResult
    <2>2. \/ /\ pc' = "policy" /\ stage' = stage /\ pass' = pass /\ main' = main
             /\ granted' = granted /\ decided' = decided
             /\ staged' = Narrow(staged)
          \/ EvaluateRule("staged") /\ staged' = staged
      BY <1>4 DEF EffectiveResult, walk
    <2>3. CASE EvaluateRule("staged") /\ staged' = staged
      <3>1. /\ stage' = "staged" /\ pass' \in Passes
            /\ granted' \in Grants /\ decided' \in Grants /\ main' \in Grants
            /\ pc' \in {"result", "walk"}
        BY <2>3, EvaluateRuleEffect
      <3>2. QED
        BY <1>1, <2>1, <2>3, <3>1, TypesFollow DEF TypeOK
    <2>4. CASE /\ pc' = "policy" /\ stage' = stage /\ pass' = pass /\ main' = main
               /\ granted' = granted /\ decided' = decided
               /\ staged' = Narrow(staged)
      BY <1>1, <2>1, <2>4, TypesFollow DEF TypeOK
    <2>5. QED
      BY <2>2, <2>3, <2>4
  <1>5. CASE StagedResult
    <2>1. /\ req' = req /\ stage' = stage /\ node' = node /\ pass' = pass
          /\ granted' = granted /\ decided' = decided /\ main' = main
          /\ priv' = priv /\ basePriv' = basePriv /\ effective' = effective
          /\ staged' = Narrow(staged) /\ pc = "result" /\ pc' = "policy"
      BY <1>5 DEF StagedResult, walk
    <2>2. QED
      BY <1>1, <2>1, TypesFollow DEF TypeOK
  <1>6. CASE Answer
    <2>1. /\ req' = req /\ stage' = stage /\ node' = node /\ pass' = pass
          /\ granted' = granted /\ decided' = decided /\ main' = main
          /\ priv' = priv /\ basePriv' = basePriv /\ effective' = effective
          /\ staged' = staged /\ pc = "policy" /\ pc' \in {"done", "error"}
      BY <1>6 DEF Answer, walk, caap
    <2>2. QED
      BY <2>1, TypesFollow DEF TypeOK
  <1>7. QED
    BY <1>2, <1>3, <1>4, <1>5, <1>6

LEMMA TypeInit ==
    ASSUME Init
    PROVE  TypeOK
  <1>1. [n \in Nodes(req) |-> {}] \in Grants
    BY DEF Grants
  <1>2. QED
    BY <1>1 DEF Init, TypeOK, Passes

LEMMA TypeStep ==
    ASSUME TypeOK, [Next]_vars
    PROVE  TypeOK'
  <1>1. CASE UNCHANGED vars
    <2>1. /\ req' = req /\ pc' = pc /\ stage' = stage /\ pass' = pass
          /\ node' = node /\ main' = main /\ priv' = priv
          /\ basePriv' = basePriv /\ effective' = effective /\ staged' = staged
          /\ granted' = granted /\ decided' = decided
      BY <1>1 DEF vars
    <2>2. QED
      BY <2>1, TypesFollow DEF TypeOK
  <1>2. CASE Next
    BY <1>2, BeginTypes, NullGrantTypes, BadAceTypes, SkipAceTypes, AllowTypes,
       DenyTypes, PropagateTypes, EndTypes, PolicyTypes DEF Next
  <1>3. QED
    BY <1>1, <1>2

\* access_check_core keeps every mask it computes within the rights of the
\* object's mapping, on every node of the tree, and evaluates no invalid call.
THEOREM AccessTypeCorrect == Spec => []TypeOK
  <1>1. Init => TypeOK
    BY TypeInit, SMT
  <1>2. TypeOK /\ [Next]_vars => TypeOK'
    BY TypeStep, SMT
  <1>3. QED
    BY <1>1, <1>2, PTL DEF Spec

-----------------------------------------------------------------------------
(* What a label withholds.  W is what is withheld and S the exception to it.  *)
(* The results alone are not inductive: they hold because the walk of the     *)
(* caller's own identity starts with W decided on every node.                 *)

\* None of W outside S is in the mask m.
Clear(m, W, S) == m \cap W \subseteq S

\* W is decided before the DACL, and neither a privilege nor the take-ownership
\* fallback grants any of it outside S.
Settled(r, W, S) ==
    /\ \A i \in {r.intent, {}} :
            /\ Clear(PreGranted(r, i), W, S)
            /\ W \subseteq PreDecided(r, i)
            /\ Clear(PrivilegeGranted(r, i), W, S)
    /\ "WRITE_OWNER" \in W => "WRITE_OWNER" \in MicDenied(r) \cup PipDenied(r)

ResultsClear(W, S) ==
    /\ \A n \in Nodes(req) : /\ Clear(main[n], W, S)
                             /\ Clear(effective[n], W, S)
                             /\ Clear(staged[n], W, S)
    /\ Clear(priv, W, S) /\ Clear(basePriv, W, S)

WalkClear(W, S) ==
    pass = "normal" /\ pc \in {"walk", "propagate"} =>
        \A n \in Nodes(req) : W \subseteq decided[n] /\ Clear(granted[n], W, S)

Withheld(W, S) == ResultsClear(W, S) /\ WalkClear(W, S)

\* The walk of the caller's own identity starts with W decided.
LEMMA StartClear ==
    ASSUME NEW CONSTANT W, NEW CONSTANT S, Settled(req, W, S), NEW s, req' = req,
           StartWalk(s, "normal")
    PROVE  WalkClear(W, S)'
  <1> DEFINE g == PreGranted(req, Intent(req, s))
             d == PreDecided(req, Intent(req, s))
             own == Implicit(req, "normal", DaclOf(s)) \ d
  <1>1. /\ granted' = [n \in Nodes(req) |-> g \cup own]
        /\ decided' = [n \in Nodes(req) |-> d \cup own]
    BY DEF StartWalk
  <1>2. Intent(req, s) \in {req.intent, {}}
    BY DEF Intent
  <1>3. Clear(g, W, S) /\ W \subseteq d
    BY <1>2 DEF Settled
  <1>4. Clear(g \cup own, W, S) /\ W \subseteq d \cup own
    BY <1>3 DEF Clear
  <1> HIDE DEF g, d, own
  <1>5. \A n \in Nodes(req) : W \subseteq decided'[n] /\ Clear(granted'[n], W, S)
    BY <1>1, <1>4
  <1>6. QED
    BY <1>5 DEF WalkClear, Clear

\* What a step grants a node outside what was decided there is none of W.
LEMMA ClearGrows ==
    ASSUME NEW W, NEW S, NEW g, NEW d, NEW x, W \subseteq d, Clear(g, W, S)
    PROVE  Clear(g \cup (x \ d), W, S)
  BY DEF Clear

LEMMA KeptClear ==
    ASSUME NEW CONSTANT W, NEW CONSTANT S, ResultsClear(W, S), Kept
    PROVE  ResultsClear(W, S)'
  BY DEF ResultsClear, Kept, Clear

\* The steps of a walk.
LEMMA WalkStepClear ==
    ASSUME NEW CONSTANT W, NEW CONSTANT S, TypeOK, Withheld(W, S),
           NullGrant \/ SkipAce \/ AllowAce \/ DenyAce \/ Propagate
    PROVE  Withheld(W, S)'
  <1>1. Kept /\ pass' = pass /\ pc \in {"walk", "propagate"}
    <2>1. CASE NullGrant
      BY <2>1 DEF NullGrant, Kept, caap
    <2>2. CASE SkipAce
      BY <2>2 DEF SkipAce, AtAce, Kept, caap
    <2>3. QED
      BY <2>1, <2>2, AllowEffect, DenyEffect, PropagateEffect
  <1>2. ResultsClear(W, S)'
    BY <1>1, KeptClear DEF Withheld
  <1>3. ASSUME pass = "normal", NEW n \in Nodes(req)
        PROVE  W \subseteq decided'[n] /\ Clear(granted'[n], W, S)
    <2>1. W \subseteq decided[n] /\ Clear(granted[n], W, S)
      BY <1>1, <1>3 DEF Withheld, WalkClear
    <2>2. CASE NullGrant
      <3>1. /\ granted'[n] = granted[n] \cup (All \ decided[n])
            /\ decided'[n] = decided[n] \cup All
        BY <2>2 DEF NullGrant
      <3>2. Clear(granted[n] \cup (All \ decided[n]), W, S)
        BY <2>1, ClearGrows
      <3>3. QED
        BY <2>1, <3>1, <3>2
    <2>3. CASE SkipAce
      BY <2>1, <2>3 DEF SkipAce
    <2>4. CASE AllowAce
      <3>1. \/ granted'[n] = granted[n] /\ decided'[n] = decided[n]
            \/ /\ granted'[n] = granted[n] \cup (Bits(Entry) \ decided[n])
               /\ decided'[n] = decided[n] \cup Bits(Entry)
        BY <2>4, AllowEffect
      <3>2. Clear(granted[n] \cup (Bits(Entry) \ decided[n]), W, S)
        BY <2>1, ClearGrows
      <3>3. QED
        BY <2>1, <3>1, <3>2
    <2>5. CASE DenyAce
      <3>1. /\ granted' = granted
            /\ decided'[n] = decided[n]
                 \cup Denied(Bits(Entry), Targets(req, Entry), n)
        BY <2>5, DenyEffect
      <3>2. QED
        BY <2>1, <3>1
    <2>6. CASE Propagate
      <3>1. DOMAIN granted = Nodes(req) /\ DOMAIN decided = Nodes(req)
        BY DEF TypeOK, Grants
      <3>2. CASE n # node
        <4>1. granted'[n] = granted[n] /\ decided'[n] = decided[n]
          BY <2>6, <3>1, <3>2, PropagateEffect
        <4>2. QED
          BY <2>1, <4>1
      <3>3. CASE n = node
        <4>1. /\ granted'[n] = granted[n] \cup Gain
              /\ decided'[n] = decided[n] \cup Gain
          BY <2>6, <3>1, <3>3, PropagateEffect
        <4>2. Gain = Gain \ decided[n]
          BY <3>3 DEF Gain
        <4>3. Clear(granted[n] \cup (Gain \ decided[n]), W, S)
          BY <2>1, ClearGrows
        <4>4. QED
          BY <2>1, <4>1, <4>2, <4>3
      <3>4. QED
        BY <3>2, <3>3
    <2>7. QED
      BY <2>2, <2>3, <2>4, <2>5, <2>6
  <1>4. WalkClear(W, S)'
    BY <1>1, <1>3 DEF WalkClear, Kept, Clear
  <1>5. QED
    BY <1>2, <1>4 DEF Withheld

\* The ends of the walks: the fallback gives WRITE_OWNER only where no label
\* withholds it, and the merges return nothing but what privileges granted.
LEMMA EndClear ==
    ASSUME NEW CONSTANT W, NEW CONSTANT S, TypeOK, Settled(req, W, S),
           Withheld(W, S), EndNormal \/ EndRestricted \/ EndConfined
    PROVE  Withheld(W, S)'
  <1>1. pc = "walk" /\ (\E p \in Passes : Proceed(p))
    BY DEF EndNormal, EndRestricted, EndConfined, WalkDone, Passes
  <1>2. /\ req' = req /\ basePriv' = basePriv
        /\ effective' = effective /\ staged' = staged
        /\ pc' = "result" \/ pass' \in {"restricted", "confined"}
    BY <1>1, ProceedEffect
  <1>3. WalkClear(W, S)'
    BY <1>2 DEF WalkClear
  <1>4. Clear(priv', W, S) /\ \A n \in Nodes(req) : Clear(main'[n], W, S)
    <2>1. CASE EndNormal
      <3> DEFINE take == IF TakesOwnership(req, Intent(req, stage), granted[1])
                            THEN {"WRITE_OWNER"} ELSE {}
      <3>1. /\ main' = [n \in Nodes(req) |-> granted[n] \cup take]
            /\ priv' = PrivilegeGranted(req, Intent(req, stage)) \cup take
            /\ pass = "normal"
        BY <2>1 DEF EndNormal, WalkDone
      <3>2. take \cap W = {}
        BY DEF TakesOwnership, Settled
      <3>3. Intent(req, stage) \in {req.intent, {}}
        BY DEF Intent
      <3>4. Clear(PrivilegeGranted(req, Intent(req, stage)), W, S)
        BY <3>3 DEF Settled
      <3>5. \A n \in Nodes(req) : Clear(granted[n], W, S)
        BY <1>1, <3>1 DEF Withheld, WalkClear
      <3> HIDE DEF take
      <3>6. QED
        BY <3>1, <3>2, <3>4, <3>5 DEF Clear
    <2>2. CASE EndRestricted
      <3>1. /\ priv' = priv
            /\ \A n \in Nodes(req) : main'[n] \subseteq main[n] \cup priv
        BY <2>2 DEF EndRestricted
      <3>2. QED
        BY <3>1 DEF Withheld, ResultsClear, Clear
    <2>3. CASE EndConfined
      <3>1. /\ priv' = priv
            /\ \A n \in Nodes(req) : main'[n] \subseteq main[n]
        BY <2>3 DEF EndConfined, MergeAbsolute
      <3>2. QED
        BY <3>1 DEF Withheld, ResultsClear, Clear
    <2>4. QED
      BY <2>1, <2>2, <2>3
  <1>5. ResultsClear(W, S)'
    BY <1>2, <1>4 DEF Withheld, ResultsClear, Clear
  <1>6. QED
    BY <1>3, <1>5 DEF Withheld

\* A rule that cannot be evaluated leaves what privileges granted, and one that
\* can starts a walk of its own.
LEMMA RuleClear ==
    ASSUME NEW CONSTANT W, NEW CONSTANT S, TypeOK, Settled(req, W, S),
           ResultsClear(W, S), NEW s, EvaluateRule(s), req' = req
    PROVE  WalkClear(W, S)' /\ \A n \in Nodes(req) : Clear(main'[n], W, S)
  <1>1. CASE pc' = "result" /\ main' = [n \in Nodes(req) |-> basePriv]
    <2>1. WalkClear(W, S)'
      BY <1>1 DEF WalkClear
    <2>2. \A n \in Nodes(req) : Clear(main'[n], W, S)
      BY <1>1 DEF ResultsClear
    <2>3. QED
      BY <2>1, <2>2
  <1>2. CASE main' = main /\ StartWalk(s, "normal")
    <2>1. WalkClear(W, S)'
      BY <1>2, StartClear
    <2>2. QED
      BY <1>2, <2>1 DEF ResultsClear
  <1>3. QED
    BY <1>1, <1>2, EvaluateRuleEffect

LEMMA PolicyClear ==
    ASSUME NEW CONSTANT W, NEW CONSTANT S, TypeOK, Settled(req, W, S),
           Withheld(W, S),
           \/ Begin \/ BadAce
           \/ BaseResult \/ NextRule \/ EffectiveResult \/ StagedResult \/ Answer
    PROVE  Withheld(W, S)'
  <1> DEFINE Mains == \A n \in Nodes(req) : Clear(main'[n], W, S)
             Others == /\ \A n \in Nodes(req) : /\ Clear(effective'[n], W, S)
                                                /\ Clear(staged'[n], W, S)
                       /\ Clear(priv', W, S) /\ Clear(basePriv', W, S)
  <1>1. req' = req
    BY DEF Begin, BadAce, BaseResult, NextRule, EffectiveResult,
                 StagedResult, Answer
  <1>2. ResultsClear(W, S)
    BY DEF Withheld
  <1>3. \A f : (\A n \in Nodes(req) : Clear(f[n], W, S)) =>
              \A n \in Nodes(req) : Clear(Narrow(f)[n], W, S)
    BY DEF Narrow, Clear
  <1>4. Others
    <2>1. CASE Begin \/ BadAce \/ Answer
      BY <1>2, <2>1 DEF Begin, BadAce, Answer, caap, ResultsClear
    <2>2. CASE BaseResult
      BY <1>2, <2>2 DEF BaseResult, ResultsClear, Clear
    <2>3. CASE NextRule
      BY <1>2, <2>3 DEF NextRule, ResultsClear
    <2>4. CASE EffectiveResult
      <3>1. /\ effective' = Narrow(effective) /\ priv' = priv /\ basePriv' = basePriv
            /\ staged' = staged \/ staged' = Narrow(staged)
        BY <2>4 DEF EffectiveResult
      <3>2. QED
        BY <1>2, <1>3, <3>1 DEF ResultsClear
    <2>5. CASE StagedResult
      <3>1. /\ effective' = effective /\ priv' = priv /\ basePriv' = basePriv
            /\ staged' = Narrow(staged)
        BY <2>5 DEF StagedResult
      <3>2. QED
        BY <1>2, <1>3, <3>1 DEF ResultsClear
    <2>6. QED
      BY <2>1, <2>2, <2>3, <2>4, <2>5
  <1>5. Mains /\ WalkClear(W, S)'
    <2>1. ASSUME main' = main, pc' \in {"error", "policy", "done"}
          PROVE  Mains /\ WalkClear(W, S)'
      BY <1>2, <2>1 DEF WalkClear, ResultsClear
    <2>2. CASE Begin
      <3>1. main' = main /\ (pc' = "error" \/ StartWalk("base", "normal"))
        BY <2>2 DEF Begin
      <3>2. CASE StartWalk("base", "normal")
        <4>1. WalkClear(W, S)'
          BY <1>1, <3>2, StartClear
        <4>2. QED
          BY <1>2, <3>1, <4>1 DEF ResultsClear
      <3>3. QED
        BY <2>1, <3>1, <3>2
    <2>3. CASE BadAce
      <3>1. \/ pc' = "error" /\ main' = main
            \/ pc' = "result" /\ main' = [n \in Nodes(req) |-> basePriv]
        BY <2>3 DEF BadAce, EvaluationFails
      <3>2. CASE pc' = "result" /\ main' = [n \in Nodes(req) |-> basePriv]
        BY <1>2, <3>2 DEF WalkClear, ResultsClear
      <3>3. QED
        BY <2>1, <3>1, <3>2
    <2>4. CASE BaseResult \/ StagedResult \/ Answer
      BY <2>1, <2>4 DEF BaseResult, StagedResult, Answer
    <2>5. CASE NextRule \/ EffectiveResult
      <3>1. \/ main' = main /\ pc' = "policy"
            \/ \E s \in {"effective", "staged"} : EvaluateRule(s)
        BY <2>5 DEF NextRule, EffectiveResult
      <3>2. CASE \E s \in {"effective", "staged"} : EvaluateRule(s)
        BY <1>1, <1>2, <3>2, RuleClear
      <3>3. QED
        BY <2>1, <3>1, <3>2
    <2>6. QED
      BY <2>2, <2>3, <2>4, <2>5
  <1>6. ResultsClear(W, S)'
    BY <1>1, <1>4, <1>5 DEF ResultsClear, Clear
  <1>7. QED
    BY <1>5, <1>6 DEF Withheld

\* No step grants what is withheld.
LEMMA WithheldStep ==
    ASSUME NEW CONSTANT W, NEW CONSTANT S, TypeOK, Settled(req, W, S),
           Withheld(W, S), [Next]_vars
    PROVE  Withheld(W, S)' /\ req' = req
  <1>1. req' = req
    BY DEF Next, vars, Begin, NullGrant, BadAce, SkipAce, AllowAce, DenyAce,
                 Propagate, EndNormal, EndRestricted, EndConfined, Proceed,
                 BaseResult, NextRule, EffectiveResult, StagedResult, Answer
  <1>2. CASE UNCHANGED vars
    <2>1. /\ pc' = pc /\ pass' = pass /\ granted' = granted /\ decided' = decided
          /\ Kept
      BY <1>2 DEF vars, Kept
    <2>2. ResultsClear(W, S)'
      BY <2>1, KeptClear DEF Withheld
    <2>3. WalkClear(W, S)'
      BY <1>1, <2>1 DEF Withheld, WalkClear, Clear
    <2>4. QED
      BY <1>1, <2>2, <2>3 DEF Withheld
  <1>3. CASE Next
    BY <1>1, <1>3, WalkStepClear, EndClear, PolicyClear DEF Next
  <1>4. QED
    BY <1>2, <1>3

LEMMA WithheldInit ==
    ASSUME NEW W, NEW S, Init
    PROVE  Withheld(W, S)
  BY DEF Init, Withheld, ResultsClear, WalkClear, Clear

\* apply_pip takes its rights from the running grant and from the provenance.
LEMMA TrustSettled ==
    ASSUME NEW r
    PROVE  Settled(r, PipDenied(r), {})
  <1>1. \A i : /\ Clear(PreGranted(r, i), PipDenied(r), {})
              /\ Clear(PrivilegeGranted(r, i), PipDenied(r), {})
              /\ PipDenied(r) \subseteq PreDecided(r, i)
    BY DEF Clear, PreGranted, PrivilegeGranted, PreDecided
  <1>2. QED
    BY <1>1 DEF Settled

\* A rule's evaluation, which states no intent, seeds no more than the call's.
LEMMA SeedWithoutIntent ==
    ASSUME NEW r
    PROVE  Seed(r, {}) \subseteq Seed(r, r.intent)
  <1>1. Privileges(r, {}) \subseteq Privileges(r, r.intent)
    BY DEF Privileges
  <1>2. QED
    BY <1>1 DEF Seed

\* apply_mic decides its rights and leaves the seeded ones granted.
LEMMA IntegritySettled ==
    ASSUME NEW r
    PROVE  Settled(r, MicDenied(r), Seed(r, r.intent))
  <1>1. \A i \in {r.intent, {}} : Seed(r, i) \subseteq Seed(r, r.intent)
    BY SeedWithoutIntent
  <1>2. \A i \in {r.intent, {}} :
            /\ Clear(PreGranted(r, i), MicDenied(r), Seed(r, r.intent))
            /\ Clear(PrivilegeGranted(r, i), MicDenied(r), Seed(r, r.intent))
    BY <1>1 DEF Clear, PreGranted, PrivilegeGranted
  <1>3. \A i : MicDenied(r) \subseteq PreDecided(r, i)
    BY DEF PreDecided
  <1>4. QED
    BY <1>2, <1>3 DEF Settled

TrustInv == Withheld(PipDenied(req), {})

IntegrityInv == Withheld(MicDenied(req), Seed(req, req.intent))

LEMMA LabelStep ==
    ASSUME TypeOK, [Next]_vars
    PROVE  /\ TrustInv => TrustInv'
           /\ IntegrityInv => IntegrityInv'
  <1>1. PICK r : r = req
    BY SMT
  <1>2. ASSUME TrustInv
        PROVE  TrustInv'
    <2>1. Withheld(PipDenied(r), {}) /\ Settled(req, PipDenied(r), {})
      BY <1>1, <1>2, TrustSettled DEF TrustInv
    <2>2. Withheld(PipDenied(r), {})' /\ req' = req
      BY <2>1, WithheldStep
    <2>3. PipDenied(r) = PipDenied(req')
      BY <1>1, <2>2
    <2>4. QED
      BY <2>2, <2>3 DEF TrustInv
  <1>3. ASSUME IntegrityInv
        PROVE  IntegrityInv'
    <2>1. /\ Withheld(MicDenied(r), Seed(r, r.intent))
          /\ Settled(req, MicDenied(r), Seed(r, r.intent))
      BY <1>1, <1>3, IntegritySettled DEF IntegrityInv
    <2>2. Withheld(MicDenied(r), Seed(r, r.intent))' /\ req' = req
      BY <2>1, WithheldStep
    <2>3. /\ MicDenied(r) = MicDenied(req')
          /\ Seed(r, r.intent) = Seed(req', req'.intent)
      BY <1>1, <2>2
    <2>4. QED
      BY <2>2, <2>3 DEF IntegrityInv
  <1>4. QED
    BY <1>2, <1>3

\* Whatever the DACL, the privileges, the tree and the policies, no result of
\* access_check_core holds a right that the process-trust label withholds.
THEOREM TrustDenialHolds == Spec => []TrustDenialIsAbsolute
  <1>1. Init => TrustInv
    BY WithheldInit DEF TrustInv
  <1>2. TypeOK /\ TrustInv /\ [Next]_vars => TrustInv'
    BY LabelStep
  <1>3. TrustInv => TrustDenialIsAbsolute
    BY DEF TrustInv, Withheld, ResultsClear, Clear, TrustDenialIsAbsolute, Results
  <1>4. QED
    BY <1>1, <1>2, <1>3, AccessTypeCorrect, PTL DEF Spec

\* Whatever the DACL, the tree and the policies, a right that the mandatory
\* label withholds is granted only where a seeded privilege granted it.
THEOREM IntegrityHolds == Spec => []IntegrityYieldsOnlyToPrivilege
  <1>1. Init => IntegrityInv
    BY WithheldInit DEF IntegrityInv
  <1>2. TypeOK /\ IntegrityInv /\ [Next]_vars => IntegrityInv'
    BY LabelStep
  <1>3. IntegrityInv => IntegrityYieldsOnlyToPrivilege
    BY DEF IntegrityInv, Withheld, ResultsClear, Clear,
                 IntegrityYieldsOnlyToPrivilege, Results
  <1>4. QED
    BY <1>1, <1>2, <1>3, AccessTypeCorrect, PTL DEF Spec


-----------------------------------------------------------------------------
(* The object tree, a preorder list of levels. *)

\* Nodes and levels are numbers, as far as a tree has two nodes to compare.
LEMMA TreeTypes ==
    ASSUME TypeOK, NEW i \in Nodes(req)
    PROVE  /\ i \in Nat
           /\ req.tree # <<>> => /\ Nodes(req) = 1..Len(req.tree)
                                 /\ Len(req.tree) \in Nat
                                 /\ \A k \in 1..Len(req.tree) : req.tree[k].level \in Nat
  <1>1. CASE req.tree = <<>>
    <2>1. i = 1
      BY <1>1 DEF Nodes
    <2>2. QED
      BY <1>1, <2>1, SMT
  <1>2. CASE req.tree # <<>>
    <2>1. /\ DOMAIN req.tree = 1..Len(req.tree) /\ Len(req.tree) \in Nat
          /\ \A k \in DOMAIN req.tree : req.tree[k].level \in Nat
      BY RequestAssumption DEF TypeOK, IsList
    <2>2. Nodes(req) = 1..Len(req.tree)
      BY <1>2, <2>1 DEF Nodes
    <2>3. i \in Nat
      BY <2>1, <2>2, SMT
    <2>4. QED
      BY <2>1, <2>2, <2>3
  <1>3. QED
    BY <1>1, <1>2

\* A child has a parent only in a tree.
LEMMA ChildHasTree ==
    ASSUME TypeOK, NEW i \in Nodes(req), NEW c \in Nodes(req), DirectChild(req, c, i)
    PROVE  req.tree # <<>> /\ i # c
  <1>1. i \in Nat /\ c \in Nat /\ i < c
    BY TreeTypes DEF DirectChild
  <1>2. i # c
    BY <1>1, SMT
  <1>3. req.tree = <<>> => i = 1 /\ c = 1
    BY DEF Nodes
  <1>4. QED
    BY <1>2, <1>3

\* A child is in the subtree of its parent.
LEMMA ChildInSubtree ==
    ASSUME TypeOK, NEW i \in Nodes(req), NEW c \in Nodes(req), DirectChild(req, c, i)
    PROVE  c \in Subtree(req, i)
  <1>1. i \in Nat /\ c \in Nat /\ i < c
    BY TreeTypes DEF DirectChild
  <1>2. i <= c
    BY <1>1, SMT
  <1>3. QED
    BY <1>2 DEF Subtree, DirectChild

\* The subtree of a node holds that of its child.
LEMMA SubtreeOfChild ==
    ASSUME TypeOK, NEW i \in Nodes(req), NEW c \in Nodes(req), DirectChild(req, c, i),
           NEW m \in Subtree(req, c)
    PROVE  m \in Subtree(req, i) /\ i # m
  <1> DEFINE L(k) == req.tree[k].level
             N == Len(req.tree)
  <1>1. /\ i \in 1..N /\ c \in 1..N /\ m \in 1..N /\ N \in Nat
        /\ \A k \in 1..N : L(k) \in Nat
    BY ChildHasTree, TreeTypes DEF Subtree
  <1>2. /\ i < c /\ L(c) = L(i) + 1 /\ \A k \in (i + 1)..c : L(k) > L(i)
    BY DEF DirectChild
  <1>3. c <= m /\ \A k \in (c + 1)..m : L(k) > L(c)
    BY DEF Subtree
  <1> HIDE DEF L, N
  <1>4. i <= m /\ i # m
    BY <1>1, <1>2, <1>3, SMT
  <1>5. ASSUME NEW k \in (i + 1)..m
        PROVE  L(k) > L(i)
    <2>1. k \in 1..N /\ (k \in (i + 1)..c \/ k \in (c + 1)..m)
      BY <1>1, <1>2, SMT
    <2>2. L(k) \in Nat /\ L(i) \in Nat /\ L(c) \in Nat
      BY <1>1, <2>1
    <2>3. CASE k \in (i + 1)..c
      BY <1>2, <2>3
    <2>4. CASE k \in (c + 1)..m
      <3>1. L(k) > L(c) /\ L(c) = L(i) + 1
        BY <1>2, <1>3, <2>4
      <3>2. QED
        BY <2>2, <3>1, SMT
    <2>5. QED
      BY <2>1, <2>3, <2>4
  <1>6. QED
    BY <1>4, <1>5 DEF Subtree, L

\* A subtree holds the children of its nodes.
LEMMA SubtreeHoldsChildren ==
    ASSUME TypeOK, NEW t \in Nodes(req), NEW i \in Subtree(req, t),
           NEW c \in Nodes(req), DirectChild(req, c, i)
    PROVE  c \in Subtree(req, t)
  <1> DEFINE L(k) == req.tree[k].level
             N == Len(req.tree)
  <1>0. i \in Nodes(req)
    BY DEF Subtree
  <1>1. /\ i \in 1..N /\ c \in 1..N /\ t \in 1..N /\ N \in Nat
        /\ \A k \in 1..N : L(k) \in Nat
    BY <1>0, ChildHasTree, TreeTypes
  <1>2. i < c /\ \A k \in (i + 1)..c : L(k) > L(i)
    BY DEF DirectChild
  <1>3. t <= i /\ \A k \in (t + 1)..i : L(k) > L(t)
    BY DEF Subtree
  <1> HIDE DEF L, N
  <1>4. t <= c
    BY <1>1, <1>2, <1>3, SMT
  <1>5. L(i) >= L(t)
    <2>1. L(i) \in Nat /\ L(t) \in Nat
      BY <1>1
    <2>2. i = t \/ i \in (t + 1)..i
      BY <1>1, <1>3, SMT
    <2>3. i = t \/ L(i) > L(t)
      BY <1>3, <2>2
    <2>4. QED
      BY <2>1, <2>3, SMT
  <1>6. ASSUME NEW k \in (t + 1)..c
        PROVE  L(k) > L(t)
    <2>1. k \in 1..N /\ (k \in (t + 1)..i \/ k \in (i + 1)..c)
      BY <1>1, <1>3, SMT
    <2>2. L(k) \in Nat /\ L(i) \in Nat /\ L(t) \in Nat
      BY <1>1, <2>1
    <2>3. CASE k \in (t + 1)..i
      BY <1>3, <2>3
    <2>4. CASE k \in (i + 1)..c
      <3>1. L(k) > L(i)
        BY <1>2, <2>4
      <3>2. QED
        BY <1>5, <2>2, <3>1, SMT
    <2>5. QED
      BY <2>1, <2>3, <2>4
  <1>7. QED
    BY <1>4, <1>6 DEF Subtree, L

\* An entry speaks of the children of the nodes it speaks of.
LEMMA TargetsHoldChildren ==
    ASSUME TypeOK, NEW a, NEW i \in Targets(req, a), NEW c \in Nodes(req),
           DirectChild(req, c, i)
    PROVE  c \in Targets(req, a)
  <1>1. CASE req.tree = <<>> \/ a.object = None
    BY <1>1 DEF Targets
  <1>2. CASE ~(req.tree = <<>> \/ a.object = None)
    <2>1. PICK t \in Nodes(req) : req.tree[t].guid = a.object /\ i \in Subtree(req, t)
      BY <1>2 DEF Targets
    <2>2. c \in Subtree(req, t)
      BY <2>1, SubtreeHoldsChildren
    <2>3. QED
      BY <1>2, <2>1, <2>2 DEF Targets
  <1>3. QED
    BY <1>1, <1>2

-----------------------------------------------------------------------------
(* Grants nest.  The results alone are not inductive: an object entry grants  *)
(* a node what is undecided there, so whatever was decided on a child without *)
(* being granted must have been decided on the node as well.                  *)

Nested(f) ==
    \A i, c \in Nodes(req) : DirectChild(req, c, i) => f[i] \subseteq f[c]

DenialsRise(g, d) ==
    \A i, c \in Nodes(req) : DirectChild(req, c, i) => d[c] \ g[c] \subseteq d[i]

NestInv ==
    /\ Nested(main) /\ Nested(effective) /\ Nested(staged)
    /\ Nested(granted) /\ DenialsRise(granted, decided)

\* The request stays, so the next state may be read over this state's tree.
LEMMA NestFollows ==
    ASSUME req' = req, Nested(main'), Nested(effective'), Nested(staged'),
           Nested(granted'), DenialsRise(granted', decided')
    PROVE  NestInv'
  BY DEF NestInv, Nested, DenialsRise

\* One mask on every node nests.
LEMMA UniformNests ==
    ASSUME NEW g, NEW d
    PROVE  /\ Nested([n \in Nodes(req) |-> g])
           /\ DenialsRise([n \in Nodes(req) |-> g], [n \in Nodes(req) |-> d])
  BY DEF Nested, DenialsRise

LEMMA StartNests ==
    ASSUME NEW s, NEW p, StartWalk(s, p)
    PROVE  Nested(granted') /\ DenialsRise(granted', decided')
  <1>1. PICK g, d : /\ granted' = [n \in Nodes(req) |-> g]
                    /\ decided' = [n \in Nodes(req) |-> d]
    BY DEF StartWalk
  <1>2. QED
    BY <1>1, UniformNests

\* Allowing what is undecided, on a set of nodes that holds its children.
LEMMA AllowNests ==
    ASSUME NestInv, NEW on, NEW bits,
           \A i \in on : \A c \in Nodes(req) : DirectChild(req, c, i) => c \in on,
           NEW g, NEW d,
           g = [n \in Nodes(req) |-> IF n \in on THEN granted[n] \cup (bits \ decided[n])
                                                 ELSE granted[n]],
           d = [n \in Nodes(req) |-> IF n \in on THEN decided[n] \cup bits
                                                 ELSE decided[n]]
    PROVE  Nested(g) /\ DenialsRise(g, d)
  <1>1. SUFFICES ASSUME NEW i \in Nodes(req), NEW c \in Nodes(req),
                        DirectChild(req, c, i)
                 PROVE  g[i] \subseteq g[c] /\ d[c] \ g[c] \subseteq d[i]
    BY DEF Nested, DenialsRise
  <1>2. granted[i] \subseteq granted[c] /\ decided[c] \ granted[c] \subseteq decided[i]
    BY <1>1 DEF NestInv, Nested, DenialsRise
  <1>3. i \in on => c \in on
    BY <1>1
  <1>4. /\ g[i] = IF i \in on THEN granted[i] \cup (bits \ decided[i]) ELSE granted[i]
        /\ g[c] = IF c \in on THEN granted[c] \cup (bits \ decided[c]) ELSE granted[c]
        /\ d[i] = IF i \in on THEN decided[i] \cup bits ELSE decided[i]
        /\ d[c] = IF c \in on THEN decided[c] \cup bits ELSE decided[c]
    OBVIOUS
  <1>5. g[i] \subseteq g[c]
    BY <1>2, <1>3, <1>4
  <1>6. d[c] \ g[c] \subseteq decided[c] \ granted[c]
    BY <1>4
  <1>7. decided[i] \subseteq d[i]
    BY <1>4
  <1>8. QED
    BY <1>2, <1>5, <1>6, <1>7

\* A denial reaches the parent with its child, or was decided there before.
LEMMA DenyNests ==
    ASSUME TypeOK, NestInv, DenyAce
    PROVE  Nested(granted') /\ DenialsRise(granted', decided')
  <1> DEFINE bits == Bits(Entry)
             on == Targets(req, Entry)
             D(n) == Denied(bits, on, n)
  <1>1. /\ granted' = granted
        /\ decided' = [n \in Nodes(req) |-> decided[n] \cup D(n)]
    BY DenyEffect
  <1>2. ASSUME NEW i \in Nodes(req), NEW c \in Nodes(req), DirectChild(req, c, i),
               NEW b \in D(c), b \notin granted[c]
        PROVE  b \in decided[i] \cup D(i)
    <2>1. decided[c] \ granted[c] \subseteq decided[i]
      BY <1>2 DEF NestInv, DenialsRise
    <2>2. ASSUME NEW m \in on, m \in Subtree(req, c), b \in bits \ decided[m]
          PROVE  b \in D(i)
      <3>1. m \in Subtree(req, i) /\ i # m
        BY <1>2, <2>2, SubtreeOfChild
      <3>2. QED
        BY <2>2, <3>1 DEF Denied
    <2>3. CASE c \in on /\ b \in bits
      <3>1. CASE b \in decided[c]
        BY <1>2, <2>1, <3>1
      <3>2. CASE b \notin decided[c]
        <4>1. c \in Subtree(req, i) /\ i # c
          BY <1>2, ChildHasTree, ChildInSubtree
        <4>2. /\ c \in {m \in on : i # m /\ m \in Subtree(req, i)}
              /\ b \in bits \ decided[c]
          BY <2>3, <3>2, <4>1
        <4>3. b \in UNION {bits \ decided[m] :
                        m \in {m \in on : i # m /\ m \in Subtree(req, i)}}
          BY <4>2
        <4>4. QED
          BY <4>3 DEF Denied
      <3>3. QED
        BY <3>1, <3>2
    <2>4. CASE \E m \in on : c # m /\ m \in Subtree(req, c) /\ b \in bits \ decided[m]
      BY <2>2, <2>4
    <2>5. QED
      BY <1>2, <2>3, <2>4 DEF Denied
  <1> HIDE DEF D
  <1>3. ASSUME NEW i \in Nodes(req), NEW c \in Nodes(req), DirectChild(req, c, i)
        PROVE  decided'[c] \ granted'[c] \subseteq decided'[i]
    <2>1. decided[c] \ granted[c] \subseteq decided[i]
      BY <1>3 DEF NestInv, DenialsRise
    <2>2. /\ decided'[c] = decided[c] \cup D(c) /\ decided'[i] = decided[i] \cup D(i)
          /\ granted'[c] = granted[c]
      BY <1>1
    <2>3. QED
      BY <1>2, <1>3, <2>1, <2>2
  <1>4. Nested(granted')
    BY <1>1 DEF NestInv
  <1>5. QED
    BY <1>3, <1>4 DEF DenialsRise

\* A node gains what all its children have, so it stays within each of them.
LEMMA PropagateNests ==
    ASSUME TypeOK, NestInv, Propagate
    PROVE  Nested(granted') /\ DenialsRise(granted', decided')
  <1>1. SUFFICES ASSUME NEW i \in Nodes(req), NEW c \in Nodes(req),
                        DirectChild(req, c, i)
                 PROVE  /\ granted'[i] \subseteq granted'[c]
                        /\ decided'[c] \ granted'[c] \subseteq decided'[i]
    BY DEF Nested, DenialsRise
  <1>2. granted[i] \subseteq granted[c] /\ decided[c] \ granted[c] \subseteq decided[i]
    BY <1>1 DEF NestInv, Nested, DenialsRise
  <1>3. i # c
    BY <1>1, ChildHasTree
  <1>4. DOMAIN granted = Nodes(req) /\ DOMAIN decided = Nodes(req)
    BY DEF TypeOK, Grants
  <1>5. \A n \in Nodes(req) :
            \/ n # node /\ granted'[n] = granted[n] /\ decided'[n] = decided[n]
            \/ /\ n = node /\ granted'[n] = granted[n] \cup Gain
               /\ decided'[n] = decided[n] \cup Gain
    BY <1>4, PropagateEffect
  <1>6. i = node => Gain \subseteq granted[c]
    BY <1>1 DEF Gain
  <1>7. CASE i = node
    <2>1. /\ granted'[i] = granted[i] \cup Gain /\ decided'[i] = decided[i] \cup Gain
          /\ granted'[c] = granted[c] /\ decided'[c] = decided[c]
      BY <1>3, <1>5, <1>7
    <2>2. QED
      BY <1>2, <1>6, <1>7, <2>1
  <1>8. CASE i # node
    <2>1. granted'[i] = granted[i] /\ decided'[i] = decided[i]
      BY <1>5, <1>8
    <2>2. \/ granted'[c] = granted[c] /\ decided'[c] = decided[c]
          \/ granted'[c] = granted[c] \cup Gain /\ decided'[c] = decided[c] \cup Gain
      BY <1>5
    <2>3. QED
      BY <1>2, <2>1, <2>2
  <1>9. QED
    BY <1>7, <1>8

\* The steps of a walk.
LEMMA WalkStepNests ==
    ASSUME TypeOK, NestInv, NullGrant \/ SkipAce \/ AllowAce \/ DenyAce \/ Propagate
    PROVE  NestInv'
  <1>1. Kept
    BY AllowEffect, DenyEffect, PropagateEffect DEF NullGrant, SkipAce, Kept, caap
  <1>2. Nested(granted') /\ DenialsRise(granted', decided')
    <2>1. CASE NullGrant
      <3>1. /\ granted' = [n \in Nodes(req) |-> IF n \in Nodes(req)
                                THEN granted[n] \cup (All \ decided[n]) ELSE granted[n]]
            /\ decided' = [n \in Nodes(req) |-> IF n \in Nodes(req)
                                THEN decided[n] \cup All ELSE decided[n]]
        BY <2>1 DEF NullGrant
      <3>2. QED
        BY <3>1, AllowNests
    <2>2. CASE SkipAce
      <3>1. granted' = granted /\ decided' = decided
        BY <2>2 DEF SkipAce
      <3>2. QED
        BY <3>1 DEF NestInv
    <2>3. CASE AllowAce
      <3> DEFINE on == Targets(req, Entry)
                 bits == Bits(Entry)
      <3>1. \A i \in on : \A c \in Nodes(req) : DirectChild(req, c, i) => c \in on
        BY TargetsHoldChildren
      <3>2. /\ granted' = [n \in Nodes(req) |-> IF n \in on
                                THEN granted[n] \cup (bits \ decided[n]) ELSE granted[n]]
            /\ decided' = [n \in Nodes(req) |-> IF n \in on
                                THEN decided[n] \cup bits ELSE decided[n]]
        BY <2>3, AllowEffect
      <3> HIDE DEF on, bits
      <3>3. QED
        BY <3>1, <3>2, AllowNests
    <2>4. QED
      BY <2>1, <2>2, <2>3, DenyNests, PropagateNests
  <1>3. QED
    BY <1>1, <1>2, NestFollows DEF NestInv, Kept

\* A merge of two results that nest, with what privileges granted, nests.
LEMMA EndNests ==
    ASSUME TypeOK, NestInv, EndNormal \/ EndRestricted \/ EndConfined
    PROVE  NestInv'
  <1>1. PICK p \in Passes : Proceed(p)
    BY DEF EndNormal, EndRestricted, EndConfined, Passes
  <1>2. req' = req /\ effective' = effective /\ staged' = staged
    BY <1>1, ProceedEffect
  <1>3. Nested(granted') /\ DenialsRise(granted', decided')
    <2>1. \/ granted' = granted /\ decided' = decided
          \/ StartWalk(stage, NextPass(p))
      BY <1>1 DEF Proceed, walk
    <2>2. QED
      BY <2>1, StartNests DEF NestInv
  <1>4. Nested(main')
    <2>1. SUFFICES ASSUME NEW i \in Nodes(req), NEW c \in Nodes(req),
                          DirectChild(req, c, i)
                   PROVE  main'[i] \subseteq main'[c]
      BY DEF Nested
    <2>2. granted[i] \subseteq granted[c] /\ main[i] \subseteq main[c]
      BY <2>1 DEF NestInv, Nested
    <2>3. CASE EndNormal
      <3>1. PICK take : main' = [n \in Nodes(req) |-> granted[n] \cup take]
        BY <2>3 DEF EndNormal
      <3>2. QED
        BY <2>2, <3>1
    <2>4. CASE EndRestricted
      <3>1. main' = [n \in Nodes(req) |->
                 (IF req.writeRestricted
                    THEN (main[n] \ Write) \cup (main[n] \cap granted[n] \cap Write)
                    ELSE main[n] \cap granted[n]) \cup priv]
        BY <2>4 DEF EndRestricted
      <3>2. CASE req.writeRestricted
        BY <2>2, <3>1, <3>2
      <3>3. CASE ~req.writeRestricted
        BY <2>2, <3>1, <3>3
      <3>4. QED
        BY <3>2, <3>3
    <2>5. CASE EndConfined
      <3>1. main' = [n \in Nodes(req) |-> main[n] \cap granted[n]]
        BY <2>5 DEF EndConfined, MergeAbsolute
      <3>2. QED
        BY <2>2, <3>1
    <2>6. QED
      BY <2>3, <2>4, <2>5
  <1>5. QED
    BY <1>2, <1>3, <1>4, NestFollows DEF NestInv

LEMMA RuleNests ==
    ASSUME TypeOK, NestInv, NEW s, EvaluateRule(s)
    PROVE  Nested(main') /\ Nested(granted') /\ DenialsRise(granted', decided')
  <1>1. \/ /\ main' = [n \in Nodes(req) |-> basePriv]
           /\ granted' = granted /\ decided' = decided
        \/ main' = main /\ StartWalk(s, "normal")
    BY DEF EvaluateRule, walk
  <1>2. QED
    BY <1>1, UniformNests, StartNests DEF NestInv

LEMMA PolicyNests ==
    ASSUME TypeOK, NestInv,
           \/ Begin \/ BadAce
           \/ BaseResult \/ NextRule \/ EffectiveResult \/ StagedResult \/ Answer
    PROVE  NestInv'
  <1> DEFINE Walk == Nested(granted') /\ DenialsRise(granted', decided')
  <1>1. ASSUME granted' = granted, decided' = decided
        PROVE  Walk
    BY <1>1 DEF NestInv
  <1>2. ASSUME NEW f, Nested(f)
        PROVE  Nested(Narrow(f))
    BY <1>2 DEF NestInv, Nested, Narrow
  <1>3. CASE Begin
    <2>1. /\ req' = req /\ main' = main /\ effective' = effective /\ staged' = staged
          /\ \/ granted' = granted /\ decided' = decided
             \/ StartWalk("base", "normal")
      BY <1>3 DEF Begin, walk, caap
    <2>2. Walk
      BY <1>1, <2>1, StartNests
    <2>3. QED
      BY <2>1, <2>2, NestFollows DEF NestInv
  <1>4. CASE BadAce
    <2>1. /\ req' = req /\ effective' = effective /\ staged' = staged
          /\ granted' = granted /\ decided' = decided
          /\ main' = main \/ main' = [n \in Nodes(req) |-> basePriv]
      BY <1>4 DEF BadAce, EvaluationFails, walk, caap
    <2>2. Nested(main')
      BY <2>1, UniformNests DEF NestInv
    <2>3. QED
      BY <1>1, <2>1, <2>2, NestFollows DEF NestInv
  <1>5. CASE BaseResult
    <2>1. /\ req' = req /\ main' = main /\ effective' = main /\ staged' = main
          /\ granted' = granted /\ decided' = decided
      BY <1>5 DEF BaseResult, walk
    <2>2. QED
      BY <1>1, <2>1, NestFollows DEF NestInv
  <1>6. CASE NextRule
    <2>1. /\ req' = req /\ effective' = effective /\ staged' = staged
          /\ \/ main' = main /\ granted' = granted /\ decided' = decided
             \/ EvaluateRule("effective")
      BY <1>6 DEF NextRule, walk
    <2>2. Nested(main') /\ Walk
      BY <1>1, <2>1, RuleNests DEF NestInv
    <2>3. QED
      BY <2>1, <2>2, NestFollows DEF NestInv
  <1>7. CASE EffectiveResult
    <2>1. /\ req' = req /\ effective' = Narrow(effective)
          /\ staged' = staged \/ staged' = Narrow(staged)
          /\ \/ main' = main /\ granted' = granted /\ decided' = decided
             \/ EvaluateRule("staged")
      BY <1>7 DEF EffectiveResult, walk
    <2>2. Nested(main') /\ Walk
      BY <1>1, <2>1, RuleNests DEF NestInv
    <2>3. Nested(effective') /\ Nested(staged')
      BY <1>2, <2>1 DEF NestInv
    <2>4. QED
      BY <2>1, <2>2, <2>3, NestFollows
  <1>8. CASE StagedResult
    <2>1. /\ req' = req /\ main' = main /\ effective' = effective
          /\ staged' = Narrow(staged) /\ granted' = granted /\ decided' = decided
      BY <1>8 DEF StagedResult, walk
    <2>2. Nested(staged')
      BY <1>2, <2>1 DEF NestInv
    <2>3. QED
      BY <1>1, <2>1, <2>2, NestFollows DEF NestInv
  <1>9. CASE Answer
    <2>1. /\ req' = req /\ main' = main /\ effective' = effective /\ staged' = staged
          /\ granted' = granted /\ decided' = decided
      BY <1>9 DEF Answer, walk, caap
    <2>2. QED
      BY <1>1, <2>1, NestFollows DEF NestInv
  <1>10. QED
    BY <1>3, <1>4, <1>5, <1>6, <1>7, <1>8, <1>9

LEMMA NestInit ==
    ASSUME Init
    PROVE  NestInv
  <1>1. /\ main = [n \in Nodes(req) |-> {}] /\ effective = main /\ staged = main
        /\ granted = main /\ decided = main
    BY DEF Init
  <1>2. QED
    BY <1>1, UniformNests DEF NestInv

LEMMA NestStep ==
    ASSUME TypeOK, NestInv, [Next]_vars
    PROVE  NestInv'
  <1>1. CASE UNCHANGED vars
    <2>1. /\ req' = req /\ main' = main /\ effective' = effective /\ staged' = staged
          /\ granted' = granted /\ decided' = decided
      BY <1>1 DEF vars
    <2>2. QED
      BY <2>1, NestFollows DEF NestInv
  <1>2. CASE Next
    BY <1>2, WalkStepNests, EndNests, PolicyNests DEF Next
  <1>3. QED
    BY <1>1, <1>2

\* For every object tree, DACL and list of policies: a right granted on a node
\* is granted on all its children, so the answer read at the root speaks for
\* the whole tree.
THEOREM GrantsNestAlways == Spec => []GrantsNest
  <1>1. Init => NestInv
    BY NestInit, SMT
  <1>2. TypeOK /\ NestInv /\ [Next]_vars => NestInv'
    BY NestStep, SMT
  <1>3. NestInv => GrantsNest
    BY DEF NestInv, Nested, GrantsNest, Results
  <1>4. QED
    BY <1>1, <1>2, <1>3, AccessTypeCorrect, PTL DEF Spec

-----------------------------------------------------------------------------
(* Confinement.  The walk of the confinement identity over the object's DACL  *)
(* grants only what an entry backs; that needs every right an earlier entry   *)
(* denied everywhere to be decided, as long as entries are left to read.      *)

Within(f) == \A n \in Nodes(req) : f[n] \subseteq Backed(req, "confined")

DenialsDecided(k, d) ==
    req.dacl # NullDacl /\ k <= Len(req.dacl) =>
        \A j \in 1..(k - 1) : \A b \in Relevant(req) :
            DeniesEverywhere(req, "confined", req.dacl[j], b) =>
                \A n \in Nodes(req) : b \in d[n]

Confining == stage = "base" /\ pass = "confined" /\ pc \in {"walk", "propagate"}

WalkBacked == ace \in Nat \ {0} /\ Within(granted) /\ DenialsDecided(ace, decided)

ConfinedInv ==
    ConfinedPass(req) =>
        /\ Confining => WalkBacked
        /\ stage = "base" /\ pc = "result" => Within(main)
        /\ pc \in {"policy", "done"} \/ stage # "base" =>
                Within(effective) /\ Within(staged)

\* The walk's part of the invariant, read over this state's request.
LEMMA WalkBackedFollows ==
    ASSUME req' = req, ace' \in Nat \ {0}, Within(granted'),
           DenialsDecided(ace', decided')
    PROVE  WalkBacked'
  BY DEF WalkBacked, Within, DenialsDecided

\* One more entry read: the denials before it stay decided, and it is the only
\* one to look at.
LEMMA OneMoreEntry ==
    ASSUME WalkBacked, NEW d,
           \A n \in Nodes(req) : decided[n] \subseteq d[n],
           \A b \in Relevant(req) :
                DeniesEverywhere(req, "confined", req.dacl[ace], b) =>
                    \A n \in Nodes(req) : b \in d[n],
           Len(req.dacl) \in Nat
    PROVE  DenialsDecided(ace + 1, d) /\ ace + 1 \in Nat \ {0}
  <1>1. ace \in Nat \ {0}
    BY DEF WalkBacked
  <1>2. ace + 1 \in Nat \ {0}
    BY <1>1, SMT
  <1>3. SUFFICES ASSUME req.dacl # NullDacl, ace + 1 <= Len(req.dacl),
                        NEW j \in 1..((ace + 1) - 1), NEW b \in Relevant(req),
                        DeniesEverywhere(req, "confined", req.dacl[j], b),
                        NEW n \in Nodes(req)
                 PROVE  b \in d[n]
    BY <1>2 DEF DenialsDecided
  <1>4. ace <= Len(req.dacl) /\ (j = ace \/ j \in 1..(ace - 1))
    BY <1>1, <1>3, SMT
  <1>5. CASE j = ace
    BY <1>3, <1>5
  <1>6. CASE j \in 1..(ace - 1)
    <2>1. b \in decided[n]
      BY <1>3, <1>4, <1>6 DEF WalkBacked, DenialsDecided
    <2>2. QED
      BY <2>1
  <1>7. QED
    BY <1>4, <1>5, <1>6

\* Past the last entry there is nothing left to look at.
LEMMA NoMoreEntries ==
    ASSUME NEW d, Len(req.dacl) \in Nat
    PROVE  DenialsDecided(Len(req.dacl) + 1, d) /\ Len(req.dacl) + 1 \in Nat \ {0}
  <1>1. ~(Len(req.dacl) + 1 <= Len(req.dacl)) /\ Len(req.dacl) + 1 \in Nat \ {0}
    BY SMT
  <1>2. QED
    BY <1>1 DEF DenialsDecided

LEMMA DaclTypes ==
    ASSUME TypeOK, req.dacl # NullDacl
    PROVE  DOMAIN req.dacl = 1..Len(req.dacl) /\ Len(req.dacl) \in Nat
  BY RequestAssumption DEF TypeOK, IsList

\* The index and the denials after an entry, whichever way NextAce goes.
LEMMA NextEntry ==
    ASSUME TypeOK, WalkBacked, stage = "base", AtAce, NEW bits, NEW d,
           \A n \in Nodes(req) : decided[n] \subseteq d[n],
           \A b \in Relevant(req) :
                DeniesEverywhere(req, "confined", req.dacl[ace], b) =>
                    \A n \in Nodes(req) : b \in d[n]
    PROVE  DenialsDecided(NextAce(bits), d) /\ NextAce(bits) \in Nat \ {0}
  <1>1. DaclOf(stage) = req.dacl /\ req.dacl # NullDacl
    BY DEF DaclOf, AtAce
  <1>2. Len(req.dacl) \in Nat
    BY <1>1, DaclTypes
  <1>3. DenialsDecided(ace + 1, d) /\ ace + 1 \in Nat \ {0}
    BY <1>2, OneMoreEntry
  <1>4. DenialsDecided(Len(req.dacl) + 1, d) /\ Len(req.dacl) + 1 \in Nat \ {0}
    BY <1>2, NoMoreEntries
  <1>5. NextAce(bits) = ace + 1 \/ NextAce(bits) = Len(req.dacl) + 1
    BY <1>1 DEF NextAce
  <1>6. QED
    BY <1>3, <1>4, <1>5

\* An allow entry grants what it backs: a right still undecided there has no
\* earlier denial everywhere.
LEMMA AllowBacked ==
    ASSUME TypeOK, WalkBacked, Confining, AllowAce
    PROVE  WalkBacked'
  <1> DEFINE bits == Bits(Entry)
             on == Targets(req, Entry)
  <1>1. /\ AtAce /\ req' = req /\ ace' = NextAce(bits)
        /\ Applies(req, pass, Entry) /\ Entry.kind = "allow"
    BY AllowEffect DEF AllowAce, Kept
  <1>2. /\ DaclOf(stage) = req.dacl /\ Entry = req.dacl[ace]
        /\ req.dacl # NullDacl /\ ace <= Len(req.dacl)
    BY <1>1 DEF Confining, DaclOf, Entry, AtAce
  <1>3. ace \in DOMAIN req.dacl
    <2>1. ace \in Nat \ {0} /\ Len(req.dacl) \in Nat
          /\ DOMAIN req.dacl = 1..Len(req.dacl)
      BY <1>2, DaclTypes DEF WalkBacked
    <2>2. ace \in 1..Len(req.dacl)
      BY <1>2, <2>1, SMT
    <2>3. QED
      BY <2>1, <2>2
  <1>4. bits \subseteq Rights /\ bits \subseteq Relevant(req) /\ bits \subseteq MapMask(Entry.mask)
    BY AllowEffect, BitsRights DEF Bits
  <1>5. ASSUME NEW n \in Nodes(req), NEW b \in bits \ decided[n]
        PROVE  b \in Backed(req, "confined")
    <2>1. \A j \in 1..(ace - 1) : ~DeniesEverywhere(req, "confined", req.dacl[j], b)
      BY <1>2, <1>4, <1>5 DEF WalkBacked, DenialsDecided
    <2>2. /\ Applies(req, "confined", req.dacl[ace]) /\ req.dacl[ace].kind = "allow"
          /\ b \in MapMask(req.dacl[ace].mask) /\ b \in Rights
      BY <1>1, <1>2, <1>4, <1>5 DEF Confining
    <2>3. QED
      BY <1>2, <1>3, <2>1, <2>2 DEF Backed
  <1>6. /\ granted' = [n \in Nodes(req) |-> IF n \in on
                            THEN granted[n] \cup (bits \ decided[n]) ELSE granted[n]]
        /\ decided' = [n \in Nodes(req) |-> IF n \in on
                            THEN decided[n] \cup bits ELSE decided[n]]
    BY AllowEffect
  <1> HIDE DEF bits, on
  <1>7. Within(granted')
    BY <1>5, <1>6 DEF WalkBacked, Within
  <1>8. \A n \in Nodes(req) : decided[n] \subseteq decided'[n]
    BY <1>6
  <1>9. \A b : ~DeniesEverywhere(req, "confined", req.dacl[ace], b)
    BY <1>1, <1>2 DEF DeniesEverywhere
  <1>10. DenialsDecided(ace', decided') /\ ace' \in Nat \ {0}
    BY <1>1, <1>8, <1>9, NextEntry DEF Confining
  <1>11. QED
    BY <1>1, <1>7, <1>10, WalkBackedFollows

\* A denial everywhere is decided on every node.
LEMMA DenyBacked ==
    ASSUME TypeOK, WalkBacked, Confining, DenyAce
    PROVE  WalkBacked'
  <1> DEFINE bits == Bits(Entry)
             on == Targets(req, Entry)
  <1>1. /\ AtAce /\ req' = req /\ ace' = NextAce(bits) /\ granted' = granted
    BY DenyEffect DEF DenyAce, Kept
  <1>2. Entry = req.dacl[ace]
    BY DEF Confining, DaclOf, Entry
  <1>3. decided' = [n \in Nodes(req) |-> decided[n] \cup Denied(bits, on, n)]
    BY DenyEffect
  <1>4. \A n \in Nodes(req) : decided[n] \subseteq decided'[n]
    BY <1>3
  <1>5. ASSUME NEW b \in Relevant(req),
               DeniesEverywhere(req, "confined", req.dacl[ace], b),
               NEW n \in Nodes(req)
        PROVE  b \in decided'[n]
    <2>1. on = Nodes(req) /\ b \in bits
      BY <1>2, <1>5 DEF DeniesEverywhere, Targets, Bits
    <2>2. b \in Denied(bits, on, n)
      BY <2>1 DEF Denied
    <2>3. QED
      BY <1>3, <2>2
  <1>6. DenialsDecided(ace', decided') /\ ace' \in Nat \ {0}
    BY <1>1, <1>4, <1>5, NextEntry DEF Confining
  <1>7. QED
    BY <1>1, <1>6, WalkBackedFollows DEF WalkBacked

\* An entry that is passed over denies nothing that was asked for.
LEMMA SkipBacked ==
    ASSUME TypeOK, WalkBacked, Confining, SkipAce
    PROVE  WalkBacked'
  <1>1. /\ req' = req /\ ace' = ace + 1 /\ granted' = granted /\ decided' = decided
        /\ ~Applies(req, pass, Entry) \/ Bits(Entry) = {}
        /\ DaclOf(stage) # NullDacl
    BY DEF SkipAce, AtAce
  <1>2. Entry = req.dacl[ace] /\ pass = "confined" /\ req.dacl # NullDacl
    BY <1>1 DEF Confining, DaclOf, Entry
  <1>3. \A b \in Relevant(req) : ~DeniesEverywhere(req, "confined", req.dacl[ace], b)
    BY <1>1, <1>2 DEF DeniesEverywhere, Bits
  <1>4. Len(req.dacl) \in Nat
    BY <1>2, DaclTypes
  <1>5. DenialsDecided(ace + 1, decided) /\ ace + 1 \in Nat \ {0}
    BY <1>3, <1>4, OneMoreEntry
  <1>6. QED
    BY <1>1, <1>5, WalkBackedFollows DEF WalkBacked

\* A NULL DACL backs everything valid.
LEMMA NullBacked ==
    ASSUME TypeOK, WalkBacked, Confining, NullGrant
    PROVE  WalkBacked'
  <1>1. /\ req' = req /\ ace' = 2 /\ DaclOf(stage) = NullDacl
        /\ granted' = [n \in Nodes(req) |-> granted[n] \cup (All \ decided[n])]
    BY DEF NullGrant
  <1>2. req.dacl = NullDacl
    BY <1>1 DEF Confining, DaclOf
  <1>3. Within(granted')
    BY <1>1, <1>2 DEF WalkBacked, Within, Backed
  <1>4. ace' \in Nat \ {0}
    BY <1>1, SMT
  <1>5. DenialsDecided(ace', decided')
    BY <1>2 DEF DenialsDecided
  <1>6. QED
    BY <1>1, <1>3, <1>4, <1>5, WalkBackedFollows

\* What all children have is backed because one of them has it.
LEMMA PropagateBacked ==
    ASSUME TypeOK, WalkBacked, Confining, Propagate
    PROVE  WalkBacked'
  <1>1. /\ req' = req /\ ace' = ace
        /\ granted' = [granted EXCEPT ![node] = granted[node] \cup Gain]
        /\ decided' = [decided EXCEPT ![node] = decided[node] \cup Gain]
    BY PropagateEffect DEF Propagate, Kept
  <1>2. DOMAIN granted = Nodes(req) /\ DOMAIN decided = Nodes(req)
    BY DEF TypeOK, Grants
  <1>3. Gain \subseteq Backed(req, "confined")
    <2>1. Gain = {} \/ \E c \in Nodes(req) : Gain \subseteq granted[c]
      BY DEF Gain
    <2>2. QED
      BY <2>1 DEF WalkBacked, Within
  <1>4. \A n \in Nodes(req) :
            /\ granted'[n] = granted[n] \/ granted'[n] = granted[n] \cup Gain
            /\ decided'[n] = decided[n] \/ decided'[n] = decided[n] \cup Gain
    BY <1>1, <1>2
  <1>5. Within(granted')
    BY <1>3, <1>4 DEF WalkBacked, Within
  <1>6. DenialsDecided(ace, decided')
    <2>1. \A n \in Nodes(req) : decided[n] \subseteq decided'[n]
      BY <1>4
    <2>2. QED
      BY <2>1 DEF WalkBacked, DenialsDecided
  <1>7. QED
    BY <1>1, <1>5, <1>6, WalkBackedFollows DEF WalkBacked

\* The confinement walk starts with nothing: no privilege, no implicit right.
LEMMA StartBacked ==
    ASSUME req' = req, NEW s, StartWalk(s, "confined")
    PROVE  WalkBacked'
  <1>1. Implicit(req, "confined", DaclOf(s)) = {}
    BY DEF Implicit
  <1>2. ace' = 1 /\ granted' = [n \in Nodes(req) |-> {}]
    BY <1>1 DEF StartWalk
  <1>3. Within(granted')
    BY <1>2 DEF Within
  <1>4. ace' \in Nat \ {0} /\ 1..(ace' - 1) = {}
    BY <1>2, SMT
  <1>5. DenialsDecided(ace', decided')
    BY <1>4 DEF DenialsDecided
  <1>6. QED
    BY <1>3, <1>4, <1>5, WalkBackedFollows

\* A confined caller's evaluation has a result only after its confinement walk.
LEMMA ConfinedOrder ==
    ASSUME ConfinedPass(req)
    PROVE  /\ NextPass("normal") \in {"restricted", "confined"}
           /\ NextPass("restricted") = "confined"
           /\ NextPass("confined") = "none"
  <1>1. NextPass("restricted") = "confined" /\ NextPass("confined") = "none"
    BY DEF NextPass
  <1>2. CASE RestrictedPass(req)
    BY <1>1, <1>2 DEF NextPass
  <1>3. CASE ~RestrictedPass(req)
    BY <1>1, <1>3 DEF NextPass
  <1>4. QED
    BY <1>2, <1>3

\* ConfinedInv, one conjunct at a time, once the request is known to stay.
LEMMA ConfinedFollows ==
    ASSUME req' = req, Confining' => WalkBacked',
           stage' = "base" /\ pc' = "result" => Within(main'),
           pc' \in {"policy", "done"} \/ stage' # "base" =>
                Within(effective') /\ Within(staged')
    PROVE  ConfinedInv'
  BY DEF ConfinedInv, Within

LEMMA NarrowWithin ==
    ASSUME NEW f, Within(f)
    PROVE  Within(Narrow(f))
  BY DEF Within, Narrow

LEMMA WalkStepConfined ==
    ASSUME TypeOK, ConfinedInv, ConfinedPass(req),
           NullGrant \/ SkipAce \/ AllowAce \/ DenyAce \/ Propagate
    PROVE  ConfinedInv'
  <1>1. /\ Kept /\ stage' = stage /\ pass' = pass
        /\ pc \in {"walk", "propagate"} /\ pc' \in {"walk", "propagate"}
    <2>1. CASE NullGrant \/ SkipAce
      BY <2>1 DEF NullGrant, SkipAce, AtAce, Kept, caap
    <2>2. QED
      BY <2>1, AllowEffect, DenyEffect, PropagateEffect
  <1>2. ASSUME Confining
        PROVE  WalkBacked'
    <2>1. WalkBacked
      BY <1>2 DEF ConfinedInv
    <2>2. QED
      BY <1>2, <2>1, NullBacked, SkipBacked, AllowBacked, DenyBacked,
         PropagateBacked
  <1>3. Confining' => Confining
    BY <1>1 DEF Confining
  <1>4. stage' # "base" => Within(effective') /\ Within(staged')
    BY <1>1 DEF ConfinedInv, Kept
  <1>5. req' = req
    BY <1>1 DEF Kept
  <1>6. pc' # "result" /\ pc' \notin {"policy", "done"}
    BY <1>1
  <1>7. QED
    BY <1>2, <1>3, <1>4, <1>5, <1>6, ConfinedFollows

LEMMA EndConfinedInv ==
    ASSUME TypeOK, ConfinedInv, ConfinedPass(req),
           EndNormal \/ EndRestricted \/ EndConfined
    PROVE  ConfinedInv'
  <1>1. PICK p \in Passes : Proceed(p) /\ WalkDone(p)
                           /\ (p = "confined" => EndConfined)
    BY DEF EndNormal, EndRestricted, EndConfined, Passes
  <1>2. /\ req' = req /\ stage' = stage /\ effective' = effective /\ staged' = staged
        /\ pc' \in {"result", "walk"}
    BY <1>1, ProceedEffect
  <1>3. stage' # "base" => Within(effective') /\ Within(staged')
    BY <1>2 DEF ConfinedInv
  <1>4. CASE p = "confined"
    <2>1. pc' = "result"
      BY <1>1, <1>4, ConfinedOrder DEF Proceed
    <2>2. ASSUME stage = "base"
          PROVE  Within(main')
      <3>1. Confining
        BY <1>1, <1>4, <2>2 DEF Confining, WalkDone
      <3>2. Within(granted)
        BY <3>1 DEF ConfinedInv, WalkBacked
      <3>3. main' = [n \in Nodes(req) |-> main[n] \cap granted[n]]
        BY <1>1, <1>4 DEF EndConfined, MergeAbsolute
      <3>4. QED
        BY <3>2, <3>3 DEF Within
    <2>3. ~Confining'
      BY <2>1 DEF Confining
    <2>4. QED
      BY <1>2, <1>3, <2>1, <2>2, <2>3, ConfinedFollows
  <1>5. CASE p # "confined"
    <2>1. p \in {"normal", "restricted"}
      BY <1>5 DEF Passes
    <2>2. NextPass(p) \in {"restricted", "confined"}
      BY <2>1, ConfinedOrder
    <2>3. StartWalk(stage, NextPass(p))
      BY <1>1, <2>2 DEF Proceed
    <2>4. pc' = "walk" /\ pass' = NextPass(p)
      BY <2>3 DEF StartWalk
    <2>5. Confining' => WalkBacked'
      <3>1. CASE NextPass(p) = "confined"
        BY <1>2, <2>3, <3>1, StartBacked
      <3>2. CASE NextPass(p) = "restricted"
        BY <2>4, <3>2 DEF Confining
      <3>3. QED
        BY <2>2, <3>1, <3>2
    <2>6. QED
      BY <1>2, <1>3, <2>4, <2>5, ConfinedFollows
  <1>6. QED
    BY <1>4, <1>5

LEMMA PolicyConfined ==
    ASSUME TypeOK, ConfinedInv, ConfinedPass(req),
           \/ Begin \/ BadAce
           \/ BaseResult \/ NextRule \/ EffectiveResult \/ StagedResult \/ Answer
    PROVE  ConfinedInv'
  <1>1. CASE Begin
    <2>0. /\ req' = req /\ stage' = stage
          /\ effective' = effective /\ staged' = staged
          /\ pc' = "error" \/ StartWalk("base", "normal")
      BY <1>1 DEF Begin, caap
    <2>1. /\ req' = req /\ stage' = stage
          /\ effective' = effective /\ staged' = staged
          /\ pc' = "error" \/ (pc' = "walk" /\ pass' = "normal")
      BY <2>0, StartWalkTypes DEF Passes
    <2>2. stage' # "base" => Within(effective') /\ Within(staged')
      BY <2>1 DEF ConfinedInv
    <2>3. ~Confining' /\ pc' # "result" /\ pc' \notin {"policy", "done"}
      BY <2>1 DEF Confining
    <2>4. QED
      BY <2>1, <2>2, <2>3, ConfinedFollows
  <1>2. CASE BadAce
    <2>1. /\ req' = req /\ stage' = stage
          /\ effective' = effective /\ staged' = staged
          /\ pc' = IF stage = "base" THEN "error" ELSE "result"
      BY <1>2 DEF BadAce, EvaluationFails, caap
    <2>2. stage' # "base" => Within(effective') /\ Within(staged')
      BY <2>1 DEF ConfinedInv
    <2>3. /\ ~Confining' /\ ~(stage' = "base" /\ pc' = "result")
          /\ pc' \notin {"policy", "done"}
      BY <2>1 DEF Confining
    <2>4. QED
      BY <2>1, <2>2, <2>3, ConfinedFollows
  <1>3. CASE BaseResult
    <2>1. /\ req' = req /\ effective' = main /\ staged' = main /\ pc' = "policy"
          /\ stage = "base" /\ pc = "result"
      BY <1>3 DEF BaseResult
    <2>2. Within(main)
      BY <2>1 DEF ConfinedInv
    <2>3. ~Confining' /\ pc' # "result"
      BY <2>1 DEF Confining
    <2>4. QED
      BY <2>1, <2>2, <2>3, ConfinedFollows
  <1>4. CASE NextRule \/ EffectiveResult \/ StagedResult \/ Answer
    <2>1. /\ req' = req /\ (pc = "policy" \/ stage # "base")
          /\ effective' = effective \/ effective' = Narrow(effective)
          /\ staged' = staged \/ staged' = Narrow(staged)
      BY <1>4 DEF NextRule, EffectiveResult, StagedResult, Answer, caap
    <2>2. pc' \in {"policy", "done", "error"} \/ stage' # "base"
      BY <1>4 DEF NextRule, EffectiveResult, StagedResult, Answer, EvaluateRule
    <2>3. Within(effective') /\ Within(staged')
      BY <2>1, NarrowWithin DEF ConfinedInv
    <2>4. ~Confining' /\ ~(stage' = "base" /\ pc' = "result")
      BY <2>2 DEF Confining
    <2>5. QED
      BY <2>1, <2>3, <2>4, ConfinedFollows
  <1>5. QED
    BY <1>1, <1>2, <1>3, <1>4

LEMMA ConfinedStep ==
    ASSUME TypeOK, ConfinedInv, [Next]_vars
    PROVE  ConfinedInv'
  <1>1. CASE UNCHANGED vars
    <2>1. /\ req' = req /\ pc' = pc /\ stage' = stage /\ pass' = pass /\ ace' = ace
          /\ granted' = granted /\ decided' = decided /\ main' = main
          /\ effective' = effective /\ staged' = staged
      BY <1>1 DEF vars
    <2>2. QED
      BY <2>1 DEF ConfinedInv, Confining, WalkBacked, Within, DenialsDecided
  <1>2. CASE Next /\ ConfinedPass(req)
    BY <1>2, WalkStepConfined, EndConfinedInv, PolicyConfined DEF Next
  <1>3. CASE Next /\ ~ConfinedPass(req)
    <2>1. req' = req
      BY <1>3 DEF Next, Begin, NullGrant, BadAce, SkipAce, AllowAce, DenyAce,
                 Propagate, EndNormal, EndRestricted, EndConfined, Proceed,
                 BaseResult, NextRule, EffectiveResult, StagedResult, Answer
    <2>2. QED
      BY <1>3, <2>1 DEF ConfinedInv
  <1>4. QED
    BY <1>1, <1>2, <1>3

\* For every DACL, token, tree and list of policies: a confined caller ends
\* with nothing that no entry of the object's own DACL allows its confinement
\* SID or capabilities.
THEOREM ConfinementHolds == Spec => []ConfinementIsAbsolute
  <1>1. Init => ConfinedInv
    BY DEF Init, ConfinedInv, Confining
  <1>2. TypeOK /\ ConfinedInv /\ [Next]_vars => ConfinedInv'
    BY ConfinedStep, SMT
  <1>3. ConfinedInv => ConfinementIsAbsolute
    BY DEF ConfinedInv, Within, ConfinementIsAbsolute
  <1>4. QED
    BY <1>1, <1>2, <1>3, AccessTypeCorrect, PTL DEF Spec

-----------------------------------------------------------------------------
(* The walk of a DACL against its reference. *)

\* What is settled before a walk, what it starts with, and the state it has
\* reached at entry a.  A right not settled before is granted, or decided and
\* not granted, as its first matching entry says; an undecided one has met no
\* entry yet.  The last is what stopping early relies on: then none is left.
Before(r, s, p) == IF p = "normal" THEN PreDecided(r, Intent(r, s)) ELSE {}
Owner(r, s, p, dacl) == Implicit(r, p, dacl) \ Before(r, s, p)
Fixed(r, s, p, dacl) == Before(r, s, p) \cup Owner(r, s, p, dacl)
Seeded(r, s, p, dacl) ==
    (IF p = "normal" THEN PreGranted(r, Intent(r, s)) ELSE {})
        \cup Owner(r, s, p, dacl)

Carries(r, p, e, b) == Applies(r, p, e) /\ b \in MapMask(e.mask)

Unmet(r, p, dacl, a, b) ==
    IF dacl = NullDacl
        THEN a = 1 \/ b \notin All
        ELSE \A j \in 1..(a - 1) : ~Carries(r, p, dacl[j], b)

Follows(r, p, dacl, a, g, d, b) ==
    /\ b \in g => FirstMatchAllows(r, p, dacl, b)
    /\ b \in d /\ b \notin g => ~FirstMatchAllows(r, p, dacl, b)
    /\ b \notin d => Unmet(r, p, dacl, a, b)

Walked(r, s, p, dacl, a, g, d) ==
    /\ a \in Nat \ {0}
    /\ dacl = NullDacl \/ IsList(dacl)
    /\ Fixed(r, s, p, dacl) \subseteq d /\ g \subseteq d
    /\ g \cap Fixed(r, s, p, dacl) = Seeded(r, s, p, dacl) \cap Fixed(r, s, p, dacl)
    /\ \A b \in Relevant(r) \ Fixed(r, s, p, dacl) : Follows(r, p, dacl, a, g, d, b)

\* A rule that is being evaluated is one of its policy's list.
RuleInv ==
    /\ pol \in Nat \ {0} /\ rule \in Nat \ {0}
    /\ pc = "begin" => stage = "base"
    /\ pc \in {"walk", "propagate", "result"} /\ stage # "base" =>
        rule <= Len(RuleList(req, pol))

FirstInv ==
    /\ RuleInv
    /\ req.tree = <<>> /\ pc = "walk" =>
        Walked(req, stage, pass, DaclOf(stage), ace, granted[1], decided[1])

\* A walk starts with everything settled before, and nothing else, decided.
LEMMA StartFollows ==
    ASSUME NEW r, NEW s, NEW p, NEW dacl, dacl = NullDacl \/ IsList(dacl)
    PROVE  Walked(r, s, p, dacl, 1, Seeded(r, s, p, dacl), Fixed(r, s, p, dacl))
  <1>1. 1 \in Nat \ {0} /\ 1..(1 - 1) = {}
    BY SMT
  <1>2. Seeded(r, s, p, dacl) \subseteq Fixed(r, s, p, dacl)
    BY DEF Seeded, Fixed, Before, PreGranted, PreDecided
  <1>3. \A b : Unmet(r, p, dacl, 1, b)
    BY <1>1 DEF Unmet
  <1>4. QED
    BY <1>1, <1>2, <1>3 DEF Walked, Follows

\* Whoever reads entry a passes it: what is still undecided has not met it.
LEMMA UnmetGrows ==
    ASSUME NEW r, NEW p, NEW dacl, NEW a \in Nat \ {0}, NEW b, dacl # NullDacl,
           Unmet(r, p, dacl, a, b), ~Carries(r, p, dacl[a], b)
    PROVE  Unmet(r, p, dacl, a + 1, b)
  <1>1. \A j \in 1..((a + 1) - 1) : j = a \/ j \in 1..(a - 1)
    BY SMT
  <1>2. QED
    BY <1>1 DEF Unmet

\* The first entry to carry an undecided right is the one it follows.
LEMMA FirstMet ==
    ASSUME NEW r, NEW p, NEW dacl, dacl # NullDacl, IsList(dacl),
           NEW a \in Nat \ {0}, a <= Len(dacl), NEW b,
           Unmet(r, p, dacl, a, b), Carries(r, p, dacl[a], b)
    PROVE  FirstMatchAllows(r, p, dacl, b) <=> dacl[a].kind = "allow"
  <1>1. a \in DOMAIN dacl
    <2>1. Len(dacl) \in Nat /\ DOMAIN dacl = 1..Len(dacl)
      BY DEF IsList
    <2>2. a \in 1..Len(dacl)
      BY <2>1, SMT
    <2>3. QED
      BY <2>1, <2>2
  <1>2. \A j \in 1..(a - 1) : ~Carries(r, p, dacl[j], b)
    BY DEF Unmet
  <1>3. ASSUME dacl[a].kind = "allow"
        PROVE  FirstMatchAllows(r, p, dacl, b)
    BY <1>1, <1>2, <1>3 DEF FirstMatchAllows, Carries
  <1>4. ASSUME FirstMatchAllows(r, p, dacl, b)
        PROVE  dacl[a].kind = "allow"
    <2>1. PICK k \in DOMAIN dacl :
            /\ Carries(r, p, dacl[k], b) /\ dacl[k].kind = "allow"
            /\ \A j \in 1..(k - 1) : ~Carries(r, p, dacl[j], b)
      BY <1>4 DEF FirstMatchAllows, Carries
    <2>2. k \in Nat /\ k >= 1
      <3>1. k \in 1..Len(dacl) /\ Len(dacl) \in Nat
        BY DEF IsList
      <3>2. QED
        BY <3>1, SMT
    <2>3. k = a \/ k \in 1..(a - 1) \/ a \in 1..(k - 1)
      BY <2>2, SMT
    <2>4. QED
      BY <1>2, <2>1, <2>3
  <1>5. QED
    BY <1>3, <1>4

\* Reading entry a: what it carries and was undecided is now decided, and is
\* granted if the entry allows.
LEMMA EntryFollows ==
    ASSUME NEW r, NEW s, NEW p, NEW dacl, NEW a, NEW g, NEW d,
           Walked(r, s, p, dacl, a, g, d), dacl # NullDacl, a <= Len(dacl),
           NEW g2, NEW d2, NEW a2,
           d \subseteq d2, g \subseteq g2, g2 \subseteq d2,
           \A b : b \in d => (b \in g2 <=> b \in g),
           \A b \in Relevant(r) : b \in d2 /\ b \notin d =>
                /\ Carries(r, p, dacl[a], b)
                /\ b \in g2 <=> dacl[a].kind = "allow",
           \A b \in Relevant(r) : Carries(r, p, dacl[a], b) => b \in d2,
           \/ a2 = a + 1
           \/ a2 = Len(dacl) + 1 /\ Relevant(r) \subseteq d2
    PROVE  Walked(r, s, p, dacl, a2, g2, d2)
  <1>1. a \in Nat \ {0} /\ IsList(dacl) /\ Len(dacl) \in Nat
    BY DEF Walked, IsList
  <1>2. a2 \in Nat \ {0}
    BY <1>1, SMT
  <1>3. /\ Fixed(r, s, p, dacl) \subseteq d2
        /\ g2 \cap Fixed(r, s, p, dacl)
                = Seeded(r, s, p, dacl) \cap Fixed(r, s, p, dacl)
    BY DEF Walked
  <1>4. ASSUME NEW b \in Relevant(r) \ Fixed(r, s, p, dacl)
        PROVE  Follows(r, p, dacl, a2, g2, d2, b)
    <2>1. Follows(r, p, dacl, a, g, d, b)
      BY DEF Walked
    <2>2. CASE b \in d
      BY <2>1, <2>2 DEF Follows
    <2>3. CASE b \notin d /\ b \in d2
      <3>1. Carries(r, p, dacl[a], b) /\ (b \in g2 <=> dacl[a].kind = "allow")
        BY <2>3
      <3>2. Unmet(r, p, dacl, a, b)
        BY <2>1, <2>3 DEF Follows
      <3>3. FirstMatchAllows(r, p, dacl, b) <=> dacl[a].kind = "allow"
        BY <1>1, <3>1, <3>2, FirstMet
      <3>4. QED
        BY <2>3, <3>1, <3>3 DEF Follows
    <2>4. CASE b \notin d2
      <3>1. a2 = a + 1 /\ b \notin d /\ b \notin g2
        BY <2>4
      <3>2. Unmet(r, p, dacl, a, b) /\ ~Carries(r, p, dacl[a], b)
        BY <2>1, <2>4, <3>1 DEF Follows
      <3>3. Unmet(r, p, dacl, a2, b)
        BY <1>1, <3>1, <3>2, UnmetGrows
      <3>4. QED
        BY <2>4, <3>1, <3>3 DEF Follows
    <2>5. QED
      BY <2>2, <2>3, <2>4
  <1>5. QED
    BY <1>1, <1>2, <1>3, <1>4 DEF Walked

\* A NULL DACL grants everything valid that is undecided.
LEMMA NullFollows ==
    ASSUME NEW r, NEW s, NEW p, NEW g, NEW d,
           Walked(r, s, p, NullDacl, 1, g, d)
    PROVE  Walked(r, s, p, NullDacl, 2, g \cup (All \ d), d \cup All)
  <1>1. 2 \in Nat \ {0}
    BY SMT
  <1>2. \A b : FirstMatchAllows(r, p, NullDacl, b) <=> b \in All
    BY DEF FirstMatchAllows
  <1>3. \A b \in Relevant(r) \ Fixed(r, s, p, NullDacl) :
            Follows(r, p, NullDacl, 2, g \cup (All \ d), d \cup All, b)
    BY <1>2 DEF Walked, Follows, Unmet
  <1>4. QED
    BY <1>1, <1>3 DEF Walked

\* Past the last entry every right has followed its first match.
LEMMA EndFollows ==
    ASSUME NEW r, NEW s, NEW p, NEW dacl, NEW a, NEW g, NEW d,
           Walked(r, s, p, dacl, a, g, d), a > DaclLen(dacl)
    PROVE  \A b \in Relevant(r) \ Fixed(r, s, p, dacl) :
                b \in g <=> FirstMatchAllows(r, p, dacl, b)
  <1>1. SUFFICES ASSUME NEW b \in Relevant(r) \ Fixed(r, s, p, dacl)
                 PROVE  b \in g <=> FirstMatchAllows(r, p, dacl, b)
    OBVIOUS
  <1>2. Follows(r, p, dacl, a, g, d, b) /\ a \in Nat \ {0} /\ g \subseteq d
    BY DEF Walked
  <1>3. ASSUME b \notin d
        PROVE  ~FirstMatchAllows(r, p, dacl, b)
    <2>1. Unmet(r, p, dacl, a, b)
      BY <1>2, <1>3 DEF Follows
    <2>2. CASE dacl = NullDacl
      <3>1. a # 1
        BY <1>2, <2>2, SMT DEF DaclLen
      <3>2. QED
        BY <2>1, <2>2, <3>1 DEF Unmet, FirstMatchAllows
    <2>3. CASE dacl # NullDacl
      <3>1. DOMAIN dacl = 1..Len(dacl) /\ Len(dacl) \in Nat /\ a > Len(dacl)
        BY <2>3 DEF Walked, IsList, DaclLen
      <3>2. \A k \in 1..Len(dacl) : k \in 1..(a - 1)
        BY <1>2, <3>1, SMT
      <3>3. \A k \in DOMAIN dacl : ~Carries(r, p, dacl[k], b)
        BY <2>1, <2>3, <3>1, <3>2 DEF Unmet
      <3>4. QED
        BY <2>3, <3>3 DEF FirstMatchAllows, Carries
    <2>4. QED
      BY <2>2, <2>3
  <1>4. QED
    BY <1>2, <1>3 DEF Follows

\* Without a tree there is one node, and every entry speaks of it.
LEMMA OneNode ==
    ASSUME NEW r, r.tree = <<>>, NEW e
    PROVE  Nodes(r) = {1} /\ Targets(r, e) = {1}
  BY DEF Nodes, Targets

\* The evaluation's DACL and rule are the same as long as it lasts.
SameEvaluation == req' = req /\ stage' = stage /\ pol' = pol /\ rule' = rule

LEMMA SameDacl ==
    ASSUME SameEvaluation
    PROVE  DaclOf(stage)' = DaclOf(stage)
  BY DEF SameEvaluation, DaclOf

LEMMA SameRule ==
    ASSUME RuleInv, SameEvaluation, pc' # "begin",
           pc \in {"walk", "propagate", "result"}
    PROVE  RuleInv'
  <1>1. RuleList(req, pol)' = RuleList(req, pol)
    BY DEF SameEvaluation
  <1>2. QED
    BY <1>1 DEF RuleInv, SameEvaluation

LEMMA RuleListLen ==
    ASSUME TypeOK
    PROVE  Len(RuleList(req, pol)) \in Nat
  <1>1. Len(<<RecoveryRule>>) \in Nat
    BY SMT
  <1>2. QED
    BY <1>1, RequestAssumption DEF RuleList, IsList, TypeOK

\* A rule's DACL that is evaluated is a list or absent.
LEMMA RuleDacl ==
    ASSUME TypeOK, RuleInv, rule <= Len(RuleList(req, pol)),
           NEW s \in {"effective", "staged"}, DaclOf(s) # Broken,
           s = "staged" => DaclOf(s) # None
    PROVE  DaclOf(s) = NullDacl \/ IsList(DaclOf(s))
  <1> DEFINE sid == req.policySids[pol]
  <1>1. rule \in Nat \ {0}
    BY DEF RuleInv
  <1>2. CASE sid \in DOMAIN req.policies
    <2>1. RuleList(req, pol) = req.policies[sid] /\ IsList(req.policies[sid])
      BY <1>2, RequestAssumption DEF RuleList, TypeOK
    <2>2. rule \in DOMAIN req.policies[sid]
      <3>1. DOMAIN req.policies[sid] = 1..Len(req.policies[sid])
            /\ Len(req.policies[sid]) \in Nat /\ rule <= Len(req.policies[sid])
        BY <2>1 DEF IsList
      <3>2. rule \in 1..Len(req.policies[sid])
        BY <1>1, <3>1, SMT
      <3>3. QED
        BY <3>1, <3>2
    <2>3. /\ \/ req.policies[sid][rule].effective \in {NullDacl, Broken}
             \/ IsList(req.policies[sid][rule].effective)
          /\ \/ req.policies[sid][rule].staged \in {None, NullDacl, Broken}
             \/ IsList(req.policies[sid][rule].staged)
      BY <1>2, <2>2, RequestAssumption DEF TypeOK
    <2>4. QED
      BY <2>1, <2>3 DEF DaclOf
  <1>3. CASE sid \notin DOMAIN req.policies
    <2>1. RuleList(req, pol) = <<RecoveryRule>>
      BY <1>3 DEF RuleList
    <2>2. rule = 1 /\ <<RecoveryRule>>[1] = RecoveryRule
      BY <1>1, <2>1, SMT
    <2>3. RecoveryRule.staged = None
      BY SMT DEF RecoveryRule
    <2>4. IsList(RecoveryRule.effective)
      BY SMT DEF RecoveryRule, IsList
    <2>5. QED
      BY <2>1, <2>2, <2>3, <2>4 DEF DaclOf
  <1>4. QED
    BY <1>2, <1>3

\* A walk that starts follows the reference from the first entry on.
LEMMA StartFirst ==
    ASSUME NEW s, NEW p, StartWalk(s, p), req' = req, stage' = s,
           pol' = pol, rule' = rule, req.tree = <<>>,
           DaclOf(s) = NullDacl \/ IsList(DaclOf(s))
    PROVE  Walked(req, stage, pass, DaclOf(stage), ace, granted[1], decided[1])'
  <1> DEFINE dacl == DaclOf(s)
  <1>1. DaclOf(stage)' = dacl
    BY DEF DaclOf
  <1>2. /\ pass' = p /\ ace' = 1
        /\ granted' = [n \in Nodes(req) |-> Seeded(req, s, p, dacl)]
        /\ decided' = [n \in Nodes(req) |-> Fixed(req, s, p, dacl)]
    BY DEF StartWalk, Seeded, Fixed, Owner, Before
  <1>3. 1 \in Nodes(req)
    BY DEF Nodes
  <1>4. Walked(req, s, p, dacl, 1, Seeded(req, s, p, dacl), Fixed(req, s, p, dacl))
    BY StartFollows
  <1> HIDE DEF dacl
  <1>5. granted'[1] = Seeded(req, s, p, dacl) /\ decided'[1] = Fixed(req, s, p, dacl)
    BY <1>2, <1>3
  <1>6. QED
    BY <1>1, <1>2, <1>4, <1>5

\* An entry that is read, whichever way NextAce goes.
LEMMA ReadFirst ==
    ASSUME req.tree = <<>>, AtAce, Applies(req, pass, Entry),
           Walked(req, stage, pass, DaclOf(stage), ace, granted[1], decided[1]),
           NEW g2, NEW d2, d2 = decided[1] \cup Bits(Entry),
           \/ Entry.kind = "allow" /\ g2 = granted[1] \cup (Bits(Entry) \ decided[1])
           \/ Entry.kind = "deny" /\ g2 = granted[1]
    PROVE  Walked(req, stage, pass, DaclOf(stage), NextAce(Bits(Entry)), g2, d2)
  <1> DEFINE dacl == DaclOf(stage)
             bits == Bits(Entry)
  <1>1. Entry = dacl[ace] /\ dacl # NullDacl /\ ace <= Len(dacl)
    BY DEF Entry, AtAce
  <1>2. \A b \in Relevant(req) : b \in bits <=> Carries(req, pass, Entry, b)
    BY DEF Bits, Carries
  <1>3. granted[1] \subseteq decided[1]
    BY DEF Walked
  <1>4. \/ NextAce(bits) = ace + 1
        \/ NextAce(bits) = Len(dacl) + 1 /\ Relevant(req) \subseteq d2
    BY DEF NextAce
  <1>5. /\ decided[1] \subseteq d2 /\ granted[1] \subseteq g2 /\ g2 \subseteq d2
        /\ \A b : b \in decided[1] => (b \in g2 <=> b \in granted[1])
    BY <1>3
  <1>6. "deny" # "allow"
    BY SMT
  <1>7. \A b \in Relevant(req) : b \in d2 /\ b \notin decided[1] =>
            /\ Carries(req, pass, dacl[ace], b)
            /\ b \in g2 <=> dacl[ace].kind = "allow"
    BY <1>1, <1>2, <1>3, <1>6
  <1>8. \A b \in Relevant(req) : Carries(req, pass, dacl[ace], b) => b \in d2
    BY <1>1, <1>2
  <1> HIDE DEF dacl, bits
  <1>9. Walked(req, stage, pass, dacl, NextAce(bits), g2, d2)
    BY <1>1, <1>4, <1>5, <1>7, <1>8, EntryFollows DEF dacl
  <1>10. QED
    BY <1>9 DEF dacl, bits

LEMMA WalkStepFirst ==
    ASSUME TypeOK, FirstInv,
           NullGrant \/ SkipAce \/ AllowAce \/ DenyAce \/ Propagate
    PROVE  FirstInv'
  <1>1. /\ SameEvaluation /\ pass' = pass
        /\ pc \in {"walk", "propagate"} /\ pc' \in {"walk", "propagate"}
    <2>1. CASE NullGrant \/ SkipAce
      BY <2>1 DEF NullGrant, SkipAce, AtAce, SameEvaluation, caap
    <2>2. CASE AllowAce \/ DenyAce \/ Propagate
      <3>1. Kept /\ stage' = stage /\ pass' = pass
            /\ pc \in {"walk", "propagate"} /\ pc' \in {"walk", "propagate"}
        BY <2>2, AllowEffect, DenyEffect, PropagateEffect
      <3>2. pol' = pol /\ rule' = rule
        BY <2>2 DEF AllowAce, DenyAce, Propagate, caap
      <3>3. QED
        BY <3>1, <3>2 DEF SameEvaluation, Kept
    <2>3. QED
      BY <2>1, <2>2
  <1>2. RuleInv'
    BY <1>1, SameRule DEF FirstInv
  <1>3. SUFFICES ASSUME req.tree = <<>>, pc' = "walk"
                 PROVE  Walked(req, stage, pass, DaclOf(stage), ace',
                               granted'[1], decided'[1])
    BY <1>1, <1>2, SameDacl DEF FirstInv, SameEvaluation
  <1>4. pc = "walk" /\ ~Propagate
    BY <1>1, <1>3 DEF TypeOK, Propagate
  <1>5. Walked(req, stage, pass, DaclOf(stage), ace, granted[1], decided[1])
    BY <1>3, <1>4 DEF FirstInv
  <1>6. Nodes(req) = {1} /\ Targets(req, Entry) = {1}
    BY <1>3, OneNode
  <1>7. CASE NullGrant
    <2>1. /\ DaclOf(stage) = NullDacl /\ ace = 1 /\ ace' = 2
          /\ granted'[1] = granted[1] \cup (All \ decided[1])
          /\ decided'[1] = decided[1] \cup All
      BY <1>6, <1>7 DEF NullGrant
    <2>2. Walked(req, stage, pass, NullDacl, 1, granted[1], decided[1])
      BY <1>5, <2>1
    <2>3. Walked(req, stage, pass, NullDacl, 2, granted[1] \cup (All \ decided[1]),
                 decided[1] \cup All)
      BY <2>2, NullFollows
    <2>4. QED
      BY <2>1, <2>3
  <1>8. CASE SkipAce
    <2>1. /\ AtAce /\ ace' = ace + 1 /\ granted' = granted /\ decided' = decided
          /\ \A b \in Relevant(req) : ~Carries(req, pass, Entry, b)
      BY <1>8 DEF SkipAce, Carries, Bits
    <2>2. /\ DaclOf(stage) # NullDacl /\ ace <= Len(DaclOf(stage))
          /\ Entry = DaclOf(stage)[ace]
      BY <2>1 DEF AtAce, Entry
    <2>3. granted[1] \subseteq decided[1]
      BY <1>5 DEF Walked
    <2>4. QED
      BY <1>5, <2>1, <2>2, <2>3, EntryFollows
  <1>9. CASE AllowAce
    <2>1. /\ AtAce /\ Applies(req, pass, Entry) /\ Entry.kind = "allow"
          /\ ace' = NextAce(Bits(Entry))
      BY <1>9 DEF AllowAce
    <2>2. /\ granted'[1] = granted[1] \cup (Bits(Entry) \ decided[1])
          /\ decided'[1] = decided[1] \cup Bits(Entry)
      BY <1>6, <1>9, AllowEffect
    <2>3. QED
      BY <1>3, <1>5, <2>1, <2>2, ReadFirst
  <1>10. CASE DenyAce
    <2>1. /\ AtAce /\ Applies(req, pass, Entry) /\ Entry.kind = "deny"
          /\ ace' = NextAce(Bits(Entry)) /\ granted' = granted
      BY <1>10 DEF DenyAce
    <2>2. Denied(Bits(Entry), {1}, 1) = Bits(Entry)
      BY DEF Denied
    <2>3. decided'[1] = decided[1] \cup Bits(Entry)
      BY <1>6, <1>10, <2>2, DenyEffect
    <2>4. QED
      BY <1>3, <1>5, <2>1, <2>3, ReadFirst
  <1>11. QED
    BY <1>4, <1>7, <1>8, <1>9, <1>10

LEMMA EndFirst ==
    ASSUME TypeOK, FirstInv,
           EndNormal \/ EndRestricted \/ EndConfined \/ BadAce
    PROVE  FirstInv'
  <1>1. /\ SameEvaluation /\ pc = "walk"
        /\ \/ pc' \in {"result", "error"}
           \/ \E p : StartWalk(stage, p)
    BY DEF EndNormal, EndRestricted, EndConfined, WalkDone, Proceed, BadAce, AtAce,
           EvaluationFails, SameEvaluation, caap
  <1>2. pc' # "begin"
    BY <1>1 DEF StartWalk
  <1>3. RuleInv'
    BY <1>1, <1>2, SameRule DEF FirstInv
  <1>4. ASSUME pc' = "walk", req.tree = <<>>
        PROVE  Walked(req, stage, pass, DaclOf(stage), ace, granted[1], decided[1])'
    <2>1. PICK p : StartWalk(stage, p)
      BY <1>1, <1>4
    <2>2. DaclOf(stage) = NullDacl \/ IsList(DaclOf(stage))
      BY <1>1, <1>4 DEF FirstInv, Walked
    <2>3. req' = req /\ stage' = stage /\ pol' = pol /\ rule' = rule
      BY <1>1 DEF SameEvaluation
    <2>4. QED
      BY <1>4, <2>1, <2>2, <2>3, StartFirst
  <1>5. QED
    BY <1>1, <1>3, <1>4 DEF FirstInv, SameEvaluation

LEMMA BeginFirst ==
    ASSUME TypeOK, FirstInv, Begin
    PROVE  FirstInv'
  <1>1. /\ SameEvaluation /\ pc = "begin" /\ stage = "base"
        /\ pc' = "error" \/ StartWalk("base", "normal")
    BY DEF Begin, FirstInv, RuleInv, SameEvaluation, caap
  <1>2. pc' # "begin"
    BY <1>1 DEF StartWalk
  <1>3. RuleInv'
    BY <1>1, <1>2 DEF FirstInv, RuleInv, SameEvaluation
  <1>4. DaclOf("base") = NullDacl \/ IsList(DaclOf("base"))
    BY RequestAssumption DEF DaclOf, TypeOK
  <1>5. req' = req /\ stage' = "base" /\ pol' = pol /\ rule' = rule
    BY <1>1 DEF SameEvaluation
  <1>6. pc' = "walk" => StartWalk("base", "normal")
    BY <1>1
  <1>7. QED
    BY <1>3, <1>4, <1>5, <1>6, StartFirst DEF FirstInv

\* A rule that is about to be evaluated.
LEMMA RuleFirst ==
    ASSUME TypeOK, FirstInv, NEW s \in {"effective", "staged"}, EvaluateRule(s),
           s = "staged" => DaclOf(s) # None, rule <= Len(RuleList(req, pol)),
           req' = req, pol' = pol, rule' = rule
    PROVE  FirstInv'
  <1>1. /\ stage' = s /\ stage' # "base"
        /\ pc' = "result" \/ (StartWalk(s, "normal") /\ DaclOf(s) # Broken)
    BY DEF EvaluateRule
  <1>2. pc' \in {"result", "walk"}
    BY <1>1 DEF StartWalk
  <1>3. RuleInv'
    BY <1>1, <1>2 DEF FirstInv, RuleInv
  <1>4. ASSUME pc' = "walk", req.tree = <<>>
        PROVE  Walked(req, stage, pass, DaclOf(stage), ace, granted[1], decided[1])'
    <2>1. StartWalk(s, "normal") /\ DaclOf(s) # Broken
      BY <1>1, <1>4
    <2>2. DaclOf(s) = NullDacl \/ IsList(DaclOf(s))
      BY <2>1, RuleDacl DEF FirstInv
    <2>3. QED
      BY <1>1, <1>4, <2>1, <2>2, StartFirst
  <1>5. QED
    BY <1>3, <1>4 DEF FirstInv

LEMMA PolicyFirst ==
    ASSUME TypeOK, FirstInv,
           BaseResult \/ NextRule \/ EffectiveResult \/ StagedResult \/ Answer
    PROVE  FirstInv'
  <1>1. pol \in Nat \ {0} /\ rule \in Nat \ {0}
    BY DEF FirstInv, RuleInv
  <1>2. 1 \in Nat \ {0} /\ pol + 1 \in Nat \ {0} /\ rule + 1 \in Nat \ {0}
    BY <1>1, SMT
  <1>3. req' = req
    BY DEF BaseResult, NextRule, EffectiveResult, StagedResult, Answer
  <1>4. ASSUME pc' = "policy", pol' \in {pol, pol + 1, 1}, rule' \in {rule, rule + 1, 1}
        PROVE  FirstInv'
    BY <1>1, <1>2, <1>4 DEF FirstInv, RuleInv
  <1>5. CASE BaseResult \/ StagedResult
    <2>1. /\ pc' = "policy" /\ pol' \in {pol, pol + 1, 1}
          /\ rule' \in {rule, rule + 1, 1}
      BY <1>5 DEF BaseResult, StagedResult
    <2>2. QED
      BY <1>4, <2>1
  <1>6. CASE NextRule
    <2>1. \/ /\ pc' = "policy" /\ pol' \in {pol, pol + 1, 1}
             /\ rule' \in {rule, rule + 1, 1}
          \/ /\ EvaluateRule("effective") /\ pol' = pol /\ rule' = rule
             /\ ~(rule > Len(RuleList(req, pol)))
      BY <1>6 DEF NextRule
    <2>2. CASE EvaluateRule("effective") /\ pol' = pol /\ rule' = rule
               /\ ~(rule > Len(RuleList(req, pol)))
      <3>1. rule <= Len(RuleList(req, pol))
        <4>1. Len(RuleList(req, pol)) \in Nat
          BY RuleListLen
        <4>2. QED
          BY <1>1, <2>2, <4>1, SMT
      <3>2. QED
        BY <1>3, <2>2, <3>1, RuleFirst
    <2>3. QED
      BY <1>4, <2>1, <2>2
  <1>7. CASE EffectiveResult
    <2>1. /\ pc = "result" /\ stage = "effective"
          /\ \/ /\ pc' = "policy" /\ rule' = rule + 1 /\ pol' = pol
             \/ /\ EvaluateRule("staged") /\ rule' = rule /\ pol' = pol
                /\ RuleList(req, pol)[rule].staged # None
      BY <1>7 DEF EffectiveResult
    <2>2. rule <= Len(RuleList(req, pol))
      BY <2>1 DEF FirstInv, RuleInv
    <2>3. CASE pc' = "policy" /\ rule' = rule + 1 /\ pol' = pol
      BY <1>4, <2>3
    <2>4. CASE /\ EvaluateRule("staged") /\ rule' = rule /\ pol' = pol
               /\ RuleList(req, pol)[rule].staged # None
      <3>1. DaclOf("staged") # None
        BY <2>4 DEF DaclOf
      <3>2. QED
        BY <1>3, <2>2, <2>4, <3>1, RuleFirst
    <2>5. QED
      BY <2>1, <2>3, <2>4
  <1>8. CASE Answer
    <2>1. /\ pc = "policy" /\ pc' \in {"done", "error"} /\ stage' = stage
          /\ pol' = pol /\ rule' = rule
      BY <1>8 DEF Answer, caap
    <2>2. QED
      BY <2>1 DEF FirstInv, RuleInv
  <1>9. QED
    BY <1>5, <1>6, <1>7, <1>8

LEMMA FirstStep ==
    ASSUME TypeOK, FirstInv, [Next]_vars
    PROVE  FirstInv'
  <1>1. CASE UNCHANGED vars
    BY <1>1 DEF vars, FirstInv, RuleInv, DaclOf
  <1>2. CASE Next
    BY <1>2, BeginFirst, WalkStepFirst, EndFirst, PolicyFirst DEF Next
  <1>3. QED
    BY <1>1, <1>2

\* For every DACL, identity and set of rights asked for, in the evaluation of
\* the object and of every policy rule: without an object tree a finished walk
\* grants what the first matching entry of each right says, although it decides
\* several rights at each entry and stops early.
THEOREM FirstMatchHolds == Spec => []FirstMatchDecides
  <1>1. Init => FirstInv
    <2>1. 1 \in Nat \ {0}
      BY SMT
    <2>2. QED
      BY <2>1 DEF Init, FirstInv, RuleInv
  <1>2. TypeOK /\ FirstInv /\ [Next]_vars => FirstInv'
    BY FirstStep
  <1>3. FirstInv => FirstMatchDecides
    <2>1. SUFFICES ASSUME FirstInv, req.tree = <<>>, NEW p \in Passes, WalkDone(p)
                   PROVE  FirstMatchDecides
      BY DEF FirstMatchDecides
    <2>2. /\ Walked(req, stage, pass, DaclOf(stage), ace, granted[1], decided[1])
          /\ ace > DaclLen(DaclOf(stage))
      BY <2>1 DEF FirstInv, WalkDone
    <2>3. \A b \in Relevant(req) \ Fixed(req, stage, pass, DaclOf(stage)) :
            b \in granted[1] <=> FirstMatchAllows(req, pass, DaclOf(stage), b)
      BY <2>2, EndFollows
    <2>4. granted[1] \cap Fixed(req, stage, pass, DaclOf(stage))
            = Seeded(req, stage, pass, DaclOf(stage))
                \cap Fixed(req, stage, pass, DaclOf(stage))
      BY <2>2 DEF Walked
    <2>5. QED
      BY <2>3, <2>4 DEF FirstMatchDecides, Fixed, Seeded, Owner, Before
  <1>4. QED
    BY <1>1, <1>2, <1>3, AccessTypeCorrect, PTL DEF Spec
=============================================================================
