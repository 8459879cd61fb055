--------------------------- MODULE KacsAccessCheck ---------------------------
(* The access decision of crates/kacs-core: privilege seeding, the integrity  *)
(* (MIC) and process-trust (PIP) checks, up to three walks of the DACL (the   *)
(* caller's own identity, its restricted SIDs, its confinement), the merges   *)
(* between them, and the central access policies (CAAP) that narrow the       *)
(* result, each rule by a whole evaluation of its own.  One step walks one    *)
(* ACE, one node of grant propagation, or one stage of the pipeline.  A mask  *)
(* is a set of rights; a missing object tree is a tree of one node.           *)
EXTENDS Naturals, Sequences

CONSTANTS
    RequestSets,                  \* the calls of access_check_core, in groups
    Rights,                       \* every right a mask can hold once mapped
    Read, Write, Execute, All,    \* the object type's GenericMapping
    Administrators, System,       \* the well-known SIDs of the recovery policy
    OwnerRights, PrincipalSelf,   \* S-1-3-4 and S-1-5-10
    None, NullDacl, Broken        \* absent values; a rule DACL that errors

Passes == {"normal", "restricted", "confined"}

\* The mapping stays within Rights.
ASSUME MappingAssumption ==
    /\ Read \subseteq Rights /\ Write \subseteq Rights
    /\ Execute \subseteq Rights /\ All \subseteq Rights
    /\ {"READ_CONTROL", "WRITE_DAC", "WRITE_OWNER", "DELETE", "SYNCHRONIZE",
        "ACCESS_SYSTEM_SECURITY"} \subseteq Rights

Generic == {"GENERIC_READ", "GENERIC_WRITE", "GENERIC_EXECUTE", "GENERIC_ALL"}

IsList(s) == DOMAIN s = 1..Len(s) /\ Len(s) \in Nat

\* Masks stay within Rights, the object tree is a list of levels, and a DACL is
\* a list or absent; a rule's may also be broken.
ASSUME RequestAssumption ==
    \A requests \in RequestSets : \A r \in requests :
        /\ r.desired \subseteq
            (Rights \cup Generic) \cup {"MAXIMUM_ALLOWED", "RESERVED"}
        /\ IsList(r.tree)
        /\ r.dacl = NullDacl \/ IsList(r.dacl)
        /\ \A sid \in DOMAIN r.policies :
            /\ IsList(r.policies[sid])
            /\ \A k \in DOMAIN r.policies[sid] :
                LET each == r.policies[sid][k] IN
                /\ each.effective \in {NullDacl, Broken} \/ IsList(each.effective)
                /\ each.staged \in {None, NullDacl, Broken} \/ IsList(each.staged)
        /\ \A i \in DOMAIN r.tree : r.tree[i].level \in Nat

VARIABLES
    req,       \* the call being decided
    pc,        \* begin, walk, propagate, result, policy, done or error
    stage,     \* base, or the rule's effective or staged evaluation
    pass,      \* which identity this walk of the DACL matches
    ace,       \* next entry of the DACL
    node,      \* propagate_grants_up: next node, from the last to the root
    granted,   \* this walk's state, per node
    decided,
    main,      \* granted bits of the evaluation so far, per node
    priv,      \* privilege_granted_before_restriction
    basePriv,  \* privilege_granted of the base evaluation
    effective, \* granted bits narrowed by the policies, per node
    staged,    \* the same under the staged rules
    pol, rule  \* next policy SID and next rule of it

vars == <<req, pc, stage, pass, ace, node, granted, decided, main, priv,
          basePriv, effective, staged, pol, rule>>

walk == <<pass, ace, granted, decided>>
caap == <<basePriv, effective, staged, pol, rule>>

-----------------------------------------------------------------------------
(* GenericMapping and the desired access. *)

MapMask(m) ==
    (m \ Generic)
        \cup (IF "GENERIC_READ" \in m THEN Read ELSE {})
        \cup (IF "GENERIC_WRITE" \in m THEN Write ELSE {})
        \cup (IF "GENERIC_EXECUTE" \in m THEN Execute ELSE {})
        \cup (IF "GENERIC_ALL" \in m THEN All ELSE {})

Reserved(m) == "RESERVED" \in m

MaximumAllowed(r) == "MAXIMUM_ALLOWED" \in r.desired

Mapped(r) == MapMask(r.desired \ {"MAXIMUM_ALLOWED"})

Relevant(r) == IF MaximumAllowed(r) THEN All ELSE Mapped(r)

-----------------------------------------------------------------------------
(* Privileges, integrity and trust: what is settled before the DACL. *)

\* Backup and restore take part only when the caller states the intent.
Privileges(r, intent) ==
    r.privileges \ ({"Backup", "Restore"} \ intent)

Seed(r, intent) ==
    (IF "Security" \in Privileges(r, intent)
        THEN {"ACCESS_SYSTEM_SECURITY"} ELSE {})
        \cup (IF "Backup" \in Privileges(r, intent) THEN Read ELSE {})
        \cup (IF "Restore" \in Privileges(r, intent)
                THEN Write \cup {"WRITE_DAC", "WRITE_OWNER", "DELETE",
                                 "ACCESS_SYSTEM_SECURITY"}
                ELSE {})

\* What a label leaves to a caller it dominates; the strips come first, so
\* reading the descriptor and synchronizing stay allowed whatever it says.
MicAllowed(r) ==
    (((Read \cup Execute)
        \ ((IF "NO_READ_UP" \in r.label.mask THEN Read ELSE {})
            \cup (IF "NO_WRITE_UP" \in r.label.mask THEN Write ELSE {})
            \cup (IF "NO_EXECUTE_UP" \in r.label.mask THEN Execute ELSE {})))
        \cup {"READ_CONTROL", "SYNCHRONIZE"})
        \cup (IF "Relabel" \in r.privileges THEN {"WRITE_OWNER"} ELSE {})

MicDenied(r) ==
    IF r.noWriteUp /\ r.integrity < r.label.integrity
        THEN All \ MicAllowed(r)
        ELSE {}

PipDenied(r) ==
    IF r.trust = None \/ r.dominates
        THEN {}
        ELSE (All \cup {"ACCESS_SYSTEM_SECURITY"}) \ MapMask(r.trust)

\* The walk of the normal identity starts from the privileges, less what the
\* trust label takes back; integrity only decides, it takes nothing back.
PreGranted(r, intent) == Seed(r, intent) \ PipDenied(r)

PreDecided(r, intent) ==
    ({"ACCESS_SYSTEM_SECURITY"} \cup Seed(r, intent))
        \cup (MicDenied(r) \cup PipDenied(r))

\* A plausible slip: the trust label strips the running grant and leaves the
\* privilege provenance as it was seeded.
PrivilegeGrantedUnstripped(r, intent) == Seed(r, intent)

PrivilegeGranted(r, intent) == Seed(r, intent) \ PipDenied(r)

-----------------------------------------------------------------------------
(* Identities. *)

RestrictedPass(r) == r.restricted # {} \/ r.restrictedDevices

ConfinedPass(r) == r.confinement # None /\ ~r.exempt

\* A deny-only or disabled SID of the token matches by polarity; restricted
\* and confinement SIDs match by presence.
SidMatches(r, p, sid, allow) ==
    CASE p = "normal" ->
            IF sid = r.user
                THEN allow => ~r.userDenyOnly
                ELSE /\ sid \in DOMAIN r.groups
                     /\ IF allow
                            THEN r.groups[sid] = "enabled"
                            ELSE r.groups[sid] \in {"enabled", "deny_only"}
      [] p = "restricted" -> sid \in r.restricted
      [] p = "confined" -> sid = r.confinement \/ sid \in r.capabilities

OwnerPresent(r, p) ==
    IF p = "normal"
        THEN r.owner = r.user \/ r.owner \in DOMAIN r.groups
        ELSE SidMatches(r, p, r.owner, TRUE)

AceMatches(r, p, a) ==
    LET allow == a.kind = "allow" IN
    CASE a.sid = OwnerRights -> SidMatches(r, p, r.owner, allow)
      [] a.sid = PrincipalSelf ->
            r.self # None /\ SidMatches(r, p, r.self, allow)
      [] OTHER -> SidMatches(r, p, a.sid, allow)

\* An unknown condition withholds an allow and lets a deny apply.
ConditionAllows(p, a) ==
    IF a.kind = "allow" THEN a.cond[p] = "True" ELSE a.cond[p] # "False"

\* Inherit-only entries and entries of other types are passed over before
\* their mask is looked at.
Considered(a) == ~a.inheritOnly /\ a.kind \in {"allow", "deny"}

Applies(r, p, a) ==
    Considered(a) /\ AceMatches(r, p, a) /\ ConditionAllows(p, a)

OwnerRightsSuppressed(dacl) ==
    \E k \in DOMAIN dacl : Considered(dacl[k]) /\ dacl[k].sid = OwnerRights

-----------------------------------------------------------------------------
(* The object tree, a preorder list of levels. *)

Nodes(r) == IF r.tree = <<>> THEN {1} ELSE DOMAIN r.tree

Subtree(r, i) ==
    {j \in Nodes(r) :
        i <= j /\ \A k \in (i + 1)..j : r.tree[k].level > r.tree[i].level}

DirectChild(r, c, i) ==
    /\ i < c /\ r.tree[c].level = r.tree[i].level + 1
    /\ \A k \in (i + 1)..c : r.tree[k].level > r.tree[i].level

\* The nodes an entry speaks of: all of them, or the subtree of its GUID.
Targets(r, a) ==
    IF r.tree = <<>> \/ a.object = None
        THEN Nodes(r)
        ELSE UNION {Subtree(r, i) : i \in {i \in Nodes(r) :
                                            r.tree[i].guid = a.object}}

-----------------------------------------------------------------------------
(* One evaluation: its DACL, its intent and the start of each walk. *)

\* A policy that is referenced and not loaded is replaced by one rule that
\* leaves the object to its administrators, the system and its owner.
RecoveryRule ==
    LET Allow(sid) ==
            [kind |-> "allow", inheritOnly |-> FALSE, sid |-> sid,
             mask |-> {"GENERIC_ALL"}, object |-> None,
             cond |-> [p \in Passes |-> "True"]]
    IN  [applies |-> TRUE, staged |-> None,
         effective |-> <<Allow(Administrators), Allow(System),
                         Allow(OwnerRights)>>]

RuleList(r, k) ==
    LET sid == r.policySids[k] IN
    IF sid \in DOMAIN r.policies THEN r.policies[sid] ELSE <<RecoveryRule>>

DaclOf(s) ==
    CASE s = "base" -> req.dacl
      [] s = "effective" -> RuleList(req, pol)[rule].effective
      [] s = "staged" -> RuleList(req, pol)[rule].staged

Intent(r, s) == IF s = "base" THEN r.intent ELSE {}

\* The entries of a NULL DACL count as one, the grant of everything valid.
DaclLen(dacl) == IF dacl = NullDacl THEN 1 ELSE Len(dacl)

\* The owner's implicit rights, which the confinement walk never gives.
Implicit(r, p, dacl) ==
    IF /\ OwnerPresent(r, p) /\ p # "confined"
       /\ dacl = NullDacl \/ ~OwnerRightsSuppressed(dacl)
        THEN {"READ_CONTROL", "WRITE_DAC"} \cap All
        ELSE {}

StartWalk(s, p) ==
    LET first == p = "normal"
        g == IF first THEN PreGranted(req, Intent(req, s)) ELSE {}
        d == IF first THEN PreDecided(req, Intent(req, s)) ELSE {}
        own == Implicit(req, p, DaclOf(s)) \ d
    IN  /\ pc' = "walk" /\ pass' = p /\ ace' = 1
        /\ granted' = [n \in Nodes(req) |-> g \cup own]
        /\ decided' = [n \in Nodes(req) |-> d \cup own]

-----------------------------------------------------------------------------
Invalid(r) ==
    \/ r.writeRestricted /\ ~r.userDenyOnly
    \/ r.identification
    \/ r.owner = None
    \/ Reserved(r.desired)

Init ==
    /\ \E requests \in RequestSets : req \in requests
    /\ pc = "begin" /\ stage = "base" /\ pass = "normal"
    /\ ace = 1 /\ node = 0 /\ pol = 1 /\ rule = 1
    /\ granted = [n \in Nodes(req) |-> {}]
    /\ decided = [n \in Nodes(req) |-> {}]
    /\ main = [n \in Nodes(req) |-> {}]
    /\ priv = {} /\ basePriv = {}
    /\ effective = [n \in Nodes(req) |-> {}]
    /\ staged = [n \in Nodes(req) |-> {}]

\* access_check_core up to the first walk.
Begin ==
    /\ pc = "begin"
    /\ IF Invalid(req)
        THEN pc' = "error" /\ UNCHANGED walk
        ELSE StartWalk("base", "normal")
    /\ UNCHANGED <<req, stage, node, main, priv, caap>>

\* A DACL that cannot be evaluated fails the call, unless it is a rule's: then
\* the rule leaves nothing but what privileges granted.
EvaluationFails ==
    IF stage = "base"
        THEN pc' = "error" /\ UNCHANGED main
        ELSE pc' = "result" /\ main' = [n \in Nodes(req) |-> basePriv]

-----------------------------------------------------------------------------
(* evaluate_dacl_states, one entry at a time. *)

NullGrant ==
    /\ pc = "walk" /\ DaclOf(stage) = NullDacl /\ ace = 1
    /\ granted' = [n \in Nodes(req) |-> granted[n] \cup (All \ decided[n])]
    /\ decided' = [n \in Nodes(req) |-> decided[n] \cup All]
    /\ ace' = 2
    /\ UNCHANGED <<req, pc, stage, pass, node, main, priv, caap>>

AtAce == pc = "walk" /\ DaclOf(stage) # NullDacl /\ ace <= Len(DaclOf(stage))

Entry == DaclOf(stage)[ace]

Bits(a) == MapMask(a.mask) \cap Relevant(req)

BadAce ==
    /\ AtAce /\ Considered(Entry) /\ Reserved(Entry.mask)
    /\ EvaluationFails
    /\ UNCHANGED <<req, stage, node, walk, priv, caap>>

SkipAce ==
    /\ AtAce /\ ~(Considered(Entry) /\ Reserved(Entry.mask))
    /\ ~Applies(req, pass, Entry) \/ Bits(Entry) = {}
    /\ ace' = ace + 1
    /\ UNCHANGED <<req, pc, stage, pass, node, granted, decided, main, priv,
                   caap>>

\* A plausible slip: stopping as soon as the entry decided something.
NextAceEager(bits) ==
    IF req.tree = <<>> /\ bits \ decided[1] # {}
        THEN Len(DaclOf(stage)) + 1
        ELSE ace + 1

\* Without a tree the walk stops once every right asked for is decided.
NextAce(bits) ==
    IF /\ req.tree = <<>> /\ ~MaximumAllowed(req)
       /\ bits \ decided[1] # {} /\ Relevant(req) \subseteq decided[1] \cup bits
        THEN Len(DaclOf(stage)) + 1
        ELSE ace + 1

AllowAce ==
    /\ AtAce /\ Applies(req, pass, Entry) /\ Entry.kind = "allow"
    /\ ~Reserved(Entry.mask)
    /\ LET bits == Bits(Entry)
           on == Targets(req, Entry)
       IN  /\ bits # {}
           /\ granted' = [n \in Nodes(req) |->
                            IF n \in on
                                THEN granted[n] \cup (bits \ decided[n])
                                ELSE granted[n]]
           /\ decided' = [n \in Nodes(req) |->
                            IF n \in on THEN decided[n] \cup bits
                                        ELSE decided[n]]
           /\ ace' = NextAce(bits)
           /\ IF req.tree = <<>> \/ Entry.object = None \/ on = {}
                THEN pc' = pc /\ node' = node
                ELSE pc' = "propagate" /\ node' = Len(req.tree)
    /\ UNCHANGED <<req, stage, pass, main, priv, caap>>

\* A plausible slip: the denial stays in the subtree of its GUID.
DeniedBelow(bits, on, n) == IF n \in on THEN bits ELSE {}

\* A denial decides its nodes and, with what was newly denied, every ancestor.
Denied(bits, on, n) ==
    (IF n \in on THEN bits ELSE {})
        \cup UNION {bits \ decided[m] :
                        m \in {m \in on : n # m /\ m \in Subtree(req, n)}}

DenyAce ==
    /\ AtAce /\ Applies(req, pass, Entry) /\ Entry.kind = "deny"
    /\ ~Reserved(Entry.mask)
    /\ LET bits == Bits(Entry)
           on == Targets(req, Entry)
       IN  /\ bits # {}
           /\ decided' = [n \in Nodes(req) |->
                            decided[n] \cup Denied(bits, on, n)]
           /\ ace' = NextAce(bits)
    /\ UNCHANGED <<req, pc, stage, pass, node, granted, main, priv, caap>>

\* One turn of propagate_grants_up: what every child has, its parent has.
Propagate ==
    /\ pc = "propagate"
    /\ LET children == {c \in Nodes(req) : DirectChild(req, c, node)}
           common == {b \in Rights : \A c \in children : b \in granted[c]}
           new == IF children = {} THEN {} ELSE common \ decided[node]
       IN  /\ granted' = [granted EXCEPT ![node] = granted[node] \cup new]
           /\ decided' = [decided EXCEPT ![node] = decided[node] \cup new]
    /\ node' = node - 1
    /\ pc' = IF node = 1 THEN "walk" ELSE "propagate"
    /\ UNCHANGED <<req, stage, pass, ace, main, priv, caap>>

-----------------------------------------------------------------------------
(* The end of a walk: the fallback, the merges and the next walk. *)

WalkDone(p) == pc = "walk" /\ pass = p /\ ace > DaclLen(DaclOf(stage))

NextPass(p) ==
    CASE p = "normal" /\ RestrictedPass(req) -> "restricted"
      [] p # "confined" /\ ConfinedPass(req)
            /\ ~(p = "normal" /\ RestrictedPass(req)) -> "confined"
      [] OTHER -> "none"

Proceed(p) ==
    /\ IF NextPass(p) = "none"
        THEN pc' = "result" /\ UNCHANGED walk
        ELSE StartWalk(stage, NextPass(p))
    /\ UNCHANGED <<req, stage, node, caap>>

\* A plausible slip: the fallback asks the trust label alone.
TakesOwnershipAboveLabel(r, intent, rootGranted) ==
    /\ "WRITE_OWNER" \in Mapped(r) \/ MaximumAllowed(r)
    /\ "TakeOwnership" \in Privileges(r, intent)
    /\ "WRITE_OWNER" \notin PipDenied(r) \cup rootGranted

\* SeTakeOwnershipPrivilege gives the owner right the DACL did not, never one
\* that integrity or trust withheld.
TakesOwnership(r, intent, rootGranted) ==
    /\ "WRITE_OWNER" \in Mapped(r) \/ MaximumAllowed(r)
    /\ "TakeOwnership" \in Privileges(r, intent)
    /\ "WRITE_OWNER" \notin MicDenied(r) \cup PipDenied(r)
    /\ "WRITE_OWNER" \notin rootGranted

EndNormal ==
    /\ WalkDone("normal")
    /\ LET take == IF TakesOwnership(req, Intent(req, stage), granted[1])
                    THEN {"WRITE_OWNER"} ELSE {}
       IN  /\ main' = [n \in Nodes(req) |-> granted[n] \cup take]
           /\ priv' = PrivilegeGranted(req, Intent(req, stage)) \cup take
    /\ Proceed("normal")

\* The restricted walk narrows everything, or only what writes; the rights a
\* privilege granted come back.
EndRestricted ==
    /\ WalkDone("restricted")
    /\ main' = [n \in Nodes(req) |->
                 (IF req.writeRestricted
                    THEN (main[n] \ Write) \cup (main[n] \cap granted[n] \cap Write)
                    ELSE main[n] \cap granted[n]) \cup priv]
    /\ priv' = priv
    /\ Proceed("restricted")

\* A plausible slip: the merge of the restricted walk, used once more.
MergeAbsoluteRestores(m, narrowed, p) == (m \cap narrowed) \cup p

\* Nothing comes back from the confinement walk.
MergeAbsolute(m, narrowed, p) == m \cap narrowed

EndConfined ==
    /\ WalkDone("confined")
    /\ main' = [n \in Nodes(req) |-> MergeAbsolute(main[n], granted[n], priv)]
    /\ priv' = priv
    /\ Proceed("confined")

-----------------------------------------------------------------------------
(* evaluate_caap: every rule of every referenced policy narrows the result. *)

BaseResult ==
    /\ pc = "result" /\ stage = "base"
    /\ effective' = main /\ staged' = main
    /\ basePriv' = priv \cap main[1]
    /\ pc' = "policy" /\ pol' = 1 /\ rule' = 1
    /\ UNCHANGED <<req, stage, node, walk, main, priv>>

\* A rule is evaluated on the descriptor with its own DACL and no intent.
EvaluateRule(s) ==
    /\ stage' = s
    /\ IF DaclOf(s) = Broken
        THEN /\ pc' = "result" /\ main' = [n \in Nodes(req) |-> basePriv]
             /\ UNCHANGED walk
        ELSE StartWalk(s, "normal") /\ UNCHANGED main

NextRule ==
    /\ pc = "policy" /\ pol <= Len(req.policySids)
    /\ LET rules == RuleList(req, pol) IN
        IF rule > Len(rules)
            THEN /\ pol' = pol + 1 /\ rule' = 1
                 /\ UNCHANGED <<pc, stage, walk, main>>
            ELSE IF ~rules[rule].applies
                THEN /\ rule' = rule + 1
                     /\ UNCHANGED <<pc, stage, walk, main, pol>>
                ELSE EvaluateRule("effective") /\ UNCHANGED <<pol, rule>>
    /\ UNCHANGED <<req, node, priv, basePriv, effective, staged>>

Narrow(f) == [n \in Nodes(req) |-> f[n] \cap main[n]]

\* Without a staged DACL the effective result narrows the staged grant too.
EffectiveResult ==
    /\ pc = "result" /\ stage = "effective"
    /\ effective' = Narrow(effective)
    /\ IF RuleList(req, pol)[rule].staged = None
        THEN /\ staged' = Narrow(staged) /\ rule' = rule + 1 /\ pc' = "policy"
             /\ UNCHANGED <<stage, walk, main>>
        ELSE EvaluateRule("staged") /\ UNCHANGED <<staged, rule>>
    /\ UNCHANGED <<req, node, priv, basePriv, pol>>

StagedResult ==
    /\ pc = "result" /\ stage = "staged"
    /\ staged' = Narrow(staged)
    /\ rule' = rule + 1 /\ pc' = "policy"
    /\ UNCHANGED <<req, stage, node, walk, main, priv, basePriv, effective,
                   pol>>

\* The grants are final.  What is derived from them (privilege use, audit and
\* diagnostic events, the success flag and what a denial reports) is left out;
\* an error on the way there returns no grants.
Answer ==
    /\ pc = "policy" /\ pol > Len(req.policySids)
    /\ pc' \in {"done", "error"}
    /\ UNCHANGED <<req, stage, node, walk, main, priv, caap>>

Next ==
    \/ Begin \/ NullGrant \/ BadAce \/ SkipAce \/ AllowAce \/ DenyAce
    \/ Propagate \/ EndNormal \/ EndRestricted \/ EndConfined
    \/ BaseResult \/ NextRule \/ EffectiveResult \/ StagedResult \/ Answer

Spec == Init /\ [][Next]_vars

-----------------------------------------------------------------------------
Grants == [Nodes(req) -> SUBSET Rights]

TypeOK ==
    /\ \E requests \in RequestSets : req \in requests
    /\ pc \in {"begin", "walk", "propagate", "result", "policy", "done", "error"}
    /\ stage \in {"base", "effective", "staged"} /\ pass \in Passes
    /\ granted \in Grants /\ decided \in Grants
    /\ main \in Grants /\ effective \in Grants /\ staged \in Grants
    /\ priv \subseteq Rights /\ basePriv \subseteq Rights
    /\ pc = "propagate" => req.tree # <<>> /\ node \in Nodes(req)
    /\ pc \notin {"begin", "error"} => ~Invalid(req)

\* What the evaluation has granted so far, and the answers under the rules in
\* force and under the staged ones.
Results == {main, effective, staged}

\* A right that the process-trust label withholds from a caller that does not
\* dominate it is granted by nothing: not a privilege (apply_pip strips the
\* provenance too, so the restricted merge cannot bring it back), not the
\* take-ownership fallback, and not a policy rule that fails and leaves the
\* privilege-granted rights.
TrustDenialIsAbsolute ==
    \A f \in Results : \A n \in Nodes(req) : f[n] \cap PipDenied(req) = {}

\* A right that the mandatory label withholds is granted only where a seeded
\* privilege (security, backup, restore) granted it: no entry, no owner's
\* implicit right and no take-ownership fallback reaches it, in any walk.
IntegrityYieldsOnlyToPrivilege ==
    \A f \in Results : \A n \in Nodes(req) :
        f[n] \cap MicDenied(req) \subseteq Seed(req, req.intent)

\* A right granted on a node of the object tree is granted on all its
\* children, through object entries, both propagations, the fallback, the
\* merges and the policies.  The scalar answer reads the root alone, so this
\* is what makes it speak for the tree.
GrantsNest ==
    \A f \in Results : \A i, c \in Nodes(req) :
        DirectChild(req, c, i) => f[i] \subseteq f[c]

\* An entry that denies b on every node.
DeniesEverywhere(r, p, a, b) ==
    /\ Applies(r, p, a) /\ a.kind = "deny" /\ b \in MapMask(a.mask)
    /\ r.tree = <<>> \/ a.object = None

\* The rights that the object's own DACL allows the identity of walk p.
Backed(r, p) ==
    IF r.dacl = NullDacl
        THEN All
        ELSE {b \in Rights : \E k \in DOMAIN r.dacl :
                /\ Applies(r, p, r.dacl[k]) /\ r.dacl[k].kind = "allow"
                /\ b \in MapMask(r.dacl[k].mask)
                /\ \A j \in 1..(k - 1) :
                        ~DeniesEverywhere(r, p, r.dacl[j], b)}

\* A confined caller ends with nothing its confinement SID or a capability is
\* not allowed by an entry of the object's DACL, whatever its privileges, its
\* ownership or a policy rule says.
ConfinementIsAbsolute ==
    ConfinedPass(req) /\ pc \in {"policy", "done"} =>
        \A n \in Nodes(req) :
            effective[n] \cup staged[n] \subseteq Backed(req, "confined")

\* The reference: the first entry that applies and carries b allows it.
FirstMatchAllows(r, p, dacl, b) ==
    \/ dacl = NullDacl /\ b \in All
    \/ /\ dacl # NullDacl
       /\ \E k \in DOMAIN dacl :
            /\ Applies(r, p, dacl[k]) /\ dacl[k].kind = "allow"
            /\ b \in MapMask(dacl[k].mask)
            /\ \A j \in 1..(k - 1) :
                    ~(Applies(r, p, dacl[j]) /\ b \in MapMask(dacl[j].mask))

\* A finished walk without an object tree grants exactly what the first
\* matching entry of each right says, except the rights settled before the
\* walk, which no entry changes; stopping early loses nothing asked for.
FirstMatchDecides ==
    req.tree = <<>> /\ (\E p \in Passes : WalkDone(p)) =>
        LET dacl == DaclOf(stage)
            g == IF pass = "normal" THEN PreGranted(req, Intent(req, stage)) ELSE {}
            d == IF pass = "normal" THEN PreDecided(req, Intent(req, stage)) ELSE {}
            own == Implicit(req, pass, dacl) \ d
        IN  /\ granted[1] \cap (d \cup own) = (g \cup own) \cap (d \cup own)
            /\ \A b \in Relevant(req) \ (d \cup own) :
                    b \in granted[1] <=> FirstMatchAllows(req, pass, dacl, b)

=============================================================================
