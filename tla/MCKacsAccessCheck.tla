------------------------- MODULE MCKacsAccessCheck -------------------------
(* A small instance of KacsAccessCheck for TLC.  Four families of requests:  *)
(* every pair of entries against tokens that differ in privileges, labels    *)
(* and walks; object entries on a tree; policy rules; refused calls.         *)
EXTENDS KacsAccessCheck, TLC, SequencesExt

CONSTANTS user, group, app, cap, missing, loaded, admin

MCRights == {"read", "write", "READ_CONTROL", "WRITE_DAC", "WRITE_OWNER",
             "DELETE", "SYNCHRONIZE", "ACCESS_SYSTEM_SECURITY"}
MCRead == {"read", "READ_CONTROL"}
MCWrite == {"write"}
MCExecute == {"SYNCHRONIZE"}
MCAll == MCRights \ {"ACCESS_SYSTEM_SECURITY"}

Always == [p \in Passes |-> "True"]

Ace(kind, sid, mask) ==
    [kind |-> kind, inheritOnly |-> FALSE, sid |-> sid, mask |-> mask,
     object |-> None, cond |-> Always]

On(a, guid) == [a EXCEPT !.object = guid]

\* A request with no privilege, label, restriction, tree or policy.
Plain ==
    [user |-> user, userDenyOnly |-> FALSE, groups |-> (group :> "enabled"),
     identification |-> FALSE, privileges |-> {}, intent |-> {},
     noWriteUp |-> TRUE, integrity |-> 1, dominates |-> FALSE,
     restricted |-> {}, restrictedDevices |-> FALSE, writeRestricted |-> FALSE,
     confinement |-> None, capabilities |-> {}, exempt |-> FALSE,
     owner |-> admin, self |-> None, dacl |-> <<>>, tree |-> <<>>,
     label |-> [integrity |-> 1, mask |-> {"NO_WRITE_UP"}], trust |-> None,
     desired |-> {"write", "WRITE_OWNER"}, policySids |-> <<>>,
     policies |-> (loaded :> <<>>)]

Tokens ==
    {[Plain EXCEPT !.owner = o] : o \in {user, admin}}
        \cup {[Plain EXCEPT !.restricted = {app}, !.restrictedDevices = d] :
                d \in BOOLEAN}
        \cup {[Plain EXCEPT !.userDenyOnly = TRUE, !.writeRestricted = TRUE,
                            !.restricted = {app}]}
        \cup {[Plain EXCEPT !.confinement = app, !.capabilities = {cap},
                            !.owner = o, !.exempt = e] :
                o \in {user, cap}, e \in BOOLEAN}
        \cup {[Plain EXCEPT !.restricted = {app}, !.confinement = app,
                            !.groups = (group :> "deny_only")]}

Powers == {{}, {"Backup", "Restore"}, {"TakeOwnership", "Security"},
           {"TakeOwnership", "Relabel"}}

Labels == {<<1, {}, None>>, <<2, {"NO_WRITE_UP"}, None>>,
           <<2, {"NO_READ_UP", "NO_EXECUTE_UP"}, None>>,
           <<1, {}, {"GENERIC_READ"}>>, <<2, {"NO_WRITE_UP"}, {"WRITE_OWNER"}>>}

With(t, p, l, d) ==
    [t EXCEPT !.privileges = p, !.intent = {"Backup", "Restore"},
              !.label = [integrity |-> l[1], mask |-> l[2]], !.trust = l[3],
              !.desired = d]

Entries ==
    {Ace(k, s, {"write"}) : k \in {"allow", "deny"}, s \in {group, app}}
        \cup {Ace("allow", s, {"GENERIC_ALL"}) : s \in {user, cap, OwnerRights}}
        \cup {Ace("deny", user, {"WRITE_OWNER"})}

Dacls == {NullDacl, <<>>} \cup {<<a>> : a \in Entries}
            \cup {<<a, b>> : a, b \in Entries}

Scalar ==
    {[With(t, p, l, d) EXCEPT !.dacl = dacl] :
        t \in Tokens, p \in Powers, l \in Labels, dacl \in Dacls,
        d \in {{"GENERIC_WRITE", "WRITE_OWNER"}, {"MAXIMUM_ALLOWED"}}}

-----------------------------------------------------------------------------
MCTree == <<[level |-> 0, guid |-> 1], [level |-> 1, guid |-> 2],
            [level |-> 2, guid |-> 3], [level |-> 1, guid |-> 4]>>

ObjectEntries ==
    {On(Ace(k, s, {"write", "WRITE_OWNER"}), g) :
        k \in {"allow", "deny"}, s \in {group}, g \in {None, 1, 2, 3, 4, 5}}
        \cup {On(Ace("allow", app, {"write"}), g) : g \in {2, 4}}

Objects ==
    {[t EXCEPT !.tree = MCTree, !.dacl = <<a, b, c>>, !.privileges = p] :
        t \in {Plain, [Plain EXCEPT !.restricted = {app, group}],
               [Plain EXCEPT !.confinement = app, !.capabilities = {group}]},
        p \in {{}, {"TakeOwnership"}},
        a, b, c \in ObjectEntries}

-----------------------------------------------------------------------------
Rule(e, s) == [applies |-> TRUE, effective |-> e, staged |-> s]

RuleDacls == {<<>>, <<Ace("allow", group, {"GENERIC_ALL"})>>,
              <<Ace("allow", app, {"write"})>>,
              <<Ace("allow", group, {"RESERVED"})>>, Broken}

RuleLists ==
    {<<Rule(e, s)>> : e \in RuleDacls, s \in RuleDacls \cup {None}}
        \cup {<<[Rule(<<>>, None) EXCEPT !.applies = FALSE],
                Rule(<<Ace("allow", user, {"write"})>>, NullDacl)>>}

Governed ==
    {[With(t, p, l, d) EXCEPT !.dacl = <<Ace("allow", group, {"GENERIC_ALL"}),
                                         Ace("allow", app, {"write"})>>,
                              !.policySids = ps, !.policies = (loaded :> rs),
                              !.tree = tree] :
        t \in Tokens, p \in Powers, l \in {<<2, {"NO_WRITE_UP"}, None>>,
                                           <<1, {}, {"WRITE_OWNER"}>>},
        d \in {{"MAXIMUM_ALLOWED"}}, ps \in {<<loaded>>, <<missing, loaded>>},
        rs \in RuleLists, tree \in {<<>>, SubSeq(MCTree, 1, 2)}}

-----------------------------------------------------------------------------
\* Calls refused at the door, and entries that are passed over or malformed.
Odd ==
    {[Plain EXCEPT !.identification = TRUE], [Plain EXCEPT !.owner = None],
     [Plain EXCEPT !.writeRestricted = TRUE], [Plain EXCEPT !.desired = {"RESERVED"}]}
        \cup {[Plain EXCEPT !.self = s, !.dacl = <<a, Ace("allow", group, {"write"})>>] :
                s \in {None, user},
                a \in {Ace("deny", PrincipalSelf, {"write"}),
                       Ace("other", group, {"write"}),
                       Ace("deny", group, {"RESERVED"}),
                       [Ace("deny", group, {"write"}) EXCEPT !.inheritOnly = TRUE]}
                    \cup {[Ace(k, group, {"WRITE_OWNER"}) EXCEPT
                            !.cond = [Always EXCEPT !["normal"] = v]] :
                            k \in {"allow", "deny"}, v \in {"False", "Unknown"}}}

MCRequestSets == {Scalar, Objects, Governed, Odd}
=============================================================================
