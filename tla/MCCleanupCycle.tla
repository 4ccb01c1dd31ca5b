---------------------------- MODULE MCCleanupCycle ----------------------------
(***************************************************************************)
(* Values of the constants for TLC: device group A under shared, B under   *)
(* A, and six scenes, each for one kind of interaction.                    *)
(***************************************************************************)
EXTENDS CleanupCycle

MCHostOf == ("1.1.1.1" :> "h1") @@ ("1.1.1.1/32" :> "h1") @@ ("2.2.2.2" :> "h2")
              @@ ("3.3.3.3" :> "h3") @@ ("4.4.4.4" :> "h4") @@ ("5.5.5.5" :> "h5")
              @@ ("9.9.9.9" :> "h9")
MCWideOf == "1.1.1.0/24" :> {"h1"}

Flow(source, destination) ==
    [source |-> source, destination |-> destination, other |-> {}, negated |-> {}]

Empty == [up |-> ("A" :> "shared") @@ ("B" :> "A"), first |-> FALSE,
          addr |-> (<<"shared", "T">> :> "1.1.1.1") @@ (<<"shared", "U">> :> "2.2.2.2")
                     @@ (<<"shared", "K">> :> "9.9.9.9"),
          grp |-> <<>>, dyn |-> <<>>, rule |-> <<>>, order |-> <<>>]

Security(location, name) == <<location, "security", name>>

Ask == [ips |-> {}, objects |-> {}, groups |-> {}, policies |-> {}, nat |-> TRUE,
        prefer |-> "ip", override |-> FALSE]

Hosts(ips) == [Ask EXCEPT !.ips = ips]

Define(at, value) == [what |-> "address", at |-> at, value |-> value]
Group(at, names)  == [what |-> "group", at |-> at, names |-> names]
Add(at, rule, before) == [what |-> "rule", at |-> at, rule |-> rule, before |-> before]

\* Groups in groups, in rules, emptied by one target or by two.
Groups ==
    [config |-> [Empty EXCEPT
       !.grp = (<<"shared", "G">> :> {"T"}) @@ (<<"shared", "H">> :> {"G", "K"})
                 @@ (<<"A", "M">> :> {"T", "U"}) @@ (<<"shared", "N">> :> {"G"}),
       !.rule = (Security("A", "r1") :> Flow({"G"}, {"K"}))
                  @@ (Security("A", "r2") :> Flow({"H", "N"}, {"T", "K"}))
                  @@ (Security("B", "r3") :> Flow({"M"}, {"any"}))
                  @@ (Security("A", "r4") :> Flow({"K"}, {"1.1.1.1", "K"})),
       !.order = (<<"A", "security">> :> <<"r1", "r2", "r4">>) @@ (<<"B", "security">> :> <<"r3">>)],
     asks |-> {Hosts({"h1"}), Hosts({"h1", "h2"})},
     edits |-> <<Add(Security("A", "n1"), Flow({"K"}, {"any"}), "r2")>>,
     sessions |-> 3]

\* Names with other meanings further down: T in A, and V and G in B. Every device
\* group reads r1, so T cannot go; V and G go where each reader means the same.
Overrides ==
    [config |-> [Empty EXCEPT
       !.addr = @ @@ (<<"A", "T">> :> "9.9.9.9") @@ (<<"B", "V">> :> "2.2.2.2")
                  @@ (<<"shared", "V">> :> "3.3.3.3"),
       !.grp = (<<"shared", "G">> :> {"V", "K"}) @@ (<<"B", "G">> :> {"V", "U"}),
       !.rule = (Security("shared", "r1") :> Flow({"T", "K"}, {"G"}))
                  @@ (Security("B", "r2") :> Flow({"V", "K"}, {"U", "V", "K"}))
                  @@ (Security("A", "r3") :> Flow({"U", "K"}, {"K"})),
       !.order = (<<"shared", "security">> :> <<"r1">>) @@ (<<"A", "security">> :> <<"r3">>)
                   @@ (<<"B", "security">> :> <<"r2">>)],
     asks |-> {Hosts({"h1", "h3"}), [Hosts({"h3"}) EXCEPT !.objects = {"U"}]},
     edits |-> <<>>,
     sessions |-> 3]

\* Rules that stand side by side, taken by several cleanups.
Neighbourhood ==
    [config |-> [Empty EXCEPT
       !.rule = (Security("A", "r1") :> Flow({"T"}, {"any"}))
                  @@ (Security("A", "r2") :> Flow({"T"}, {"U", "K"}))
                  @@ (Security("A", "r3") :> Flow({"U"}, {"any"}))
                  @@ (Security("A", "r4") :> Flow({"K"}, {"U", "K"})),
       !.order = (<<"A", "security">> :> <<"r1", "r2", "r3", "r4">>)],
     asks |-> {Hosts({"h1"}), Hosts({"h2"})},
     edits |-> <<Add(Security("A", "n1"), Flow({"K"}, {"any"}), "r4")>>,
     sessions |-> 4]

\* Translations, protected rules, negated fields, a dynamic group.
Protected ==
    [config |-> [Empty EXCEPT
       !.addr = @ @@ (<<"shared", "V">> :> "3.3.3.3") @@ (<<"shared", "W">> :> "4.4.4.4"),
       !.dyn = (<<"shared", "D">> :> {<<"shared", "W">>}),
       !.rule = (<<"A", "nat", "n1">> :> [Flow({"K"}, {"K"}) EXCEPT !.other = {"T"}])
                  @@ (<<"A", "application-override", "a1">> :> Flow({"U", "K"}, {"any"}))
                  @@ (Security("A", "r1") :> [Flow({"T", "K"}, {"T"}) EXCEPT !.negated = {"source"}])
                  @@ (Security("A", "r2") :> Flow({"K"}, {"V", "W", "K"}))
                  @@ (Security("A", "DEFAULT") :> Flow({"V", "K"}, {"any"})),
       !.order = (<<"A", "nat">> :> <<"n1">>) @@ (<<"A", "application-override">> :> <<"a1">>)
                   @@ (<<"A", "security">> :> <<"r1", "r2", "DEFAULT">>)],
     asks |-> {Hosts({"h1", "h2", "h3", "h4"}), [Hosts({"h2", "h3"}) EXCEPT !.override = TRUE]},
     edits |-> <<>>,
     sessions |-> 3]

\* What others define between a cleanup and its restore.
Meanwhile ==
    [config |-> [Empty EXCEPT
       !.grp = (<<"A", "G">> :> {"T", "K"}),
       !.rule = (Security("A", "r1") :> Flow({"T"}, {"K"}))
                  @@ (Security("A", "r2") :> Flow({"G"}, {"any"})),
       !.order = (<<"A", "security">> :> <<"r1", "r2">>)],
     asks |-> {Hosts({"h1"})},
     edits |-> <<Define(<<"A", "K">>, "2.2.2.2"), Group(<<"shared", "T">>, {"K"}),
                 [what |-> "first"]>>,
     sessions |-> 3]

\* A cleanup between the plan of a restore and the writing of it.
Later ==
    [config |-> [Empty EXCEPT
       !.grp = (<<"A", "G">> :> {"U"}),
       !.rule = (Security("A", "r1") :> Flow({"T"}, {"G", "U"}))
                  @@ (Security("A", "r2") :> Flow({"K"}, {"any"})),
       !.order = (<<"A", "security">> :> <<"r1", "r2">>)],
     asks |-> {Hosts({"h1"}), [Ask EXCEPT !.objects = {"U"}],
               [Ask EXCEPT !.policies = {"r2"}, !.groups = {"G"}]},
     edits |-> <<>>,
     sessions |-> 3]

MCScenes ==
    [groups |-> Groups, overrides |-> Overrides, neighbourhood |-> Neighbourhood,
     protected |-> Protected, meanwhile |-> Meanwhile, later |-> Later]

\* A rule that uses a group comes between the plan to delete the group and its writing.
ChildOfAPlan ==
    [config |-> [Empty EXCEPT
       !.grp = (<<"A", "G">> :> {"U"}),
       !.rule = Security("A", "r1") :> Flow({"K"}, {"any"}),
       !.order = <<"A", "security">> :> <<"r1">>],
     asks |-> {[Ask EXCEPT !.policies = {"r1"}, !.groups = {"G"}]},
     edits |-> <<Add(Security("A", "n1"), Flow({"G"}, {"K"}), "")>>,
     sessions |-> 2]

MCChild == [child |-> ChildOfAPlan]

\* Three requests whose second plan reaches DEFAULT although the targets that touched it
\* in the first are left out: an object by its host and its name; DEFAULT itself, which
\* a host would empty; and four hosts, of which one is blocked in the first plan only.
Boundary ==
    [config |-> [Empty EXCEPT
       !.addr = @ @@ (<<"A", "V">> :> "3.3.3.3") @@ (<<"A", "W">> :> "4.4.4.4")
                  @@ (<<"A", "X">> :> "5.5.5.5"),
       !.grp = <<"A", "G">> :> {"V", "W"},
       !.rule = (Security("A", "r1") :> [Flow({"V", "K"}, {"U"}) EXCEPT !.negated = {"source"}])
                  @@ (Security("A", "r2") :> [Flow({"G", "K"}, {"X"}) EXCEPT !.negated = {"source"}])
                  @@ (Security("A", "r3") :> [Flow({"X", "K"}, {"any"}) EXCEPT !.negated = {"source"}])
                  @@ (Security("A", "DEFAULT") :> Flow({"U", "W", "K"}, {"T"})),
       !.order = (<<"A", "security">> :> <<"r1", "r2", "r3", "DEFAULT">>)],
     asks |-> {[Hosts({"h4"}) EXCEPT !.objects = {"W"}],
               [Hosts({"h1"}) EXCEPT !.policies = {"DEFAULT"}],
               Hosts({"h2", "h3", "h4", "h5"})},
     edits |-> <<>>,
     sessions |-> 1]

MCBoundary == [boundary |-> Boundary]
=============================================================================
