---------------------------- MODULE RestorePlanner ----------------------------
(***************************************************************************)
(* Planning a restore (panos_toolbox/restore.py and plan_restore_session   *)
(* of service.py): which applied cleanups have to be taken back together,  *)
(* what each of their mutations meets in the configuration now, and the    *)
(* patch that puts back what it can.                                       *)
(*                                                                         *)
(* A history is a sequence of applied cleanups, oldest first:              *)
(*   id      the session                                                   *)
(*   was     the configuration it was planned on                           *)
(*   pre     the candidate it was applied to                               *)
(*   patch   the mutations it applied                                      *)
(*   ask     what was asked of it                                          *)
(*   final   it is committed                                               *)
(* A graph holds what is computed from it once; a record is the index of   *)
(* a mutation in graph.records. No two cleanups were applied at one time.  *)
(***************************************************************************)
EXTENDS CleanupPatchset

(***************************************************************************)
(* The graph of a history                                                  *)
(***************************************************************************)
\* mutation_owner_xpath: the whole entry a mutation changes.
Owner(x) ==
    <<CASE x.type \in {"policy", "policy-member"} -> "rule"
        [] x.type \in {"group", "group-member"}   -> "group"
        [] x.type = "address"                     -> "address", x.at>>

OwnersOf(patch) == {Owner(x) : x \in Range(patch)}

\* The definitions the names of an entry meant at its own location, and whether
\* one of them meant nothing.
NamesOf(c, owner) ==
    IF owner[1] = "group" /\ owner[2] \in DOMAIN c.grp THEN c.grp[owner[2]]
    ELSE IF owner[1] = "rule" /\ owner[2] \in DOMAIN c.rule
    THEN LET r == c.rule[owner[2]] IN r.source \cup r.destination \cup r.other
    ELSE {}

MeaningsOf(m, owner) == {m.res[<<owner[2][1], n>>] : n \in NamesOf(m.c, owner)}

Needs(m, owner) ==
    {<<IF r.kind = "address" THEN "address" ELSE "group", r.key>> :
       r \in {r \in MeaningsOf(m, owner) :
                r.kind \in {"address", "static-group", "dynamic-group"}}}

HasUnresolved(m, owner) == \E r \in MeaningsOf(m, owner) : r.kind = "unresolved"

\* dependency_inventories: the groups and rules an address reaches through the
\* references, in every context they are read in.
Reaching(m, key) ==
    LET Uses(targets) ==
          {r.at : r \in {r \in m.refs :
             \E l \in m.contexts[r] : m.res[<<l, r.name>>].key \in targets}}
            \cup {o.at : o \in {o \in m.occurrences :
             \E l \in Below(m.c, o.at[1]) : m.res[<<l, o.name>>].key \in targets}}
        grow[i \in 0 .. Cardinality(DOMAIN m.c.grp) + 1] ==
          IF i = 0 THEN {key} ELSE grow[i - 1] \cup Uses(grow[i - 1])
    IN  grow[Cardinality(DOMAIN m.c.grp) + 1] \ {key}

\* _cleanup_inventory: the address objects of a request.
Matched(c, ask) ==
    {k \in DOMAIN c.addr :
       \/ k[2] \in ask.objects
       \/ \E h \in ask.ips : k \in ExactObjects(c, h)
                               \/ (c.addr[k] \in DOMAIN WideOf /\ h \in WideOf[c.addr[k]])}

\* An entry of the inventory, as the entries of that name the cleanup was
\* applied to.
Inventory(was, pre, ask) ==
    LET m == Model(was)
        Entries(keys) == {<<"address", k>> : k \in keys \cap DOMAIN pre.addr}
        Users(keys) == {<<"group", k>> : k \in keys \cap DOMAIN pre.grp}
                         \cup {<<"rule", k>> : k \in keys \cap DOMAIN pre.rule}
    IN  {Entries({k}) \cup Users(Reaching(m, k)) : k \in Matched(was, ask)}

\* _historical_dependency_graph
Graph(history) ==
    LET models == [i \in DOMAIN history |-> Model(history[i].pre)]
        needs  == [i \in DOMAIN history |->
                     [o \in OwnersOf(history[i].patch) |-> Needs(models[i], o)]]
        records[i \in 0 .. Len(history)] ==
          IF i = 0 THEN <<>>
          ELSE records[i - 1] \o [j \in DOMAIN history[i].patch |->
                                    [from |-> i, x |-> history[i].patch[j]]]
    IN  [history |-> history,
         records |-> records[Len(history)],
         needs   |-> needs,
         lost    |-> UNION {{o \in DOMAIN needs[i] : HasUnresolved(models[i], o)} :
                              i \in DOMAIN history},
         sets    |-> UNION {{{o} \cup needs[i][o] : o \in DOMAIN needs[i]}
                              \cup Inventory(history[i].was, history[i].pre, history[i].ask) :
                              i \in DOMAIN history}]

(***************************************************************************)
(* What has to be restored together                                        *)
(***************************************************************************)
\* select_history: two mutations of one component, with a cause or an entry in
\* common (an address and a group of one name are one entry), tied through a
\* reference, or neighbours in a rulebase.
Neighbours(x, y) ==
    /\ x.type = "policy" /\ y.type = "policy"
    /\ Base(x.at) = Base(y.at)
    /\ y.at[3] \in {x.prev, x.next}

\* Wrong on purpose: rules that stood side by side are not tied.
TiedByEntries(g, i, j) ==
    LET r == g.records[i]
        s == g.records[j]
    IN  \/ r.from = s.from /\ r.x.component = s.x.component
        \/ r.x.causes \cap s.x.causes # {}
        \/ r.x.at = s.x.at
        \/ \E set \in g.sets : {Owner(r.x), Owner(s.x)} \subseteq set

Tied(g, i, j) ==
    LET r == g.records[i]
        s == g.records[j]
    IN  \/ r.from = s.from /\ r.x.component = s.x.component
        \/ r.x.causes \cap s.x.causes # {}
        \/ r.x.at = s.x.at
        \/ \E set \in g.sets : {Owner(r.x), Owner(s.x)} \subseteq set
        \/ Neighbours(r.x, s.x) \/ Neighbours(s.x, r.x)

TiedTo(g, seeds) ==
    LET all == DOMAIN g.records
        grow[i \in 0 .. Len(g.records)] ==
          IF i = 0 THEN seeds
          ELSE LET now == grow[i - 1]
               IN  now \cup {j \in all \ now : \E k \in now : Tied(g, j, k)}
    IN  grow[Len(g.records)]

RestoreComponents(g, selected) == {TiedTo(g, {i}) : i \in selected}

SeedsOf(g, id) == {i \in DOMAIN g.records : g.history[g.records[i].from].id = id}

SeedsFor(g, targets) == {i \in DOMAIN g.records : g.records[i].x.causes \cap targets # {}}

\* The causes of a component name it: no two components have one in common.
CausesIn(g, component) == UNION {g.records[i].x.causes : i \in component}

\* Wrong on purpose: only the entries that are restored.
OwnEntries(g, selected) == {g.records[j].x.at : j \in selected}

\* _history_guard_owner_paths: the entries a later cleanup must not have changed.
GuardedEntries(g, selected) ==
    LET grow[i \in 0 .. Cardinality(g.sets)] ==
          IF i = 0 THEN {Owner(g.records[j].x) : j \in selected}
          ELSE LET now == grow[i - 1]
               IN  now \cup UNION {set \in g.sets : set \cap now # {}}
        rules == {x \in {g.records[j].x : j \in selected} : x.type = "policy"}
        anchors == UNION {{Base(x.at) \o <<n>> : n \in {x.prev, x.next} \ {""}} : x \in rules}
    IN  {o[2] : o \in grow[Cardinality(g.sets)]} \cup anchors

(***************************************************************************)
(* What a mutation meets, and the patch that takes it back                 *)
(***************************************************************************)
WasOf(g, i) == g.history[g.records[i].from].was

\* The name of a deleted entry is taken by an entry of the other kind.
TakenByOther(c, x) ==
    \/ x.type = "address" /\ x.at \in DOMAIN c.grp \cup DOMAIN c.dyn
    \/ x.type = "group" /\ x.at \in DOMAIN c.addr

NameHadTwoKinds(g, component) ==
    \E i, j \in component :
      /\ g.records[i].x.type = "address" /\ g.records[j].x.type = "group"
      /\ g.records[i].x.at = g.records[j].x.at

\* One mutation taken back (next), or found to be taken back already, or in conflict
\* with what is there. absent: the rules of its component.
Misplaced(c, x, absent) == x.type = "policy" /\ ~InPlace(c, x, absent)

TakeBackTo(g, s, i, x, absent, next) ==
    IF s.bad THEN s
    ELSE IF HoldsAsIn(s.c, WasOf(g, i), x)
    THEN [s EXCEPT !.bad = Misplaced(s.c, x, absent), !.already = @ \cup {i}]
    ELSE IF Holds(s.c, x) \/ ~CanPutBack(s.c, x) THEN [s EXCEPT !.bad = TRUE]
    ELSE [s EXCEPT !.c = next, !.bad = Misplaced(next, x, absent), !.put = Append(@, i)]

TakeBack(g, s, i, absent) ==
    LET x == g.records[i].x
    IN  TakeBackTo(g, s, i, x, absent, PutBack(s.c, WasOf(g, i), x))

\* build_restore_patchset_history: each component latest mutation first, on one
\* copy of the configuration; a component in conflict leaves no trace there.
Hopeless(g, component, current) ==
    NameHadTwoKinds(g, component) \/ \E i \in component : TakenByOther(current, g.records[i].x)

KeptIfGood(s, component, end) ==
    IF end.bad THEN [s EXCEPT !.bad = @ \cup {component}]
    ELSE [s EXCEPT !.c = end.c, !.put = @ \o end.put, !.already = @ \cup end.already]

TakeBackComponent(g, s, component, current) ==
    LET rules  == {i \in component : g.records[i].x.type = "policy"}
        absent == {g.records[i].x.at[3] : i \in rules}
        latest == InOrder(component, {p \in component \X component : p[1] > p[2]})
        start  == [c |-> s.c, already |-> {}, put |-> <<>>,
                   bad |-> component \in s.bad \/ Hopeless(g, component, current)]
        back[n \in 0 .. Len(latest)] ==
          IF n = 0 THEN start ELSE TakeBack(g, back[n - 1], latest[n], absent)
    IN  KeptIfGood(s, component, back[Len(latest)])

TakenBack(g, components, current, bad) ==
    LET line == InSomeOrder(components)
        back[n \in 0 .. Len(line)] ==
          IF n = 0 THEN [c |-> current, bad |-> bad, already |-> {}, put |-> <<>>]
          ELSE TakeBackComponent(g, back[n - 1], line[n], current)
    IN  back[Len(line)]

ComponentOf(components, i) ==
    LET holding == {k \in components : i \in k} IN CHOOSE k \in holding : TRUE

\* The rules to put back, with the neighbours they have once everything is back.
RestorePatch(g, components, current, back) ==
    LET Of(i) == LET x == g.records[i].x
                     y == [x EXCEPT
                             !.component = CausesIn(g, ComponentOf(components, i)),
                             !.from = g.history[g.records[i].from].id]
                     beside == Beside(back.c, x.at)
                 IN  IF x.type # "policy" THEN y
                     ELSE [y EXCEPT !.prev = beside[1], !.next = beside[2],
                                    !.among = RuleNames(current, x.at)]
    IN  [j \in DOMAIN back.put |-> Of(back.put[j])]

(***************************************************************************)
(* Whether it would mean the same                                          *)
(***************************************************************************)
\* _historical_scope_conflicts: names are looked up elsewhere than they were.
ScopeChanged(g, i, c) ==
    LET location == g.records[i].x.at[1]
        pre == g.history[g.records[i].from].pre
    IN  IF location \notin Locations(c) THEN TRUE
        ELSE \/ c.first # pre.first
             \/ ResolutionChain(c, location) # ResolutionChain(pre, location)

IsThere(c, owner) ==
    IF owner[1] = "address" THEN owner[2] \in DOMAIN c.addr
    ELSE owner[2] \in DOMAIN c.grp \cup DOMAIN c.dyn

\* _forward_dependency_conflicts: what an entry needs is neither there nor
\* restored with it.
NeedMissing(g, selected, i, c) ==
    LET owner == Owner(g.records[i].x)
        whole == {Owner(g.records[j].x) : j \in {j \in selected : ~IsMember(g.records[j].x)}}
        needs == UNION {g.needs[k][owner] : k \in {k \in DOMAIN g.needs : owner \in DOMAIN g.needs[k]}}
    IN  owner \in g.lost \/ \E d \in needs \ whole : ~IsThere(c, d)

\* Wrong on purpose: it is enough that every name means something.
MeansNothing(g, i, final) ==
    LET r == g.records[i]
    IN  \E d \in g.needs[r.from][Owner(r.x)] :
          Resolve(final, r.x.at[1], d[2][2]).kind = "unresolved"

\* _final_resolution_conflicts: an address or group, or a name an entry needs,
\* would mean something else at its location.
MeansOther(g, i, final) ==
    LET r     == g.records[i]
        owner == Owner(r.x)
        pre   == g.history[r.from].pre
        needs == g.needs[r.from][owner] \cup (IF owner[1] = "rule" THEN {} ELSE {owner})
        Now(d) == Resolve(final, r.x.at[1], d[2][2])
    IN  \E d \in needs :
          ~(d[2] \in Defined(pre) /\ Now(d) = [kind |-> KindOf(pre, d[2]), key |-> d[2]])

FinalConflicts(g, components, back) ==
    {k \in components \ back.bad :
       ~Parsable(back.c) \/ \E i \in k : MeansOther(g, i, back.c)}

\* plan_restore_session. If all of it is committed, running has to bear the
\* restore too, and the candidate must not have lost again what running has.
Broken(g, selected, committed, running, candidate, i) ==
    \/ ScopeChanged(g, i, running) \/ ScopeChanged(g, i, candidate)
    \/ NeedMissing(g, selected, i, candidate)
    \/ committed /\ NeedMissing(g, selected, i, running)

OnRunning(g, components, committed, static, back) ==
    IF committed THEN back.bad \cup FinalConflicts(g, components, back) ELSE static

OnCandidate(g, components, committed, onRunning, preview) ==
    preview.bad \cup FinalConflicts(g, components, preview)
      \cup {k \in components : committed /\ k \cap onRunning.already
                                              \cap Range(preview.put) # {}}

\* On running, on the candidate, and once more with all that is bad known.
Attempt(g, components, committed, static, onRunning, candidate) ==
    TakenBack(g, components, candidate,
              OnCandidate(g, components, committed, onRunning,
                          TakenBack(g, components, candidate,
                                    OnRunning(g, components, committed, static, onRunning))))

TakenBackOn(g, components, committed, static, running, candidate) ==
    Attempt(g, components, committed, static,
            TakenBack(g, components, running, static), candidate)

PlanFrom(g, selected, components, candidate, back) ==
    [patch   |-> RestorePatch(g, components, candidate, back),
     bad     |-> back.bad,
     causes  |-> UNION {CausesIn(g, k) : k \in components},
     guarded |-> GuardedEntries(g, selected)]

PlanOfComponents(g, selected, components, committed, running, candidate) ==
    PlanFrom(g, selected, components, candidate,
             TakenBackOn(g, components, committed,
               {k \in components : \E i \in k :
                  Broken(g, selected, committed, running, candidate, i)},
               running, candidate))

RestorePlan(g, selected, running, candidate) ==
    PlanOfComponents(g, selected, RestoreComponents(g, selected),
                     \A i \in selected : g.history[g.records[i].from].final,
                     running, candidate)

=============================================================================
