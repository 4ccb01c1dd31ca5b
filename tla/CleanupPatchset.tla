-------------------------- MODULE CleanupPatchset --------------------------
(***************************************************************************)
(* The patch set of a cleanup (panos_toolbox/cleaner_adapter.py), the      *)
(* child plans cut from it (web.py), and what the engine checks against    *)
(* the candidate before it writes and after (engine.py).                   *)
(*                                                                         *)
(* A patch is a sequence of mutations in the order they are written. The   *)
(* identifier of a component is the set of causes it connects. A policy    *)
(* keeps its neighbours and the names around it when it was planned, and   *)
(* the rule it is moved before when it is put back. A mutation of a        *)
(* restore names the session it puts something back from.                  *)
(***************************************************************************)
EXTENDS CleanupPlanner

(***************************************************************************)
(* Rules that are not touched                                              *)
(***************************************************************************)
\* The tokens that delete one of these rules or take something out of it.
Touching(plan, rules) ==
    (UNION {plan.rules[k] : k \in DOMAIN plan.rules \cap rules})
      \cup UNION {plan.refs[r] : r \in {r \in DOMAIN plan.refs : r.at \in rules}}

ReadOnlyRules(c) == {k \in DOMAIN c.rule : k[2] = "application-override"}

DefaultRules(c) == {k \in DOMAIN c.rule : k[3] = "DEFAULT"}

\* The tokens that touch a protected rule in the first plan are left out, and
\* the rest is planned again: first without Application Override, then, unless
\* the operator overrides it, without DEFAULT.
Sparing(m, ask, asked, first, readOnly, default) ==
    IF default # {} THEN Plan(m, ask, asked \ (readOnly \cup default), {})
    ELSE IF readOnly # {} THEN Plan(m, ask, asked \ readOnly, {"application-override"})
    ELSE first

\* Wrong on purpose: protected rules are only reported.
FirstOf(m, ask, asked, first) == first

SafeOf(m, ask, asked, first) ==
    Sparing(m, ask, asked, first, Touching(first, ReadOnlyRules(m.c)),
            IF ask.override THEN {} ELSE Touching(first, DefaultRules(m.c)))

SafeAmong(m, ask, asked) == SafeOf(m, ask, asked, Plan(m, ask, asked, {}))

SafePlan(m, ask) == SafeAmong(m, ask, AskedTokens(m, ask))

(***************************************************************************)
(* The patch                                                               *)
(***************************************************************************)
Mutation(type, at, causes) ==
    [type |-> type, at |-> at, field |-> "", name |-> "", causes |-> CausesOf(causes),
     component |-> {}, prev |-> "", next |-> "", among |-> <<>>, before |-> "", from |-> 0]

MemberMutation(type, r, causes) ==
    [Mutation(type, r.at, causes) EXCEPT !.field = r.field, !.name = r.name]

\* Wrong on purpose: entries that go as a whole lose their members before.
MemberMutationsOfAll(plan, of, type) ==
    InSomeOrder({MemberMutation(type, r, plan.refs[r]) :
                   r \in {r \in DOMAIN plan.refs : r.of = of}})

\* The members that go from entries that stay.
MemberMutations(plan, of, type) ==
    LET stay == {r \in DOMAIN plan.refs :
                   r.of = of /\ r.at \notin DOMAIN plan.rules \cup DOMAIN plan.groups}
    IN  InSomeOrder({MemberMutation(type, r, plan.refs[r]) : r \in stay})

\* The mutations of some rules, one after the other.
RuleMutationsOf(m, plan, line) ==
    [i \in DOMAIN line |->
       LET beside == Beside(m.c, line[i])
       IN  [Mutation("policy", line[i], plan.rules[line[i]]) EXCEPT
              !.prev = beside[1], !.next = beside[2], !.before = beside[2],
              !.among = RuleNames(m.c, line[i])]]

\* The rules that go.
RulesGone(m, plan) == {k \in DOMAIN plan.rules : k[3] \in Range(RuleNames(m.c, k))}

\* Wrong on purpose: the last rule goes first.
RuleMutationsLastFirst(m, plan) ==
    LET gone == RulesGone(m, plan)
    IN  RuleMutationsOf(m, plan, InOrder(gone,
          {p \in gone \X gone : /\ Base(p[1]) = Base(p[2])
                                /\ PlaceOf(m.c, p[1]) > PlaceOf(m.c, p[2])}))

\* The rules that go, those of one rulebase in their order.
RuleMutations(m, plan) ==
    LET gone == RulesGone(m, plan)
    IN  RuleMutationsOf(m, plan, InOrder(gone,
          {p \in gone \X gone : /\ Base(p[1]) = Base(p[2])
                                /\ PlaceOf(m.c, p[1]) < PlaceOf(m.c, p[2])}))

\* The groups that go, a group before those it contains.
OuterFirst(m, groups) ==
    InOrder(groups, {p \in groups \X groups :
                       \E n \in m.c.grp[p[1]] : m.res[<<p[1][1], n>>].key = p[2]})

\* A plan is refused if it is not sound or its groups are in no order.
CanBePatched(m, plan) ==
    /\ Sound(m, plan)
    /\ Len(OuterFirst(m, DOMAIN plan.groups)) = Cardinality(DOMAIN plan.groups)

\* The causes joined, through mutations that share one, to those of seed.
Joined(sets, seed) ==
    LET grow[i \in 0 .. Cardinality(sets)] ==
          IF i = 0 THEN seed
          ELSE LET s == grow[i - 1] IN s \cup UNION {t \in sets : t \cap s # {}}
    IN  grow[Cardinality(sets)]

\* References go before what they refer to: members of rules, rules, members of
\* groups, groups, addresses.
Ordered(m, plan, groups) ==
    MemberMutations(plan, "rule", "policy-member")
      \o RuleMutations(m, plan)
      \o MemberMutations(plan, "group", "group-member")
      \o [i \in DOMAIN groups |-> Mutation("group", groups[i], plan.groups[groups[i]])]
      \o InSomeOrder({Mutation("address", t.key, {t}) : t \in plan.addresses})

InComponents(all) ==
    LET sets == {x.causes : x \in Range(all)}
    IN  [i \in DOMAIN all |-> [all[i] EXCEPT !.component = Joined(sets, all[i].causes)]]

Patch(m, plan) == InComponents(Ordered(m, plan, OuterFirst(m, DOMAIN plan.groups)))

CleanupPatch(m, ask) == Patch(m, SafePlan(m, ask))

Components(patch) == {x.component : x \in Range(patch)}

Causes(patch) == UNION {x.causes : x \in Range(patch)}

\* The device groups that inherit from a location the patch changes.
AffectedGroups(c, patch) ==
    {l \in DOMAIN c.up : \E x \in Range(patch) : x.at[1] \in Range(ScopeChain(c, l))}

(***************************************************************************)
(* Child plans                                                             *)
(***************************************************************************)
\* The mutations of some components, in their order.
Keeping(patch, components) == Among(patch, {x \in Range(patch) : x.component \in components})

\* Wrong on purpose: the mutations of the chosen targets.
SelectedAlone(patch, targets) == SelectSeq(patch, LAMBDA x : x.causes \cap targets # {})

\* cleanup_selection_plan: the components of the chosen targets.
Selected(patch, targets) ==
    Keeping(patch, {x.component : x \in {x \in Range(patch) : x.causes \cap targets # {}}})

\* _cleanup_exclusion_closure: all but the components of the excluded targets
\* and the excluded components.
Excluded(patch, targets, components) ==
    LET impacted == targets \cup UNION {x.causes : x \in
                      {x \in Range(patch) : x.component \in components}}
        removed  == components \cup {x.component : x \in
                      {x \in Range(patch) : x.causes \cap impacted # {}}}
    IN  Keeping(patch, Components(patch) \ removed)

(***************************************************************************)
(* The checks against the candidate                                        *)
(***************************************************************************)
Signature(x) == <<x.type, x.at, x.field, x.name, x.causes>>

\* The components whose causes give other mutations in a fresh patch.
Changed(patch, fresh) ==
    LET Of(p, cause) == {Signature(x) : x \in {x \in Range(p) : cause \in x.causes}}
        changed == {cause \in Causes(patch) \cup Causes(fresh) :
                      Of(patch, cause) # Of(fresh, cause)}
    IN  {x.component : x \in {x \in Range(patch) : x.causes \cap changed # {}}}

\* A candidate that does not parse or whose plan is refused keeps every component back.
ChangedIn(patch, config, m, plan, fresh) ==
    IF ~Parsable(m.c) \/ ~CanBePatched(m, plan)
         \/ AffectedGroups(config, patch) # AffectedGroups(m.c, fresh)
    THEN Components(patch)
    ELSE Changed(patch, fresh)

ChangedBy(patch, config, m, plan) == ChangedIn(patch, config, m, plan, Patch(m, plan))

\* _cleanup_candidate_replan_conflicts: the request is planned again on the candidate.
ReplanConflicts(patch, ask, config, candidate) ==
    LET On(m) == ChangedBy(patch, config, m, SafePlan(m, ask)) IN On(Model(candidate))

\* The target of a mutation as it is in two configurations.
SameTarget(c, d, x) == IF Holds(d, x) THEN HoldsAsIn(c, d, x) ELSE ~Holds(c, x)

\* Wrong on purpose: the rules around a rule are not looked at.
TargetConflicts(patch, was, candidate) ==
    {x.component : x \in {x \in Range(patch) : ~SameTarget(candidate, was, x)}}

\* _precondition_conflicts: the components with a target that is not as it was,
\* or a rule whose rulebase lists other names.
PreconditionConflicts(patch, was, candidate) ==
    {x.component : x \in {x \in Range(patch) :
       \/ ~SameTarget(candidate, was, x)
       \/ x.type = "policy" /\ RuleNames(candidate, x.at) # x.among}}

\* A rule stands directly between its neighbours. A neighbour in absent may be
\* missing.
InPlace(c, x, absent) ==
    LET names == RuleNames(c, x.at)
    IN  /\ x.at[3] \in Range(names)
        /\ LET i == CHOOSE i \in DOMAIN names : names[i] = x.at[3]
           IN  /\ IF x.prev = "" THEN i = 1
                  ELSE IF x.prev \in Range(names) THEN i > 1 /\ names[i - 1] = x.prev
                  ELSE x.prev \in absent
               /\ IF x.next = "" THEN i = Len(names)
                  ELSE IF x.next \in Range(names) THEN i < Len(names) /\ names[i + 1] = x.next
                  ELSE x.next \in absent

\* _postcondition_failures, and the last check of _rollback: each target is as
\* in the expected configuration, a rule that is there in its place.
AsExpected(patch, expected, candidate) ==
    \A x \in Range(patch) :
      /\ SameTarget(candidate, expected, x)
      /\ x.type = "policy" /\ Holds(expected, x) => InPlace(candidate, x, {})

=============================================================================
