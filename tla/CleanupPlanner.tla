--------------------------- MODULE CleanupPlanner ---------------------------
(***************************************************************************)
(* The pure planner of a cleanup (panorama_cleanup/planner.py): from a     *)
(* parsed configuration and a set of targets to the references, groups,    *)
(* rules and addresses that have to go, each with the targets that cause   *)
(* it, and the targets that are blocked because the plan is not safe.      *)
(*                                                                         *)
(* A token is what one target asks for: an address object, the literal of  *)
(* a host, a static group, a rule. Several tokens may have one cause (the  *)
(* target as it was typed); blocking is by cause.                          *)
(*                                                                         *)
(* A problem is a record:                                                  *)
(*   m       the model of the configuration                                *)
(*   tokens  the tokens not blocked so far                                 *)
(*   nat     the rule of a NAT translation is deleted, not blocked         *)
(*   prefer  which of two tokens of one address object is kept by          *)
(*           _token_maps: the code goes through a set, so either may be    *)
(*   spare   the policy types whose rules are not deleted on request       *)
(***************************************************************************)
EXTENDS PanoramaConfig

Token(kind, cause, key) == [kind |-> kind, cause |-> cause, key |-> key]

CausesOf(tokens) == {t.cause : t \in tokens}

\* The tokens of a request: hosts, address object, group and policy names.
\* A group name that is a dynamic group anywhere gives no token.
AskedTokens(m, ask) ==
    {Token("literal", <<"ip", h>>, <<h>>) : h \in ask.ips}
      \cup (UNION {{Token("address", <<"ip", h>>, k) : k \in ExactObjects(m.c, h)} :
                     h \in ask.ips})
      \cup {Token("address", <<"object", k[2]>>, k) :
              k \in {k \in DOMAIN m.c.addr : k[2] \in ask.objects}}
      \cup {Token("group", <<"group", n>>, <<n>>) :
              n \in ({k[2] : k \in DOMAIN m.c.grp} \ {k[2] : k \in DOMAIN m.c.dyn})
                      \cap ask.groups}
      \cup {Token("policy", <<"policy", n>>, <<n>>) :
              n \in {k[3] : k \in DOMAIN m.c.rule} \cap ask.policies}

\* _token_maps: one token for each address object.
Live(p) ==
    {t \in p.tokens :
       t.kind = "address" /\ t.cause[1] # p.prefer =>
         \A u \in p.tokens : u.kind = "address" /\ u.key = t.key => u = t}

ForcedGroups(p) ==
    LET tokens(g) == {t \in p.tokens : t.kind = "group" /\ t.key = <<g[2]>>}
    IN  [g \in {g \in DOMAIN p.m.c.grp : tokens(g) # {}} |-> tokens(g)]

ForcedRules(p) ==
    LET tokens(k) == {t \in p.tokens : t.kind = "policy" /\ t.key = <<k[3]>>}
    IN  [k \in {k \in DOMAIN p.m.c.rule : k[2] \notin p.spare /\ tokens(k) # {}} |->
           tokens(k)]

(***************************************************************************)
(* What goes                                                               *)
(***************************************************************************)
\* The targets a name means at a location, given the groups that go and why.
Hit(p, gone, l, n) ==
    LET r == p.m.res[<<l, n>>]
    IN  {t \in p.live : t.kind = r.kind /\ t.key = r.key}
          \cup (IF r.key \in DOMAIN gone THEN gone[r.key] ELSE {})

\* The groups that go: the ones asked for, and those with nothing left in them,
\* inner groups first.
GoneGroups(p) ==
    LET groups  == DOMAIN p.m.c.grp
        Hits(gone, g) == [n \in p.m.c.grp[g] |-> Hit(p, gone, g[1], n)]
        Emptied(gone, g) ==
          /\ p.m.c.grp[g] # {}
          /\ \A n \in p.m.c.grp[g] : Hits(gone, g)[n] # {}
        pass[i \in 0 .. Cardinality(groups)] ==
          IF i = 0 THEN ForcedGroups(p)
          ELSE LET gone == pass[i - 1]
                   more == {g \in groups \ DOMAIN gone : Emptied(gone, g)}
               IN  [g \in DOMAIN gone \cup more |->
                      IF g \in more THEN UNION Range(Hits(gone, g)) ELSE gone[g]]
    IN  pass[Cardinality(groups)]

\* The targets among the leaves of each static group, in each context where its
\* name means it.
EffectiveCauses(p) ==
    LET groups == DOMAIN p.m.c.grp
        pairs  == {x \in Locations(p.m.c) \X groups : p.m.res[<<x[1], x[2][2]>>].key = x[2]}
        pass[i \in 0 .. Cardinality(groups)] ==
          IF i = 0 THEN [x \in pairs |-> {}]
          ELSE LET prev == pass[i - 1]
                   Of(l, n) == LET inner == <<l, p.m.res[<<l, n>>].key>>
                               IN  IF inner \in pairs THEN prev[inner]
                                   ELSE Hit(p, <<>>, l, n)
               IN  [x \in pairs |-> UNION {Of(x[1], n) : n \in p.m.c.grp[x[2]]}]
    IN  pass[Cardinality(groups)]

\* What an address value outside source and destination means in a context: a
\* group counts through its leaves, or as a whole when it goes.
OccurrenceHit(p, q, l, n) ==
    LET inner == <<l, p.m.res[<<l, n>>].key>>
    IN  IF inner \in DOMAIN q.leaves /\ q.leaves[inner] # {}
        THEN q.leaves[inner] ELSE Hit(p, q.gone, l, n)

OwnOccurrenceHit(p, q, o) ==
    LET key == p.m.res[<<o.at[1], o.name>>].key
    IN  IF key \in DOMAIN q.gone THEN q.gone[key]
        ELSE OccurrenceHit(p, q, o.at[1], o.name)

IsNat(o) == o.at[2] = "nat"

\* The targets each reference and each other address value points at.
Marked(p, q) ==
    [gone   |-> q.gone,
     leaves |-> q.leaves,
     own    |-> [r \in p.m.refs |-> Hit(p, q.gone, r.at[1], r.name)],
     other  |-> [o \in p.m.occurrences |-> OwnOccurrenceHit(p, q, o)]]

\* A translation of a group that is only trimmed stays.
Trimmed(p, q) ==
    {o \in p.m.occurrences :
       /\ p.nat /\ IsNat(o) /\ q.other[o] # {}
       /\ p.m.res[<<o.at[1], o.name>>].key \in DOMAIN p.m.c.grp \ DOMAIN q.gone}

Translations(p, q) == {o \in p.m.occurrences : p.nat /\ IsNat(o) /\ q.other[o] # {}}

EmptiedFields(p, q, k) ==
    {f \in Fields : \A n \in p.m.c.rule[k][f] :
       q.own[[of |-> "rule", at |-> k, field |-> f, name |-> n]] # {}}

\* The rules that go: the ones asked for, those whose translation goes, and those
\* with an empty field; alone are those that go whatever happens to a negated field.
RulesGoing(p, q, byNat) ==
    LET forced == DOMAIN ForcedRules(p)
        rules  == DOMAIN p.m.c.rule
        empty  == [k \in rules |-> EmptiedFields(p, q, k)]
    IN  [emptied |-> {k \in rules : empty[k] # {}},
         rules   |-> forced \cup byNat \cup {k \in rules : empty[k] # {}},
         alone   |-> forced \cup byNat \cup
                       {k \in rules : empty[k] \ p.m.c.rule[k].negated # {}}]

Outcome(p, q) ==
    LET taken == Translations(p, q) \ Trimmed(p, q)
        going == RulesGoing(p, q, {o.at : o \in taken})
    IN  [gone |-> q.gone, leaves |-> q.leaves, own |-> q.own, other |-> q.other,
         refs |-> {r \in p.m.refs : q.own[r] # {}}, trimmed |-> Trimmed(p, q), taken |-> taken,
         emptied |-> going.emptied, rules |-> going.rules, alone |-> going.alone]

\* Everything that goes.
Going(p) ==
    Outcome(p, Marked(p, [gone |-> GoneGroups(p), leaves |-> EffectiveCauses(p)]))

\* _propagate_plan_causes: the targets of each reference that goes, and of each
\* group, through every context they are read in.
HitsAnywhere(p, q, gone, r) ==
    q.own[r] \cup UNION {Hit(p, gone, l, r.name) : l \in p.m.contexts[r]}

Spread(p, q) ==
    LET groups == DOMAIN q.gone
        pass[i \in 0 .. Cardinality(groups)] ==
          IF i = 0 THEN q.gone
          ELSE LET prev == pass[i - 1]
               IN  [g \in groups |-> prev[g] \cup UNION
                     {HitsAnywhere(p, q, prev, r) : r \in {r \in p.m.refs : r.at = g}}]
    IN  pass[Cardinality(groups)]

(***************************************************************************)
(* Why a target is blocked                                                 *)
(***************************************************************************)
\* The wider literals a name is, where nothing of that name is defined.
Containing(p, contexts, n) ==
    {t \in p.live : /\ t.kind = "literal" /\ n \in DOMAIN WideOf /\ t.key[1] \in WideOf[n]
                    /\ \E l \in contexts : p.m.res[<<l, n>>].kind = "unresolved"}

\* Wrong on purpose: a reference is judged at its own location only.
RefBlameHere(p, q, r) ==
    IF r.at \in DOMAIN ForcedGroups(p) \cup DOMAIN ForcedRules(p) THEN {}
    ELSE Containing(p, {r.at[1]}, r.name)

\* _audit_effective_scope_references, references: one physical edit must mean
\* the same in every device group that inherits it.
RefBlame(p, q, r) ==
    LET contexts == p.m.contexts[r]
        hits     == [l \in contexts |-> Hit(p, q.gone, l, r.name)]
        all      == UNION Range(hits)
        wide     == Containing(p, IF contexts = {} THEN {r.at[1]} ELSE contexts, r.name)
    IN  IF r.at \in DOMAIN ForcedGroups(p) \cup DOMAIN ForcedRules(p) THEN {}
        ELSE wide \cup (IF r \notin q.refs THEN all
                        ELSE IF contexts = {} \/ \E l \in contexts : hits[l] = {}
                             THEN q.own[r] \cup all ELSE {})

\* The same audit for the other address values, and those that nothing removes.
OccurrenceBlame(p, q, o) ==
    LET contexts  == Below(p.m.c, o.at[1])
        hits      == [l \in contexts |-> OccurrenceHit(p, q, l, o.name)]
        inherited == UNION {hits[l] : l \in contexts \ {o.at[1]}}
        uneven    == \E l \in contexts : hits[l] = {}
    IN  Containing(p, contexts, o.name)
          \cup (IF o \in q.taken /\ uneven THEN q.other[o] \cup UNION Range(hits)
                ELSE IF o.at \in q.rules THEN {}
                ELSE (inherited \ hits[o.at[1]])
                       \cup (IF o \in q.trimmed THEN {} ELSE q.other[o]))

\* A negated field is only changed by deleting its rule for another reason.
NegatedBlame(p, q) ==
    UNION {q.own[r] : r \in {r \in q.refs :
             /\ r.of = "rule" /\ r.field \in p.m.c.rule[r.at].negated
             /\ r.at \notin q.alone}}

\* A group that loses a member must not contain itself, nor keep a member whose
\* meaning is unknown or dynamic.
GroupBlame(p, q, g) ==
    LET lost == {r \in q.refs : r.at = g}
        odd  == {r \in p.m.refs : /\ r.at = g
                                  /\ p.m.res[<<g[1], r.name>>].kind
                                       \in {"unresolved", "dynamic-group"}}
    IN  (IF g \in CyclicGroups(p.m) THEN UNION {q.own[r] : r \in lost} ELSE {})
          \cup (IF odd # {} THEN UNION {HitsAnywhere(p, q, q.gone, r) : r \in lost} ELSE {})

\* Whether an address belongs to a dynamic group is decided by the firewalls.
DynamicBlame(p) ==
    {t \in p.live : /\ t.kind = "address"
                    /\ \E g \in DOMAIN p.m.c.dyn, l \in Locations(p.m.c) :
                         /\ p.m.res[<<l, g[2]>>].key = g
                         /\ p.m.res[<<l, t.key[2]>>].key = t.key
                         /\ t.key \in p.m.c.dyn[g]}

\* The audit goes through the groups first and adds to the causes of those that
\* go (q1): rules and other values are judged with them.
BlockedWith(p, q, q1) ==
    CausesOf((UNION {RefBlame(p, q, r) : r \in {r \in p.m.refs : r.of = "group"}})
               \cup (UNION {RefBlame(p, q1, r) : r \in {r \in p.m.refs : r.of = "rule"}})
               \cup (UNION {OccurrenceBlame(p, q1, o) : o \in p.m.occurrences})
               \cup (UNION {GroupBlame(p, q1, g) : g \in DOMAIN p.m.c.grp})
               \cup NegatedBlame(p, q) \cup DynamicBlame(p))

Judged(p, q) ==
    [p |-> p, q |-> q, blocked |-> BlockedWith(p, q, [q EXCEPT !.gone = Spread(p, q)])]

(***************************************************************************)
(* The plan                                                                *)
(***************************************************************************)
Problem(m, ask, tokens, spare) ==
    LET p == [m |-> m, tokens |-> tokens, nat |-> ask.nat, prefer |-> ask.prefer,
              spare |-> spare, live |-> {}]
    IN  [p EXCEPT !.live = Live(p)]

\* A blocked cause takes all its tokens with it, until nothing more is blocked.
Settled(m, ask, asked, spare) ==
    LET judged(p) == Judged(p, Going(p))
        settle[tokens \in SUBSET asked] ==
          LET end == judged(Problem(m, ask, tokens, spare))
          IN  IF end.blocked \cap CausesOf(tokens) = {} THEN end
              ELSE settle[{t \in tokens : t.cause \notin end.blocked}]
    IN  settle[asked]

\* All that is in a rule that goes is a cause of it. The request to delete it is
\* forgotten when it would be emptied as well.
RuleCauses(p, q, gone, forced, k) ==
    (IF k \in DOMAIN forced /\ k \notin q.emptied THEN forced[k] ELSE {})
      \cup (UNION {HitsAnywhere(p, q, gone, r) : r \in {r \in p.m.refs : r.at = k}})
      \cup UNION {q.other[o] \cup UNION {OccurrenceHit(p, q, l, o.name) :
                                           l \in Below(p.m.c, k[1])} :
                    o \in {o \in p.m.occurrences : o.at = k}}

\* The plan: what goes, and every target that causes it.
PlanOf(p, q, gone, forced) ==
    [tokens |-> p.tokens,
     refs   |-> [r \in q.refs |-> HitsAnywhere(p, q, gone, r)],
     groups |-> gone,
     rules  |-> [k \in q.rules |-> RuleCauses(p, q, gone, forced, k)],
     addresses |-> {t \in p.live : t.kind = "address"}]

PlanAt(end) == PlanOf(end.p, end.q, Spread(end.p, end.q), ForcedRules(end.p))

Plan(m, ask, asked, spare) == PlanAt(Settled(m, ask, asked, spare))

\* _validate_final_plan: nothing that stays is empty or points at what goes.
Sound(m, plan) ==
    LET Leaves(r) == r \in DOMAIN plan.refs
        Stays(r)  == r.at \notin DOMAIN plan.groups \cup DOMAIN plan.rules
        targets   == DOMAIN plan.groups \cup {t.key : t \in plan.tokens}
    IN  \A r \in {r \in m.refs : Stays(r)} :
          /\ ~Leaves(r) => m.res[<<r.at[1], r.name>>].key \notin targets
          /\ Leaves(r) => \E s \in m.refs \ DOMAIN plan.refs :
                            s.at = r.at /\ s.field = r.field

=============================================================================
