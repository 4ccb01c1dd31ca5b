--------------------------- MODULE PanoramaConfig ---------------------------
(***************************************************************************)
(* The Panorama configuration as the cleaner's parser sees it             *)
(* (panorama_cleanup/panos.py), and the edits a patch set makes to it      *)
(* (panos_toolbox/restore.py, apply_operation_to_tree).                    *)
(*                                                                         *)
(* A configuration is a record:                                            *)
(*   up     device group -> the location it inherits from                  *)
(*   first  ancestor-objects-take-precedence                               *)
(*   addr   <<location, name>> -> the value of an address object           *)
(*   grp    <<location, name>> -> the member names of a static group       *)
(*   dyn    <<location, name>> -> the addresses the filter of a dynamic    *)
(*          group matches, or cannot be evaluated for                      *)
(*   rule   <<location, type, name>> -> a rule: the names in its source,   *)
(*          destination and other address fields, and its negated fields   *)
(*   order  <<location, type>> -> the rule names of that rulebase in order *)
(*                                                                         *)
(* One rulebase per location and policy type stands for its pre- and       *)
(* post-rulebase. Member lists are sets: only rules have an order that     *)
(* matters.                                                                *)
(***************************************************************************)
EXTENDS Naturals, Sequences, FiniteSets, SequencesExt, Functions

CONSTANTS
    Shared,   \* the location every device group inherits from
    HostOf,   \* the spellings of one exact host -> that host
    WideOf    \* the wider literals (subnet, range, wildcard) -> the hosts inside

Fields == {"source", "destination"}

Locations(c) == DOMAIN c.up \cup {Shared}

Defined(c) == DOMAIN c.addr \cup DOMAIN c.grp \cup DOMAIN c.dyn

\* Every name written anywhere in the configuration.
NamesIn(c) ==
    {k[2] : k \in Defined(c)} \cup (UNION Range(c.grp))
      \cup UNION {r.source \cup r.destination \cup r.other : r \in Range(c.rule)}

IsAFunction(f) == f = [x \in DOMAIN f |-> f[x]]

IsARule(r) ==
    IsAFunction(r) /\ Fields \subseteq DOMAIN r /\ \A f \in Fields : IsFiniteSet(r[f])

\* Panorama keeps one entry of a name: a rulebase lists each of its rules once, and
\* every rule it lists is there.
WellFormed(c) ==
    /\ IsAFunction(c)
    /\ DOMAIN c = {"up", "first", "addr", "grp", "dyn", "rule", "order"}
    /\ \A part \in {"addr", "grp", "rule", "order"} : IsAFunction(c[part])
    /\ \A part \in {"addr", "grp", "rule"} : IsFiniteSet(DOMAIN c[part])
    /\ \A g \in DOMAIN c.grp : g = <<g[1], g[2]>> /\ IsFiniteSet(c.grp[g])
    /\ \A k \in DOMAIN c.rule :
         k = <<k[1], k[2], k[3]>> /\ k[3] # "" /\ IsARule(c.rule[k])
    /\ \A b \in DOMAIN c.order :
         /\ b = <<b[1], b[2]>>
         /\ c.order[b] \in Seq(Range(c.order[b])) /\ IsInjective(c.order[b])
         /\ \A n \in Range(c.order[b]) : <<b[1], b[2], n>> \in DOMAIN c.rule

\* parse_config refuses a name with two meanings in one location and a rule
\* without a source or a destination.
Parsable(c) ==
    /\ DOMAIN c.addr \cap DOMAIN c.grp = {}
    /\ DOMAIN c.dyn \cap (DOMAIN c.addr \cup DOMAIN c.grp) = {}
    /\ \A r \in Range(c.rule) : r.source # {} /\ r.destination # {}

(***************************************************************************)
(* Which definition a name means at a location                             *)
(***************************************************************************)
ScopeChain(c, location) ==
    LET chain[l \in Locations(c)] ==
          IF l = Shared THEN <<l>> ELSE <<l>> \o chain[c.up[l]]
    IN  chain[location]

ResolutionChain(c, location) ==
    IF c.first THEN Reverse(ScopeChain(c, location)) ELSE ScopeChain(c, location)

KindOf(c, key) ==
    IF key \in DOMAIN c.addr THEN "address"
    ELSE IF key \in DOMAIN c.grp THEN "static-group" ELSE "dynamic-group"

\* The nearest definition in the chain, else the exact host spelt out.
Resolve(c, location, name) ==
    LET scopes == SelectSeq(ResolutionChain(c, location),
                            LAMBDA l : <<l, name>> \in Defined(c))
    IN  IF name = "any" THEN [kind |-> "builtin", key |-> <<>>]
        ELSE IF scopes # <<>>
        THEN [kind |-> KindOf(c, <<Head(scopes), name>>), key |-> <<Head(scopes), name>>]
        ELSE IF name \in DOMAIN HostOf
        THEN [kind |-> "literal", key |-> <<HostOf[name]>>]
        ELSE [kind |-> "unresolved", key |-> <<>>]

\* A location and everything that inherits from it.
Below(c, location) ==
    {l \in Locations(c) : location \in Range(ScopeChain(c, l))}

\* A reference: the name a group or a rule writes in a field.
References(c) ==
    {[of |-> "group", at |-> k, field |-> "static", name |-> n] :
        k \in DOMAIN c.grp, n \in UNION Range(c.grp)}
      \cup {[of |-> "rule", at |-> k, field |-> f, name |-> n] :
        k \in DOMAIN c.rule, f \in Fields, n \in NamesIn(c)}

Written(c, ref) ==
    IF ref.of = "group" THEN ref.name \in c.grp[ref.at]
    ELSE ref.name \in c.rule[ref.at][ref.field]

\* The contexts a reference is read in: a group only where its own name means it.
ReadIn(c, res, r) ==
    {l \in Below(c, r.at[1]) : r.of = "group" => res[<<l, r.at[2]>>].key = r.at}

\* The address values of rules outside source and destination.
Occurrences(c) ==
    {o \in [at : DOMAIN c.rule, name : NamesIn(c)] : o.name \in c.rule[o.at].other}

\* The parsed model: the configuration, the names resolved once, the references
\* with their contexts, and the other address values.
Model(c) ==
    LET res  == [p \in Locations(c) \X NamesIn(c) |-> Resolve(c, p[1], p[2])]
        refs == {r \in References(c) : Written(c, r)}
    IN  [c |-> c, res |-> res, refs |-> refs,
         contexts    |-> [r \in refs |-> ReadIn(c, res, r)],
         occurrences |-> Occurrences(c)]

\* The address objects whose value is exactly this host.
ExactObjects(c, host) ==
    {k \in DOMAIN c.addr : c.addr[k] \in DOMAIN HostOf /\ HostOf[c.addr[k]] = host}

\* The groups that contain themselves through their members.
CyclicGroups(m) ==
    LET groups  == DOMAIN m.c.grp
        inner   == [g \in groups |->
                      {m.res[<<g[1], n>>].key : n \in m.c.grp[g]} \cap groups]
        reach[i \in 0 .. Cardinality(groups)] ==
          IF i = 0 THEN inner
          ELSE LET r == reach[i - 1]
               IN  [g \in groups |-> r[g] \cup UNION {r[x] : x \in r[g]}]
    IN  {g \in groups : g \in reach[Cardinality(groups)][g]}

(***************************************************************************)
(* Edits                                                                   *)
(***************************************************************************)
Without(f, k) == [x \in DOMAIN f \ {k} |-> f[x]]
With(f, k, v) == [x \in DOMAIN f \cup {k} |-> IF x = k THEN v ELSE f[x]]

Base(k) == <<k[1], k[2]>>

\* The elements of a set, each after those that come before it, as far as there is
\* one with none before it left.
InOrder(set, before) ==
    LET line[rest \in SUBSET set] ==
          LET first == {x \in rest : \A y \in rest : <<y, x>> \notin before}
          IN  IF first = {} THEN <<>>
              ELSE LET x == CHOOSE x \in first : TRUE IN <<x>> \o line[rest \ {x}]
    IN  line[set]

InSomeOrder(set) == InOrder(set, {})

\* The elements of a sequence that are in a set, in their order.
Among(seq, set) ==
    LET kept[i \in 0 .. Len(seq)] ==
          IF i = 0 THEN <<>>
          ELSE IF seq[i] \in set THEN Append(kept[i - 1], seq[i]) ELSE kept[i - 1]
    IN  kept[Len(seq)]

\* The rulebase a rule is in, its place there, and the rules before and after it.
RuleNames(c, k) == IF Base(k) \in DOMAIN c.order THEN c.order[Base(k)] ELSE <<>>

PlaceOf(c, k) == CHOOSE i \in DOMAIN RuleNames(c, k) : RuleNames(c, k)[i] = k[3]

Beside(c, k) ==
    LET names == RuleNames(c, k)
        i == PlaceOf(c, k)
    IN  <<IF i > 1 THEN names[i - 1] ELSE "", IF i < Len(names) THEN names[i + 1] ELSE "">>

\* What the target of a mutation is: present with a value, or absent. A mutation
\* names an entity (type, at) or one member of it (type, at, field, name).
IsMember(x) == x.type \in {"policy-member", "group-member"}

Holds(c, x) ==
    CASE x.type = "policy-member" -> x.at \in DOMAIN c.rule /\ x.name \in c.rule[x.at][x.field]
      [] x.type = "group-member"  -> x.at \in DOMAIN c.grp /\ x.name \in c.grp[x.at]
      [] x.type = "policy"        -> x.at \in DOMAIN c.rule
      [] x.type = "group"         -> x.at \in DOMAIN c.grp \cup DOMAIN c.dyn
      [] x.type = "address"       -> x.at \in DOMAIN c.addr

\* The target is there as it was in the configuration was.
HoldsAsIn(c, was, x) ==
    /\ Holds(c, x)
    /\ x.type = "policy"  => c.rule[x.at] = was.rule[x.at]
    /\ x.type = "group"   => x.at \in DOMAIN c.grp /\ c.grp[x.at] = was.grp[x.at]
    /\ x.type = "address" => c.addr[x.at] = was.addr[x.at]

\* Wrong on purpose: a name always goes from the source of its rule.
TakeOutOfSource(c, x) ==
    CASE x.type = "policy-member" -> [c EXCEPT !.rule[x.at]["source"] = @ \ {x.name}]
      [] x.type = "group-member"  -> [c EXCEPT !.grp[x.at] = @ \ {x.name}]
      [] x.type = "policy"        ->
           [c EXCEPT !.rule = Without(@, x.at),
                     !.order[Base(x.at)] = RemoveFirst(@, x.at[3])]
      [] x.type = "group"         -> [c EXCEPT !.grp = Without(@, x.at)]
      [] x.type = "address"       -> [c EXCEPT !.addr = Without(@, x.at)]

TakeOut(c, x) ==
    CASE x.type = "policy-member" -> [c EXCEPT !.rule[x.at][x.field] = @ \ {x.name}]
      [] x.type = "group-member"  -> [c EXCEPT !.grp[x.at] = @ \ {x.name}]
      [] x.type = "policy"        ->
           [c EXCEPT !.rule = Without(@, x.at),
                     !.order[Base(x.at)] = RemoveFirst(@, x.at[3])]
      [] x.type = "group"         -> [c EXCEPT !.grp = Without(@, x.at)]
      [] x.type = "address"       -> [c EXCEPT !.addr = Without(@, x.at)]

\* Whether SET finds the entry a member goes into, and MOVE its destination.
CanPutBack(c, x) ==
    CASE x.type = "policy-member" -> x.at \in DOMAIN c.rule
      [] x.type = "group-member"  -> x.at \in DOMAIN c.grp
      [] x.type = "policy"        -> x.before = "" \/ x.before \in Range(RuleNames(c, x.at))
      [] OTHER                    -> TRUE

\* Wrong on purpose: SET without the MOVE.
AtTheEnd(names, n, before) == Append(names, n)

InFrontOf(names, n, before) ==
    IF before = "" THEN Append(names, n)
    ELSE InsertAt(names, CHOOSE i \in DOMAIN names : names[i] = before, n)

\* SET with the old XML, which adds at the end; a rule is then moved before the
\* rule that followed it, or to the bottom.
PutBack(c, was, x) ==
    CASE x.type = "policy-member" -> [c EXCEPT !.rule[x.at][x.field] = @ \cup {x.name}]
      [] x.type = "group-member"  -> [c EXCEPT !.grp[x.at] = @ \cup {x.name}]
      [] x.type = "policy"        ->
           [c EXCEPT !.rule = With(@, x.at, was.rule[x.at]),
                     !.order[Base(x.at)] = InFrontOf(@, x.at[3], x.before)]
      [] x.type = "group"         -> [c EXCEPT !.grp = With(@, x.at, was.grp[x.at])]
      [] x.type = "address"       -> [c EXCEPT !.addr = With(@, x.at, was.addr[x.at])]

=============================================================================
