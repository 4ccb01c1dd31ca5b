----------------------------- MODULE CleanupCycle -----------------------------
(***************************************************************************)
(* Cleanups and restores planned, cut down, written and committed on one   *)
(* Panorama: what the planners of CleanupPatchset and RestorePlanner do    *)
(* to a configuration when their plans are applied one mutation at a time, *)
(* with failures, and with edits by other administrators in between.       *)
(*                                                                         *)
(* Locks, jobs, reviews and crashes are the subject of Toolbox: here an    *)
(* application holds its locks from start to end, and a commit takes the   *)
(* whole candidate. A session that plans nothing is not followed.          *)
(*                                                                         *)
(* A scene is a starting configuration (config), the requests made of it   *)
(* (asks), the edits of others, each made at most once (edits), and the    *)
(* number of sessions (sessions). A session is a record:                   *)
(*   kind, state, ask                                                      *)
(*   root     a cleanup planned by the planner, not cut from another plan  *)
(*   was      the configuration its targets were planned on                *)
(*   pre      the candidate it is written to                               *)
(*   patch    the mutations planned; applied: those of the components kept *)
(*   sources  of a restore: the cleanups it takes back, with their states  *)
(*   seen     of a restore: the history it was planned with                *)
(*   causes, guarded   of a restore: what a later cleanup must not touch   *)
(***************************************************************************)
EXTENDS RestorePlanner

CONSTANTS
    Scenes,       \* name -> scene
    MaxFails      \* how many edits Panorama refuses

\* An edit of another administrator; a rule it adds has a name and fields.
FitEdit(e) ==
    /\ e.what \in {"address", "group", "rule", "first"}
    /\ e.what = "group" => e.at = <<e.at[1], e.at[2]>> /\ IsFiniteSet(e.names)
    /\ e.what = "rule" =>
         e.at = <<e.at[1], e.at[2], e.at[3]>> /\ e.at[3] # "" /\ IsARule(e.rule)

ASSUME ScenesAssumption ==
  \A s \in Range(Scenes) :
    /\ Parsable(s.config) /\ WellFormed(s.config) /\ s.sessions \in Nat
    /\ \A ask \in s.asks : IsFiniteSet(ask.ips)
    /\ \A k \in DOMAIN s.edits : FitEdit(s.edits[k])

ASSUME MaxFailsAssumption == MaxFails \in Nat

VARIABLES
    scene,      \* the name of the scene
    running, candidate,
    sessions,   \* the sessions, in the order they were planned
    line,       \* the applied sessions, in the order they were applied
    work,       \* the application in progress: its session (0: none), the
                \* mutations to write, those written, and whether it undoes them
    edits,      \* the edits not made yet
    fails       \* the refusals so far

vars == <<scene, running, candidate, sessions, line, work, edits, fails>>

Idle == work.id = 0

NoWork == [id |-> 0, todo |-> <<>>, done |-> <<>>, undo |-> FALSE]

Session(kind, ask, was, patch) ==
    [kind |-> kind, state |-> "PLANNED", ask |-> ask, root |-> TRUE, was |-> was,
     pre |-> was, patch |-> patch, applied |-> <<>>, sources |-> {}, seen |-> {},
     causes |-> {}, guarded |-> {}]

Stable == {"CANDIDATE_APPLIED", "PARTIAL", "COMMITTED"}

Init ==
    /\ scene \in DOMAIN Scenes
    /\ running = Scenes[scene].config
    /\ candidate = running
    /\ sessions = <<>>
    /\ line = <<>>
    /\ work = NoWork
    /\ edits = DOMAIN Scenes[scene].edits
    /\ fails = 0

(***************************************************************************)
(* Planning a cleanup                                                      *)
(***************************************************************************)
HasRoom == Idle /\ Len(sessions) < Scenes[scene].sessions

Publish(s) ==
    /\ sessions' = Append(sessions, s)
    /\ UNCHANGED <<scene, running, candidate, line, work, edits, fails>>

\* plan_cleanup_session, on running.
PlanCleanup(ask) ==
    /\ HasRoom
    /\ Parsable(running)
    /\ \E m \in {Model(running)} : \E plan \in {SafePlan(m, ask)} :
         /\ CanBePatched(m, plan)
         /\ \E patch \in {Patch(m, plan)} :
              patch # <<>> /\ Publish(Session("cleanup", ask, running, patch))

\* What of a request has one of these causes.
AskFor(ask, causes) ==
    [ask EXCEPT !.ips      = {h \in @ : <<"ip", h>> \in causes},
                !.objects  = {n \in @ : <<"object", n>> \in causes},
                !.groups   = {n \in @ : <<"group", n>> \in causes},
                !.policies = {n \in @ : <<"policy", n>> \in causes}]

\* _create_cleanup_child_plan: whole components, on the parent's snapshots. The
\* rest of an exclusion keeps the parent's request, a selection its own part.
Child(s, patch, ask) ==
    /\ HasRoom
    /\ s.kind = "cleanup" /\ s.state = "PLANNED"
    /\ patch # <<>> /\ patch # s.patch
    /\ Publish([s EXCEPT !.patch = patch, !.root = FALSE, !.ask = ask])

SelectTarget(s, cause) ==
    LET patch == Selected(s.patch, {cause}) IN Child(s, patch, AskFor(s.ask, Causes(patch)))

ExcludeTarget(s, cause) == Child(s, Excluded(s.patch, {cause}, {}), s.ask)

(***************************************************************************)
(* Planning a restore                                                      *)
(***************************************************************************)
\* iter_applied_cleanup_history
HistoryIds ==
    Among(line, {i \in DOMAIN sessions :
                   sessions[i].kind = "cleanup" /\ sessions[i].state \in Stable})

History ==
    [j \in DOMAIN HistoryIds |->
       LET i == HistoryIds[j]
           s == sessions[i]
       IN  [id |-> i, was |-> s.was, pre |-> s.pre, patch |-> s.applied, ask |-> s.ask,
            final |-> s.state = "COMMITTED"]]

NoUnknownCleanup ==
    \A s \in Range(sessions) : s.kind = "cleanup" => s.state # "OUTCOME_UNKNOWN"

\* What can be asked for: a session of the history, or a target.
Selections(g) ==
    {TiedTo(g, SeedsOf(g, h.id)) : h \in Range(g.history)}
      \cup {TiedTo(g, SeedsFor(g, {cause})) :
              cause \in UNION {r.x.causes : r \in Range(g.records)}}

\* plan_restore_session. The cleanup history is read again under the locks of its
\* sources before the plan is published, and must not have changed: the plan is one
\* step. An edit between the reads of running and candidate is one before both, as
\* it leaves running alone; a restore committed between them is not modelled.
PlanRestore ==
    /\ HasRoom
    /\ NoUnknownCleanup
    /\ HistoryIds # <<>>
    /\ Parsable(running) /\ Parsable(candidate)
    /\ \E g \in {Graph(History)} : \E selected \in Selections(g) :
       \E plan \in {RestorePlan(g, selected, running, candidate)} :
         LET sources == {g.history[g.records[i].from].id : i \in selected}
             state   == IF plan.patch # <<>> THEN "PLANNED"
                        ELSE IF plan.bad # {} THEN "CONFLICT" ELSE "RESTORED"
             s == Session("restore", sessions[HistoryIds[1]].ask, candidate, plan.patch)
         IN  Publish([s EXCEPT !.state   = state,
                               !.sources = {<<i, sessions[i].state>> : i \in sources},
                               !.seen    = Range(HistoryIds),
                               !.causes  = plan.causes,
                               !.guarded = plan.guarded])

(***************************************************************************)
(* Applying a plan                                                         *)
(***************************************************************************)
Forward(s, c, x) ==
    IF s.kind = "cleanup" THEN TakeOut(c, x) ELSE PutBack(c, sessions[x.from].was, x)

Backward(s, c, x) == IF s.kind = "cleanup" THEN PutBack(c, s.was, x) ELSE TakeOut(c, x)

\* The configuration the targets of a session are as they should be in.
After(s) == FoldLeft(LAMBDA c, x : Forward(s, c, x), s.was, s.patch)

\* _restore_history_conflicts: the cleanups a restore takes back are as they were,
\* all that happened is known, and no later cleanup touched what it relies on.
HistoryMoved(s) ==
    \/ \E p \in s.sources : sessions[p[1]].state # p[2]
    \/ ~NoUnknownCleanup
    \/ ~(s.seen \subseteq Range(HistoryIds))
    \/ \E i \in Range(HistoryIds) \ s.seen : \E x \in Range(sessions[i].applied) :
         x.causes \cap s.causes # {} \/ x.at \in s.guarded

\* Wrong on purpose: what is planned again is not compared.
HeldBackByReplan(s) ==
    IF s.kind = "restore" THEN (IF HistoryMoved(s) THEN Components(s.patch) ELSE {})
    ELSE IF s.root THEN ReplanConflicts(s.patch, s.ask, s.was, candidate) ELSE {}

\* The components the candidate does not let through.
HeldBack(s) ==
    IF s.kind = "restore" /\ HistoryMoved(s) THEN Components(s.patch)
    ELSE PreconditionConflicts(s.patch, s.was, candidate)
           \cup (IF s.kind = "cleanup" /\ s.root
                 THEN ReplanConflicts(s.patch, s.ask, s.was, candidate) ELSE {})

\* Wrong on purpose: what is held back counts as applied.
BeginAll(i, safe) ==
    /\ sessions' = [sessions EXCEPT ![i].state = "WRITING", ![i].pre = candidate,
                                    ![i].applied = sessions[i].patch]
    /\ work' = [NoWork EXCEPT !.id = i, !.todo = safe]

\* Nothing is left to write, or what is left is written.
Begin(i, safe) ==
    IF safe = <<>>
    THEN /\ sessions' = [sessions EXCEPT ![i].state = "CONFLICT"]
         /\ work' = work
    ELSE /\ sessions' = [sessions EXCEPT ![i].state = "WRITING", ![i].pre = candidate,
                                         ![i].applied = safe]
         /\ work' = [NoWork EXCEPT !.id = i, !.todo = safe]

BeginApply(i) ==
    LET s == sessions[i] IN
    /\ Idle
    /\ s.state = "PLANNED"
    /\ Begin(i, Keeping(s.patch, Components(s.patch) \ HeldBack(s)))
    /\ UNCHANGED <<scene, running, candidate, line, edits, fails>>

Writing == work.id # 0 /\ ~work.undo

\* Panorama does not give a name two meanings in one location.
Accepted(c) == DOMAIN c.addr \cap (DOMAIN c.grp \cup DOMAIN c.dyn) = {}

NextCandidate == Forward(sessions[work.id], candidate, Head(work.todo))

Write ==
    /\ Writing /\ work.todo # <<>>
    /\ Accepted(NextCandidate)
    /\ candidate' = NextCandidate
    /\ work' = [work EXCEPT !.todo = Tail(@), !.done = Append(@, Head(work.todo))]
    /\ UNCHANGED <<scene, running, sessions, line, edits, fails>>

\* Validated, and every target found as planned.
FinishApply ==
    LET s == sessions[work.id] IN
    /\ Writing /\ work.todo = <<>>
    /\ AsExpected(s.applied, After(s), candidate)
    /\ sessions' = [sessions EXCEPT ![work.id].state =
                      IF Len(s.applied) < Len(s.patch) THEN "PARTIAL"
                      ELSE IF s.kind = "restore" THEN "RESTORED" ELSE "CANDIDATE_APPLIED"]
    /\ line' = Append(line, work.id)
    /\ work' = NoWork
    /\ UNCHANGED <<scene, running, candidate, edits, fails>>

\* An edit is refused, a rule that was set is not moved, or the candidate does not
\* validate or is not as planned: what was written is undone.
Refuse ==
    /\ Writing
    /\ \/ /\ fails < MaxFails /\ fails' = fails + 1
          /\ work' = [work EXCEPT !.undo = TRUE]
          /\ UNCHANGED candidate
       \/ /\ work.todo # <<>> /\ ~Accepted(NextCandidate)
          /\ work' = [work EXCEPT !.undo = TRUE]
          /\ UNCHANGED <<candidate, fails>>
       \/ /\ fails < MaxFails /\ fails' = fails + 1
          /\ work.todo # <<>> /\ sessions[work.id].kind = "restore"
          /\ Head(work.todo).type = "policy"
          /\ candidate' = Forward(sessions[work.id], candidate,
                                  [Head(work.todo) EXCEPT !.before = ""])
          /\ work' = [work EXCEPT !.undo = TRUE, !.done = Append(@, Head(work.todo))]
    /\ UNCHANGED <<scene, running, sessions, line, edits>>

\* _rollback: the last mutation first.
CanUndo ==
    /\ work.undo /\ work.done # <<>>
    /\ sessions[work.id].kind = "cleanup" => CanPutBack(candidate, Last(work.done))

Undo ==
    /\ CanUndo
    /\ candidate' = Backward(sessions[work.id], candidate, Last(work.done))
    /\ work' = [work EXCEPT !.done = Front(@)]
    /\ UNCHANGED <<scene, running, sessions, line, edits, fails>>

EndsAs(state) ==
    /\ sessions' = [sessions EXCEPT ![work.id].state = state]
    /\ work' = NoWork
    /\ UNCHANGED <<scene, running, line, edits>>

FinishUndo ==
    LET s == sessions[work.id] IN
    /\ work.undo /\ work.done = <<>>
    /\ EndsAs(IF AsExpected(s.applied, s.pre, candidate) THEN "FAILED" ELSE "OUTCOME_UNKNOWN")
    /\ UNCHANGED <<candidate, fails>>

\* A deleted rule that has been set again and not been moved.
AtTheBottom(x) == [type |-> "policy", at |-> x.at, before |-> ""]

\* The undo itself is refused: the whole of a mutation, or the move of a rule.
FailUndo ==
    LET s == sessions[work.id]
        x == Last(work.done)
    IN
    /\ work.undo /\ work.done # <<>>
    /\ IF CanUndo THEN fails < MaxFails /\ fails' = fails + 1 ELSE UNCHANGED fails
    /\ EndsAs("OUTCOME_UNKNOWN")
    /\ \/ UNCHANGED candidate
       \/ /\ s.kind = "cleanup" /\ x.type = "policy"
          /\ candidate' = PutBack(candidate, s.was, AtTheBottom(x))

Commit(i) ==
    /\ Idle
    /\ sessions[i].state \in {"CANDIDATE_APPLIED", "PARTIAL", "RESTORED"}
    /\ sessions[i].applied # <<>>
    /\ running' = candidate
    /\ sessions' = [sessions EXCEPT ![i].state = "COMMITTED"]
    /\ UNCHANGED <<scene, candidate, line, work, edits, fails>>

(***************************************************************************)
(* Other administrators                                                    *)
(***************************************************************************)
\* An edit defines an address or a group, adds a rule in front of another, or a
\* name to a field, or turns the precedence of ancestors over.
Edited(c, e) ==
    CASE e.what = "address" -> [c EXCEPT !.addr = With(@, e.at, e.value)]
      [] e.what = "group"   -> [c EXCEPT !.grp = With(@, e.at, e.names)]
      [] e.what = "rule"    ->
           [c EXCEPT !.rule = With(@, e.at, e.rule),
                     !.order[Base(e.at)] = InFrontOf(@, e.at[3], e.before)]
      [] e.what = "first"   -> [c EXCEPT !.first = ~@]

\* A rule is put in front of one that is there, and nothing is defined twice.
CanEdit(c, e) ==
    /\ e.what \in {"address", "group"} => e.at \notin Defined(c)
    /\ e.what = "rule" => /\ e.at \notin DOMAIN c.rule
                          /\ e.before \in {""} \cup Range(c.order[Base(e.at)])

Edit(k) ==
    LET e == Scenes[scene].edits[k] IN
    /\ Idle
    /\ CanEdit(candidate, e)
    /\ candidate' = Edited(candidate, e)
    /\ edits' = edits \ {k}
    /\ UNCHANGED <<scene, running, sessions, line, work, fails>>

(***************************************************************************)
(* The specification                                                       *)
(***************************************************************************)
Next ==
    \/ \E ask \in Scenes[scene].asks : PlanCleanup(ask)
    \/ \E s \in Range(sessions) : \E cause \in Causes(s.patch) :
         SelectTarget(s, cause) \/ ExcludeTarget(s, cause)
    \/ PlanRestore
    \/ \E i \in DOMAIN sessions : BeginApply(i) \/ Commit(i)
    \/ Write \/ FinishApply \/ Refuse \/ Undo \/ FinishUndo \/ FailUndo
    \/ \E k \in edits : Edit(k)

Spec == Init /\ [][Next]_vars

(***************************************************************************)
(* Properties                                                              *)
(***************************************************************************)
States == Stable \cup {"PLANNED", "WRITING", "RESTORED", "CONFLICT", "FAILED", "OUTCOME_UNKNOWN"}

\* The application in progress is of the one session that is being written: what it
\* has written and has still to write, or has still to undo, are the mutations of the
\* kept components of its plan, in their order.
TypeOK ==
    /\ scene \in DOMAIN Scenes /\ edits \subseteq DOMAIN Scenes[scene].edits
    /\ fails \in 0 .. MaxFails
    /\ \A i \in DOMAIN sessions :
         /\ sessions[i].state \in States
         /\ sessions[i].state = "WRITING" <=> work.id = i
         /\ i \in Range(line) <=> sessions[i].state \in Stable \cup {"RESTORED"}
                                    /\ sessions[i].applied # <<>>
    /\ ~Idle => LET applied == sessions[work.id].applied
                IN  IF work.undo
                    THEN IsPrefix(work.done, applied)
                    ELSE work.done \o work.todo = applied

\* What the planners promise of a patch, on the configuration was it was planned on.
\* No target comes twice, and an entry that goes as a whole loses no member before.
Distinct(x, y) ==
    Owner(x) = Owner(y) =>
      /\ IsMember(x) /\ IsMember(y)
      /\ x.name = y.name => x.type = "policy-member" /\ x.field # y.field

InOneRulebase(x, y) == x.type = "policy" /\ y.type = "policy" /\ Base(x.at) = Base(y.at)

\* A rule that goes keeps its place in its rulebase, and goes before the rule it will
\* be moved before.
CleanupFits(s) ==
    /\ \A x \in Range(s.patch) :
         /\ HoldsAsIn(s.was, s.was, x)
         /\ x.type = "policy" =>
              /\ x.among = RuleNames(s.was, x.at)
              /\ InPlace(s.was, x, {}) /\ x.before = x.next
    /\ \A i, j \in DOMAIN s.patch : i < j =>
         /\ Distinct(s.patch[i], s.patch[j])
         /\ InOneRulebase(s.patch[i], s.patch[j]) =>
              s.patch[i].at[3] # s.patch[j].before

\* A restore puts back what its source took and is still gone: an entry before its
\* members, as it was without them, and a rule after the rule it is moved before.
RestoreFits(s) ==
    /\ \A x \in Range(s.patch) :
         /\ ~Holds(s.was, x)
         /\ x.from \in DOMAIN sessions
         /\ HoldsAsIn(sessions[x.from].was, sessions[x.from].was, x)
         /\ x.type = "policy" => x.among = RuleNames(s.was, x.at)
    /\ \A i, j \in DOMAIN s.patch : i < j =>
         LET x == s.patch[i]
             y == s.patch[j]
         IN  IF Owner(x) = Owner(y) /\ IsMember(y) /\ ~IsMember(x)
             THEN ~Holds(sessions[x.from].was, y)
             ELSE Distinct(x, y)
    /\ \A j \in DOMAIN s.patch :
         LET y == s.patch[j]
         IN  y.type = "policy" =>
               y.before \in {""} \cup Range(RuleNames(s.was, y.at))
                 \cup {x.at[3] : x \in {s.patch[i] : i \in {i \in 1 .. j - 1 :
                         /\ InOneRulebase(s.patch[i], y)
                         /\ s.patch[i].component = y.component}}}

Fits(s) ==
    /\ s.patch \in Seq(Range(s.patch))
    /\ \A x \in Range(s.patch) :
         /\ DOMAIN x = DOMAIN Mutation(x.type, x.at, {})
         /\ x.type \in {"policy-member", "group-member", "policy", "group", "address"}
         /\ x.type = "policy-member" => x.field \in Fields
    /\ IF s.kind = "cleanup" THEN CleanupFits(s) ELSE RestoreFits(s)

\* A plan can be written one mutation at a time and taken back from wherever it stops:
\* each mutation finds its target as it was when it was planned, whatever those before
\* it did, and whichever components are left out.
PlansFit == \A s \in Range(sessions) : Fits(s)

\* A mutation is never written over something else: whatever was written before it, what
\* it takes out is as it was when it was planned, and what it puts back is not there. The
\* candidate is only compared with the plan once, before the first of them
\* (_apply_candidate_unlocked, engine.py).
FindsItsTarget ==
    Writing /\ work.todo # <<>> =>
      LET s == sessions[work.id]
          x == Head(work.todo)
      IN  IF s.kind = "cleanup" THEN HoldsAsIn(candidate, s.was, x) ELSE ~Holds(candidate, x)

\* An undo is never stopped by what it finds: the entry a member goes back into and the
\* rule a rule is moved before are there when their turn comes, whatever was left out and
\* wherever the application was refused (_rollback, engine.py; prev, next and the order
\* of the mutations, cleaner_adapter.py).
UndoFindsItsWay == work.undo /\ work.done # <<>> => CanUndo

\* No candidate, halfway through an application or an undo included, holds a name
\* that means nothing in one of the device groups that read it, or an empty group or
\* field: the order of the mutations, the contexts of the planner, the checks against
\* the candidate and the guard of a restore have to add up (cleaner_adapter.py,
\* engine.py, service.py). A child plan written to another candidate than its parent
\* was planned on is left out: see PlannedAgain.
NothingDangles ==
    (\A s \in Range(sessions) : s.root \/ s.applied = <<>> \/ s.pre = s.was) =>
    /\ Parsable(candidate)
    /\ \A g \in DOMAIN candidate.grp : candidate.grp[g] # {}
    /\ \A m \in {Model(candidate)} :
         /\ \A r \in m.refs : \A l \in m.contexts[r] : m.res[<<l, r.name>>].kind # "unresolved"
         /\ \A o \in m.occurrences : \A l \in Below(candidate, o.at[1]) :
              m.res[<<l, o.name>>].kind # "unresolved"

\* Every rulebase keeps the order it had at the start among the rules that are left:
\* whatever was deleted, undone or restored, and whatever others put in between. One
\* refusal never costs the order: only when the undo of a refused move is refused as
\* well does a rule stay at the bottom.
OrderKept ==
    Idle /\ fails < 2 =>
      \A b \in DOMAIN candidate.order :
        LET start == Scenes[scene].config.order[b]
            left  == SelectSeq(candidate.order[b], LAMBDA n : n \in Range(start))
        IN  left = SelectSeq(start, LAMBDA n : n \in Range(left))

\* What names mean in a context: the addresses, hosts and dynamic groups they come to.
Leaves(m, l, names) ==
    LET grow[i \in 0 .. Cardinality(DOMAIN m.c.grp)] ==
          IF i = 0 THEN {m.res[<<l, n>>] : n \in names}
          ELSE LET now == grow[i - 1]
               IN  now \cup UNION {{m.res[<<l, n>>] : n \in m.c.grp[r.key]} :
                                     r \in {r \in now : r.kind = "static-group"}}
    IN  {r \in grow[Cardinality(DOMAIN m.c.grp)] : r.kind # "static-group"}

\* The leaves a request may take.
Targeted(m, ask) ==
    {[kind |-> t.kind, key |-> t.key] :
        t \in {t \in AskedTokens(m, ask) : t.kind \in {"address", "literal"}}}
      \cup UNION {Leaves(m, l, m.c.grp[g]) :
                    l \in Locations(m.c), g \in {g \in DOMAIN m.c.grp : g[2] \in ask.groups}}

Ends(kind) == FinishApply /\ sessions[work.id].kind = kind

\* A cleanup changes what the rules it leaves behind mean by its targets and by
\* nothing else, in every device group that inherits them: no address comes in, only
\* targets go, and a negated field is as it was.
MeaningKept ==
    [][Ends("cleanup") =>
         LET s == sessions[work.id] IN
         \A m \in {Model(s.pre)}, n \in {Model(candidate)} : \A k \in DOMAIN candidate.rule :
           \A f \in Fields : \A l \in Below(candidate, k[1]) :
             LET before == Leaves(m, l, s.pre.rule[k][f])
                 now    == Leaves(n, l, candidate.rule[k][f])
             IN  /\ now \subseteq before
                 /\ before \ now \subseteq Targeted(m, s.ask)
                 /\ f \in candidate.rule[k].negated =>
                      candidate.rule[k][f] = s.pre.rule[k][f]]_vars

\* A cleanup written completely leaves nothing to do for its targets: planned again,
\* the request finds no mutation for them.
TargetsGone ==
    [][Ends("cleanup") =>
         LET s == sessions[work.id] IN
         s.root /\ Len(s.applied) = Len(s.patch) =>
           Causes(CleanupPatch(Model(candidate), s.ask)) \cap Causes(s.patch) = {}]_vars

Spared(ask, c) == ReadOnlyRules(c) \cup (IF ask.override THEN {} ELSE DefaultRules(c))

\* What the protection rests on: no group is asked for, no address object in two ways,
\* no protected rule by its name, and no target that the first plan blocked comes back
\* when the plan is made again without those that touch a protected rule.
PlainlyAsked(m, ask) ==
    LET asked == AskedTokens(m, ask)
    IN  /\ ask.groups = {}
        /\ \A t, u \in asked : t.kind = "address" /\ u.kind = "address" /\ t.key = u.key => t = u
        /\ \A t \in asked : t.kind = "policy" =>
             t.key[1] \notin {k[3] : k \in Spared(ask, m.c)}
        /\ SafePlan(m, ask).tokens \subseteq Plan(m, ask, asked, {}).tokens

KeepsRules(rules) == \A k \in rules : k \in DOMAIN candidate'.rule /\ candidate'.rule[k] = candidate.rule[k]

\* Rules that are not to be modified stay as they are: Application Override always,
\* DEFAULT unless the operator overrides it. The second plan, without the targets that
\* touch one, must not reach one through others (cleaner_adapter.py); it is not looked
\* at again, so this holds of requests that are plainly asked: see DefaultIsBoundary.
ProtectedUntouched ==
    [][Write /\ sessions[work.id].kind = "cleanup" =>
         \/ KeepsRules(Spared(sessions[work.id].ask, candidate))
         \/ \E s \in Range(sessions) :
              s.root /\ s.kind = "cleanup" /\ ~PlainlyAsked(Model(s.was), s.ask)]_vars

\* Without the override a DEFAULT rule is not modified (README.md, section on DEFAULT;
\* build_cleanup_patchset, cleaner_adapter.py), whatever was asked for.
DefaultIsBoundary ==
    [][Write /\ sessions[work.id].kind = "cleanup" /\ ~sessions[work.id].ask.override =>
         KeepsRules(DefaultRules(candidate))]_vars

\* A part cut from a plan is the plan of its part: asking for its targets alone, on
\* the same configuration, gives the same mutations.
ChildIsAPlan ==
    [][Len(sessions') > Len(sessions) =>
         LET s == Last(sessions') IN
         ~s.root => ReplanConflicts(s.patch, AskFor(s.ask, Causes(s.patch)), s.was, s.was) = {}]_vars

\* An undo that comes to its end has restored the candidate exactly, rule order and
\* all, from whatever was written when the failure came, and says FAILED.
UndoRestores ==
    [][FinishUndo => /\ candidate = sessions[work.id].pre
                     /\ sessions'[work.id].state = "FAILED"]_vars

Known == \A s \in Range(sessions) : s.state # "OUTCOME_UNKNOWN"

\* Where nobody else edits and no outcome is unknown, a restore of what is still gone is
\* never in conflict when it is planned, and once all that was ever cleaned is there
\* again, after one restore or several, of one session or of several in a row, the
\* candidate is the configuration of the start. (Asked again for rules it has already
\* put back on top of each other, a restore does report a conflict: a rule is compared
\* with the neighbours it had when its own cleanup was planned.)
RestoreBringsBack ==
    [][Known /\ edits = DOMAIN Scenes[scene].edits =>
         /\ PlanRestore /\ Last(sessions').state = "CONFLICT" =>
              \E i \in Range(HistoryIds) : \E x \in Range(sessions[i].applied) :
                x.causes \cap Last(sessions').causes # {} /\ Holds(candidate, x)
         /\ Ends("restore")
              /\ (\A i \in Range(HistoryIds) : \A x \in Range(sessions[i].applied) :
                    Holds(candidate, x))
              => candidate = Scenes[scene].config]_vars

\* A restored entry means what it meant when it was cleaned: its own name and the names
\* in it come to the same definitions at its location, whatever others have defined
\* meanwhile, unless they did between the plan and the writing of it.
RestoredMeansTheSame ==
    [][Ends("restore") =>
         LET s == sessions[work.id] IN
         s.pre = s.was => \A x \in Range(s.applied) :
           LET pre   == sessions[x.from].pre
               owner == Owner(x)
               own   == IF owner[1] = "rule" THEN {} ELSE {x.at[2]}
           IN  \A n \in own \cup (NamesOf(pre, owner) \cap NamesOf(candidate, owner)) :
                 Resolve(candidate, x.at[1], n) = Resolve(pre, x.at[1], n)]_vars

\* Every cleanup is planned again on the candidate it is written to, and what would be
\* planned otherwise there is left out (README.md:581-583 of PanOS-Toolbox). A child
\* plan does not keep what this needs.
PlannedAgain ==
    [][\A i \in DOMAIN sessions :
         LET s == sessions[i]
             t == sessions'[i]
         IN  s.kind = "cleanup" /\ s.state = "PLANNED" /\ t.state = "WRITING" =>
               ReplanConflicts(t.applied, AskFor(s.ask, Causes(t.applied)), s.was, candidate)
                 = {}]_vars

=============================================================================
