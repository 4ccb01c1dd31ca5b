# Sieci: a TLA+ verification of the PAN-OS Toolbox

The repository holds a planner for the cleanup of Palo Alto Panorama
configurations (`src/panorama_cleaner`), a few older stand-alone reports, and
the PAN-OS Toolbox (`src/PanOS-Toolbox`): a Flask backend with a React
front end and a command line that carries such plans out on a live Panorama and
undoes them again. The Toolbox is where things can go wrong: it writes to an
appliance that other administrators edit at the same time, over a protocol in
which an answer may be lost, in stages that may die half way, and its only
memory is a directory of files. What it writes was decided by a planner that has
to know every place a name is used, in every device group that inherits it. This
directory models both - the stages and the store they live on, and the planners
of cleanups and restores - checks them with TLC and proves with TLAPS the safety of
the stages, the store and the web backend, that every plan can be written and undone,
and that a plan spares the rules it must not modify.

Paths below are relative to `src/PanOS-Toolbox/backend/panos_toolbox/` unless
they begin with `src/`; "the Toolbox's README" is `src/PanOS-Toolbox/README.md`.

## 1. Inventory

| Component | State it keeps | Operations | Correct when |
| --- | --- | --- | --- |
| **Transaction engine** `engine.py` | none of its own: local variables of a running stage | `apply_candidate`, `prepare_commit_review`, `commit_session`, `push_session`, `reconcile_external_execution`, `_rollback`, the handlers of each | nothing is overwritten that the plan did not see; a failure is undone or admitted to be unknown; what is committed is what was reviewed; no job is started twice |
| **Session store** `sessions.py`, `models.py` | `manifest.json` (state, application, review, guard, revision), journal, snapshots, artifacts, `.operation.lock`, host marker file | `transition`, `force_terminal_state`, `record_*`, `write_snapshot`, `append_event`, `write_artifact`, `verify`, `operation_lock`, `panorama_job_lock` | states move along the table; an unresolved session keeps its host reserved; files and manifest agree after a crash |
| **Panorama client** `client.py`, `xmlutil.py` | process-local job lock per host, config cache | reads, `apply_operation`, config locks, `commit`, `push`, `poll_job`, `fetch_config_pair_coherent` | an ambiguous answer is never taken for a refusal; one job at a time; a cached pair is a pair that was live together |
| **Commit review** `commit_review.py` | review documents in the session | `_scope_guard`, findings digest, rendering | findings are all that differs from the plan; a digest stands for one candidate |
| **Write lease and profile** `profile.py` | lease with expiry | `assert_valid`, `recovery_valid` | no write without a lease, rollback still allowed after it expires |
| **Restore planning** `restore.py`, parts of `service.py` | history baseline and watermark in the PatchSet | three-way merge, related cleanups | a restore undoes only what nobody changed since |
| **Cleanup planning** `service.py`, `cleaner_adapter.py`, `lookup.py` | a PatchSet with components | components, forward and inverse operations | inverse undoes forward; components are independent |
| **Planner library** `src/panorama_cleaner/panorama_cleanup/` | none | `planner.py`, `panos.py`, `restore.py`, `hitcounts.py`, `audit.py`, `artifacts.py`, `render.py` | nothing that is still referenced is deleted; what stays means what it meant, less the targets, in every device group |
| **Web backend** `web.py` | in-memory execution jobs, connections, planning jobs | stage endpoints, background jobs, hand-mode endpoint, child plans (selection, exclusion) | two requests do not interfere; a job reports the stage it ran, and ends |
| **Hand mode** `handmode.py` | artifacts of a session | instruction documents | does not disturb a running stage |
| **Policy requests, profile store, AD groups, diffing, doctor, cli** | local files at most | read-only analyses, text | not concurrent |
| **Front end** `src/PanOS-Toolbox/frontend` | view state | polls execution jobs, repeats a guard digest | presentation |
| **Legacy scripts** `src/*.py`, `src/*.ps1` | none | stand-alone reports | share no state with the Toolbox |

**How they interact.** An operator asks for a stage through the web backend or
the command line. The engine takes the session's operation lock and the marker
file of the Panorama host, runs the stage as one function of calls to the
client, writes the manifest between those calls, and gives both files up at the
end - the marker only if the manifest state is settled. Several backend
processes can work on one store. Panorama is shared with other administrators:
a config lock keeps their edits (not their commits, and not edits made with the
Toolbox's own account) out of a scope.

**What is hard here.** Edits and commits by others between any two requests of
a stage; a mutating request with no answer; a mutation of several operations
that is refused in the middle; a job that outlives its poll; Ctrl+C and killed
processes between a request and the manifest write that records it; two
processes that take up stages at once; evidence (snapshots, change summaries,
reviews, digests) that is stale when it is used. Every one is listed with its
line under `hazards` in `PROJECT.json`. In the planners it is the combination that
is hard: names with other meanings further down the tree of device groups, groups
emptied by two targets together, rules that stand side by side and are deleted
and restored by different sessions, a candidate that is no longer what was
planned on.

## 2. Modules

| Module | Models |
| --- | --- |
| `SessionStates` | the manifest states and the table of legal moves (`sessions.py`) |
| `SessionLedger` | **abstract specification**: what the store promises of state and marker, whatever the stages do |
| `Panorama` | the appliance, from the requests the client sends: candidate and running tree, config locks, jobs, the edits and commits of others (external) |
| `EngineState` | what all stages share: manifest fields, lock files, workers; entering, leaving, config locks, interrupts, crashes, manual reconciliation |
| `CandidateApply` | `apply_candidate` with `_rollback` |
| `ReviewStages` | `prepare_commit_review`, `reconcile_external_execution` |
| `JobStages` | `commit_session`, `push_session`, `PanoramaWriteClient.commit/push/poll_job` |
| `Toolbox` | the composition, fairness, and all properties |
| `MCToolbox` | constants for TLC |
| `SessionRegister` | **abstract specification**: what one session promises, whatever its files look like in between |
| `SessionFiles`, `MCSessionFiles` | the files of one session and the calls of the store that write them, with hand mode (`sessions.py`, `handmode.py`, parts of `service.py`) |
| `WebBackend` | connections, shared clients and their caches, background jobs (`web.py`, `client.py`) |
| `PanoramaConfig` | a configuration as the planner parses it, and the edits made to it (`panos.py`, the edits of `restore.py`) |
| `CleanupPlanner` | the planner: what goes, why, and what is blocked (`planner.py`) |
| `CleanupPatchset` | protected rules, order of mutations, components, child plans, checks against the candidate (`cleaner_adapter.py`, parts of `web.py`, `engine.py`) |
| `RestorePlanner` | the history graph and the plan that takes cleanups back (`restore.py`, parts of `service.py`) |
| `CleanupCycle`, `MCCleanupCycle` | plans of both kinds planned, cut, written, undone and committed one after the other on one Panorama |
| `ToolboxProofs`, `JobProofs`, `CandidateProofs`, `ReviewProofs` | the proofs about `Toolbox`: types, marker, refinement, jobs, what is written, what is relied on |
| `FilesProofs` | the proofs about `SessionFiles` |
| `WebProofs` | the proofs about `WebBackend` |
| `CycleProofs` | lemmas about `CleanupCycle`: single edits and their opposites, parts of plans, writing and undoing a plan that fits, and the inductive invariant of the cycle |
| `PlanProofs` | the proofs that what the planners plan fits and spares protected rules, and the theorems about `CleanupCycle` |

There are four models, each at the grain its questions need. `Toolbox` has the
requests of the stages and abstract plans. `SessionFiles` has the writes of files
below one of its manifest steps. `WebBackend` has what the stages share inside one
server. `CleanupCycle` has real plans on small real configurations, and stages in
one or a few steps. They meet in `SessionStates` (the table of states) and in the
constants of `Toolbox` (`Forward`, `Inverse`, `Before`, `After`, components),
which are what `CleanupPatchset` and `RestorePlanner` compute.

### `Toolbox`: state and code

| Variable | Code |
| --- | --- |
| `state`, `applied`, `review`, `preguard` | manifest fields `state`, `candidate_application`, `commit_review`, `precommit_guard` |
| `stale` | restores whose source manifest has a later revision than the one their plan recorded; every manifest write adds to it |
| `opHeld` | sessions whose `.operation.lock` exists |
| `marker` | the session that holds (or has left behind) the host marker file |
| `cleared` | sessions an operator has reconciled by hand (history variable) |
| `pc`, `stage`, `sess`, `loc` | the program counter and local variables of each worker, i.e. operating system process running one stage |
| `jobLock` | `PanoramaWriteClient`'s process-local lock of the host |
| `candidate`, `running`, `cfgLocks`, `jobs` | the appliance |
| `edits`, `faults` | bounds used up |

A tree is a function from a few XPaths to values. A PatchSet is a set of
constants: `Forward` and `Inverse` operations in order, `Before` and `After` at
each XPath, `CompOf` (dependency component), `Context` (XPaths where a new
reference makes the planner decide otherwise). That is the abstraction of the
data; the control is all there.

### `Toolbox`: actions and code

A worker's `pc` names the next request it will send to Panorama, or the next
manifest state it will write after one. **One action is one request together
with all local work up to the next**, because only requests, manifest writes and
file operations are seen by others. So every interleaving with another process
or administrator the code can meet lies between two actions.

A mutating request has three outcomes, as in `client.py`: done, refused (or not
sent at all), or no answer - and then the tree may or may not have changed, and
the stage goes through the `OutcomeUnknownError` handler. A read has two. `Cut`
adds, where `CutAnswers` is TRUE, the outcome that the request was carried out
and its answer truncated: see finding 1.

* *Entering*: `RequestStage` is `operation_lock` (`O_EXCL`), `EnterHost`
  `panorama_job_lock`; the first checks of each stage are `ApplyCheck`,
  `ReviewCheck`, `ReconcileCheck`, `CommitCheck`, `PushCheck`.
* *Config locks*: `AcquireLock`, `ReleaseLock`, one scope at a time.
* *Apply*: `ReadProof` and the two fetches, `Decide` (history guard, component
  filter, planner, transition), `SaveSnapshot`, `WriteOperation`, `Validate`,
  `CheckPost`, `BuildApplyReview`, `UndoOperation`, `UndoCheck`.
* *Review and reconciliation*: the reads in order, then the review.
* *Commit*: the fast way `CommitProof`, `CommitTargets`, `CommitProof2`; the
  fallback `CommitFetchCandidate`, `CommitGuard`, `CommitRunning`; then
  `Dispatch`, `Poll`. *Push*: `PushRunning`, `Dispatch`, `Poll`.
* *Leaving*: `LeaveStage` removes the marker unless the state is unresolved.
* *Dying*: `Interrupt` runs the handlers (`KeyboardInterrupt`), `Crash` runs
  nothing; `Restart` loses the process-local lock.
* *Operator*: `ManualReconciliation`, as the README of the Toolbox describes it.

Operators whose comment begins "Wrong on purpose" are plausible bugs. They are
not used by any action; each is swapped in for the definition below it to see
that the property meant to catch it does (`mutants` in `PROJECT.json`).

### `SessionFiles`

| Variable | Code |
| --- | --- |
| `manifest` | `manifest.json`: state, recorded hash of each snapshot (as its version), recorded artifacts, `event_count` |
| `patchset`, `snapFile`, `artFile` | `patchset.json` with the entity backups, snapshot files, artifact files |
| `journal`, `tail` | `journal.jsonl`: its whole lines, and how its last line ends |
| `lock` | `.operation.lock` |
| `pc`, `todo`, `work` | each process: its next step, the calls it still has to make, and what it has read |

A process is the planning request (`create`, then `write_snapshot`, `append_event`,
`write_artifact` and so on, under no lock), a stage (under the lock; it makes any
calls of the store in any order), or a hand-mode request (`build_handmode`
endpoint, under no lock). A call is the steps between which a process can die:
`atomic_write` replaces a file as a whole, so one write is one step; the manifest is
loaded (`Load`, which fails as `load_manifest` does) and replaced (`Save`) in two; a
state change is loaded, replaced, and told to the journal (`ReadHead`,
`AppendEvent`) in four. `Die` may leave a line of the journal cut short, or whole
but without its end. `ClearLock` is the operator removing the lock of a dead stage.

### `WebBackend`

| Variable | Code |
| --- | --- |
| `conn`, `key` | the registry of connections with their age; whether the client still has its API key |
| `cache`, `proof` | the client's `_config_cache` and the change summary it was read under |
| `job` | the records of execution and analysis jobs, as the page polls them |
| `pc`, `work`, `lease` | each job's thread: next step, what it has read or done, its write lease |
| `jobLock`, `cfgLock` | the process's lock of the host for commits and pushes; the config lock on Panorama |
| `host` | versions of running and candidate on Panorama (external) |

An analysis is `fetch_config_pair_coherent`, one step for each request and for each
look into the cache, which threads share without a lock; a diff reads running and
candidate in turn. A candidate, commit or push is reduced to the requests it makes
of the client, with the locks, the lease (checked for new writes, not for
recovery) and its handlers. Connections expire when somebody uses them, polling of
a job included, and the client is then closed under the jobs that use it.

### Planners and `CleanupCycle`

A configuration is a record: the tree of device groups, `ancestor-objects-take-
precedence`, address objects, static and dynamic groups, rules with the names in
their fields, and the order of each rulebase (`PanoramaConfig`). `Model` is what
the parser computes: each name resolved in each location, each reference with the
contexts it is read in. `Plan` of `CleanupPlanner` is the fixed point of the code:
what goes (`Going`), the targets that cause it (`Spread`), who is to blame for
what would be unsafe (`Judged`), without the blocked until nobody is; `Sound` is the
final validation, which raises. `SafePlan` plans again without the targets that
touch protected rules. `Patch` is the sequence of mutations with components,
neighbours and inverses; `Selected` and `Excluded` are the child plans of the web
backend; `PreconditionConflicts`, `ReplanConflicts` and `AsExpected` are the
engine's checks. In `RestorePlanner`, `Graph` and `Tied` decide what has to be
restored together, `TakeBack` is the three-way decision for one mutation on a copy
of the configuration, `MeansOther`, `NeedMissing` and `ScopeChanged` are the
conflicts, `RestorePlan` is the whole of `plan_restore_session`, on running and
candidate.

`CleanupCycle` makes a transition system of them: `PlanCleanup`, `SelectTarget`,
`ExcludeTarget`, `PlanRestore`, then `BeginApply` (the checks), `Write` (one
mutation), `FinishApply`, or `Refuse`, `Undo`, `FinishUndo`, `FailUndo`, then
`Commit`; and `Edit` by others between applications.

The operators of the planners were also compared, while they were written, with
the code's own planners on random small configurations (patches, blocked targets,
restore plans and conflicts were the same); the differences that were met and
kept out of the model are in section 7.

## 3. Properties

Each is stated in words above its definition. In `Toolbox`:

| Property | Kind | Says |
| --- | --- | --- |
| `TypeOK` | invariant | types, and that a running worker has a session |
| `MarkerCoversUnresolved` | invariant | a session of open outcome keeps the host marker until an operator reconciles |
| `OneJobAtATime` | invariant | Panorama never runs two of our jobs |
| `JobsAccounted` | invariant | a job that runs or has succeeded is never offered again |
| `HalfWrittenIsLocked` | invariant | a half-written XPath of an open session is under its config lock |
| `LedgerKept` | refinement | the engine implements `SessionLedger` |
| `WritesOnPlannedValue` | action | the first write to an XPath finds what the plan found |
| `NoResidueOnFailure` | action | a session that ends FAILED leaves what the plan found at each XPath it could write |
| `RestoreAfterSettled` | action | no restore is written while a cleanup's outcome is open |
| `CommitIsReviewed` | action | a commit begun on the change summary takes what was reviewed to running, given that the summaries recorded with the review and with an accepted guard belong to their trees |
| `DispatchedAsPlanned` | action | nothing got in between the last check and the commit job |
| `EvidenceShowsPlan` | invariant | a session that counts as written in full has all its XPaths applied, and every tree a commit can be accepted on (of its review, or of the guard of a refused commit) holds the plan's result at all that is applied, be it written by a stage, done by hand and admitted, or reviewed again |
| `InFlightResolved` | liveness | a manifest in flight is settled in the end |
| `OverrideIsLive` | action, violated | `CommitIsReviewed` of a coherent review and any accepted guard |
| `UnplannedIsBlocked` | action, violated | `CommitIsReviewed` without its precondition |

In `SessionFiles`:

| Property | Kind | Says |
| --- | --- | --- |
| `RecordedIsThere` | invariant | every recorded artifact and the PatchSet exist, whoever died |
| `JournalIsChained` | invariant | the sequence numbers of the journal are one chain |
| `ManifestBehindJournal` | invariant | a manifest never claims events the journal lacks, so no death makes the session unreadable on that account |
| `DamageIsLocal` | invariant | each death leaves at most one disagreement (a snapshot newer than its hash, a file without a record, a state without its event, a broken line) |
| `RegisterKept` | refinement | requests that do not overlap see a register: states move along the table, no record is lost, the journal grows by whole events |
| `HandModeAppends` | action, violated | hand mode changes no state and removes no record |

In `WebBackend`:

| Property | Kind | Says |
| --- | --- | --- |
| `ProvedPairWasLive` | invariant | a pair that was downloaded and proved was live on the host, both at once, during the analysis |
| `ExpiryStrandsNothing` | invariant | a lease that expires strands no stage: only a lost answer or a closed client does |
| `JobLockIsAccountedFor` | invariant | the process's job lock is held for a job that is polled or whose outcome is open |
| `OneStagePerSession` | invariant | background stages of one session never overlap |
| `JobsEnd` | liveness | every background job ends and says so |

In `CleanupCycle`:

| Property | Kind | Says |
| --- | --- | --- |
| `NothingDangles` | invariant | no candidate, half written or half undone included, holds a name without a meaning in a device group that reads it, or an empty group or field |
| `OrderKept` | invariant | rulebases keep their order through deletions, undos, restores and edits |
| `MeaningKept` | action | a cleanup takes from the rules it leaves behind its targets, and nothing else changes, in any device group; negated fields stay |
| `TargetsGone` | action | a complete cleanup planned again finds nothing left to do for what it planned |
| `ProtectedUntouched` | action | Application Override rules, and `DEFAULT` rules without the override, are not modified, as long as cleanups were plainly asked for (`PlainlyAsked`): no group asked for, no object in two ways, no protected rule by its name, and no target that the first plan blocked free in the second |
| `ChildIsAPlan` | action | a part cut from a plan is what planning its targets alone gives |
| `PlansFit` | invariant | what the planners and the cutting of child plans promise of a patch: on the configuration it was planned on, each target is there (of a restore: gone), none comes twice, an entry that goes as a whole loses no member before, a rule goes before the rule it will be moved before, and comes back after it |
| `FindsItsTarget` | invariant | in the middle of an application the next mutation finds its target as it was planned, whatever those before it did and whichever components are left out |
| `UndoFindsItsWay` | invariant | the next step of an undo finds the entry a member goes into and the rule another is moved before, wherever the application was turned back |
| `UndoRestores` | action | an undo that ends has restored the candidate exactly |
| `RestoreBringsBack` | action | without edits by others, restores are not in conflict, and once all is back the configuration is the one of the start |
| `RestoredMeansTheSame` | action | a restored entry, and the names in it, mean what they meant |
| `PlannedAgain` | action, violated | every cleanup is planned again on the candidate it is written to |
| `DefaultIsBoundary` | action, violated | `DEFAULT` rules are not modified without the override, whatever was asked for |

## 4. Runs

Run with `tlc -config X.cfg M`. In the first six, of `MCToolbox`, the
configuration has three XPaths in
two device groups: an address (deleted in one operation), a rule (deleted in
two, so that a mutation can be half done) and a policy in another device group
that may gain a reference to the address. `c1` deletes the address and the rule
as two components, `c2` deletes the policy, `r1` restores `c1`. Fairness is stated
in `cycle` only, whose question needs it.

| Run | Instance | Distinct states | Shows |
| --- | --- | --- | --- |
| `cycle` | `c1`; one worker; all of apply, review, commit, push; every answer and acknowledgement; 2 edits or foreign commits, 2 jobs, no faults; fairness | 944,634 | `TypeOK`, `InFlightResolved`, `WritesOnPlannedValue`, `NoResidueOnFailure`, `CommitIsReviewed`, `DispatchedAsPlanned` |
| `crash` | `c1`, `c2`; two workers; apply, commit, push; 1 kill or Ctrl+C, 2 jobs | 1,238,246 | `MarkerCoversUnresolved`, `OneJobAtATime`, `JobsAccounted`, `HalfWrittenIsLocked`, `LedgerKept` |
| `restore` | `c1` committed, `c2` and `r1` planned; apply, review, reconcile; 2 edits, which may also carry `c2` out by hand or undo it; 1 fault | 6,164,658 | `EvidenceShowsPlan`, `RestoreAfterSettled`, `WritesOnPlannedValue` with a restore |
| `cut_answer` | as `cycle`, no edits; answers may be cut | | finding 1 |
| `review_gap` | as `cycle`, 1 edit | | finding 3 |
| `retried` | as `cycle` | | finding 6 |
| `files` (`MCSessionFiles`) | a planning request, two stages, a hand-mode request; 4 calls by stages, 2 deaths | 3.43 million | `TypeOK` and all of `SessionFiles` but `HandModeAppends` |
| `handmode` (`MCSessionFiles`) | a stage and a hand-mode request that overlap; no deaths | | finding 4 |
| `web` (`WebBackend`) | one connection, one session, 2 jobs of any of the five kinds; 2 edits or commits by others, 1 expiry, 1 fault; fairness | 796,676 | `TypeOK` and all of `WebBackend` |
| `planning` (`MCCleanupCycle`) | six scenes, 2 refusals | 571,938 | `TypeOK` and all of `CleanupCycle` but `PlannedAgain` and `DefaultIsBoundary` |
| `child` (`MCCleanupCycle`) | one scene | | finding 5 |
| `boundary` (`MCCleanupCycle`) | one scene, three requests | | finding 2 |

**Why the bounds are enough.** Every race in the engine is between one stage
and one change under its feet, so one edit reaches it. `cycle` and `restore` have
two, one before a check and one after it, so that a second change may hide or
take back the first: in `restore` the one carries `c2` out by hand and the other
undoes it under the reads that look for it. No job is dispatched there, so the guard
that a refused commit records is outside `EvidenceShowsPlan` on that instance; with
commits and three edits, and `c1` carried out by hand in halves, the invariant was
asked of 6.27 million states before it was proved, and the theorem covers all of it. Two jobs are the
least with which a second can overlap the first. One fault leaves one stage
dead at any label, and the other worker then meets what it left; two sessions
and two workers are the least for marker contention. In `crash` other people do
not edit, since the five properties there do not speak of their edits, and what
edits can change in a stage's course (a proof fails, a component is left out) is
also reached by failing requests. In `restore` the host serves one worker:
another session's open outcome is what matters, and it arises before or after.
Constants are not symmetric (each session has its own plan), so no symmetry is
declared. Deadlock is checked in each of the six; `Crash`, `Restart` and the edits
only stop at their bounds, and a worker can always be asked for another stage
or a left-over file reconciled, so none occurs.

In `files`, a disagreement takes one death between two writes of a call, and what
follows takes another call of the same kind (a name that is taken, a snapshot
written again, an event after a cut line) or a second death; calls of different
kinds only meet in the manifest, so four calls in any order reach every pair of
them before and after a death. The states a stage may move to are four: of the
table, forced, back, and by hand. In `web`, two threads are what a race for the
cache or a lock takes, and two changes of the host what makes both comparisons of
an analysis fail; the client has one `host`, so one connection shares everything
that is shared.

The scenes of `planning` have three locations (shared, a device group, one below
it), where overrides, inheritance and precedence of ancestors differ; each has two
to five rules, up to four groups and up to four sessions, and is built so that one
kind of interaction happens: `groups` (groups in groups, emptied by one target or
by two), `overrides` (names with another meaning further down), `neighbourhood`
(adjacent rules deleted and restored by different sessions), `protected`
(translations, protected rules, negated fields, a dynamic group), `meanwhile`
(names defined by others between cleanup and restore) and `later` (a cleanup
between the plan of a restore and its writing). Two refusals let an undo fail.

`files`, `handmode`, `planning`, `child` and `boundary` set `CHECK_DEADLOCK FALSE`: the
processes of `SessionFiles` end, and the scenes have a fixed number of sessions
and edits. `web` sets it for the same reason, since its jobs are bounded.

**What the bounds leave out.** In `Toolbox`, restores of restores, and two
restores at once; more than two backends; two components that share a scope with
a third session's; a fault during an edit race on the same stage of a two-session
instance. The theorems below cover these for the properties they are about. In
`CleanupCycle`, deep trees of device groups and large groups.

**Fairness.** `WF(StageStep(p))` for each worker: a stage that has been entered
goes on, since each request to Panorama has a timeout (`client.py`, `_request`)
and polling a job has a deadline (`poll_job`); after either, the code goes on to
its handler. Nothing is assumed of operators, of the jobs themselves (a job may
run for ever), or of anybody else. In `WebBackend`, `WF(Work(j))` for each
background job: its thread runs as long as the server does, and each of its steps
is a request with a timeout or local work. The other models state no fairness.

## 5. Findings

1. **A cut answer counts as a refusal** (`cut_answer`). A mutating request whose
   answer is truncated or is not XML raises `PanoramaResponseError`
   (`client.py:182`), which is not `OutcomeUnknownError`. For a commit the
   process-local lock is freed (`client.py:533`) and the session goes back to a
   reviewable state (`engine.py:2273`) while the job runs. The Toolbox's README
   (591-592) says that without an unambiguous answer the outcome is
   `OUTCOME_UNKNOWN`. With `CutAnswers = FALSE` all properties of these stages but
   those of the other findings hold, and are proved; that constant is the exact
   condition.
2. **The plan without the targets that touch `DEFAULT` can touch it too**
   (`boundary`). Without the override, the targets that touch `DEFAULT` in the first
   plan are left out and the rest is planned again (`cleaner_adapter.py:638`); what
   the second plan touches is not looked at. It modifies `DEFAULT` in three ways: an
   object is asked for by its name and by its address, of which the planner keeps one
   token (`planner.py:185-195`), and leaving that one out revives the other; `DEFAULT`
   itself is asked for, while a host would empty one of its fields, and the host takes
   the place of the rule's own token among its causes (`planner.py:792-797`); or, with
   hosts alone, a target that is blocked in the first plan is free in the second.
   The Toolbox's README (286) says that without the override `DEFAULT` is not
   modified, and so does the comment at `cleaner_adapter.py:621`. The three requests
   were also put to the code itself, with the same plans. `PlainlyAsked` excludes these ways,
   and requests for groups; of all other requests `ProtectedUntouched` is proved.
3. **A review can be older than its own change summary** (`review_gap`). The
   trees are read first and the summary last (`engine.py:1201,1243` and
   `812,819`). A change in between is part of the summary and of no finding; the
   fast commit path then finds the summary unchanged and reuses the recorded
   guard. The Toolbox's README (576-579) says that commit blocks every change
   outside the plan. On that path finding 6 is the other way round the comparison;
   `CommitIsReviewed`, which is proved, says that there is no third.
4. **Hand mode writes back an old manifest** (`handmode`). The request loads the
   manifest, adds its artifacts and saves it without the operation lock
   (`web.py:2010`). A stage that moved the state in between is undone: the
   manifest says `PLANNED` again while the candidate is being written. The comment
   at `web.py:2008` calls it "purely local, append-only", and so does the Toolbox's
   README (559-560). With `Overlap = FALSE`, `RegisterKept`
   and `JournalIsChained` hold, and are proved.
5. **A part of a plan is not planned again** (`child`). The manifest of a child
   plan has no `input_ips`, so the re-planning on the candidate returns at once
   (`engine.py:290`); the Toolbox's README (581-583) says that a cleanup is planned
   again. The run deletes a group that a new rule uses: `NothingDangles` leaves
   such plans out for this reason, and holds for all others.
6. **A refused commit renews its own guard** (`retried`). The fallback works the
   findings out on the candidate it downloads, reads the change summary after that
   (`engine.py:2016`) and stores both (`engine.py:2049`) before it refuses because
   the summary has moved. An operator who accepts the digest of that guard makes its
   newer summary what the next attempt compares with (`engine.py:1745`, `1781-1793`):
   nothing has moved, the old findings are reused, and the changes that came between
   the download and the summary are committed though nobody has been shown them. The
   comment at `engine.py:2014` says that edits during the download cannot slip
   between review and dispatch, and the Toolbox's README (82-83) that an override
   is refused if one finding has changed since it was displayed. Here the review was
   taken with a summary of its own trees, so finding 3 has no part in it.

## 6. Proofs

`tlapm` checks each module. The theorems about `Toolbox` hold for every number of
sessions, workers, XPaths and jobs, and every PatchSet, under the assumptions `PanoramaConstants`
and `EngineConstants`, which say what kinds of things the constants are and that
each XPath a session writes has an operation. Those about `SessionFiles` hold for
every number of processes, calls and deaths (`SessionFilesConstants`), those about
`WebBackend` for every number of connections, sessions, jobs, edits and faults
(`WebBackendConstants`), those about `CleanupCycle` for all scenes of well-formed
configurations with any trees of device groups, requests, edits by others, sessions
and refusals (`ScenesAssumption`, `MaxFailsAssumption`), with no assumption about
what the planners compute.

| Theorem | Statement | Argument |
| --- | --- | --- |
| `ToolboxProofs!TypeCorrect` | `Spec => []TypeOK` | not inductive alone: `loc[p].job` is looked up in `jobs`, `FirstOf` in `Forward`. Strengthened by `StageFits`, which says which labels belong to which stage. One lemma per action. |
| `ToolboxProofs!OpenSessionsKeepMarker` | `Spec => []MarkerCoversUnresolved` | `MarkerInv`: a busy worker holds the marker with its session, under that session's operation lock, and no two workers run the same session. Only the holder of the marker can open an outcome, and leaving keeps the marker of an open one. The steps inside a stage are all of the form `Quiet(p)`, which is shown once per stage and used once. |
| `ToolboxProofs!EngineKeepsLedger` | `Spec => LedgerKept` | the refinement, with the identity mapping. `force_terminal_state` checks no table; `StateFits` says in which manifest states each label can be, so that every unchecked write is a legal move all the same. |
| `JobProofs!NeverTwoJobs` | `~CutAnswers => (Spec => []OneJobAtATime)` | `JobInv`: a running job belongs to the marker's session, which is unresolved, and whoever is past the marker then polls just that job or is leaving; so nobody can be about to dispatch. |
| `JobProofs!NoJobTwice` | `~CutAnswers => (Spec => []JobsAccounted)` | `AccountInv`: a job that has not failed has taken its session to states from which there is no way back to where one like it starts (`Taken`), and a worker about to dispatch or polling knows that every other job of its session and kind has failed. |
| `CandidateProofs!NothingOverwritten` | `~OwnEdits => (Spec => WritesOnPlannedValue)` | `LocksHeld`: between taking and releasing them a stage holds the config locks of every scope its session writes. `TouchedKnown`: it touches what its decision left in. So `PlannedHolds`: what it downloaded is still what is there when it decides, and each XPath it has not touched holds the value of the plan until it writes there. |
| `CandidateProofs!FailuresAreClean` | `~OwnEdits /\ ~CutAnswers => (Spec => NoResidueOnFailure)` | the same invariant for what was not touched, and the check at the end of the rollback for what was. |
| `CandidateProofs!CommitsThePlan` | `~OwnEdits => (Spec => DispatchedAsPlanned)` | the same invariant at the labels of a commit: from its last XPath proof on, its locks keep what it proved. |
| `CandidateProofs!HalfWayIsLocked` | `~CutAnswers /\ HalfValuesAreOwn => (Spec => []HalfWrittenIsLocked)` | not inductive alone, as it says nothing of stages that are still writing. `HalfAccounted`: an XPath written half way is in the hand of the stage that touched it, or its session is open, holds the marker and has its locks in place, and no other stage has got past the marker since. |
| `ReviewProofs!CommitsAreReviewed` | `Spec => CommitIsReviewed` | `ReviewInv`: the findings of a review are those of its trees for what is applied. That part of a manifest changes only in states to which no reviewed session returns, and each stage that reads does so in states where it stands still. Then an unchanged summary means unchanged trees, and unchanged trees mean the findings that were accepted. |
| `ReviewProofs!EvidenceIsWhole` | `Spec => []EvidenceShowsPlan` | not inductive alone: between a read and the record of it the evidence is in a worker's hand, and a failed job takes its session back to the state its stage noted at the start. `ShownInv`: a worker about to record a tree has found in it what is applied (`WorkerShows`), a state it may go back to was true of its session and still is, and a guard, like a review, belongs to a session whose writing is over; what is applied changes only before that (`AppliedMoves`), so no tree that is kept is overtaken by it. |
| `ReviewProofs!RestoresAfterSettled` | `Spec => RestoreAfterSettled` | by cases of the steps that begin to write, from `MarkerInv`, as nobody but the holder of the marker can open an outcome. |
| `FilesProofs!FilesTyped`, `RecordsAreThere`, `ManifestStaysBehind` | `Spec => []TypeOK`, `[]RecordedIsThere`, `[]ManifestBehindJournal` | `FilesInv`: at each step of a call, the manifest a process has read names only files that are there, and no event beyond the end of the journal. Files and journal only grow, so a manifest that others have replaced in the meantime may still be written back: it may be old, but not wrong about what exists. |
| `FilesProofs!JournalStaysChained` | `~Overlap => (Spec => []JournalIsChained)` | `AloneInv`: where requests do not overlap, one process at most is in a call, and what it read is still what is there; the end of the journal it numbers from is the end. |
| `FilesProofs!FilesKeepRegister` | `~Overlap => (Spec => RegisterKept)` | the refinement, with the register read off the files. From `AloneInv`, each write back changes the current manifest by one legal move or one record; all other steps are stutters. |
| `FilesProofs!DamageStaysLocal` | `~Overlap => (Spec => []DamageIsLocal)` | a bound on a sum of cardinalities, which no step keeps by itself: a call makes things disagree and mends them again. `DamageInv` divides them: the process at work holds at most one in its hands, and what nobody holds was left by the dead, at most one thing for each death. Each step either moves one thing into a hand, or mends it, and a death moves it from the hand to the left; the lemmas are about what that does to the cardinalities. |
| `WebProofs!WebTyped`, `JobLockAccounted`, `StagesApart`, `LeaseStrandsNothing` | `Spec => []TypeOK`, `[]JobLockIsAccountedFor`, `[]OneStagePerSession`, `[]ExpiryStrandsNothing` | `WebInv`: `RecordFits` and `DeedFits` say of each job at each step what its record, its locks and its outcome are. Steps of others leave them alone, except that connections close, and a job that this strikes is excused. |
| `WebProofs!ProvedPairsWereLive` | `Spec => []ProvedPairWasLive` | `ReadFits`: what an analysis reads between its two summaries lies between the first summary and the present. Versions only grow, so when the second summary is the first one nothing has moved, and both trees are the ones of that moment. |
| `CycleProofs!TakenOutAndPutBack`, `PutBackAndTakenOut` | `PutBack(TakeOut(c, x), was, x) = c` and the other way round, for each kind of mutation `x` whose target is as it should be | the sequence lemmas on `RemoveFirst`, `InsertAt` and the CHOOSE of the place before a name: a rule that was taken out right before the rule it is moved before comes back to its place, and a rule put anywhere is found and removed again. |
| `PlanProofs!CycleInvariant`, `EveryPlanFits` | `Spec => [](CycleInv /\ PlansSound(sessions))`, `Spec => []PlansFit` | see below: `PlansSound` says of each session that its plan fits the configuration it was made on, `CycleInv` what has become of it since |
| `PlanProofs!CycleTyped`, `TargetsFound`, `UndoNeverStuck`, `UndoneRestores` | `Spec => []TypeOK`, `[]FindsItsTarget`, `[]UndoFindsItsWay`, `UndoRestores` | `CycleInv`: there is a `Trail` of configurations, from the candidate the session met to the present one, each of which is had back from the next by undoing one mutation; and what is still to write can be written in turn (`TakeableInTurn`, `PuttableInTurn`). At `BeginApply` the checks of the engine say that each target is on the candidate as in the plan, and that the names around a rule are those of the plan; that the plan fits carries this through the mutations before. Each `Write` adds a configuration to the trail, each `Undo` goes back by one, a rule that was set and not moved included. |
| `PlanProofs!ProtectionHolds` | `Spec => ProtectedUntouched` | see below: fewer targets take less, so the second plan reaches no rule that those targets did not reach in the first |

**Plans fit.** A cleanup's patch is a sequence of parts: members of rules,
rules, members of groups, groups, addresses. Each part fits by itself: what it
names is in the configuration, and nothing comes twice, since the parts are read
off sets and functions put in some order (`InOrder`, a recursive function on
finite sets: its lemmas are proved by counting what is left, with a set of
numbers for the induction). Rules of one rulebase go in their order, so that a
rule goes while the one it stood before is there; and where a whole entry goes,
its members do not go one by one, because the planner takes a rule or group out
of the trimmed ones. A part cut from a plan is a subsequence of it, by an
embedding of its indices, and what fits of a patch fits of a subsequence. A
restore reads its records off the applied cleanups, each of which fits what it
was planned on; `PutFits` is carried through the two folds, over the components
and over the records of one (`TakeBackComponent`, `TakeBack`): what has been
taken back is there on the simulated configuration, one owner is in one
component, and rules tied by their neighbours are in one component too, so that
what a rule is put before is already back or never went. So each plan fits when
it is made, nothing changes a plan afterwards, and with that the invariant of
the cycle is inductive.

**Protection.** With no group asked for, what goes is found in rounds from the
targets alone, and in each round fewer targets hit fewer members and groups
(`GoneGrows`): what hits a member in the smaller plan hits it in the larger. An
object has one token (`PlainlyAsked`), so the same target is the cause there. A
target through which the second plan reaches a protected rule therefore reached
it in the first, and was left out; for a field that empties, a translation and a
rule asked for by its name this is shown case by case; what hits a member or a
rule is among its causes, however these spread (`CausesOfParts`). So no mutation
of a plan is in such a rule (`SparesRules`). A part has fewer mutations, the
plan of a restore is no cleanup, and a mutation changes no rule but its own
(`OtherRulesStay`). That a blocked target does not come back is a condition and
not a lemma: who is blocked does not grow or shrink with the targets, and
finding 2 has the example.

The hypotheses are conditions under which the code is meant to work, each of which
holds in a run that checks the same property. `~CutAnswers` excludes finding 1 and `~Overlap`
finding 4; without them the theorems are false. `~OwnEdits` says that nobody edits a
locked scope with the Toolbox's own account, which config locks do not stop (by
design of the appliance). `HalfValuesAreOwn` says of the constants that the value
between two operations on an XPath is written by nobody but that session: the
property recognises a half-written XPath by its value, and cannot tell if others write the same.
`MCToolbox` assumes it of its constants, so TLC evaluates it. `CommitsAreReviewed`
has no hypothesis on locks or answers: what it needs is in the property.
`RestoresAfterSettled` has none at all, and neither has `EvidenceIsWhole`, where
cut answers and edits with the own account are included.
The theorems about `CleanupCycle` have no hypothesis; the condition of
`ProtectionHolds` is in its property, and finding 2 is what lies outside it.

The four modules about `Toolbox` form a chain: each EXTENDS the one before and uses
its invariant as a lemma, so that `LocksHeld`, `PlannedHolds`, `HalfAccounted`,
`ReviewInv` and `ShownInv` are inductive relative to `TypeOK`, `StageFits`, `MarkerInv` and
`StateFits`. All of these hold on the instances of `cycle`, `crash` and `restore`,
and `DamageInv` on that of `files`, where TLC was asked before they were proved.

**Only model-checked.** `InFlightResolved` and `JobsEnd`, because liveness under
fairness (and ENABLED) is beyond the prover. Of `CleanupCycle`, what is about meaning:
`NothingDangles`, `MeaningKept`, `TargetsGone`, `ChildIsAPlan` and
`RestoredMeansTheSame` compare what names come to before and after, through groups in
groups, or two whole plans with each other. That takes the value of the recursive
functions that resolve, spread and blame, for every tree of groups; the lemmas here say
of such functions what they keep or bound, not what they compute. `OrderKept` and
`RestoreBringsBack` speak of several applications in a row and of edits between them,
and hold of the edits in the scenes: somebody who moves a rule himself changes the
order. Every other property of a passing run is proved.

## 7. Not modelled, and where the model is coarser than the code

In `Toolbox`:

* Local I/O errors inside a stage (a full disk while writing a manifest): the
  handlers for them are those of any other exception.
* The flags of `apply_candidate`. Every caller takes config locks. An operator
  may ask for no server snapshot; a snapshot that is saved changes neither tree,
  so such a stage behaves as one in which `SaveSnapshot` succeeds.
* The order in which config locks are taken: any order is allowed. A session
  needs the shared lock only, or its device groups.
* The change summary is taken to tell two configurations apart exactly, and to
  be answered or not at each call. Volatile attributes in it make the code's
  strict comparison fail now and then; that is the disjunct that always goes to
  the fallback.
* An edit made by the Toolbox's own account, or in a scope it does not lock,
  between the last check of the fallback path without a change summary and the
  dispatch: there is nothing to compare any more, and `BeginsOnSummary` leaves
  it out. The same for a foreign commit between `PushRunning` and the dispatch.
* Rendered documents, XML, diffing, logging.

Where a process is killed in the middle of a write, a commit or a push, no handler
runs, and the manifest stays in flight (`WRITING_CANDIDATE`, `COMMITTING`, `PUSHING`)
for good, since nothing at start-up changes it and no stage accepts it, although the
Toolbox's README (673-676) says an interrupted process leaves `OUTCOME_UNKNOWN`.
Safety is not lost, as the marker stays (`MarkerCoversUnresolved`); `InFlightResolved`
is checked where nothing is killed.

In `SessionFiles`: one snapshot stands for running and candidate and one report
for the three that planning writes; listing sessions, migrating those of an older
version and the repair of a legacy artifact are left out. A planning request that
fails on purpose part way leaves what a death leaves.

In `WebBackend`: the ownership of a job by its token, sizes and ages of the job
table, upload and preview requests; a review as a background job (it reads as a
diff does). The change summary tells any two states apart. A pair answered from the
cache, or without a summary, may be stale: `ProvedPairWasLive` is about pairs that
were downloaded, and the engine proves again what it writes on.

In the planners:

* One rulebase stands for pre- and post-rulebase. Members are sets (only rules
  have an order that matters). Tags, services and profiles are not there.
* External dynamic lists, regions and FQDNs are names of another kind that the
  planner does not touch; the grammar of dynamic filters is a set of addresses
  that a filter matches or cannot be evaluated for.
* Ping, last-hit queries, object lookup, reports, audit and the stand-alone scripts
  of `src/panorama_cleaner` (with its own `restore.py`, `artifacts.py`): they read
  and render, or serve those scripts only.
* A NAT rule that translates to a group which is only trimmed goes the way of the
  planner without its textual fallback.
* No two cleanups have the same `applied_utc`: the code puts every
  component with such a tie in conflict.
* The plan of a restore is made and published in one step (its history is read
  again under the locks of its sources before it is published); locks, reviews
  and lost answers are the subject of `Toolbox`, so a commit here takes the whole
  candidate. Running and candidate are read at once too, where the code downloads
  one after the other: an edit in between gives the pair of some other state, with
  running as it was, but a commit of another restore between the two reads gives
  a pair that is not in the model. What is written is held against the live
  candidate again in any case (`BeginApply`).

What the code does there, and the properties are stated around: the targets that
touch a protected rule are left out and the rest is planned again, where the
Toolbox's README (280-283) speaks of the whole component, and that plan is not looked
at (finding 2); a negated field
that holds a group which is only trimmed is not blocked (what the group means
changes as the plan says); the writing of a restore checks its targets and the
history again but not what names mean, so a name defined between plan and
writing is not seen (`RestoredMeansTheSame` is about a candidate that is still the
one planned on); and a restore asked for again, of rules it has put back on top of
each other, reports a conflict (see `RestoreBringsBack`).

Components with no module: policy requests, AD groups, diffing, doctor and the
command line (sequential, read-only, or thin layers around the stages); the
profile store (local files of one operator); the front end; the legacy scripts and
launchers.

## 8. Plan

Done: the engine, appliance, marker and ledger, with the safety properties of all
stages proved; the files of a session with its register, the refinement and all
invariants proved; the web backend with the cache and its jobs, its invariants
proved; the planners of cleanups and restores and the cycle over them, with the
fitness of every plan, writing, undoing and the protection of rules proved. Left, in
order of weight:

1. **Order**: a condition on the edits of others under which `OrderKept` can be
   proved, from what `TakeBack` asks of the neighbours of a rule.
2. **Composition** of `Toolbox` with plans computed by `CleanupPatchset`, in place
   of its constants: `PlansFit` has what its assumptions ask for.
3. **`ProfileStore`**, and the listing of sessions across versions.
