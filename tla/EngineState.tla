---------------------------- MODULE EngineState ----------------------------
(***************************************************************************)
(* What every stage of the transaction engine shares: the manifests of the *)
(* session store, the operation lock of a session and the marker file of a *)
(* Panorama host, the workers (one operating system process each, running  *)
(* one stage at a time), how a stage is entered and left, and how it dies. *)
(*                                                                         *)
(* engine.py runs a stage as one function under two nested context         *)
(* managers.  A worker's pc names the next request it sends to Panorama or *)
(* the next manifest state it writes; local work in between happens in the *)
(* same step.                                                              *)
(***************************************************************************)
EXTENDS Panorama, SessionStates

CONSTANTS
  Worker,       \* processes that can run a stage
  Requests,     \* the stages operators ask for
  NoSession,    \* what the marker holds when there is no marker file
  Kind,         \* "cleanup" or "restore", of each session
  Component,    \* dependency components of the PatchSets
  Forward,      \* the forward operations of a session, in order
  Inverse,      \* its inverse operations, of the last mutation first
  Before,       \* what the plan found at each XPath it writes
  After,        \* what it leaves there
  CompOf,       \* the component of each XPath a session writes
  Context,      \* XPaths where a new reference changes a component's plan
  RefValue,     \* values that hold a reference to a planned deletion
  PlanSkipped,  \* components already left out when the plan was made
  Source,       \* the cleanups a restore undoes
  Baseline,     \* the cleanup history a restore was planned on
  Related,      \* the cleanups that touch what a restore depends on
  InitState,    \* manifest states the behaviour starts from
  InitTree,     \* candidate and running when the plans were made
  Acks,         \* guards whose digest operators confirm, or "none"
  CutAnswers,   \* whether an answer to a mutating request may be cut short
  MaxFaults     \* bound: processes killed or interrupted

VARIABLES
  state,        \* manifest: state
  applied,      \* manifest: XPaths of candidate_application
  review,       \* manifest: commit_review and the snapshots it names
  preguard,     \* manifest: precommit_guard
  stale,        \* restores planned on a source manifest rewritten since
  opHeld,       \* sessions whose .operation.lock file exists
  marker,       \* the session whose stage left the host marker file
  cleared,      \* sessions an operator has reconciled by hand
  pc, stage, sess, loc,   \* of each worker
  jobLock,      \* the process-local job lock of each worker
  faults        \* how much of MaxFaults is used

manifestVars == <<state, applied, review, preguard, stale>>
fileVars == <<opHeld, marker, cleared>>
workerVars == <<pc, stage, sess, loc, jobLock>>
vars == <<hostVars, manifestVars, fileVars, workerVars, faults>>

Stage == {"apply", "review", "commit", "push", "reconcile"}

Label ==
  { "idle", "marker", "check", "lock", "proof", "fetchRunning",
    "fetchCandidate", "decide", "snapshot", "write", "validate", "post",
    "review", "undo", "undoCheck", "targets", "proof2", "guard",
    "runningProof", "dispatch", "poll", "running", "release", "leave" }

Targets(s) == DOMAIN After[s]
Operation == [path : Path, value : Value]

ASSUME EngineConstants ==
  /\ NoSession \notin Session
  /\ Requests \subseteq Stage
  /\ Kind \in [Session -> {"cleanup", "restore"}]
  /\ InitTree \in Tree
  /\ MaxFaults \in Nat
  /\ CutAnswers \in BOOLEAN
  /\ Acks \subseteq {"none", "review", "preguard"}
  /\ RefValue \subseteq Value
  /\ InitState \in [Session -> {"PLANNED", "COMMITTED", "PUSHED"}]
  /\ \A s \in Session :
       /\ Targets(s) \subseteq Path
       /\ Targets(s) # {}
       /\ \A q \in Targets(s) : \E k \in DOMAIN Forward[s] :
            Forward[s][k].path = q
       /\ After[s] \in [Targets(s) -> Value]
       /\ Before[s] \in [Targets(s) -> Value]
       /\ CompOf[s] \in [Targets(s) -> Component]
       /\ Context[s] \in [Component -> SUBSET Path]
       /\ Forward[s] \in Seq([path : Targets(s), value : Value])
       /\ Inverse[s] \in Seq([path : Targets(s), value : Value])
       /\ PlanSkipped[s] \subseteq Component
       /\ Source[s] \subseteq Session
       /\ Baseline[s] \subseteq Session
       /\ Related[s] \subseteq Session

(***************************************************************************)
(* Evidence.  A scope guard names the XPaths that differ from what the     *)
(* plan allows; its digest covers those findings and the candidate tree.   *)
(* snap is the candidate snapshot file kept beside it (review_candidate or *)
(* pre_commit_candidate).                                                  *)
(***************************************************************************)
Guard == [has : BOOLEAN, cand : Tree, snap : Tree, findings : SUBSET Path,
          native : Native]
NoGuard ==
  [has |-> FALSE, cand |-> InitTree, snap |-> InitTree, findings |-> {},
   native |-> NoNative(InitTree)]

(* What reading the change summary gives.                                  *)
Summaries == {IF b THEN ChangeSummary ELSE NoNative(InitTree) : b \in Answers}

Review == [has : BOOLEAN, run : Tree, guard : Guard]
NoReview == [has |-> FALSE, run |-> InitTree, guard |-> NoGuard]

Digest(g) == [cand |-> g.cand, findings |-> g.findings]

ComponentsOf(s, P) == {CompOf[s][q] : q \in P}

(* XPaths where a component of P could gain a reference to what it deletes.*)
Residual(s, P, tree) ==
  {q \in (UNION {Context[s][c] : c \in ComponentsOf(s, P)}) \ P :
     tree[q] \in RefValue}

ScopeFindings(s, run, cand) ==
  {q \in Path \ applied[s] : cand[q] # run[q]}
  \cup (IF Kind[s] = "cleanup"
        THEN {q \in applied[s] : cand[q] # After[s][q]}
             \cup Residual(s, applied[s], cand)
        ELSE {})

(* Wrong on purpose: the snapshot beside the guard is not kept.            *)
GuardOfNoSnapshot(s, run, cand, native) ==
  [has |-> TRUE, cand |-> cand, findings |-> ScopeFindings(s, run, cand),
   native |-> native]

GuardOf(s, run, cand, native) ==
  [has |-> TRUE, cand |-> cand, snap |-> cand,
   findings |-> ScopeFindings(s, run, cand), native |-> native]

ReviewOf(s, run, cand, native) ==
  [has |-> TRUE, run |-> run, guard |-> GuardOf(s, run, cand, native)]

(* The tree holds the PatchSet's result at every XPath of P.               *)
Holds(s, P, tree) == \A q \in P : tree[q] = After[s][q]

(***************************************************************************)
(* Worker-local data.                                                      *)
(***************************************************************************)
Local ==
  [got : SUBSET Scope,        \* config locks this stage has acquired
   run : Tree,                \* the running tree it works with
   view : Tree,               \* the candidate tree it works with
   fast : BOOLEAN,            \* whether the plan proof spared the download
   skip : SUBSET Component,   \* conflicted components
   touched : SUBSET Path,     \* mutations with at least one operation done
   at : Nat,                  \* next operation
   ack : {"none", "review", "preguard"},  \* digest the operator confirmed
   back : SessionState,       \* the stable state a failed job returns to
   job : Nat]                 \* the job being polled

NoLocal ==
  [got |-> {}, run |-> InitTree, view |-> InitTree, fast |-> FALSE,
   skip |-> {}, touched |-> {}, at |-> 1, ack |-> "none",
   back |-> "PLANNED", job |-> 0]

Goto(p, label) == pc' = [pc EXCEPT ![p] = label]

Busy(p) == pc[p] \notin {"idle", "marker"}

(* The stage is past its first checks: its handlers are in place.          *)
InTry(p) == Busy(p) /\ pc[p] \notin {"check", "leave"}

(* A stage that gives up, or is done, releases the locks it has acquired.  *)
AfterRelease(got) == IF got = {} THEN "leave" ELSE "release"
GiveUp(p) == Goto(p, AfterRelease(loc[p].got))

(***************************************************************************)
(* Manifest writes.  Any of them changes the revision that a restore       *)
(* planned on this session has recorded.                                   *)
(***************************************************************************)
Rewritten(s) == stale \cup {r \in Session : s \in Source[r]}

SetState(s, new) ==
  /\ state' = [state EXCEPT ![s] = new]
  /\ stale' = Rewritten(s)

Transition(s, new) == new \in Transitions[state[s]] /\ SetState(s, new)

(* Wrong on purpose: the config locks are given back.                      *)
OutcomeUnknownReleases(p) ==
  /\ SetState(sess[p], "OUTCOME_UNKNOWN")
  /\ GiveUp(p)

(* An ambiguous answer to a mutating request: the outcome is recorded as   *)
(* unknown, no config lock is released, the marker stays.                  *)
OutcomeUnknown(p) ==
  /\ SetState(sess[p], "OUTCOME_UNKNOWN")
  /\ Goto(p, "leave")

(* A mutating request has three answers: done, refused (or never sent), or *)
(* none, when it may or may not have been done.  A request that was done   *)
(* but whose answer is not whole XML is taken for refused: outcomes lists  *)
(* what such a request leaves behind.                                      *)
Cut(outcomes) == IF CutAnswers THEN outcomes ELSE {}

(***************************************************************************)
(* Entering and leaving a stage.                                           *)
(***************************************************************************)
BecomeIdle(p) ==
  /\ Goto(p, "idle")
  /\ sess' = [sess EXCEPT ![p] = NoSession]
  /\ stage' = [stage EXCEPT ![p] = "none"]
  /\ loc' = [loc EXCEPT ![p] = NoLocal]

RequestStage(p, s, st) ==
  /\ pc[p] = "idle"
  /\ st \in Requests
  /\ s \notin opHeld
  /\ opHeld' = opHeld \cup {s}
  /\ Goto(p, "marker")
  /\ sess' = [sess EXCEPT ![p] = s]
  /\ stage' = [stage EXCEPT ![p] = st]
  /\ \E a \in (IF st = "commit" THEN Acks ELSE {"none"}) :
       loc' = [loc EXCEPT ![p] = [NoLocal EXCEPT !.ack = a]]
  /\ UNCHANGED <<hostVars, manifestVars, marker, cleared, jobLock, faults>>

(* Wrong on purpose: a marker is taken over unless its session is in flight.*)
HostFreeUnlessInFlight ==
  marker \notin {s \in Session : state[s] \in InFlight}

(* The marker file is created with O_EXCL: any file there keeps others out.*)
HostFree == marker = NoSession

EnterHost(p) ==
  /\ pc[p] = "marker"
  /\ \/ /\ HostFree
        /\ marker' = sess[p]
        /\ Goto(p, "check")
        /\ UNCHANGED <<opHeld, sess, stage, loc>>
     \/ /\ ~HostFree
        /\ opHeld' = opHeld \ {sess[p]}
        /\ BecomeIdle(p)
        /\ UNCHANGED marker
  /\ UNCHANGED <<hostVars, manifestVars, cleared, jobLock, faults>>

(* Wrong on purpose: an outcome that is unknown counts as settled.         *)
KeepsMarkerInFlight(s) == state[s] \in InFlight
KeepsMarker(s) == state[s] \in Unresolved

LeaveStage(p) ==
  /\ pc[p] = "leave"
  /\ marker' = IF KeepsMarker(sess[p]) THEN marker ELSE NoSession
  /\ opHeld' = opHeld \ {sess[p]}
  /\ BecomeIdle(p)
  /\ UNCHANGED <<hostVars, manifestVars, cleared, jobLock, faults>>

(***************************************************************************)
(* Config locks.  A stage that passed its checks takes them first.         *)
(***************************************************************************)
(* Wrong on purpose: straight to the proof, without any config lock.       *)
AdmitUnlocked(p, back) ==
  /\ loc' = [loc EXCEPT ![p].back = back]
  /\ Goto(p, "proof")

Admit(p, back) ==
  /\ loc' = [loc EXCEPT ![p].back = back]
  /\ Goto(p, "lock")

LockScopes(s) ==
  LET scopes == {ScopeOf[q] : q \in Targets(s)}
  IN  IF Shared \in scopes THEN {Shared} ELSE scopes

AcquireLock(p) ==
  /\ pc[p] = "lock"
  /\ \E sc \in LockScopes(sess[p]) \ loc[p].got :
       \/ LET got == loc[p].got \cup {sc}
          IN  /\ cfgLocks' = cfgLocks \cup {sc}
              /\ loc' = [loc EXCEPT ![p].got = got]
              /\ stale' = Rewritten(sess[p])
              /\ Goto(p, IF got # LockScopes(sess[p]) THEN "lock"
                         ELSE IF stage[p] = "push" THEN "running" ELSE "proof")
              /\ UNCHANGED state
       \/ /\ GiveUp(p)                           \* Panorama refuses
          /\ cfgLocks' \in {cfgLocks} \cup Cut({cfgLocks \cup {sc}})
          /\ UNCHANGED <<loc, state, stale>>
       \/ /\ cfgLocks' \in {cfgLocks, cfgLocks \cup {sc}}   \* no answer
          /\ OutcomeUnknown(p)
          /\ UNCHANGED loc
  /\ UNCHANGED <<candidate, running, jobs, edits, applied, review, preguard,
                 fileVars, stage, sess, jobLock, faults>>

(* A lock that cannot be released, or whose release gets no answer, is     *)
(* only a warning in the journal.                                          *)
ReleaseLock(p) ==
  /\ pc[p] = "release"
  /\ \E sc \in loc[p].got :
       /\ cfgLocks' \in {cfgLocks \ {sc}, cfgLocks}
       /\ loc' = [loc EXCEPT ![p].got = @ \ {sc}]
       /\ Goto(p, AfterRelease(loc[p].got \ {sc}))
  /\ stale' = Rewritten(sess[p])
  /\ UNCHANGED <<candidate, running, jobs, edits, state, applied, review,
                 preguard, fileVars, stage, sess, jobLock, faults>>

(* The first of two full downloads; the candidate is read after it.        *)
FetchRunning(p) ==
  /\ pc[p] = "fetchRunning"
  /\ \/ /\ loc' = [loc EXCEPT ![p].run = running]
        /\ Goto(p, "fetchCandidate")
     \/ /\ GiveUp(p)
        /\ UNCHANGED loc
  /\ UNCHANGED <<hostVars, manifestVars, fileVars, stage, sess, jobLock, faults>>

(***************************************************************************)
(* How a stage dies.  Ctrl+C runs the handlers: a state in flight becomes  *)
(* OUTCOME_UNKNOWN, no config lock is released, the marker is kept and the *)
(* operation lock removed.  A killed process, or a daemon worker thread of *)
(* a server that exits, runs nothing.                                      *)
(***************************************************************************)
EndProcess(p) ==
  /\ faults < MaxFaults
  /\ faults' = faults + 1
  /\ BecomeIdle(p)
  /\ jobLock' = [jobLock EXCEPT ![p] = FALSE]

Interrupt(p) ==
  /\ pc[p] \notin {"idle", "leave"}
  /\ EndProcess(p)
  /\ opHeld' = opHeld \ {sess[p]}
  /\ IF state[sess[p]] \in InFlight /\ InTry(p)
     THEN SetState(sess[p], "OUTCOME_UNKNOWN")
     ELSE UNCHANGED <<state, stale>>
  /\ UNCHANGED <<hostVars, applied, review, preguard, marker, cleared>>

Crash(p) ==
  /\ pc[p] # "idle"
  /\ EndProcess(p)
  /\ UNCHANGED <<hostVars, manifestVars, fileVars>>

(* The backend is started again: a job lock it still held is gone.         *)
Restart(p) ==
  /\ pc[p] = "idle"
  /\ jobLock[p]
  /\ jobLock' = [jobLock EXCEPT ![p] = FALSE]
  /\ UNCHANGED <<hostVars, manifestVars, fileVars, pc, stage, sess, loc, faults>>

(***************************************************************************)
(* What the README asks of the operator before the marker file is removed: *)
(* no stage and no job is running any more, the trees have been compared.  *)
(* Locks and leftover files go with it; the manifests do not change.       *)
(***************************************************************************)
ManualReconciliation ==
  /\ \A p \in Worker : pc[p] = "idle"
  /\ LiveJobs = {}
  /\ marker # NoSession \/ opHeld # {} \/ cfgLocks # {}
  /\ marker' = NoSession
  /\ opHeld' = {}
  /\ cfgLocks' = {}
  /\ cleared' = cleared \cup {s \in Session : state[s] \in Unresolved}
  /\ UNCHANGED <<candidate, running, jobs, edits, manifestVars, workerVars,
                 faults>>
=============================================================================
