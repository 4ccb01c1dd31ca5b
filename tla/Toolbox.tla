------------------------------- MODULE Toolbox -------------------------------
(***************************************************************************)
(* The transaction engine as a whole: operators ask for stages on the      *)
(* sessions of one store, workers run them against one Panorama, other     *)
(* people work on the same appliance, processes die.                       *)
(***************************************************************************)
EXTENDS CandidateApply, ReviewStages, JobStages

InitApplied(s) == IF InitState[s] = "PLANNED" THEN {} ELSE Targets(s)

Init ==
  /\ candidate = InitTree
  /\ running = InitTree
  /\ cfgLocks = {}
  /\ jobs = <<>>
  /\ edits = 0
  /\ state = InitState
  /\ applied = [s \in Session |-> InitApplied(s)]
  /\ review = [s \in Session |-> NoReview]
  /\ preguard = [s \in Session |-> NoGuard]
  /\ stale = {}
  /\ opHeld = {}
  /\ marker = NoSession
  /\ cleared = {}
  /\ pc = [p \in Worker |-> "idle"]
  /\ stage = [p \in Worker |-> "none"]
  /\ sess = [p \in Worker |-> NoSession]
  /\ loc = [p \in Worker |-> NoLocal]
  /\ jobLock = [p \in Worker |-> FALSE]
  /\ faults = 0

(* One step of a stage that has been asked for.                            *)
StageStep(p) ==
  \/ EnterHost(p) \/ AcquireLock(p) \/ FetchRunning(p)
  \/ ApplyStep(p) \/ ReviewStep(p) \/ ReconcileStep(p)
  \/ CommitStep(p) \/ PushStep(p) \/ JobStep(p)
  \/ ReleaseLock(p) \/ LeaveStage(p)

WorkerStep(p) ==
  \/ \E s \in Session, st \in Requests : RequestStage(p, s, st)
  \/ StageStep(p)
  \/ Interrupt(p) \/ Crash(p) \/ Restart(p)

HostStep ==
  /\ EditCandidate \/ CommitElsewhere \/ FinishJob
  /\ UNCHANGED <<manifestVars, fileVars, workerVars, faults>>

Next == (\E p \in Worker : WorkerStep(p)) \/ HostStep \/ ManualReconciliation

(* A stage that has been entered goes on: every request has a timeout and  *)
(* the poll of a job has a deadline.  Nothing else is assumed: operators   *)
(* need not ask for anything, and jobs need not end.                       *)
Fairness == \A p \in Worker : WF_vars(StageStep(p))

Spec == Init /\ [][Next]_vars
FairSpec == Spec /\ Fairness

-----------------------------------------------------------------------------
TypeOK ==
  /\ HostTypeOK
  /\ state \in [Session -> SessionState]
  /\ applied \in [Session -> SUBSET Path]
  /\ \A s \in Session : applied[s] \subseteq Targets(s)
  /\ review \in [Session -> Review]
  /\ preguard \in [Session -> Guard]
  /\ stale \subseteq Session
  /\ opHeld \subseteq Session
  /\ marker \in Session \cup {NoSession}
  /\ cleared \subseteq Session
  /\ pc \in [Worker -> Label]
  /\ stage \in [Worker -> Stage \cup {"none"}]
  /\ sess \in [Worker -> Session \cup {NoSession}]
  /\ \A p \in Worker : pc[p] = "idle" \/ sess[p] \in Session
  /\ loc \in [Worker -> Local]
  /\ jobLock \in [Worker -> BOOLEAN]
  /\ faults \in 0..MaxFaults

-----------------------------------------------------------------------------
(***************************************************************************)
(* Sessions and the host marker.                                           *)
(***************************************************************************)

(* A session whose outcome is open keeps the host marker until an operator *)
(* has reconciled it: whatever stage died, and however, no other session   *)
(* can write before that (panorama_job_lock and the terminal handlers).    *)
MarkerCoversUnresolved ==
  \A s \in Session :
    state[s] \in Unresolved /\ s \notin cleared => marker = s

(* Panorama never runs two jobs of the Toolbox at once, over processes,    *)
(* lost answers, poll deadlines and crashes.                               *)
OneJobAtATime == \A i, j \in LiveJobs : i = j

(* A job that runs or has succeeded is never offered again: its session is *)
(* not in a state from which commit, or push, would start another.         *)
JobsAccounted ==
  \A j \in DOMAIN jobs :
    jobs[j].st # "fail" =>
      IF jobs[j].kind = "commit"
      THEN state[jobs[j].sess] \notin Reviewable
      ELSE state[jobs[j].sess] # "COMMITTED"

(* The stages of all workers together move the manifests and the marker    *)
(* as the ledger allows: force_terminal_state checks no table, but is only *)
(* ever used along it.                                                     *)
Ledger == INSTANCE SessionLedger
LedgerKept == Ledger!LedgerSpec

(* A manifest left in flight is settled in the end.                        *)
InFlightResolved ==
  \A s \in Session : (state[s] \in InFlight) ~> (state[s] \notin InFlight)

(***************************************************************************)
(* The candidate.                                                          *)
(***************************************************************************)

(* What the operations of a session may leave at an XPath half way.        *)
HalfWritten(s, q) ==
  {Forward[s][k].value : k \in {k \in DOMAIN Forward[s] : Forward[s][k].path = q}}
    \ {Before[s][q], After[s][q]}

(* Nobody but the session writes such a value by itself.                   *)
HalfValuesAreOwn ==
  \A s \in Session : \A q \in Targets(s) : \A v \in HalfWritten(s, q) :
    /\ v # InitTree[q]
    /\ v \notin EditValue[q]
    /\ \A r \in Session \ {s} :
         /\ \A k \in DOMAIN Forward[r] : Forward[r][k] # [path |-> q, value |-> v]
         /\ \A k \in DOMAIN Inverse[r] : Inverse[r][k] # [path |-> q, value |-> v]

(* The first operation on an XPath finds there what the plan found: the    *)
(* proof, the component filter and the config locks leave no room for      *)
(* somebody else's edit to be overwritten.                                 *)
WritesOnPlannedValue ==
  [][\A p \in Worker : \A q \in Path :
       /\ pc[p] = "write" /\ edits' = edits /\ candidate'[q] # candidate[q]
       /\ q \notin loc[p].touched
       => q \in Targets(sess[p]) /\ candidate[q] = Before[sess[p]][q]]_vars

(* A session that ends as FAILED has left nothing of its own behind: each  *)
(* XPath it could write holds what the plan found there, as the rollback   *)
(* covers a mutation from its first accepted operation on.                 *)
NoResidueOnFailure ==
  [][\A s \in Session :
       state[s] # "FAILED" /\ state'[s] = "FAILED" =>
         \E p \in Worker :
           /\ sess[p] = s
           /\ \A q \in Safe(s, loc[p].skip) : candidate'[q] = Before[s][q]]_vars

(* A half-written XPath of a session whose outcome is open stays under its *)
(* config lock, so nobody builds on it before the reconciliation.          *)
HalfWrittenIsLocked ==
  \A s \in Session \ cleared : \A q \in Targets(s) :
    state[s] \in Unresolved /\ candidate[q] \in HalfWritten(s, q) => Locked(q)

(* A restore is not written while a cleanup may be half written.           *)
RestoreAfterSettled ==
  [][\A r \in Session :
       state[r] # "RESTORING" /\ state'[r] = "RESTORING" =>
         \A c \in Session : Kind[c] = "cleanup" =>
           /\ state[c] # "OUTCOME_UNKNOWN"
           /\ state[c] \in InFlight => c \in cleared]_vars

(***************************************************************************)
(* Commit.                                                                 *)
(***************************************************************************)
BeginsCommit(p) ==
  pc[p] # "dispatch" /\ pc'[p] = "dispatch" /\ stage[p] = "commit"

(* It does so on an unchanged change summary, not on downloaded trees.     *)
BeginsOnSummary(p) == BeginsCommit(p) /\ pc[p] # "runningProof"

(* The change summary recorded with a guard is of the trees it was worked  *)
(* out on, and a guard that was accepted is of the review there is now.    *)
Coherent(p) ==
  /\ BasisNative(p).has
  /\ BasisNative(p).cand = Basis(p).cand
  /\ BasisNative(p).run = review[sess[p]].run
  /\ PreviousAccepted(p) =>
       preguard[sess[p]].findings =
         ScopeFindings(sess[p], review[sess[p]].run, preguard[sess[p]].cand)

(* The findings that the live trees would give now are those the operator  *)
(* has been shown and, if there are any, has accepted.                     *)
LiveFindingsKnown(p) ==
  /\ ScopeFindings(sess[p], running, candidate) = preguard'[sess[p]].findings
  /\ GuardPasses(p, preguard'[sess[p]])

(* A commit that relies on the change summary starts only when what it     *)
(* would take to running is what the review showed: no change outside the  *)
(* plan and no reference to a deleted entity has come since.  It takes a   *)
(* review whose own summary belongs to its trees.                          *)
CommitIsReviewed ==
  [][\A p \in Worker :
       BeginsOnSummary(p) /\ Coherent(p) => LiveFindingsKnown(p)]_vars

(* The review's own summary belongs to its trees.                          *)
ReviewCoherent(s) ==
  LET native == review[s].guard.native
  IN  /\ native.has
      /\ native.cand = review[s].guard.cand
      /\ native.run = review[s].run

(* An override is refused when "one finding changes between its display    *)
(* and the commit": also that of a guard an earlier commit has recorded.   *)
OverrideIsLive ==
  [][\A p \in Worker :
       BeginsOnSummary(p) /\ PreviousAccepted(p) /\ ReviewCoherent(sess[p])
         => LiveFindingsKnown(p)]_vars

(* The same of every review: commit "blocks every change outside the plan".*)
UnplannedIsBlocked ==
  [][\A p \in Worker : BeginsOnSummary(p) => LiveFindingsKnown(p)]_vars

(* The commit job is queued while every XPath the session wrote still      *)
(* holds what the plan left there: nothing got in after the last check.    *)
DispatchedAsPlanned ==
  [][Len(jobs') > Len(jobs) =>
       LET job == jobs'[Len(jobs')]
       IN  job.kind = "commit" => Holds(job.sess, job.paths, candidate)]_vars

(***************************************************************************)
(* Reconciliation of an execution outside the Toolbox.                     *)
(***************************************************************************)

(* The candidate trees that a commit of the session can be accepted on:    *)
(* that of its review, and that of the guard a refused commit recorded.    *)
Shown(s) ==
  (IF review[s].has THEN {review[s].guard.cand} ELSE {})
  \cup (IF preguard[s].has THEN {preguard[s].cand} ELSE {})

(* What a manifest says was written is what its evidence shows, whoever    *)
(* edits or commits between the reads: a plan counts as written in full    *)
(* only with all its XPaths applied, and every tree a commit can be        *)
(* accepted on holds the plan's result at all that is applied, be it       *)
(* written by the Toolbox, carried out by hand and admitted, or reviewed   *)
(* and blocked again since.                                                *)
EvidenceShowsPlan ==
  \A s \in Session :
    /\ state[s] \in {"CANDIDATE_APPLIED", "RESTORED"} => applied[s] = Targets(s)
    /\ \A tree \in Shown(s) : Holds(s, applied[s], tree)
=============================================================================
