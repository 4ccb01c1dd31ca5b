----------------------------- MODULE JobProofs -----------------------------
(***************************************************************************)
(* Panorama never runs two jobs of the Toolbox at once, for any sessions,  *)
(* workers, deadlines and crashes, as long as no answer to a mutating      *)
(* request is cut short.  The argument: a job that runs keeps its session  *)
(* open, an open session keeps the marker, and the only worker that can be *)
(* past the marker then polls that job, or is about to leave.              *)
(*                                                                         *)
(* And no commit and no push is offered twice: a job that runs or has      *)
(* succeeded keeps its session out of the states another one could start   *)
(* from.  The argument: a manifest leaves the states a job has taken it to *)
(* only by a recovery, and a recovery comes after every job of that kind   *)
(* and session is known to have failed.                                    *)
(***************************************************************************)
EXTENDS ToolboxProofs

(* The session of a running job is open and holds the marker.              *)
JobsAreOpen ==
  \A j \in LiveJobs :
    marker = jobs[j].sess /\ state[jobs[j].sess] \in Unresolved

(* While a job runs, a worker past the marker polls it or is leaving.      *)
JobsArePolled ==
  \A p \in Worker :
    Busy(p) /\ LiveJobs # {} =>
      \/ pc[p] = "leave"
      \/ pc[p] = "poll" /\ LiveJobs \subseteq {loc[p].job}

JobInv == JobsAreOpen /\ JobsArePolled /\ OneJobAtATime

(* Without a running job there is nothing to show.                         *)
LEMMA NoLiveJob ==
  ASSUME LiveJobs' = {}
  PROVE  JobInv'
  BY DEF JobInv, JobsAreOpen, JobsArePolled, OneJobAtATime

(* Running jobs are jobs of sessions.                                      *)
LEMMA LiveJobType ==
  ASSUME TypeOK, NEW j \in LiveJobs
  PROVE  j \in DOMAIN jobs /\ jobs[j] \in Job /\ jobs[j].sess \in Session
<1>1. j \in DOMAIN jobs /\ jobs \in Seq(Job)
  BY DEF TypeOK, HostTypeOK, LiveJobs
<1>2. jobs[j] \in Job
  BY <1>1, ElementType
<1> QED BY <1>1, <1>2 DEF Job

(* Queueing a job where none runs leaves that one running.                 *)
LEMMA QueuedRuns ==
  ASSUME TypeOK, NEW p \in Worker, LiveJobs = {}, jobs' = Queued(p)
  PROVE  LiveJobs' = {Len(jobs) + 1} /\ jobs'[Len(jobs) + 1].sess = sess[p]
<1> DEFINE job == [kind |-> stage[p], sess |-> sess[p],
                   paths |-> applied[sess[p]], st |-> "run"]
<1>1. jobs' = Append(jobs, job) /\ jobs \in Seq(Job)
  BY DEF TypeOK, HostTypeOK, Queued
<1>2. job.st = "run" /\ job.sess = sess[p]
  OBVIOUS
<1> HIDE DEF job
<1>3. /\ DOMAIN jobs' = DOMAIN jobs \cup {Len(jobs) + 1}
      /\ jobs'[Len(jobs) + 1] = job
      /\ \A k \in DOMAIN jobs : jobs'[k] = jobs[k] /\ k # Len(jobs) + 1
  BY <1>1
<1> QED BY <1>2, <1>3 DEF LiveJobs

(* Only dispatch and poll concern the jobs.                                *)
LEMMA OtherSteps ==
  ASSUME NEW p \in Worker, StageStep(p), ~JobStep(p), ~EnterHost(p),
         ~LeaveStage(p)
  PROVE  UNCHANGED jobs /\ Busy(p) /\ pc[p] \notin {"leave", "poll"}
<1>1. CASE AcquireLock(p) \/ FetchRunning(p) \/ ReleaseLock(p)
  BY <1>1 DEF AcquireLock, FetchRunning, ReleaseLock, hostVars, Busy
<1>2. CASE ApplyStep(p)
  BY <1>2 DEF ApplyStep, ApplyCheck, ReadProof, ApplyFetchCandidate, Decide,
              SaveSnapshot, WriteOperation, Validate, CheckPost,
              BuildApplyReview, UndoOperation, UndoCheck, hostVars, Busy
<1>3. CASE ReviewStep(p) \/ ReconcileStep(p)
  BY <1>3 DEF ReviewStep, ReconcileStep, ReviewCheck, ReviewFetchCandidate,
              BuildReview, ReconcileCheck, ReconcileRunning, ReconcileTargets,
              ReconcileFetchCandidate, hostVars, Busy
<1>4. CASE CommitStep(p) \/ PushStep(p)
  BY <1>4 DEF CommitStep, PushStep, CommitCheck, CommitProof, CommitTargets,
              CommitProof2, CommitFetchCandidate, CommitGuard, CommitRunning,
              PushCheck, PushRunning, hostVars, Busy
<1> QED BY <1>1, <1>2, <1>3, <1>4 DEF StageStep

(* A step that is neither dispatch nor poll is taken with no job running.  *)
LEMMA OtherJobs ==
  ASSUME JobInv, NEW p \in Worker, StageStep(p), ~JobStep(p), ~EnterHost(p),
         ~LeaveStage(p)
  PROVE  JobInv'
<1>1. LiveJobs = {} /\ UNCHANGED jobs
  BY OtherSteps DEF JobInv, JobsArePolled
<1> QED BY <1>1, NoLiveJob DEF LiveJobs

(* A job is dispatched with no other one running.                          *)
LEMMA DispatchJobs ==
  ASSUME ~CutAnswers, TypeOK, MarkerInv, StateFits, JobInv,
         NEW p \in Worker, Dispatch(p)
  PROVE  JobInv'
<1>1. /\ Busy(p) /\ pc[p] = "dispatch" /\ sess[p] \in Session
      /\ marker = sess[p]
      /\ state[sess[p]] \in Unresolved
      /\ LiveJobs = {}
  BY SessionOfWorker
     DEF Dispatch, Busy, MarkerInv, BusyHoldsMarker, StateFits, StateFitsAt,
         Unresolved, InFlight, JobInv, JobsArePolled
<1>2. CASE UNCHANGED jobs
  BY <1>1, <1>2, NoLiveJob DEF LiveJobs
<1>3. CASE jobs' = Queued(p) /\ ~UNCHANGED jobs
  <2>1. LiveJobs' = {Len(jobs) + 1} /\ jobs'[Len(jobs) + 1].sess = sess[p]
    BY <1>1, <1>3, QueuedRuns
  <2>2. /\ UNCHANGED <<marker, sess>>
        /\ \/ UNCHANGED state /\ Goto(p, "poll")
              /\ loc' = [loc EXCEPT ![p].job = Len(jobs) + 1]
           \/ OutcomeUnknown(p)
    BY <1>3 DEF Dispatch, Cut, fileVars
  <2>3. state'[sess[p]] \in Unresolved
    BY <1>1, <2>2 DEF TypeOK, OutcomeUnknown, SetState, Unresolved
  <2>4. JobsAreOpen'
    BY <1>1, <2>1, <2>2, <2>3 DEF JobsAreOpen
  <2>5. \A q \in Worker \ {p} : ~Busy(q)'
    BY <1>1, <2>2, OneBusy DEF MarkerInv, TypeOK, Goto, Busy, OutcomeUnknown
  <2>6. \/ pc'[p] = "leave"
        \/ pc'[p] = "poll" /\ loc'[p].job = Len(jobs) + 1
    <3>1. loc[p] \in Local
      BY <1>1, SessionOfWorker DEF Busy
    <3> QED BY <2>2, <3>1 DEF TypeOK, Local, Goto, OutcomeUnknown
  <2>7. JobsArePolled'
    BY <2>1, <2>5, <2>6 DEF JobsArePolled
  <2>8. OneJobAtATime'
    BY <2>1 DEF OneJobAtATime
  <2> QED BY <2>4, <2>7, <2>8 DEF JobInv
<1> QED BY <1>2, <1>3 DEF Dispatch, Cut

(* A poll that loses a running job leaves its session open.                *)
LEMMA PollJobs ==
  ASSUME TypeOK, MarkerInv, JobInv, NEW p \in Worker, Poll(p)
  PROVE  JobInv'
<1>1. /\ Busy(p) /\ pc[p] = "poll" /\ sess[p] \in Session
      /\ marker = sess[p]
      /\ LiveJobs \subseteq {loc[p].job}
      /\ UNCHANGED <<jobs, marker, sess>>
  BY SessionOfWorker DEF Poll, Busy, MarkerInv, BusyHoldsMarker, JobInv,
                         JobsArePolled, hostVars, fileVars
<1>2. CASE loc[p].job \notin LiveJobs
  BY <1>1, <1>2, NoLiveJob DEF LiveJobs
<1>3. CASE loc[p].job \in LiveJobs
  <2>1. jobs[loc[p].job].st = "run"
    BY <1>3 DEF LiveJobs
  <2>2. OutcomeUnknown(p)
    BY <2>1 DEF Poll, LostJob
  <2>3. state'[sess[p]] \in Unresolved
    BY <1>1, <2>2 DEF TypeOK, OutcomeUnknown, SetState, Unresolved
  <2>4. LiveJobs' = LiveJobs
    BY <1>1 DEF LiveJobs
  <2>5. JobsAreOpen' /\ OneJobAtATime'
    BY <1>1, <2>3, <2>4 DEF JobInv, JobsAreOpen, OneJobAtATime
  <2>6. \A q \in Worker \ {p} : ~Busy(q)'
    BY <1>1, <2>2, OneBusy DEF MarkerInv, TypeOK, Goto, Busy, OutcomeUnknown
  <2>7. pc'[p] = "leave"
    BY <2>2 DEF TypeOK, Goto, OutcomeUnknown
  <2> QED BY <2>5, <2>6, <2>7 DEF JobInv, JobsArePolled
<1> QED BY <1>2, <1>3

(* A worker that becomes idle leaves a running job as open as it was.      *)
LEMMA IdleJobs ==
  ASSUME TypeOK, JobInv, NEW p \in Worker, BecomeIdle(p), UNCHANGED <<jobs>>,
         LiveJobs # {} => UNCHANGED marker,
         \A s \in Session : state[s] \in Unresolved => state'[s] \in Unresolved
  PROVE  JobInv'
<1>1. LiveJobs' = LiveJobs
  BY DEF LiveJobs
<1>2. JobsAreOpen'
  BY <1>1, LiveJobType DEF JobInv, JobsAreOpen
<1>3. JobsArePolled'
  <2>1. \A q \in Worker :
          Busy(q)' => Busy(q) /\ pc'[q] = pc[q] /\ loc'[q] = loc[q]
    BY DEF TypeOK, BecomeIdle, Goto, Busy
  <2> QED BY <1>1, <2>1 DEF JobInv, JobsArePolled
<1> QED BY <1>1, <1>2, <1>3 DEF JobInv, OneJobAtATime

(* The marker is taken only when no job runs.                              *)
LEMMA EnterJobs ==
  ASSUME TypeOK, JobInv, NEW p \in Worker, EnterHost(p)
  PROVE  JobInv'
<1>1. UNCHANGED <<jobs, state>>
  BY DEF EnterHost, hostVars, manifestVars
<1>2. CASE HostFree
  <2>1. LiveJobs = {}
    <3>1. SUFFICES ASSUME NEW j \in LiveJobs PROVE FALSE
      OBVIOUS
    <3>2. jobs[j].sess = NoSession /\ jobs[j].sess \in Session
      BY <1>2, LiveJobType DEF HostFree, JobInv, JobsAreOpen
    <3> QED BY <3>2, EngineConstants
  <2> QED BY <1>1, <2>1, NoLiveJob DEF LiveJobs
<1>3. CASE ~HostFree
  BY <1>1, <1>3, IdleJobs DEF EnterHost
<1> QED BY <1>2, <1>3

(* A stage that leaves while a job runs leaves the marker.                 *)
LEMMA LeaveJobs ==
  ASSUME TypeOK, MarkerInv, JobInv, NEW p \in Worker, LeaveStage(p)
  PROVE  JobInv'
<1>1. /\ marker = sess[p]
      /\ marker' = IF state[sess[p]] \in Unresolved THEN marker ELSE NoSession
      /\ BecomeIdle(p) /\ UNCHANGED <<jobs, state>>
  BY DEF LeaveStage, KeepsMarker, MarkerInv, BusyHoldsMarker, Busy, hostVars,
         manifestVars
<1>2. LiveJobs # {} => UNCHANGED marker
  BY <1>1 DEF JobInv, JobsAreOpen
<1> QED BY <1>1, <1>2, IdleJobs

(* So does a worker that dies.                                             *)
LEMMA DeathJobs ==
  ASSUME TypeOK, JobInv, NEW p \in Worker, Interrupt(p) \/ Crash(p)
  PROVE  JobInv'
<1>1. BecomeIdle(p) /\ UNCHANGED <<jobs, marker>>
  BY DEF Interrupt, Crash, EndProcess, hostVars, fileVars
<1>2. \/ UNCHANGED state
      \/ state' = [state EXCEPT ![sess[p]] = "OUTCOME_UNKNOWN"]
  BY DEF Interrupt, Crash, SetState, manifestVars
<1>3. \A s \in Session : state[s] \in Unresolved => state'[s] \in Unresolved
  BY <1>2 DEF TypeOK, Unresolved
<1> QED BY <1>1, <1>3, IdleJobs

(* A worker that asks for a stage is not past the marker.                  *)
LEMMA RequestJobs ==
  ASSUME TypeOK, JobInv, NEW p \in Worker, NEW s \in Session,
         NEW st \in Requests, RequestStage(p, s, st)
  PROVE  JobInv'
<1>1. UNCHANGED <<jobs, state, marker>>
  BY DEF RequestStage, hostVars, manifestVars
<1>2. LiveJobs' = LiveJobs
  BY <1>1 DEF LiveJobs
<1>3. \A q \in Worker : Busy(q)' => Busy(q) /\ pc'[q] = pc[q] /\ loc'[q] = loc[q]
  BY DEF TypeOK, RequestStage, Goto, Busy
<1> QED BY <1>1, <1>2, <1>3
        DEF JobInv, JobsAreOpen, JobsArePolled, OneJobAtATime

(* A job that ends runs no more; the others are as they were.              *)
LEMMA FinishJobs ==
  ASSUME TypeOK, JobInv, FinishJob, UNCHANGED <<manifestVars, fileVars, workerVars>>
  PROVE  JobInv'
<1>1. PICK j \in LiveJobs, st \in {"ok", "fail"} :
        jobs' = [jobs EXCEPT ![j].st = st]
  BY DEF FinishJob
<1>2. j \in DOMAIN jobs /\ jobs[j] \in Job
  BY LiveJobType
<1>3. LiveJobs' \subseteq {}
  <2>1. LiveJobs = {j}
    BY DEF JobInv, OneJobAtATime
  <2>2. DOMAIN jobs' = DOMAIN jobs
    BY <1>1
  <2>3. \A k \in DOMAIN jobs \ {j} : jobs'[k] = jobs[k]
    BY <1>1, <1>2
  <2>4. jobs'[j].st = st
    BY <1>1, <1>2 DEF Job
  <2> QED BY <2>1, <2>2, <2>3, <2>4 DEF LiveJobs
<1> QED BY <1>3, NoLiveJob

(* Every step keeps the job invariant.                                     *)
LEMMA NextJobs ==
  ASSUME ~CutAnswers, TypeOK, MarkerInv, StateFits, JobInv, [Next]_vars
  PROVE  JobInv'
<1>1. ASSUME NEW p \in Worker, WorkerStep(p)
      PROVE  JobInv'
  <2>1. CASE \E s \in Session, st \in Requests : RequestStage(p, s, st)
    BY <2>1, RequestJobs
  <2>2. CASE StageStep(p)
    BY <2>2, EnterJobs, LeaveJobs, DispatchJobs, PollJobs, OtherJobs DEF JobStep
  <2>3. CASE Interrupt(p) \/ Crash(p)
    BY <2>3, DeathJobs
  <2>4. CASE Restart(p)
    BY <2>4 DEF Restart, hostVars, manifestVars, fileVars, JobInv, JobsAreOpen,
                JobsArePolled, OneJobAtATime, LiveJobs, Busy
  <2> QED BY <1>1, <2>1, <2>2, <2>3, <2>4 DEF WorkerStep
<1>2. CASE HostStep
  <2>1. CASE UNCHANGED jobs
    BY <1>2, <2>1 DEF HostStep, manifestVars, fileVars, workerVars, JobInv,
                      JobsAreOpen, JobsArePolled, OneJobAtATime, LiveJobs, Busy
  <2>2. CASE FinishJob
    BY <1>2, <2>2, FinishJobs DEF HostStep
  <2> QED BY <1>2, <2>1, <2>2 DEF HostStep, EditCandidate, CommitElsewhere
<1>3. CASE ManualReconciliation
  <2>1. LiveJobs = {} /\ UNCHANGED jobs
    BY <1>3 DEF ManualReconciliation
  <2> QED BY <2>1, NoLiveJob DEF LiveJobs
<1>4. CASE UNCHANGED vars
  BY <1>4 DEF vars, hostVars, manifestVars, fileVars, workerVars, JobInv,
              JobsAreOpen, JobsArePolled, OneJobAtATime, LiveJobs, Busy
<1> QED BY <1>1, <1>2, <1>3, <1>4 DEF Next

(* In every behaviour without cut answers a running job is held open by    *)
(* its session and watched by at most one worker.                          *)
THEOREM JobsHold == ~CutAnswers => (Spec => []JobInv)
<1> SUFFICES ASSUME ~CutAnswers PROVE Spec => []JobInv
  OBVIOUS
<1>1. Init => JobInv
  BY DEF Init, JobInv, JobsAreOpen, JobsArePolled, OneJobAtATime, LiveJobs
<1>2. TypeOK /\ MarkerInv /\ StateFits /\ JobInv /\ [Next]_vars => JobInv'
  BY NextJobs
<1> QED BY <1>1, <1>2, TypeCorrect, MarkerHolds, StatesFit, PTL DEF Spec

(* Panorama never runs two jobs of the Toolbox at once, over processes,    *)
(* lost answers, poll deadlines and crashes, if no answer is cut short.    *)
THEOREM NeverTwoJobs == ~CutAnswers => (Spec => []OneJobAtATime)
<1>1. JobInv => OneJobAtATime
  BY DEF JobInv
<1> QED BY <1>1, JobsHold, PTL

(***************************************************************************)
(* No job is offered twice.                                                *)
(***************************************************************************)

(* The states a job of a kind takes its session to, for good.              *)
Taken(kind) ==
  IF kind = "commit"
  THEN {"COMMITTING", "COMMITTED", "PUSHING", "PUSHED", "CONFLICT",
        "OUTCOME_UNKNOWN"}
  ELSE {"PUSHING", "PUSHED", "CONFLICT", "OUTCOME_UNKNOWN"}

(* A job that has not failed has taken its session.                        *)
JobsTaken ==
  \A j \in DOMAIN jobs :
    jobs[j].st # "fail" => state[jobs[j].sess] \in Taken(jobs[j].kind)

(* When a job is dispatched or polled, every other one of its kind and     *)
(* session has failed.                                                     *)
OthersFailed ==
  \A p \in Worker : \A j \in DOMAIN jobs :
    /\ pc[p] \in {"dispatch", "poll"}
    /\ jobs[j].sess = sess[p] /\ jobs[j].kind = stage[p]
    /\ ~(pc[p] = "poll" /\ j = loc[p].job)
    => jobs[j].st = "fail"

(* What a stage relies on in its manifest: apply works on a plan, commit   *)
(* and push wait in their own states.                                      *)
PlanFitsAt(l, stg, st) ==
  /\ stg = "apply" /\ l \in {"lock", "proof", "fetchRunning",
                             "fetchCandidate", "decide"} => st = "PLANNED"
  /\ stg = "commit" /\ l \in {"dispatch", "poll"} => st = "COMMITTING"
  /\ stg = "push" /\ l \in {"dispatch", "poll"} => st = "PUSHING"

PlanFits == \A p \in Worker : PlanFitsAt(pc[p], stage[p], state[sess[p]])

AccountInv == PlanFits /\ JobsTaken /\ OthersFailed

(* A move of a manifest that leaves no state a job has taken it to.        *)
SafeMove(s) ==
  \/ UNCHANGED state
  \/ \E new \in SessionState :
       /\ \A kind \in {"commit", "push"} :
            state[s] \in Taken(kind) => new \in Taken(kind)
       /\ state' = [state EXCEPT ![s] = new]

(* A step that is not concerned with a job, or begins one where it may.    *)
SafeStep(p) ==
  \E l \in Label \ {"poll"} :
    /\ Goto(p, l)
    /\ PlanFitsAt(l, stage[p], state'[sess[p]])
    /\ l = "dispatch" => state[sess[p]] \notin Taken(stage[p])
    /\ SafeMove(sess[p])

(***************************************************************************)
(* Ways to take a safe step.                                               *)
(***************************************************************************)

(* Labels that ask nothing of the manifest.                                *)
LEMMA OpenLabels ==
  ASSUME NEW stg, NEW st
  PROVE  /\ \A got : /\ AfterRelease(got) \in Label \ {"poll", "dispatch"}
                     /\ PlanFitsAt(AfterRelease(got), stg, st)
         /\ \A l \in {"snapshot", "write", "validate", "post", "undo", "review",
                      "targets", "proof2", "guard", "runningProof", "running",
                      "release", "leave"} :
              l \in Label \ {"poll", "dispatch"} /\ PlanFitsAt(l, stg, st)
  BY DEF AfterRelease, Label, PlanFitsAt

(* Keeping the manifest state.                                             *)
LEMMA KeptSafe ==
  ASSUME NEW p \in Worker, NEW l \in Label \ {"poll", "dispatch"}, Goto(p, l),
         UNCHANGED state, PlanFitsAt(l, stage[p], state[sess[p]])
  PROVE  SafeStep(p)
<1>1. state'[sess[p]] = state[sess[p]]
  OBVIOUS
<1> QED BY <1>1 DEF SafeStep, SafeMove

(* Recording a state from which no job of a session is offered again.      *)
LEMMA MovedSafe ==
  ASSUME NEW p \in Worker, NEW l \in Label \ {"poll", "dispatch"}, Goto(p, l),
         NEW new \in SessionState, SetState(sess[p], new),
         \A kind \in {"commit", "push"} :
           state[sess[p]] \in Taken(kind) => new \in Taken(kind),
         PlanFitsAt(l, stage[p], state'[sess[p]])
  PROVE  SafeStep(p)
  BY DEF SafeStep, SafeMove, SetState

(* An unknown outcome, or a conflict, is final for both kinds.             *)
LEMMA FinalSafe ==
  ASSUME NEW p \in Worker, NEW l \in {"leave", "release"}, Goto(p, l),
         NEW new \in {"OUTCOME_UNKNOWN", "CONFLICT"}, SetState(sess[p], new)
  PROVE  SafeStep(p)
<1>1. new \in SessionState /\ \A kind \in {"commit", "push"} : new \in Taken(kind)
  BY DEF SessionState, Taken
<1> QED BY <1>1, OpenLabels, MovedSafe

(* Giving up.                                                              *)
LEMMA GiveUpSafe ==
  ASSUME NEW p \in Worker, GiveUp(p)
  PROVE  /\ UNCHANGED state => SafeStep(p)
         /\ SetState(sess[p], "CONFLICT") => SafeStep(p)
<1>1. AfterRelease(loc[p].got) \in {"leave", "release"}
  BY GiveUpLabel
<1> QED BY <1>1, OpenLabels, KeptSafe, FinalSafe DEF GiveUp

(* A job begins in a state that no job of its kind has taken.              *)
LEMMA BeginSafe ==
  ASSUME TypeOK, NEW p \in Worker, sess[p] \in Session,
         stage[p] \in {"commit", "push"}, BeginJob(p)
  PROVE  SafeStep(p)
<1>1. /\ Goto(p, "dispatch") /\ "dispatch" \in Label \ {"poll"}
      /\ DuringState(p) \in SessionState
      /\ DuringState(p) \in Transitions[state[sess[p]]]
      /\ state' = [state EXCEPT ![sess[p]] = DuringState(p)]
  BY DEF BeginJob, Transition, SetState, DuringState, SessionState, Label
<1>2. state[sess[p]] \in SessionState
  BY DEF TypeOK
<1>3. IF stage[p] = "commit" THEN state[sess[p]] \in Reviewable
                             ELSE state[sess[p]] = "COMMITTED"
  BY <1>1, <1>2 DEF DuringState, Transitions, SessionState, Reviewable
<1>4. /\ state[sess[p]] \notin Taken(stage[p])
      /\ \A kind \in {"commit", "push"} :
           state[sess[p]] \in Taken(kind) => DuringState(p) \in Taken(kind)
  BY <1>3 DEF DuringState, Taken, Reviewable
<1>5. PlanFitsAt("dispatch", stage[p], state'[sess[p]])
  BY <1>1 DEF TypeOK, PlanFitsAt, DuringState
<1> QED BY <1>1, <1>4, <1>5 DEF SafeStep, SafeMove

(***************************************************************************)
(* The steps of the stages.                                                *)
(***************************************************************************)

(* Admission: apply is admitted on a plan only.                            *)
LEMMA CheckSafe ==
  ASSUME NEW p \in Worker, ApplyCheck(p) \/ CommitCheck(p) \/ PushCheck(p)
  PROVE  SafeStep(p)
<1>1. UNCHANGED state
  BY DEF ApplyCheck, CommitCheck, PushCheck, manifestVars
<1>2. \/ Goto(p, "leave")
      \/ Goto(p, "lock") /\ PlanFitsAt("lock", stage[p], state[sess[p]])
  BY DEF ApplyCheck, CommitCheck, PushCheck, Admit, PlanFitsAt
<1>3. "lock" \in Label \ {"poll", "dispatch"}
  BY DEF Label
<1> QED BY <1>1, <1>2, <1>3, OpenLabels, KeptSafe

(* Locks and downloads keep the state the stage was admitted in.           *)
LEMMA FetchSafe ==
  ASSUME PlanFits, NEW p \in Worker,
         \/ AcquireLock(p) \/ FetchRunning(p) \/ ReleaseLock(p) \/ ReadProof(p)
         \/ ApplyFetchCandidate(p)
  PROVE  SafeStep(p)
<1>1. \/ OutcomeUnknown(p)
      \/ UNCHANGED state /\ \E got : Goto(p, AfterRelease(got))
      \/ UNCHANGED state /\ Goto(p, "running")
      \/ /\ UNCHANGED state
         /\ pc[p] \in {"lock", "proof", "fetchRunning", "fetchCandidate"}
         /\ \E l \in {"lock", "proof", "fetchRunning", "fetchCandidate",
                      "decide"} : Goto(p, l)
  BY DEF AcquireLock, FetchRunning, ReleaseLock, ReadProof, ApplyFetchCandidate,
         GiveUp, manifestVars
<1>2. pc[p] \in {"lock", "proof", "fetchRunning", "fetchCandidate"} =>
        \A l \in {"lock", "proof", "fetchRunning", "fetchCandidate", "decide"} :
          /\ l \in Label \ {"poll", "dispatch"}
          /\ PlanFitsAt(l, stage[p], state[sess[p]])
  BY DEF PlanFits, PlanFitsAt, Label
<1> QED BY <1>1, <1>2, OpenLabels, KeptSafe, FinalSafe DEF OutcomeUnknown

(* The apply stage moves a plan, which no job has taken.                   *)
LEMMA WriteSafe ==
  ASSUME TypeOK, StageFits, StateFits, PlanFits, NEW p \in Worker,
         \/ Decide(p) \/ SaveSnapshot(p) \/ WriteOperation(p) \/ Validate(p)
         \/ CheckPost(p) \/ BuildApplyReview(p) \/ UndoOperation(p)
         \/ UndoCheck(p)
  PROVE  SafeStep(p)
<1>1. sess[p] \in Session /\ state[sess[p]] \in SessionState
  BY SessionOfWorker
     DEF TypeOK, Decide, SaveSnapshot, WriteOperation, Validate, CheckPost,
         BuildApplyReview, UndoOperation, UndoCheck
<1>2. CASE Decide(p)
  <2>1. state[sess[p]] = "PLANNED"
    BY <1>2 DEF Decide, StageFits, Fits, PlanFits, PlanFitsAt
  <2>2. \/ GiveUp(p) /\ (UNCHANGED state \/ SetState(sess[p], "CONFLICT"))
        \/ /\ Goto(p, "snapshot")
           /\ \E new \in {"RESTORING", "WRITING_CANDIDATE"} :
                SetState(sess[p], new)
    BY <1>2 DEF Decide, Transition
  <2>3. /\ {"RESTORING", "WRITING_CANDIDATE"} \subseteq SessionState
        /\ \A kind \in {"commit", "push"} : "PLANNED" \notin Taken(kind)
    BY DEF SessionState, Taken
  <2> QED BY <2>1, <2>2, <2>3, GiveUpSafe, OpenLabels, MovedSafe
<1>3. CASE SaveSnapshot(p) \/ WriteOperation(p) \/ Validate(p) \/ CheckPost(p)
  <2>1. \/ OutcomeUnknown(p)
        \/ UNCHANGED state
           /\ \E l \in {"write", "validate", "post", "undo", "review"} : Goto(p, l)
    BY <1>3 DEF SaveSnapshot, WriteOperation, Validate, CheckPost
  <2> QED BY <2>1, OpenLabels, KeptSafe, FinalSafe DEF OutcomeUnknown
<1>4. CASE UndoOperation(p)
  <2>1. OutcomeUnknown(p) \/ (UNCHANGED state /\ Goto(p, "undo"))
    BY <1>4 DEF UndoOperation, Goto, TypeOK
  <2> QED BY <2>1, OpenLabels, KeptSafe, FinalSafe DEF OutcomeUnknown
<1>5. CASE BuildApplyReview(p)
  <2>1. /\ GiveUp(p) /\ SetState(sess[p], Outcome(p))
        /\ Outcome(p) \in {"PARTIAL", "RESTORED", "CANDIDATE_APPLIED"}
        /\ Outcome(p) \in Transitions[state[sess[p]]]
    BY <1>5 DEF BuildApplyReview, Transition, Outcome
  <2>2. state[sess[p]] \in {"PLANNED", "WRITING_CANDIDATE", "RESTORING"}
    BY <1>1, <2>1 DEF Transitions, SessionState
  <2>3. \A kind \in {"commit", "push"} : state[sess[p]] \notin Taken(kind)
    BY <2>2 DEF Taken
  <2> QED BY <2>1, <2>3, OpenLabels, MovedSafe DEF GiveUp, SessionState
<1>6. CASE UndoCheck(p)
  <2>1. \/ OutcomeUnknown(p)
        \/ GiveUp(p) /\ SetState(sess[p], "FAILED")
    BY <1>6 DEF UndoCheck
  <2>2. state[sess[p]] \in {"WRITING_CANDIDATE", "RESTORING"}
    BY <1>6 DEF UndoCheck, StateFits, StateFitsAt
  <2>3. \A kind \in {"commit", "push"} : state[sess[p]] \notin Taken(kind)
    BY <2>2 DEF Taken
  <2> QED BY <2>1, <2>3, OpenLabels, MovedSafe, FinalSafe
          DEF OutcomeUnknown, GiveUp, SessionState
<1> QED BY <1>2, <1>3, <1>4, <1>5, <1>6

(* The stages that only read admit work done elsewhere on a plan, or on a  *)
(* failed session, which no job has taken either.                          *)
LEMMA ReadSafe ==
  ASSUME NEW p \in Worker, ReviewStep(p) \/ ReconcileStep(p),
         stage[p] \in {"review", "reconcile"}
  PROVE  SafeStep(p)
<1>1. /\ \/ UNCHANGED state
         \/ \E new \in {"COMMITTED", "CANDIDATE_APPLIED"} :
              External(state[sess[p]], new) /\ SetState(sess[p], new)
      /\ \E l \in {"fetchRunning", "fetchCandidate", "review", "running",
                    "targets", "leave", "release"} : Goto(p, l)
  BY GiveUpLabel
     DEF ReviewStep, ReconcileStep, ReviewCheck, ReviewFetchCandidate,
         BuildReview, ReconcileCheck, ReconcileRunning, ReconcileTargets,
         ReconcileFetchCandidate, RecordExternal, GiveUp, manifestVars
<1>2. \A st : \A l \in {"fetchRunning", "fetchCandidate", "review", "running",
                       "targets", "leave", "release"} :
        l \in Label \ {"poll", "dispatch"} /\ PlanFitsAt(l, stage[p], st)
  BY DEF PlanFitsAt, Label
<1>3. \A new : External(state[sess[p]], new) =>
        \A kind \in {"commit", "push"} : state[sess[p]] \notin Taken(kind)
  BY DEF External, Taken
<1>4. {"COMMITTED", "CANDIDATE_APPLIED"} \subseteq SessionState
  BY DEF SessionState
<1> QED BY <1>1, <1>2, <1>3, <1>4, KeptSafe, MovedSafe

(* Commit and push begin a job, or keep the state, or find a conflict.     *)
LEMMA ProveSafe ==
  ASSUME TypeOK, StageFits, NEW p \in Worker,
         \/ CommitProof(p) \/ CommitTargets(p) \/ CommitProof2(p)
         \/ CommitFetchCandidate(p) \/ CommitGuard(p) \/ CommitRunning(p)
         \/ PushRunning(p)
  PROVE  SafeStep(p)
<1>1. stage[p] \in {"commit", "push"} /\ sess[p] \in Session
  BY SessionOfWorker
     DEF CommitProof, CommitTargets, CommitProof2, CommitFetchCandidate,
         CommitGuard, CommitRunning, PushRunning, StageFits, Fits
<1>2. \/ BeginJob(p)
      \/ GiveUp(p) /\ (UNCHANGED state \/ SetState(sess[p], "CONFLICT"))
      \/ UNCHANGED state
         /\ \E l \in {"targets", "fetchCandidate", "proof2", "guard",
                      "runningProof"} : Goto(p, l)
  BY DEF CommitProof, CommitTargets, CommitProof2, CommitFetchCandidate,
         CommitGuard, CommitRunning, PushRunning, Transition, manifestVars
<1>3. \A l \in {"targets", "fetchCandidate", "proof2", "guard", "runningProof"} :
        l \in Label \ {"poll", "dispatch"}
        /\ PlanFitsAt(l, stage[p], state[sess[p]])
  BY <1>1 DEF PlanFitsAt, Label
<1> QED BY <1>1, <1>2, <1>3, BeginSafe, GiveUpSafe, KeptSafe

(* Every step of a stage that is not concerned with a running job is safe. *)
LEMMA StageSafe ==
  ASSUME TypeOK, StageFits, StateFits, PlanFits, NEW p \in Worker,
         StageStep(p), ~JobStep(p), ~EnterHost(p), ~LeaveStage(p)
  PROVE  SafeStep(p)
<1>1. CASE ApplyStep(p)
  BY <1>1, CheckSafe, FetchSafe, WriteSafe DEF ApplyStep
<1>2. CASE ReviewStep(p) \/ ReconcileStep(p)
  <2>1. stage[p] \in {"review", "reconcile"}
    BY <1>2 DEF ReviewStep, ReconcileStep, ReviewCheck, ReviewFetchCandidate,
                BuildReview, ReconcileCheck, ReconcileRunning, ReconcileTargets,
                ReconcileFetchCandidate
  <2> QED BY <1>2, <2>1, ReadSafe
<1>3. CASE CommitStep(p) \/ PushStep(p)
  BY <1>3, CheckSafe, ProveSafe DEF CommitStep, PushStep
<1>4. CASE AcquireLock(p) \/ FetchRunning(p) \/ ReleaseLock(p)
  BY <1>4, FetchSafe
<1> QED BY <1>1, <1>2, <1>3, <1>4 DEF StageStep

(***************************************************************************)
(* The account of the jobs, step by step.                                  *)
(***************************************************************************)

(* A job in the list is a commit or a push of a session.                   *)
LEMMA JobType ==
  ASSUME TypeOK, NEW j \in DOMAIN jobs
  PROVE  jobs[j].sess \in Session /\ jobs[j].kind \in {"commit", "push"}
<1>1. jobs[j] \in Job
  BY ElementType DEF TypeOK, HostTypeOK
<1> QED BY <1>1 DEF Job

(* While a worker is past the marker, the others ask nothing.              *)
LEMMA OthersIdle ==
  ASSUME TypeOK, MarkerInv, NEW p \in Worker, Busy(p), NEW l, Goto(p, l),
         UNCHANGED <<stage, sess>>
  PROVE  /\ pc'[p] = l
         /\ \A q \in Worker \ {p} : /\ PlanFitsAt(pc'[q], stage'[q], state'[sess'[q]])
                                   /\ pc'[q] \notin {"dispatch", "poll"}
<1>1. \A q \in Worker \ {p} : ~Busy(q) /\ pc'[q] = pc[q]
  BY OneBusy DEF MarkerInv, TypeOK, Goto
<1>2. pc'[p] = l
  BY DEF TypeOK, Goto
<1> QED BY <1>1, <1>2 DEF Busy, PlanFitsAt

(* A safe step.                                                            *)
LEMMA SafeAccount ==
  ASSUME TypeOK, MarkerInv, AccountInv, NEW p \in Worker, Quiet(p), SafeStep(p),
         UNCHANGED jobs
  PROVE  AccountInv'
<1>1. Busy(p) /\ sess[p] \in Session /\ UNCHANGED <<stage, sess>>
  BY SessionOfWorker DEF Quiet, Busy
<1>2. PICK l \in Label \ {"poll"} :
        /\ Goto(p, l)
        /\ PlanFitsAt(l, stage[p], state'[sess[p]])
        /\ l = "dispatch" => state[sess[p]] \notin Taken(stage[p])
        /\ SafeMove(sess[p])
  BY DEF SafeStep
<1>3. PlanFits'
  BY <1>1, <1>2, OthersIdle DEF PlanFits
<1>4. JobsTaken'
  BY <1>1, <1>2, JobType DEF TypeOK, AccountInv, JobsTaken, SafeMove
<1>5. OthersFailed'
  <2>1. SUFFICES ASSUME NEW q \in Worker, NEW j \in DOMAIN jobs,
                        pc'[q] \in {"dispatch", "poll"},
                        jobs[j].sess = sess[q], jobs[j].kind = stage[q]
                 PROVE  jobs[j].st = "fail"
    BY <1>1 DEF OthersFailed
  <2>2. q = p /\ l = "dispatch"
    BY <1>1, <1>2, <2>1, OthersIdle
  <2> QED BY <1>2, <2>1, <2>2 DEF AccountInv, JobsTaken
<1> QED BY <1>3, <1>4, <1>5 DEF AccountInv

(* Leaving the job stages with a state that all jobs allow.                *)
LEMMA LeaveAccount ==
  ASSUME TypeOK, MarkerInv, AccountInv, NEW p \in Worker, Busy(p),
         NEW l \in {"leave", "release"}, Goto(p, l), UNCHANGED <<stage, sess>>,
         NEW new \in SessionState, SetState(sess[p], new),
         \A j \in DOMAIN jobs' :
           jobs'[j].st # "fail" =>
             IF jobs'[j].sess = sess[p] THEN new \in Taken(jobs'[j].kind)
             ELSE /\ j \in DOMAIN jobs /\ jobs[j] = jobs'[j]
  PROVE  AccountInv'
<1>1. sess[p] \in Session /\ state' = [state EXCEPT ![sess[p]] = new]
  BY SessionOfWorker DEF Busy, SetState
<1>2. PlanFits'
  BY OthersIdle DEF PlanFits, PlanFitsAt
<1>3. JobsTaken'
  BY <1>1, JobType DEF TypeOK, AccountInv, JobsTaken
<1>4. OthersFailed'
  BY OthersIdle DEF OthersFailed
<1> QED BY <1>2, <1>3, <1>4 DEF AccountInv

(* A recovery, once every job of the kind and session has failed.          *)
LEMMA RecoverAccount ==
  ASSUME TypeOK, MarkerInv, AccountInv, NEW p \in Worker,
         pc[p] \in {"dispatch", "poll"}, stage[p] \in {"commit", "push"},
         Recover(p), UNCHANGED <<jobs, stage, sess>>,
         \A j \in DOMAIN jobs :
           jobs[j].sess = sess[p] /\ jobs[j].kind = stage[p] => jobs[j].st = "fail"
  PROVE  AccountInv'
<1>1. Busy(p) /\ loc[p].back \in SessionState
  BY SessionOfWorker DEF Busy, Local
<1>2. /\ SetState(sess[p], loc[p].back)
      /\ Recoverable(state[sess[p]], loc[p].back)
      /\ \E l \in {"leave", "release"} : Goto(p, l)
  BY GiveUpLabel DEF Recover, GiveUp
<1>3. state[sess[p]] = IF stage[p] = "commit" THEN "COMMITTING" ELSE "PUSHING"
  BY DEF AccountInv, PlanFits, PlanFitsAt
<1>4. ASSUME NEW j \in DOMAIN jobs, jobs[j].st # "fail", jobs[j].sess = sess[p]
      PROVE  loc[p].back \in Taken(jobs[j].kind)
  <2>1. /\ state[sess[p]] \in Taken(jobs[j].kind)
        /\ jobs[j].kind \in {"commit", "push"} /\ jobs[j].kind # stage[p]
    BY <1>4, JobType DEF AccountInv, JobsTaken
  <2>2. stage[p] = "push" /\ jobs[j].kind = "commit"
    BY <1>3, <2>1 DEF Taken
  <2>3. loc[p].back = "COMMITTED"
    BY <1>2, <1>3, <2>2 DEF Recoverable
  <2> QED BY <2>2, <2>3 DEF Taken
<1> QED BY <1>1, <1>2, <1>4, LeaveAccount

(* A dispatch adds a job that has taken its session.                       *)
LEMMA DispatchAccount ==
  ASSUME ~CutAnswers, TypeOK, StageFits, MarkerInv, AccountInv,
         NEW p \in Worker, Dispatch(p)
  PROVE  AccountInv'
<1>1. /\ Busy(p) /\ pc[p] = "dispatch" /\ stage[p] \in {"commit", "push"}
      /\ sess[p] \in Session /\ UNCHANGED <<stage, sess>>
  BY SessionOfWorker DEF Dispatch, Busy, StageFits, Fits
<1>2. state[sess[p]] = IF stage[p] = "commit" THEN "COMMITTING" ELSE "PUSHING"
  BY <1>1 DEF AccountInv, PlanFits, PlanFitsAt
<1>3. \A j \in DOMAIN jobs :
        jobs[j].sess = sess[p] /\ jobs[j].kind = stage[p] => jobs[j].st = "fail"
  BY <1>1 DEF AccountInv, OthersFailed
<1> DEFINE job == [kind |-> stage[p], sess |-> sess[p],
                   paths |-> applied[sess[p]], st |-> "run"]
<1>4. jobs' = Queued(p) =>
        /\ DOMAIN jobs' = DOMAIN jobs \cup {Len(jobs) + 1}
        /\ jobs'[Len(jobs) + 1].sess = sess[p]
        /\ jobs'[Len(jobs) + 1].kind = stage[p]
        /\ \A k \in DOMAIN jobs : jobs'[k] = jobs[k]
  <2>1. job.sess = sess[p] /\ job.kind = stage[p]
    OBVIOUS
  <2>2. jobs \in Seq(Job)
    BY DEF TypeOK, HostTypeOK
  <2> HIDE DEF job
  <2>3. \A e : /\ DOMAIN Append(jobs, e) = DOMAIN jobs \cup {Len(jobs) + 1}
               /\ Append(jobs, e)[Len(jobs) + 1] = e
               /\ \A k \in DOMAIN jobs : Append(jobs, e)[k] = jobs[k]
    BY <2>2
  <2>4. Queued(p) = Append(jobs, job)
    BY DEF Queued, job
  <2> QED BY <2>1, <2>3, <2>4
<1> HIDE DEF job
<1>5. CASE jobs' = Queued(p) /\ Goto(p, "poll") /\ UNCHANGED state
           /\ loc' = [loc EXCEPT ![p].job = Len(jobs) + 1]
  <2>1. loc'[p].job = Len(jobs) + 1
    <3>1. loc[p] \in Local
      BY <1>1, SessionOfWorker DEF Busy
    <3> QED BY <1>5, <3>1 DEF TypeOK, Local
  <2>2. PlanFits'
    <3>1. PlanFitsAt("poll", stage[p], state[sess[p]])
      BY <1>1, <1>2 DEF PlanFitsAt
    <3> QED BY <1>1, <1>5, <3>1, OthersIdle DEF PlanFits
  <2>3. JobsTaken'
    <3>1. state[sess[p]] \in Taken(stage[p])
      BY <1>1, <1>2 DEF Taken
    <3> QED BY <1>4, <1>5, <3>1 DEF AccountInv, JobsTaken
  <2>4. OthersFailed'
    <3>1. SUFFICES ASSUME NEW q \in Worker, NEW j \in DOMAIN jobs',
                          pc'[q] \in {"dispatch", "poll"},
                          jobs'[j].sess = sess[q], jobs'[j].kind = stage[q],
                          ~(pc'[q] = "poll" /\ j = loc'[q].job)
                   PROVE  jobs'[j].st = "fail"
      BY <1>1 DEF OthersFailed
    <3>2. q = p /\ pc'[p] = "poll"
      BY <1>1, <1>5, <3>1, OthersIdle
    <3> QED BY <1>3, <1>4, <1>5, <2>1, <3>1, <3>2
  <2> QED BY <2>2, <2>3, <2>4 DEF AccountInv
<1>6. CASE Recover(p) /\ UNCHANGED jobs
  BY <1>1, <1>3, <1>6, RecoverAccount
<1>7. CASE OutcomeUnknown(p) /\ (UNCHANGED jobs \/ jobs' = Queued(p))
  <2>1. \A kind : "OUTCOME_UNKNOWN" \in Taken(kind)
    BY DEF Taken
  <2>2. Goto(p, "leave") /\ SetState(sess[p], "OUTCOME_UNKNOWN")
    BY <1>7 DEF OutcomeUnknown
  <2>3. \A j \in DOMAIN jobs' :
          jobs'[j].sess # sess[p] => j \in DOMAIN jobs /\ jobs[j] = jobs'[j]
    BY <1>4, <1>7
  <2> QED BY <1>1, <2>1, <2>2, <2>3, LeaveAccount DEF SessionState
<1> QED BY <1>5, <1>6, <1>7 DEF Dispatch, Cut

(* A poll sees the job succeed, sees it fail, or loses it.                 *)
LEMMA PollAccount ==
  ASSUME TypeOK, StageFits, MarkerInv, AccountInv, NEW p \in Worker, Poll(p)
  PROVE  AccountInv'
<1>1. /\ Busy(p) /\ pc[p] = "poll" /\ stage[p] \in {"commit", "push"}
      /\ sess[p] \in Session /\ UNCHANGED <<jobs, stage, sess>>
  BY SessionOfWorker DEF Poll, Busy, StageFits, Fits, hostVars
<1>2. state[sess[p]] = IF stage[p] = "commit" THEN "COMMITTING" ELSE "PUSHING"
  BY <1>1 DEF AccountInv, PlanFits, PlanFitsAt
<1>3. CASE Transition(sess[p], DoneState(p)) /\ GiveUp(p)
  <2>1. \A kind \in {"commit", "push"} :
          state[sess[p]] \in Taken(kind) => DoneState(p) \in Taken(kind)
    BY <1>1, <1>2 DEF DoneState, Taken
  <2>2. \A j \in DOMAIN jobs :
          jobs[j].st # "fail" /\ jobs[j].sess = sess[p] =>
            DoneState(p) \in Taken(jobs[j].kind)
    BY <2>1, JobType DEF AccountInv, JobsTaken
  <2>3. DoneState(p) \in SessionState /\ SetState(sess[p], DoneState(p))
    BY <1>3 DEF Transition, DoneState, SessionState
  <2>4. \E l \in {"leave", "release"} : Goto(p, l)
    BY <1>3, GiveUpLabel DEF GiveUp
  <2> QED BY <1>1, <2>2, <2>3, <2>4, LeaveAccount
<1>4. CASE Recover(p) /\ jobs[loc[p].job].st = "fail"
  BY <1>1, <1>4, RecoverAccount DEF AccountInv, OthersFailed
<1>5. CASE OutcomeUnknown(p)
  <2>1. \A kind : "OUTCOME_UNKNOWN" \in Taken(kind)
    BY DEF Taken
  <2> QED BY <1>1, <1>5, <2>1, LeaveAccount DEF OutcomeUnknown, SessionState
<1> QED BY <1>3, <1>4, <1>5 DEF Poll, LostJob, LostResult

(* A worker that is not at a job label asks nothing of the jobs.           *)
LEMMA AwayAccount ==
  ASSUME TypeOK, AccountInv, NEW p \in Worker, NEW l \in {"idle", "marker", "check"},
         Goto(p, l), UNCHANGED jobs,
         \A q \in Worker \ {p} : stage'[q] = stage[q] /\ sess'[q] = sess[q]
                                 /\ loc'[q] = loc[q],
         UNCHANGED state
  PROVE  AccountInv'
<1>1. \A q \in Worker : pc'[q] = IF q = p THEN l ELSE pc[q]
  BY DEF TypeOK, Goto
<1>2. PlanFits'
  BY <1>1 DEF AccountInv, PlanFits, PlanFitsAt
<1>3. JobsTaken'
  BY DEF AccountInv, JobsTaken
<1>4. OthersFailed'
  BY <1>1 DEF AccountInv, OthersFailed
<1> QED BY <1>2, <1>3, <1>4 DEF AccountInv

(* A worker that becomes idle.                                             *)
LEMMA IdleAccount ==
  ASSUME TypeOK, AccountInv, NEW p \in Worker, BecomeIdle(p),
         UNCHANGED <<jobs, state>>
  PROVE  AccountInv'
<1>1. Goto(p, "idle") /\ \A q \in Worker \ {p} :
        stage'[q] = stage[q] /\ sess'[q] = sess[q] /\ loc'[q] = loc[q]
  BY DEF BecomeIdle, TypeOK
<1> QED BY <1>1, AwayAccount

(* An interrupted worker that opens its session opens it for good.         *)
LEMMA InterruptAccount ==
  ASSUME TypeOK, MarkerInv, AccountInv, NEW p \in Worker, Interrupt(p)
  PROVE  AccountInv'
<1>1. BecomeIdle(p) /\ UNCHANGED jobs
  BY DEF Interrupt, EndProcess, hostVars
<1>2. CASE UNCHANGED state
  BY <1>1, <1>2, IdleAccount
<1>3. CASE Busy(p) /\ SetState(sess[p], "OUTCOME_UNKNOWN")
  <2>1. /\ sess[p] \in Session
        /\ state' = [state EXCEPT ![sess[p]] = "OUTCOME_UNKNOWN"]
    BY <1>3, SessionOfWorker DEF Busy, SetState
  <2>2. \A q \in Worker : pc'[q] \in {"idle", "marker"}
    BY <1>1, <1>3, OneBusy DEF MarkerInv, TypeOK, BecomeIdle, Goto, Busy
  <2>3. JobsTaken'
    <3>1. \A kind : "OUTCOME_UNKNOWN" \in Taken(kind)
      BY DEF Taken
    <3> QED BY <1>1, <2>1, <3>1, JobType DEF TypeOK, AccountInv, JobsTaken
  <2> QED BY <2>2, <2>3 DEF AccountInv, PlanFits, PlanFitsAt, OthersFailed
<1> QED BY <1>2, <1>3 DEF Interrupt, InTry

(* A job that ends was not known to have failed.                           *)
LEMMA FinishAccount ==
  ASSUME TypeOK, AccountInv, FinishJob,
         UNCHANGED <<manifestVars, fileVars, workerVars>>
  PROVE  AccountInv'
<1>1. PICK j \in LiveJobs, st \in {"ok", "fail"} :
        jobs' = [jobs EXCEPT ![j].st = st]
  BY DEF FinishJob
<1>2. j \in DOMAIN jobs /\ jobs[j] \in Job /\ jobs[j].st = "run"
  BY LiveJobType DEF LiveJobs
<1>3. /\ DOMAIN jobs' = DOMAIN jobs
      /\ \A k \in DOMAIN jobs :
           /\ jobs'[k].sess = jobs[k].sess /\ jobs'[k].kind = jobs[k].kind
           /\ k # j => jobs'[k] = jobs[k]
  <2>1. DOMAIN jobs' = DOMAIN jobs
    BY <1>1
  <2>2. \A k \in DOMAIN jobs \ {j} : jobs'[k] = jobs[k]
    BY <1>1, <1>2
  <2>3. jobs'[j].sess = jobs[j].sess /\ jobs'[j].kind = jobs[j].kind
    BY <1>1, <1>2 DEF Job
  <2> QED BY <2>1, <2>2, <2>3
<1>4. JobsTaken'
  BY <1>2, <1>3 DEF AccountInv, JobsTaken, manifestVars
<1>5. OthersFailed'
  BY <1>2, <1>3 DEF AccountInv, OthersFailed, workerVars
<1> QED BY <1>4, <1>5
        DEF AccountInv, PlanFits, manifestVars, workerVars

(* Every step keeps the account of the jobs.                               *)
LEMMA NextAccount ==
  ASSUME ~CutAnswers, TypeOK, StageFits, MarkerInv, StateFits, AccountInv,
         [Next]_vars
  PROVE  AccountInv'
<1>1. ASSUME NEW p \in Worker, WorkerStep(p)
      PROVE  AccountInv'
  <2>1. ASSUME NEW s \in Session, NEW st \in Requests, RequestStage(p, s, st)
        PROVE  AccountInv'
    <3>1. /\ Goto(p, "marker") /\ UNCHANGED <<jobs, state>>
          /\ \A q \in Worker \ {p} :
               stage'[q] = stage[q] /\ sess'[q] = sess[q] /\ loc'[q] = loc[q]
      BY <2>1 DEF RequestStage, TypeOK, hostVars, manifestVars
    <3> QED BY <3>1, AwayAccount
  <2>2. CASE EnterHost(p)
    <3>1. UNCHANGED <<jobs, state>>
      BY <2>2 DEF EnterHost, hostVars, manifestVars
    <3>2. BecomeIdle(p) \/ (Goto(p, "check") /\ UNCHANGED <<stage, sess, loc>>)
      BY <2>2 DEF EnterHost
    <3> QED BY <3>1, <3>2, IdleAccount, AwayAccount
  <2>3. CASE LeaveStage(p) \/ Crash(p)
    <3>1. BecomeIdle(p) /\ UNCHANGED <<jobs, state>>
      BY <2>3 DEF LeaveStage, Crash, EndProcess, hostVars, manifestVars
    <3> QED BY <3>1, IdleAccount
  <2>4. CASE JobStep(p)
    BY <2>4, DispatchAccount, PollAccount DEF JobStep
  <2>5. CASE StageStep(p) /\ ~JobStep(p) /\ ~EnterHost(p) /\ ~LeaveStage(p)
    BY <2>5, StageQuiet, StageSafe, OtherSteps, SafeAccount DEF AccountInv
  <2>6. CASE Interrupt(p)
    BY <2>6, InterruptAccount
  <2>7. CASE Restart(p)
    BY <2>7 DEF Restart, hostVars, manifestVars, AccountInv, PlanFits,
                JobsTaken, OthersFailed
  <2> QED BY <1>1, <2>1, <2>2, <2>3, <2>4, <2>5, <2>6, <2>7 DEF WorkerStep
<1>2. CASE HostStep
  <2>1. CASE UNCHANGED jobs
    BY <1>2, <2>1 DEF HostStep, manifestVars, workerVars, AccountInv, PlanFits,
                      JobsTaken, OthersFailed
  <2>2. CASE FinishJob
    BY <1>2, <2>2, FinishAccount DEF HostStep
  <2> QED BY <1>2, <2>1, <2>2 DEF HostStep, EditCandidate, CommitElsewhere
<1>3. CASE ManualReconciliation \/ UNCHANGED vars
  BY <1>3 DEF ManualReconciliation, vars, hostVars, manifestVars, workerVars,
              AccountInv, PlanFits, JobsTaken, OthersFailed
<1> QED BY <1>1, <1>2, <1>3 DEF Next

(* In every behaviour without cut answers every job that has not failed    *)
(* has taken its session.                                                  *)
THEOREM AccountHolds == ~CutAnswers => (Spec => []AccountInv)
<1> SUFFICES ASSUME ~CutAnswers PROVE Spec => []AccountInv
  OBVIOUS
<1>1. Init => AccountInv
  BY DEF Init, AccountInv, PlanFits, PlanFitsAt, JobsTaken, OthersFailed
<1>2. TypeOK /\ StageFits /\ MarkerInv /\ StateFits /\ AccountInv /\ [Next]_vars
        => AccountInv'
  BY NextAccount
<1> QED BY <1>1, <1>2, TypesHold, MarkerHolds, StatesFit, PTL DEF Spec

(* A job that runs or has succeeded is never offered again, whatever dies  *)
(* or gets no answer in between, if no answer is cut short.                *)
THEOREM NoJobTwice == ~CutAnswers => (Spec => []JobsAccounted)
<1>1. ASSUME TypeOK, AccountInv PROVE JobsAccounted
  BY <1>1, JobType DEF AccountInv, JobsTaken, Taken, JobsAccounted, Reviewable
<1> QED BY <1>1, AccountHolds, TypeCorrect, PTL
=============================================================================
