----------------------------- MODULE JobStages -----------------------------
(***************************************************************************)
(* The stages that end in a Panorama job.  commit_session proves that what *)
(* is about to be committed is what was reviewed, push_session that what   *)
(* was committed is still in running; both then dispatch one job, wait for *)
(* it and record its result in the same way.                               *)
(***************************************************************************)
EXTENDS EngineState

DuringState(p) == IF stage[p] = "commit" THEN "COMMITTING" ELSE "PUSHING"
DoneState(p) == IF stage[p] = "commit" THEN "COMMITTED" ELSE "PUSHED"

(* The last local step before the request: the manifest is moved first.    *)
BeginJob(p) ==
  /\ Transition(sess[p], DuringState(p))
  /\ Goto(p, "dispatch")

(* The job is known not to have run, or to have failed.                    *)
Recover(p) ==
  /\ Recoverable(state[sess[p]], loc[p].back)
  /\ SetState(sess[p], loc[p].back)
  /\ GiveUp(p)

Queued(p) == Append(jobs, [kind |-> stage[p], sess |-> sess[p],
                          paths |-> applied[sess[p]], st |-> "run"])

CanQueue(p) == ~jobLock[p] /\ Len(jobs) < MaxJobs

(* One commit or push at a time for a process: PanoramaWriteClient keeps a *)
(* lock per host from the dispatch to the end of the job it has polled,    *)
(* and for good when the dispatch got no answer.                           *)
Dispatch(p) ==
  /\ pc[p] = "dispatch"
  /\ \/ /\ CanQueue(p)
        /\ jobs' = Queued(p)
        /\ loc' = [loc EXCEPT ![p].job = Len(jobs) + 1]
        /\ jobLock' = [jobLock EXCEPT ![p] = TRUE]
        /\ Goto(p, "poll")
        /\ stale' = Rewritten(sess[p])
        /\ UNCHANGED state
     \/ /\ Recover(p)        \* refused, not sent, or the job lock is taken
        /\ UNCHANGED <<loc, jobLock>>
        /\ jobs' \in {jobs} \cup (IF CanQueue(p) THEN Cut({Queued(p)}) ELSE {})
     \/ /\ ~jobLock[p]
        /\ jobs' \in {jobs} \cup (IF CanQueue(p) THEN {Queued(p)} ELSE {})
        /\ jobLock' = [jobLock EXCEPT ![p] = TRUE]
        /\ OutcomeUnknown(p)
        /\ UNCHANGED loc
  /\ UNCHANGED <<candidate, running, cfgLocks, edits, applied, review,
                 preguard, fileVars, stage, sess, faults>>

(* Wrong on purpose: a job that is not seen to end counts as failed.       *)
LostJobFailed(p) == Recover(p)
LostJob(p) == OutcomeUnknown(p)

(* Wrong on purpose: a result that cannot be recorded counts as a failure. *)
LostResultFailed(p) == Recover(p)
LostResult(p) == OutcomeUnknown(p)

(* Wrong on purpose: no deadline, no failing poll.                         *)
PollForever(p) ==
  /\ pc[p] = "poll"
  /\ jobs[loc[p].job].st # "run"
  /\ jobLock' = [jobLock EXCEPT ![p] = FALSE]
  /\ OutcomeUnknown(p)
  /\ UNCHANGED <<hostVars, applied, review, preguard, fileVars, stage, sess,
                 loc, faults>>

(* A job that is seen to end frees the job lock; one that is not seen to   *)
(* end before the deadline, or a failing poll, does not.                   *)
Poll(p) ==
  /\ pc[p] = "poll"
  /\ LET job == jobs[loc[p].job] IN
     \/ /\ job.st = "ok"
        /\ jobLock' = [jobLock EXCEPT ![p] = FALSE]
        /\ \/ Transition(sess[p], DoneState(p)) /\ GiveUp(p)
           \/ LostResult(p)
     \/ /\ job.st = "fail"
        /\ jobLock' = [jobLock EXCEPT ![p] = FALSE]
        /\ Recover(p)
     \/ /\ LostJob(p)
        /\ UNCHANGED jobLock
  /\ UNCHANGED <<hostVars, applied, review, preguard, fileVars, stage, sess,
                 loc, faults>>

(***************************************************************************)
(* Commit.                                                                 *)
(***************************************************************************)

(* The operator accepts a blocked guard by repeating its digest.           *)
AckGuard(p) == IF loc[p].ack = "preguard" THEN preguard[sess[p]]
               ELSE review[sess[p]].guard

Acked(p, g) ==
  /\ loc[p].ack # "none"
  /\ AckGuard(p).findings # {}
  /\ g.findings # {}
  /\ Digest(g) = Digest(AckGuard(p))

PreviousAccepted(p) ==
  preguard[sess[p]].has /\ Acked(p, preguard[sess[p]])

(* What the live state is compared with.                                   *)
Basis(p) == IF PreviousAccepted(p) THEN preguard[sess[p]]
            ELSE review[sess[p]].guard

BasisNative(p) ==
  IF Basis(p).native.has THEN Basis(p).native
  ELSE review[sess[p]].guard.native

CommitCheck(p) ==
  /\ pc[p] = "check" /\ stage[p] = "commit"
  /\ LET s == sess[p] IN
     \/ /\ state[s] \in Reviewable
        /\ applied[s] # {}
        /\ review[s].has
        /\ \/ review[s].guard.findings = {}
           \/ Acked(p, review[s].guard)
           \/ PreviousAccepted(p)
        /\ Admit(p, state[s])
     \/ Goto(p, "leave") /\ UNCHANGED loc
  /\ UNCHANGED <<hostVars, manifestVars, fileVars, stage, sess, jobLock, faults>>

(* Wrong on purpose: only the running tree is compared.                    *)
UnchangedRunning(p) ==
  TRUE \in Answers /\ BasisNative(p).has /\ running = BasisNative(p).run

(* The change summary is the reviewed one, byte for byte or (strict) only  *)
(* in meaning; or it is not to be had.                                     *)
Unchanged(p) ==
  TRUE \in Answers /\ BasisNative(p).has /\ ChangeSummary = BasisNative(p)

CommitProof(p) ==
  /\ pc[p] = "proof" /\ stage[p] = "commit"
  /\ \/ Unchanged(p) /\ Goto(p, "targets")
     \/ /\ TRUE \in Answers /\ BasisNative(p).has /\ ~Unchanged(p)
        /\ GiveUp(p)
     \/ Goto(p, "fetchCandidate")
  /\ UNCHANGED <<hostVars, manifestVars, fileVars, stage, sess, loc, jobLock,
                 faults>>

CommitTargets(p) ==
  /\ pc[p] = "targets" /\ stage[p] = "commit"
  /\ \/ Holds(sess[p], applied[sess[p]], candidate) /\ Goto(p, "proof2")
     \/ GiveUp(p)
  /\ UNCHANGED <<hostVars, manifestVars, fileVars, stage, sess, loc, jobLock,
                 faults>>

(* record_precommit_guard: written whether or not the guard passes.        *)
RecordGuard(p, g) == preguard' = [preguard EXCEPT ![sess[p]] = g]

(* A guard that blocks is either accepted by the operator or the end.      *)
GuardPasses(p, g) == g.findings = {} \/ Acked(p, g)

(* Second strict proof: nothing moved during the XPath reads.  The local   *)
(* snapshot then stands for the live candidate.                            *)
CommitProof2(p) ==
  /\ pc[p] = "proof2"
  /\ LET g == [Basis(p) EXCEPT !.native = ChangeSummary] IN
     \/ /\ Unchanged(p)
        /\ Basis(p).snap = Basis(p).cand
        /\ RecordGuard(p, g)
        /\ IF GuardPasses(p, g) THEN BeginJob(p)
           ELSE GiveUp(p) /\ stale' = Rewritten(sess[p]) /\ UNCHANGED state
     \/ /\ Unchanged(p)
        /\ Basis(p).snap # Basis(p).cand
        /\ GiveUp(p)
        /\ UNCHANGED <<preguard, state, stale>>
     \/ /\ Goto(p, "fetchCandidate")
        /\ UNCHANGED <<preguard, state, stale>>
  /\ UNCHANGED <<hostVars, applied, review, fileVars, stage, sess, loc,
                 jobLock, faults>>

(* Fallback: the whole candidate is downloaded, kept as a snapshot, and    *)
(* must be the reviewed one.                                               *)
CommitFetchCandidate(p) ==
  /\ pc[p] = "fetchCandidate" /\ stage[p] = "commit"
  /\ \/ /\ preguard' = [preguard EXCEPT ![sess[p]].snap = candidate]
        /\ stale' = Rewritten(sess[p])
        /\ IF /\ Holds(sess[p], applied[sess[p]], candidate)
              /\ candidate = Basis(p).cand
           THEN loc' = [loc EXCEPT ![p].view = candidate] /\ Goto(p, "guard")
           ELSE GiveUp(p) /\ UNCHANGED loc
     \/ GiveUp(p) /\ UNCHANGED <<preguard, stale, loc>>
  /\ UNCHANGED <<hostVars, state, applied, review, fileVars, stage, sess,
                 jobLock, faults>>

(* The guard is worked out again and a fresh change summary compared; when *)
(* there is none, running is compared instead.                             *)
CommitGuard(p) ==
  /\ pc[p] = "guard"
  /\ \E native \in Summaries :
       LET s == sess[p]
           g == GuardOf(s, review[s].run, loc[p].view, native)
           stop == GiveUp(p) /\ stale' = Rewritten(s) /\ UNCHANGED state
       IN  /\ RecordGuard(p, g)
           /\ IF ~GuardPasses(p, g) THEN stop
              ELSE IF native.has /\ BasisNative(p).has
                   THEN IF native = BasisNative(p) THEN BeginJob(p) ELSE stop
                   ELSE /\ Goto(p, "runningProof")
                        /\ stale' = Rewritten(s)
                        /\ UNCHANGED state
  /\ UNCHANGED <<hostVars, applied, review, fileVars, stage, sess, loc,
                 jobLock, faults>>

CommitRunning(p) ==
  /\ pc[p] = "runningProof"
  /\ \/ running = review[sess[p]].run /\ BeginJob(p)
     \/ GiveUp(p) /\ UNCHANGED <<state, stale>>
  /\ UNCHANGED <<hostVars, applied, review, preguard, fileVars, stage, sess,
                 loc, jobLock, faults>>

(***************************************************************************)
(* Push: the device groups of the whole plan, once, after the commit.      *)
(***************************************************************************)
PushCheck(p) ==
  /\ pc[p] = "check" /\ stage[p] = "push"
  /\ \/ /\ state[sess[p]] = "COMMITTED"
        /\ applied[sess[p]] # {}
        /\ Admit(p, "COMMITTED")
     \/ Goto(p, "leave") /\ UNCHANGED loc
  /\ UNCHANGED <<hostVars, manifestVars, fileVars, stage, sess, jobLock, faults>>

PushRunning(p) ==
  /\ pc[p] = "running" /\ stage[p] = "push"
  /\ \/ Holds(sess[p], applied[sess[p]], running) /\ BeginJob(p)
     \/ /\ ~Holds(sess[p], applied[sess[p]], running)
        /\ Transition(sess[p], "CONFLICT")
        /\ GiveUp(p)
     \/ GiveUp(p) /\ UNCHANGED <<state, stale>>
  /\ UNCHANGED <<hostVars, applied, review, preguard, fileVars, stage, sess,
                 loc, jobLock, faults>>

CommitStep(p) ==
  \/ CommitCheck(p) \/ CommitProof(p) \/ CommitTargets(p) \/ CommitProof2(p)
  \/ CommitFetchCandidate(p) \/ CommitGuard(p) \/ CommitRunning(p)

PushStep(p) == PushCheck(p) \/ PushRunning(p)

JobStep(p) == Dispatch(p) \/ Poll(p)
=============================================================================
