---------------------------- MODULE ReviewProofs ----------------------------
(***************************************************************************)
(* What the evidence a stage keeps is worth: a review fits its session's   *)
(* manifest whoever renews it, so a commit that relies on it commits what  *)
(* it shows, for any plans, sessions, workers, answers and edits by other  *)
(* people.  The argument: the part of a manifest that findings depend on   *)
(* changes only in states that no reviewed session returns to.             *)
(* For the same reason the trees a commit can be accepted on hold what the *)
(* manifest says was written.                                              *)
(***************************************************************************)
EXTENDS CandidateProofs

(* States of a session that has never been reviewed.                       *)
Unreviewed == {"PLANNED", "FAILED", "WRITING_CANDIDATE", "RESTORING"}

(* A review, where there is one, has its snapshot, and its findings are    *)
(* those of its trees for what is applied.                                 *)
ReviewFits(s) ==
  \/ review[s] = NoReview
  \/ /\ state[s] \notin Unreviewed
     /\ review[s].has
     /\ review[s].guard.snap = review[s].guard.cand
     /\ review[s].guard.findings =
          ScopeFindings(s, review[s].run, review[s].guard.cand)

ReviewsFit == \A s \in Session : ReviewFits(s)

(* What a stage that reads relies on in its manifest.                      *)
ReadsFitAt(l, stg, st) ==
  /\ stg = "apply" /\ l \in {"lock", "proof", "fetchRunning",
                             "fetchCandidate", "decide"} => st = "PLANNED"
  /\ stg = "review" /\ l \in {"fetchRunning", "fetchCandidate", "review"} =>
       st \in Reviewable
  /\ stg = "reconcile" /\ l = "review" => st = "CANDIDATE_APPLIED"
  /\ stg = "commit" /\ l \in {"lock", "fetchRunning", "fetchCandidate", "proof",
                              "targets", "proof2", "guard", "runningProof"} =>
       st \in Reviewable

ReadsFit == \A p \in Worker : ReadsFitAt(pc[p], stage[p], state[sess[p]])

(* The candidate a commit has downloaded is the one it compares with.      *)
GuardsFit == \A p \in Worker : pc[p] = "guard" => loc[p].view = Basis(p).cand

ReviewInv == ReviewsFit /\ ReadsFit /\ GuardsFit

(***************************************************************************)
(* Steps that find their manifest as they need it.                         *)
(***************************************************************************)

(* A stage reads on only in the state it was admitted in.                  *)
LEMMA StageReads ==
  ASSUME TypeOK, StageFits, ReadsFit, NEW p \in Worker, StageStep(p),
         ~EnterHost(p), ~LeaveStage(p)
  PROVE  ReadsFitAt(pc'[p], stage[p], state'[sess[p]])
<1> DEFINE s == sess[p]
<1>1. s \in Session /\ ReadsFitAt(pc[p], stage[p], state[s])
  BY StageQuiet, SessionOfWorker DEF Quiet, Busy, ReadsFit
<1>2. \A l : Goto(p, l) /\ UNCHANGED state
             /\ ReadsFitAt(l, stage[p], state[s])
        => ReadsFitAt(pc'[p], stage[p], state'[s])
  BY GoesTo
<1>3. pc'[p] \notin {"lock", "proof", "fetchRunning", "fetchCandidate",
                     "decide", "review", "targets", "proof2", "guard",
                     "runningProof"}
        => ReadsFitAt(pc'[p], stage[p], state'[s])
  BY DEF ReadsFitAt
<1> USE GoesTo
<1>4. CASE AcquireLock(p)
  <2>1. UNCHANGED state \/ pc'[p] \in {"leave", "release"}
    BY <1>4 DEF AcquireLock
  <2>2. pc[p] = "lock" /\ pc'[p] \in {"lock", "running", "proof", "leave", "release"}
    BY <1>4 DEF AcquireLock
  <2> QED BY <1>1, <2>1, <2>2 DEF ReadsFitAt
<1>5. CASE ReleaseLock(p) \/ FetchRunning(p)
  <2>1. CASE ReleaseLock(p)
    BY <2>1, <1>3, GiveUpLabel DEF ReleaseLock
  <2>2. CASE FetchRunning(p)
    BY <1>1, <2>2 DEF FetchRunning, ReadsFitAt, manifestVars
  <2> QED BY <1>5, <2>1, <2>2
<1>6. CASE ApplyCheck(p) \/ ReadProof(p) \/ ApplyFetchCandidate(p)
  BY <1>1, <1>6 DEF ApplyCheck, ReadProof, ApplyFetchCandidate, Admit,
     ReadsFitAt, manifestVars
<1>7. CASE Decide(p) \/ SaveSnapshot(p) \/ WriteOperation(p) \/ Validate(p)
  BY <1>3, <1>7 DEF Decide, SaveSnapshot, WriteOperation, Validate
<1>8. CASE CheckPost(p)
  BY <1>1, <1>8 DEF CheckPost, StageFits, Fits, ReadsFitAt
<1>9. CASE BuildApplyReview(p) \/ UndoOperation(p) \/ UndoCheck(p)
  BY <1>3, <1>9 DEF BuildApplyReview, UndoOperation, UndoCheck
<1>10. CASE ReviewStep(p)
  BY <1>1, <1>10 DEF ReviewStep, ReviewCheck, ReviewFetchCandidate,
     BuildReview, ReadsFitAt, manifestVars
<1>11. CASE ReconcileStep(p)
  <2>1. ASSUME RecordExternal(p, "CANDIDATE_APPLIED")
        PROVE  state'[s] = "CANDIDATE_APPLIED"
    BY <1>1, <2>1 DEF RecordExternal, SetState, TypeOK
  <2> QED BY <1>11, <2>1 DEF ReconcileStep, ReconcileCheck, ReconcileRunning,
          ReconcileTargets, ReconcileFetchCandidate, ReadsFitAt
<1>12. CASE CommitStep(p)
  <2>1. stage[p] = "commit"
    BY <1>12 DEF CommitStep, CommitCheck, CommitProof, CommitTargets,
       CommitProof2, CommitFetchCandidate, CommitGuard, CommitRunning,
       StageFits, Fits
  <2>2. CASE CommitCheck(p)
    BY <2>1, <2>2 DEF CommitCheck, Admit, ReadsFitAt, manifestVars
  <2>3. CASE CommitProof(p) \/ CommitTargets(p) \/ CommitFetchCandidate(p)
    <3>1. UNCHANGED state /\ state[s] \in Reviewable
      BY <1>1, <2>1, <2>3 DEF CommitProof, CommitTargets, CommitFetchCandidate,
         ReadsFitAt, manifestVars
    <3> QED BY <2>1, <3>1 DEF ReadsFitAt
  <2>4. CASE CommitProof2(p) \/ CommitGuard(p) \/ CommitRunning(p)
    <3>1. state[s] \in Reviewable
      BY <1>1, <2>1, <2>4 DEF CommitProof2, CommitGuard, CommitRunning, ReadsFitAt
    <3>2. BeginJob(p) => pc'[p] = "dispatch"
      BY DEF BeginJob
    <3>3. UNCHANGED state \/ pc'[p] = "dispatch"
      BY <2>4, <3>2 DEF CommitProof2, CommitGuard, CommitRunning
    <3> QED BY <2>1, <3>1, <3>3 DEF ReadsFitAt
  <2> QED BY <1>12, <2>2, <2>3, <2>4 DEF CommitStep
<1>13. CASE PushStep(p) \/ JobStep(p)
  <2>1. stage[p] \in {"commit", "push"}
    BY <1>13 DEF PushStep, PushCheck, PushRunning, JobStep, Dispatch, Poll,
       StageFits, Fits
  <2>2. \A l \in {"lock", "dispatch", "poll", "leave", "release"} :
          stage[p] = "push" \/ l # "lock" => ReadsFitAt(l, stage[p], state'[s])
    BY <2>1 DEF ReadsFitAt
  <2>3. CASE PushStep(p)
    BY <2>2, <2>3 DEF PushStep, PushCheck, PushRunning, BeginJob, Admit
  <2>4. CASE JobStep(p)
    BY <2>2, <2>4 DEF JobStep, Dispatch, Poll, Recover, LostJob, LostResult
  <2> QED BY <1>13, <2>3, <2>4
<1> QED BY <1>4, <1>5, <1>6, <1>7, <1>8, <1>9, <1>10, <1>11, <1>12, <1>13
        DEF StageStep, ApplyStep

(* A session that has been reviewed does not return.                       *)
LEMMA NoWayBack ==
  ASSUME TypeOK, StateFits, ReadsFit, StageFits, NEW p \in Worker, StageStep(p),
         NEW s \in Session, state'[s] \in Unreviewed
  PROVE  state[s] \in Unreviewed
<1> SUFFICES ASSUME state'[s] # state[s] PROVE state[s] \in Unreviewed
  OBVIOUS
<1>1. CASE Decide(p)
  <2>1. pc[p] = "decide" /\ stage[p] = "apply" /\ sess[p] = s
    BY <1>1, NewStates DEF Decide, StageFits, Fits
  <2> QED BY <2>1 DEF ReadsFit, ReadsFitAt, Unreviewed
<1>2. CASE UndoCheck(p)
  BY <1>2, NewStates DEF UndoCheck, StateFits, StateFitsAt, Unreviewed
<1>3. CASE ~Decide(p) /\ ~UndoCheck(p)
  BY <1>3, NewStates DEF Outcome, External, Recoverable, Reviewable, Unreviewed
<1> QED BY <1>1, <1>2, <1>3

(* Where a review and what is applied change.                              *)
LEMMA ReviewKept ==
  ASSUME NEW p \in Worker, StageStep(p), ~CheckPost(p), ~ReconcileRunning(p),
         ~ReconcileFetchCandidate(p), ~BuildApplyReview(p), ~BuildReview(p)
  PROVE  UNCHANGED <<review, applied>>
<1>1. CASE EnterHost(p) \/ LeaveStage(p) \/ FetchRunning(p) \/ AcquireLock(p)
           \/ ReleaseLock(p)
  BY <1>1 DEF EnterHost, LeaveStage, FetchRunning, AcquireLock, ReleaseLock,
         manifestVars
<1>2. CASE ApplyStep(p) \/ ReviewStep(p) \/ ReconcileStep(p)
  BY <1>2 DEF ApplyStep, ApplyCheck, ReadProof, ApplyFetchCandidate, Decide,
         SaveSnapshot, WriteOperation, Validate, UndoOperation, UndoCheck,
         ReviewStep, ReviewCheck, ReviewFetchCandidate, ReconcileStep,
         ReconcileCheck, ReconcileTargets, manifestVars
<1>3. CASE CommitStep(p) \/ PushStep(p)
  BY <1>3 DEF CommitStep, PushStep, CommitCheck, CommitProof, CommitTargets,
         CommitProof2, CommitFetchCandidate, CommitGuard, CommitRunning,
         PushCheck, PushRunning, manifestVars
<1>4. CASE JobStep(p)
  BY <1>4 DEF JobStep, Dispatch, Poll, manifestVars
<1> QED BY <1>1, <1>2, <1>3, <1>4 DEF StageStep

(* Findings change only with what is applied.                              *)
LEMMA FitsStill ==
  ASSUME NEW s \in Session, ReviewFits(s), review'[s] = review[s],
         \/ applied'[s] = applied[s] \/ state[s] \in Unreviewed,
         state'[s] \in Unreviewed => state[s] \in Unreviewed
  PROVE  ReviewFits(s)'
<1>1. CASE review[s] = NoReview
  BY <1>1 DEF ReviewFits, NoReview, NoGuard, NoNative
<1>2. CASE review[s] # NoReview
  BY <1>2 DEF ReviewFits, ScopeFindings, Residual, ComponentsOf
<1> QED BY <1>1, <1>2

(* A review that is built fits.                                            *)
LEMMA BuiltFits ==
  ASSUME TypeOK, NEW s \in Session, NEW run, NEW cand, NEW native,
         review' = [review EXCEPT ![s] = ReviewOf(s, run, cand, native)],
         UNCHANGED applied, state'[s] \notin Unreviewed
  PROVE  ReviewFits(s)'
<1>1. review'[s] = ReviewOf(s, run, cand, native)
  BY DEF TypeOK
<1>2. /\ review'[s].run = run /\ review'[s].guard.cand = cand
      /\ review'[s].guard.snap = cand
      /\ review'[s].guard.findings = ScopeFindings(s, run, cand)
      /\ review'[s].has
  BY <1>1 DEF ReviewOf, GuardOf
<1> QED BY <1>2 DEF ReviewFits, ScopeFindings, Residual, ComponentsOf

(* Every step of a stage leaves fitting reviews.                           *)
LEMMA StageReviews ==
  ASSUME TypeOK, StageFits, StateFits, ReviewsFit, ReadsFit, NEW p \in Worker,
         StageStep(p)
  PROVE  ReviewsFit'
<1> SUFFICES ASSUME NEW s \in Session PROVE ReviewFits(s)'
  BY DEF ReviewsFit
<1>1. /\ ReviewFits(s)
      /\ state'[s] \in Unreviewed => state[s] \in Unreviewed
  BY NoWayBack DEF ReviewsFit
<1>2. CASE CheckPost(p)
  <2>1. UNCHANGED review /\ state[sess[p]] \in Unreviewed
    BY <1>2 DEF CheckPost, StateFits, StateFitsAt, Unreviewed
  <2>2. s = sess[p] \/ applied'[s] = applied[s]
    BY <1>2 DEF CheckPost, TypeOK
  <2> QED BY <1>1, <2>1, <2>2, FitsStill
<1>3. CASE ReconcileRunning(p) \/ ReconcileFetchCandidate(p)
  <2>1. UNCHANGED review
        /\ \/ UNCHANGED applied
           \/ \E new : RecordExternal(p, new)
    BY <1>3 DEF ReconcileRunning, ReconcileFetchCandidate
  <2>2. ASSUME NEW new, RecordExternal(p, new)
        PROVE  state[sess[p]] \in Unreviewed /\ (s = sess[p] \/ applied'[s] = applied[s])
    BY <2>2 DEF RecordExternal, External, Unreviewed, TypeOK
  <2> QED BY <1>1, <2>1, <2>2, FitsStill
<1>4. CASE BuildApplyReview(p) \/ BuildReview(p)
  <2>1. /\ UNCHANGED applied /\ pc[p] = "review"
        /\ \/ UNCHANGED review
           \/ \E native \in Summaries :
                review' = [review EXCEPT ![sess[p]] =
                  ReviewOf(sess[p], loc[p].run, loc[p].view, native)]
    BY <1>4 DEF BuildApplyReview, BuildReview
  <2>2. sess[p] \in Session
    BY <2>1, SessionOfWorker
  <2>3. CASE UNCHANGED review \/ s # sess[p]
    <3>1. review'[s] = review[s]
      BY <2>1, <2>3 DEF TypeOK
    <3> QED BY <1>1, <2>1, <3>1, FitsStill
  <2>4. CASE s = sess[p] /\ review' # review
    <3>1. CASE BuildApplyReview(p)
      <4>1. state'[s] = Outcome(p)
        BY <2>2, <2>4, <3>1 DEF BuildApplyReview, Transition, SetState, TypeOK
      <4> QED BY <2>1, <2>4, <4>1, BuiltFits DEF Outcome, Unreviewed
    <3>2. CASE BuildReview(p)
      <4>1. state'[s] = state[s] /\ state[s] \in Reviewable
        BY <2>4, <3>2 DEF BuildReview, ReadsFit, ReadsFitAt, Reviewable
      <4> QED BY <2>1, <2>4, <4>1, BuiltFits DEF Reviewable, Unreviewed
    <3> QED BY <1>4, <3>1, <3>2
  <2> QED BY <2>3, <2>4, <2>1
<1>5. CASE ~CheckPost(p) /\ ~ReconcileRunning(p) /\ ~ReconcileFetchCandidate(p)
           /\ ~BuildApplyReview(p) /\ ~BuildReview(p)
  BY <1>1, <1>5, ReviewKept, FitsStill
<1> QED BY <1>2, <1>3, <1>4, <1>5

(* What is compared with stays the same if the evidence does.              *)
LEMMA SameBasis ==
  ASSUME NEW p \in Worker, UNCHANGED <<review, preguard>>, sess'[p] = sess[p],
         loc'[p] = loc[p]
  PROVE  Basis(p)' = Basis(p)
  BY DEF Basis, PreviousAccepted, Acked, AckGuard, Digest

(* Only the download leads to the guard.                                   *)
LEMMA ToGuard ==
  ASSUME TypeOK, StageFits, NEW p \in Worker, StageStep(p), ~EnterHost(p),
         ~LeaveStage(p), pc'[p] = "guard"
  PROVE  CommitFetchCandidate(p)
<1> USE GoesTo
<1>1. stage[p] = "commit" => CommitFetchCandidate(p)
  <2>1. stage[p] = "commit" => CommitStep(p)
    <3>1. ~AcquireLock(p) /\ ~FetchRunning(p)
      BY DEF AcquireLock, FetchRunning
    <3>2. ~ReleaseLock(p)
      BY GiveUpLabel DEF ReleaseLock
    <3>3. ~JobStep(p)
      BY DEF JobStep, Dispatch, Poll, Recover, LostJob, LostResult
    <3>4. ~ReviewStep(p) /\ ~ReconcileStep(p) /\ ~PushStep(p)
      BY DEF ReviewStep, ReconcileStep, PushStep, ReviewCheck,
         ReviewFetchCandidate, BuildReview, ReconcileCheck,
         ReconcileRunning, ReconcileTargets, ReconcileFetchCandidate,
         PushCheck, PushRunning, BeginJob, Admit
    <3>5. ~ApplyCheck(p) /\ ~ReadProof(p) /\ ~ApplyFetchCandidate(p)
            /\ ~BuildApplyReview(p) /\ ~Decide(p) /\ ~SaveSnapshot(p)
      BY DEF ApplyCheck, ReadProof, ApplyFetchCandidate, BuildApplyReview,
         Decide, SaveSnapshot, Admit
    <3>6. ~WriteOperation(p) /\ ~Validate(p) /\ ~CheckPost(p)
            /\ ~UndoOperation(p) /\ ~UndoCheck(p)
      BY DEF WriteOperation, Validate, CheckPost, UndoOperation, UndoCheck
    <3> QED BY <3>1, <3>2, <3>3, <3>4, <3>5, <3>6 DEF StageStep, ApplyStep
  <2> QED BY <2>1 DEF CommitStep, CommitCheck, CommitProof, CommitTargets,
          CommitProof2, CommitGuard, CommitRunning, BeginJob, Admit
<1>2. stage'[p] = "commit" /\ stage'[p] = stage[p]
  BY StageQuiet, StageStepFits DEF StageFits, Fits, Quiet
<1> QED BY <1>1, <1>2

(* It does with the candidate it compared.                                 *)
LEMMA StageGuards ==
  ASSUME TypeOK, StageFits, NEW p \in Worker, StageStep(p), ~EnterHost(p),
         ~LeaveStage(p), pc'[p] = "guard"
  PROVE  loc'[p].view = Basis(p)'.cand
<1> USE GoesTo
<1>1. CommitFetchCandidate(p)
  BY ToGuard
<1>2. /\ candidate = Basis(p).cand /\ sess[p] \in Session /\ loc[p] \in Local
      /\ preguard' = [preguard EXCEPT ![sess[p]].snap = candidate]
      /\ loc' = [loc EXCEPT ![p].view = candidate]
      /\ UNCHANGED <<review, sess>>
  BY <1>1, SessionOfWorker DEF CommitFetchCandidate
<1>3. loc'[p].view = candidate /\ loc'[p].ack = loc[p].ack
  BY <1>2, LocOK DEF Local
<1>4. preguard[sess[p]] \in Guard
  BY <1>2 DEF TypeOK
<1>5. /\ preguard'[sess[p]].has = preguard[sess[p]].has
      /\ preguard'[sess[p]].cand = preguard[sess[p]].cand
      /\ preguard'[sess[p]].findings = preguard[sess[p]].findings
  BY <1>2, <1>4 DEF TypeOK, Guard
<1>6. Basis(p)'.cand = Basis(p).cand
  BY <1>2, <1>3, <1>5 DEF Basis, PreviousAccepted, Acked, AckGuard, Digest
<1> QED BY <1>2, <1>3, <1>6

(* A worker that does not step reads on as before.                         *)
LEMMA StayingReads ==
  ASSUME ReviewInv, NEW q \in Worker, pc'[q] = pc[q], sess'[q] = sess[q],
         stage'[q] = stage[q], loc'[q] = loc[q],
         \/ pc[q] \in {"idle", "marker"}
         \/ UNCHANGED <<state, review, preguard>>
  PROVE  /\ ReadsFitAt(pc'[q], stage'[q], state'[sess'[q]])
         /\ pc'[q] = "guard" => loc'[q].view = Basis(q)'.cand
<1>1. ReadsFitAt(pc'[q], stage'[q], state'[sess'[q]])
  BY DEF ReviewInv, ReadsFit, ReadsFitAt
<1>2. CASE pc[q] = "guard"
  <2>1. Basis(q)' = Basis(q)
    BY <1>2, SameBasis
  <2>2. loc[q].view = Basis(q).cand
    BY <1>2 DEF ReviewInv, GuardsFit
  <2> QED BY <1>1, <2>1, <2>2
<1> QED BY <1>1, <1>2

(* Every step keeps the evidence fitting.                                  *)
LEMMA NextReview ==
  ASSUME TypeOK, StageFits, MarkerInv, StateFits, ReviewInv, [Next]_vars
  PROVE  ReviewInv'
<1>1. ASSUME NEW p \in Worker, WorkerStep(p)
      PROVE  ReviewInv'
  <2>1. ASSUME BecomeIdle(p) \/ (\E s \in Session, st \in Requests :
                                   RequestStage(p, s, st))
               \/ (Goto(p, "check") /\ UNCHANGED <<sess, stage, loc>>),
               UNCHANGED <<review, preguard, applied>>,
               UNCHANGED state
                 \/ (SetState(sess[p], "OUTCOME_UNKNOWN") /\ Busy(p))
        PROVE  ReviewInv'
    <3>1. /\ pc'[p] \in {"idle", "marker", "check"}
          /\ \A q \in Worker \ {p} :
               /\ pc'[q] = pc[q] /\ loc'[q] = loc[q]
               /\ sess'[q] = sess[q] /\ stage'[q] = stage[q]
      BY <2>1, OthersStay, RequestStarts DEF Goto, TypeOK
    <3>2. \A q \in Worker \ {p} : UNCHANGED state \/ pc[q] \in {"idle", "marker"}
      BY <2>1, OneBusy DEF MarkerInv, Busy
    <3>3. ReadsFit' /\ GuardsFit'
      BY <2>1, <3>1, <3>2, StayingReads DEF ReadsFit, GuardsFit, ReadsFitAt
    <3>4. ASSUME NEW s \in Session PROVE ReviewFits(s)'
      <4>1. state'[s] \in Unreviewed => state[s] \in Unreviewed
        BY <2>1 DEF SetState, TypeOK, Unreviewed
      <4> QED BY <2>1, <4>1, FitsStill DEF ReviewInv, ReviewsFit
    <3> QED BY <3>3, <3>4 DEF ReviewInv, ReviewsFit
  <2>2. CASE \E s \in Session, st \in Requests : RequestStage(p, s, st)
    BY <2>1, <2>2 DEF RequestStage, manifestVars
  <2>3. CASE EnterHost(p) \/ LeaveStage(p) \/ Crash(p)
    <3>1. UNCHANGED <<review, preguard, applied, state>>
      BY <2>3 DEF EnterHost, LeaveStage, Crash, manifestVars
    <3>2. BecomeIdle(p) \/ (Goto(p, "check") /\ UNCHANGED <<sess, stage, loc>>)
      BY <2>3 DEF EnterHost, LeaveStage, Crash, EndProcess
    <3> QED BY <2>1, <3>1, <3>2
  <2>4. CASE Interrupt(p)
    BY <2>1, <2>4 DEF Interrupt, EndProcess, InTry
  <2>5. CASE StageStep(p) /\ ~EnterHost(p) /\ ~LeaveStage(p)
    <3>1. stage'[p] = stage[p] /\ sess'[p] = sess[p]
      BY <2>5, StageQuiet DEF Quiet
    <3>2. ReadsFitAt(pc'[p], stage'[p], state'[sess'[p]])
      BY <2>5, <3>1, StageReads DEF ReviewInv
    <3>3. pc'[p] = "guard" => loc'[p].view = Basis(p)'.cand
      BY <2>5, StageGuards
    <3>4. ASSUME NEW q \in Worker \ {p}
          PROVE  /\ ReadsFitAt(pc'[q], stage'[q], state'[sess'[q]])
                 /\ pc'[q] = "guard" => loc'[q].view = Basis(q)'.cand
      BY <2>5, OthersWait, StayingReads DEF Busy
    <3>5. ReadsFit' /\ GuardsFit'
      BY <3>2, <3>3, <3>4 DEF ReadsFit, GuardsFit
    <3> QED BY <2>5, <3>5, StageReviews DEF ReviewInv
  <2>6. CASE Restart(p)
    <3>1. UNCHANGED <<manifestVars, pc, stage, sess, loc>>
      BY <2>6 DEF Restart
    <3>2. ReadsFit' /\ GuardsFit'
      BY <3>1, StayingReads DEF ReadsFit, GuardsFit, manifestVars
    <3> QED BY <3>1, <3>2, FitsStill DEF ReviewInv, ReviewsFit, manifestVars
  <2> QED BY <1>1, <2>2, <2>3, <2>4, <2>5, <2>6 DEF WorkerStep
<1>2. CASE HostStep \/ ManualReconciliation \/ UNCHANGED vars
  <2>1. UNCHANGED <<manifestVars, pc, stage, sess, loc>>
    BY <1>2 DEF HostStep, ManualReconciliation, vars, workerVars
  <2>2. ReadsFit' /\ GuardsFit'
    BY <2>1, StayingReads DEF ReadsFit, GuardsFit, manifestVars
  <2> QED BY <2>1, <2>2, FitsStill DEF ReviewInv, ReviewsFit, manifestVars
<1> QED BY <1>1, <1>2 DEF Next

(* In every behaviour each review fits its session's manifest, each stage  *)
(* that reads is in the state it was admitted in, and a downloaded         *)
(* candidate is the one the commit compares with.                          *)
THEOREM EvidenceFits == Spec => []ReviewInv
<1>1. Init => ReviewInv
  BY DEF Init, ReviewInv, ReviewsFit, ReviewFits, ReadsFit, ReadsFitAt, GuardsFit
<1>2. TypeOK /\ StageFits /\ MarkerInv /\ StateFits /\ ReviewInv /\ [Next]_vars
        => ReviewInv'
  BY NextReview
<1> QED BY <1>1, <1>2, TypesHold, MarkerHolds, StatesFit, PTL DEF Spec

(***************************************************************************)
(* What the evidence is used for.                                          *)
(***************************************************************************)

(* Steps at the two proofs of a commit.                                    *)
LEMMA ProofSteps ==
  ASSUME NEW p \in Worker, StageStep(p), pc[p] \in {"proof2", "guard"}
  PROVE  CommitProof2(p) \/ CommitGuard(p)
<1>1. ~EnterHost(p) /\ ~LeaveStage(p) /\ ~AcquireLock(p) /\ ~FetchRunning(p)
        /\ ~ReleaseLock(p) /\ ~JobStep(p)
  BY DEF EnterHost, LeaveStage, AcquireLock, FetchRunning, ReleaseLock, JobStep,
     Dispatch, Poll
<1>2. ~ApplyStep(p)
  BY DEF ApplyStep, ApplyCheck, ReadProof, ApplyFetchCandidate, Decide,
     SaveSnapshot, WriteOperation, Validate, CheckPost, BuildApplyReview,
     UndoOperation, UndoCheck
<1>3. ~ReviewStep(p) /\ ~ReconcileStep(p)
  BY DEF ReviewStep, ReconcileStep, ReviewCheck, ReviewFetchCandidate,
     BuildReview, ReconcileCheck, ReconcileRunning, ReconcileTargets,
     ReconcileFetchCandidate
<1> QED BY <1>1, <1>2, <1>3 DEF StageStep, CommitStep, PushStep, CommitCheck,
        CommitProof, CommitTargets, CommitFetchCandidate, CommitRunning,
        PushCheck, PushRunning

(* A commit that relies on the change summary begins at one of them.       *)
LEMMA SummaryBegins ==
  ASSUME TypeOK, StageFits, MarkerInv, [Next]_vars, NEW p \in Worker,
         BeginsOnSummary(p)
  PROVE  /\ CommitProof2(p) \/ CommitGuard(p)
         /\ sess[p] \in Session /\ pc'[p] = "dispatch"
<1>1. pc'[p] = "dispatch" /\ pc[p] \notin {"dispatch", "runningProof"}
      /\ stage[p] = "commit"
  BY DEF BeginsOnSummary, BeginsCommit
<1>2. PICK r \in Worker : WorkerStep(r)
  BY <1>1 DEF Next, HostStep, ManualReconciliation, workerVars, vars
<1>3. ASSUME NEW s \in Session, NEW st \in Requests, RequestStage(r, s, st)
      PROVE  FALSE
  BY <1>1, <1>3, RequestStarts
<1>4. ~EnterHost(r) /\ ~LeaveStage(r) /\ ~Interrupt(r) /\ ~Crash(r) /\ ~Restart(r)
  BY <1>1 DEF EnterHost, LeaveStage, Interrupt, Crash, EndProcess, BecomeIdle,
     Goto, Restart, TypeOK
<1>5. StageStep(r)
  BY <1>2, <1>3, <1>4 DEF WorkerStep
<1>6. r = p
  BY <1>1, <1>4, <1>5, OthersWait
<1>7. pc[p] \in {"proof2", "guard"}
  BY <1>1, <1>4, <1>5, <1>6, CommitLabels
<1> QED BY <1>1, <1>5, <1>6, <1>7, ProofSteps, SessionOfWorker

(* What CommitIsReviewed says of a step.                                   *)
CommitsReviewed ==
  \A p \in Worker : BeginsOnSummary(p) /\ Coherent(p) => LiveFindingsKnown(p)

(* At the second proof the guard stands for the live trees.                *)
LEMMA ProofKnows ==
  ASSUME TypeOK, ReviewInv, NEW p \in Worker, sess[p] \in Session,
         CommitProof2(p), pc'[p] = "dispatch", Coherent(p)
  PROVE  LiveFindingsKnown(p)
<1> DEFINE s == sess[p]
           g == [Basis(p) EXCEPT !.native = ChangeSummary]
<1>1. /\ Unchanged(p) /\ GuardPasses(p, g)
      /\ preguard' = [preguard EXCEPT ![s] = g]
  BY GoesTo DEF CommitProof2, RecordGuard
<1>2. preguard'[s] = g /\ g.findings = Basis(p).findings
  <2>1. Basis(p) \in Guard
    BY BasisType
  <2> QED BY <1>1, <2>1 DEF TypeOK, Guard
<1>3. /\ BasisNative(p).run = running /\ BasisNative(p).cand = candidate
      /\ BasisNative(p).has
  BY <1>1 DEF Unchanged, ChangeSummary
<1>4. Basis(p).cand = candidate /\ review[s].run = running
  BY <1>3 DEF Coherent
<1>5. Basis(p).findings = ScopeFindings(s, running, candidate)
  <2>1. CASE PreviousAccepted(p)
    BY <1>4, <2>1 DEF Coherent, Basis
  <2>2. CASE ~PreviousAccepted(p)
    <3>1. Basis(p) = review[s].guard
      BY <2>2 DEF Basis
    <3>2. review[s] # NoReview
      BY <1>3, <3>1 DEF BasisNative, NoReview, NoGuard, NoNative
    <3> QED BY <1>4, <3>1, <3>2 DEF ReviewInv, ReviewsFit, ReviewFits
  <2> QED BY <2>1, <2>2
<1> QED BY <1>1, <1>2, <1>5 DEF LiveFindingsKnown

(* With a fresh change summary the guard is of the live trees.             *)
LEMMA GuardKnows ==
  ASSUME TypeOK, ReviewInv, NEW p \in Worker, sess[p] \in Session,
         CommitGuard(p), pc'[p] = "dispatch", Coherent(p)
  PROVE  LiveFindingsKnown(p)
<1> DEFINE s == sess[p]
<1>1. PICK native \in Summaries :
        LET g == GuardOf(s, review[s].run, loc[p].view, native)
        IN  /\ preguard' = [preguard EXCEPT ![s] = g]
            /\ GuardPasses(p, g)
            /\ native.has /\ native = BasisNative(p)
  BY GoesTo DEF CommitGuard, RecordGuard
<1>2. native = ChangeSummary
  BY <1>1 DEF Summaries, NoNative
<1>3. loc[p].view = Basis(p).cand
  BY DEF CommitGuard, ReviewInv, GuardsFit
<1>4. loc[p].view = candidate /\ review[s].run = running
  BY <1>1, <1>2, <1>3 DEF Coherent, ChangeSummary
<1>5. preguard'[s] = GuardOf(s, running, candidate, native)
  BY <1>1, <1>4 DEF TypeOK
<1>6. preguard'[s].findings = ScopeFindings(s, running, candidate)
  BY <1>5 DEF GuardOf
<1> QED BY <1>1, <1>4, <1>5, <1>6 DEF LiveFindingsKnown

(* In every behaviour a commit that relies on the change summary starts    *)
(* only when the findings of the live trees are those the review or the    *)
(* accepted guard showed and, if there are any, the operator has accepted  *)
(* them, provided the evidence it is compared with belongs together.       *)
THEOREM CommitsAreReviewed == Spec => CommitIsReviewed
<1>1. TypeOK /\ StageFits /\ MarkerInv /\ ReviewInv /\ [Next]_vars
        => [CommitsReviewed]_vars
  BY SummaryBegins, ProofKnows, GuardKnows DEF CommitsReviewed
<1> QED BY <1>1, TypesHold, MarkerHolds, EvidenceFits, PTL
        DEF Spec, CommitIsReviewed, CommitsReviewed

(* A manifest moves by a step of the worker that runs a stage on it.       *)
LEMMA MovedByStage ==
  ASSUME TypeOK, [Next]_vars, NEW s \in Session, state'[s] # state[s],
         state'[s] # "OUTCOME_UNKNOWN"
  PROVE  \E p \in Worker : StageStep(p) /\ sess[p] = s
<1>1. PICK p \in Worker : WorkerStep(p)
  BY DEF Next, HostStep, ManualReconciliation, vars, manifestVars
<1>2. ~Interrupt(p)
  BY DEF Interrupt, SetState, TypeOK
<1>3. StageStep(p)
  BY <1>1, <1>2 DEF WorkerStep, RequestStage, Crash, Restart, manifestVars
<1> QED BY <1>3, NewStates

(***************************************************************************)
(* What the evidence shows.  A guard is recorded, and a review renewed, of *)
(* a session that is past its writing, and what is applied changes only    *)
(* before that; so each tree a commit can be accepted on holds what was    *)
(* found in it when it was read.                                           *)
(***************************************************************************)

(* The states that claim the whole plan has been written.                  *)
WrittenInFull == {"CANDIDATE_APPLIED", "RESTORED"}

SessionShows(s) ==
  /\ state[s] \in WrittenInFull => applied[s] = Targets(s)
  /\ \A tree \in Shown(s) : Holds(s, applied[s], tree)
  /\ preguard[s].has => state[s] \notin Unreviewed

(* A worker about to record a tree has found the plan's result in it; one  *)
(* that may take a session back to WrittenInFull found it there.           *)
WorkerShows(p) ==
  /\ pc[p] \in {"review", "guard"} =>
       Holds(sess[p], applied[sess[p]], loc[p].view)
  /\ pc[p] = "review" /\ stage[p] = "apply" =>
       applied[sess[p]] = Safe(sess[p], loc[p].skip)
  /\ Busy(p) /\ loc[p].back \in WrittenInFull =>
       applied[sess[p]] = Targets(sess[p]) /\ state[sess[p]] \notin Unreviewed
  /\ ~Busy(p) => loc[p].back = "PLANNED"

ShownInv ==
  /\ \A s \in Session : SessionShows(s)
  /\ \A p \in Worker : WorkerShows(p)

(* Where a guard is recorded, or its snapshot.                             *)
LEMMA GuardKept ==
  ASSUME NEW p \in Worker, StageStep(p), ~CommitProof2(p), ~CommitGuard(p),
         ~CommitFetchCandidate(p)
  PROVE  UNCHANGED preguard
<1>1. CASE EnterHost(p) \/ LeaveStage(p) \/ FetchRunning(p) \/ AcquireLock(p)
           \/ ReleaseLock(p)
  BY <1>1 DEF EnterHost, LeaveStage, FetchRunning, AcquireLock, ReleaseLock,
         manifestVars
<1>2. CASE ApplyStep(p) \/ ReviewStep(p) \/ ReconcileStep(p)
  BY <1>2 DEF ApplyStep, ApplyCheck, ReadProof, ApplyFetchCandidate, Decide,
         SaveSnapshot, WriteOperation, Validate, CheckPost, BuildApplyReview,
         UndoOperation, UndoCheck, ReviewStep, ReviewCheck,
         ReviewFetchCandidate, BuildReview, ReconcileStep, ReconcileCheck,
         ReconcileRunning, ReconcileTargets, ReconcileFetchCandidate,
         manifestVars
<1>3. CASE CommitStep(p) \/ PushStep(p) \/ JobStep(p)
  BY <1>3 DEF CommitStep, PushStep, JobStep, CommitCheck, CommitProof,
         CommitTargets, CommitRunning, PushCheck, PushRunning, Dispatch, Poll,
         manifestVars
<1> QED BY <1>1, <1>2, <1>3 DEF StageStep

(* What is applied changes in two ways: an application that has passed its *)
(* postcondition, and an execution outside that is recorded in full.       *)
LEMMA AppliedMoves ==
  ASSUME TypeOK, StateFits, NEW p \in Worker, StageStep(p), applied' # applied
  PROVE  /\ UNCHANGED <<review, preguard>>
         /\ state[sess[p]] \in Unreviewed
         /\ \A s \in Session \ {sess[p]} : applied'[s] = applied[s]
         /\ \/ CheckPost(p)
            \/ ReconcileStep(p) /\ applied'[sess[p]] = Targets(sess[p])
<1>1. CheckPost(p) \/ ReconcileRunning(p) \/ ReconcileFetchCandidate(p)
  BY ReviewKept DEF BuildApplyReview, BuildReview
<1>2. sess[p] \in Session
  BY <1>1, SessionOfWorker DEF CheckPost, ReconcileRunning, ReconcileFetchCandidate
<1>3. CASE CheckPost(p)
  <2>1. UNCHANGED <<review, preguard>> /\ state[sess[p]] \in Unreviewed
    BY <1>3 DEF CheckPost, StateFits, StateFitsAt, Unreviewed
  <2>2. \A s \in Session \ {sess[p]} : applied'[s] = applied[s]
    BY <1>3 DEF CheckPost, TypeOK
  <2> QED BY <1>3, <2>1, <2>2
<1>4. CASE ReconcileRunning(p) \/ ReconcileFetchCandidate(p)
  <2>1. PICK new : RecordExternal(p, new)
    BY <1>4 DEF ReconcileRunning, ReconcileFetchCandidate
  <2>2. /\ state[sess[p]] \in Unreviewed
        /\ \A s \in Session \ {sess[p]} : applied'[s] = applied[s]
        /\ applied'[sess[p]] = Targets(sess[p])
    BY <1>2, <2>1 DEF RecordExternal, External, Unreviewed, TypeOK
  <2>3. UNCHANGED <<review, preguard>> /\ ReconcileStep(p)
    BY <1>4 DEF ReconcileRunning, ReconcileFetchCandidate, ReconcileStep
  <2> QED BY <2>2, <2>3
<1> QED BY <1>1, <1>3, <1>4

(* A tree is recorded as evidence by one who holds it, or is kept.         *)
LEMMA TreesShown ==
  ASSUME TypeOK, ReviewsFit, NEW p \in Worker, StageStep(p), sess[p] \in Session,
         NEW s \in Session, NEW tree \in Shown(s)'
  PROVE  \/ tree \in Shown(s)
         \/ s = sess[p] /\ pc[p] \in {"review", "guard"} /\ tree = loc[p].view
<1>1. CASE BuildApplyReview(p) \/ BuildReview(p)
  <2>1. /\ UNCHANGED preguard /\ pc[p] = "review"
        /\ \/ UNCHANGED review
           \/ \E native \in Summaries :
                review' = [review EXCEPT ![sess[p]] =
                  ReviewOf(sess[p], loc[p].run, loc[p].view, native)]
    BY <1>1 DEF BuildApplyReview, BuildReview
  <2>2. \/ review'[s] = review[s]
        \/ s = sess[p] /\ review'[s].guard.cand = loc[p].view
    BY <2>1 DEF TypeOK, ReviewOf, GuardOf
  <2> QED BY <2>1, <2>2 DEF Shown
<1>2. CASE CommitProof2(p)
  <2>1. UNCHANGED review
    BY <1>2 DEF CommitProof2
  <2>2. CASE UNCHANGED preguard
    BY <2>1, <2>2 DEF Shown
  <2>3. CASE preguard' # preguard
    <3>1. /\ Unchanged(p)
          /\ preguard' = [preguard EXCEPT ![sess[p]] =
                            [Basis(p) EXCEPT !.native = ChangeSummary]]
      BY <1>2, <2>3 DEF CommitProof2, RecordGuard
    <3>2. Basis(p) \in Guard
      BY BasisType
    <3>3. s # sess[p] => preguard'[s] = preguard[s]
      BY <3>1 DEF TypeOK
    <3>4. s = sess[p] => preguard'[s].cand = Basis(p).cand
      BY <3>1, <3>2 DEF TypeOK, Guard
    <3>5. CASE s = sess[p] /\ PreviousAccepted(p)
      BY <2>1, <3>4, <3>5 DEF Shown, PreviousAccepted, Basis
    <3>6. CASE s = sess[p] /\ ~PreviousAccepted(p)
      <4>1. Basis(p) = review[s].guard
        BY <3>6 DEF Basis
      <4>2. review[s] # NoReview
        BY <3>1, <3>6, <4>1 DEF Unchanged, BasisNative, NoReview, NoGuard, NoNative
      <4>3. review[s].has
        BY <4>2 DEF ReviewsFit, ReviewFits
      <4> QED BY <2>1, <3>4, <3>6, <4>1, <4>3 DEF Shown
    <3> QED BY <2>1, <3>3, <3>5, <3>6 DEF Shown
  <2> QED BY <2>2, <2>3
<1>3. CASE CommitFetchCandidate(p)
  <2>1. /\ UNCHANGED review
        /\ \/ UNCHANGED preguard
           \/ preguard' = [preguard EXCEPT ![sess[p]].snap = candidate]
    BY <1>3 DEF CommitFetchCandidate
  <2>2. preguard[s] \in Guard
    BY DEF TypeOK
  <2>3. preguard'[s].has = preguard[s].has /\ preguard'[s].cand = preguard[s].cand
    BY <2>1, <2>2 DEF TypeOK, Guard
  <2> QED BY <2>1, <2>3 DEF Shown
<1>4. CASE CommitGuard(p)
  <2>1. /\ UNCHANGED review /\ pc[p] = "guard"
        /\ \E native \in Summaries :
             preguard' = [preguard EXCEPT ![sess[p]] =
               GuardOf(sess[p], review[sess[p]].run, loc[p].view, native)]
    BY <1>4 DEF CommitGuard, RecordGuard
  <2>2. \/ preguard'[s] = preguard[s]
        \/ s = sess[p] /\ preguard'[s].cand = loc[p].view
    BY <2>1 DEF TypeOK, GuardOf
  <2> QED BY <2>1, <2>2 DEF Shown
<1>5. CASE CheckPost(p) \/ ReconcileRunning(p) \/ ReconcileFetchCandidate(p)
  BY <1>5 DEF CheckPost, ReconcileRunning, ReconcileFetchCandidate, Shown
<1>6. CASE ~BuildApplyReview(p) /\ ~BuildReview(p) /\ ~CommitProof2(p)
           /\ ~CommitFetchCandidate(p) /\ ~CommitGuard(p) /\ ~CheckPost(p)
           /\ ~ReconcileRunning(p) /\ ~ReconcileFetchCandidate(p)
  BY <1>6, ReviewKept, GuardKept DEF Shown
<1> QED BY <1>1, <1>2, <1>3, <1>4, <1>5, <1>6

(* A guard is recorded only of a session that has been written.            *)
LEMMA GuardsReviewed ==
  ASSUME TypeOK, StageFits, StateFits, ReadsFit, NEW p \in Worker,
         StageStep(p), NEW s \in Session, SessionShows(s), preguard'[s].has
  PROVE  state'[s] \notin Unreviewed
<1>1. state'[s] \in Unreviewed => state[s] \in Unreviewed
  BY NoWayBack
<1>2. CASE preguard[s].has
  BY <1>1, <1>2 DEF SessionShows
<1>3. CASE ~preguard[s].has
  <2>1. CommitProof2(p) \/ CommitGuard(p) \/ CommitFetchCandidate(p)
    BY <1>3, GuardKept
  <2>2. sess[p] = s \/ preguard'[s] = preguard[s]
    BY <2>1 DEF CommitProof2, CommitGuard, CommitFetchCandidate, RecordGuard,
       TypeOK
  <2>3. pc[p] \in {"proof2", "guard", "fetchCandidate"} /\ stage[p] = "commit"
    BY <2>1 DEF CommitProof2, CommitGuard, CommitFetchCandidate, StageFits, Fits
  <2>4. state[s] \in Reviewable
    BY <1>3, <2>2, <2>3 DEF ReadsFit, ReadsFitAt
  <2> QED BY <1>1, <2>4 DEF Reviewable, Unreviewed
<1> QED BY <1>2, <1>3

(* A session enters a state that claims all of its plan with all of it     *)
(* applied: written with nothing left out, admitted, or taken back there.  *)
LEMMA EntersInFull ==
  ASSUME TypeOK, StageFits, StateFits, NEW p \in Worker, StageStep(p), Busy(p),
         NEW s \in Session, WorkerShows(p),
         state'[s] # state[s], state'[s] \in WrittenInFull
  PROVE  applied'[s] = Targets(s)
<1>1. sess[p] = s
  BY NewStates
<1>2. CASE BuildApplyReview(p) /\ state'[s] = Outcome(p)
  <2>1. loc[p].skip = {}
    BY <1>2 DEF Outcome, WrittenInFull
  <2>2. applied[s] = Safe(s, {})
    BY <1>1, <1>2, <2>1 DEF BuildApplyReview, WorkerShows
  <2> QED BY <1>2, <2>2 DEF Safe, BuildApplyReview
<1>3. CASE ReconcileStep(p)
  <2>1. \E new : RecordExternal(p, new)
    BY <1>3 DEF ReconcileStep, ReconcileCheck, ReconcileRunning,
       ReconcileTargets, ReconcileFetchCandidate, manifestVars
  <2> QED BY <1>1, <2>1 DEF RecordExternal, TypeOK
<1>4. CASE Recoverable(state[s], state'[s]) /\ state'[s] = loc[p].back
  <2>1. state[s] \notin Unreviewed
    BY <1>4 DEF Recoverable, Unreviewed
  <2>2. applied'[s] = applied[s]
    BY <1>1, <2>1, AppliedMoves
  <2> QED BY <1>1, <1>4, <2>2 DEF WorkerShows
<1> QED BY <1>1, <1>2, <1>3, <1>4, NewStates, DecideStates DEF WrittenInFull

(* Every step of a stage leaves evidence that shows what is applied.       *)
LEMMA SessionsShow ==
  ASSUME TypeOK, StageFits, StateFits, ReviewInv, NEW p \in Worker,
         StageStep(p), Busy(p), WorkerShows(p), NEW s \in Session, SessionShows(s)
  PROVE  SessionShows(s)'
<1>1. sess[p] \in Session
  BY SessionOfWorker DEF Busy
<1>2. preguard'[s].has => state'[s] \notin Unreviewed
  BY GuardsReviewed DEF ReviewInv
<1>3. ASSUME applied'[s] = applied[s]
      PROVE  SessionShows(s)'
  <2>1. state'[s] \in WrittenInFull => applied'[s] = Targets(s)
    BY <1>3, EntersInFull DEF SessionShows
  <2>2. ASSUME NEW tree \in Shown(s)'
        PROVE  Holds(s, applied'[s], tree)
    <3>1. \/ tree \in Shown(s)
          \/ s = sess[p] /\ pc[p] \in {"review", "guard"} /\ tree = loc[p].view
      BY <1>1, TreesShown DEF ReviewInv
    <3> QED BY <1>3, <3>1 DEF SessionShows, WorkerShows
  <2> QED BY <1>2, <2>1, <2>2 DEF SessionShows, Holds
<1>4. ASSUME applied'[s] # applied[s]
      PROVE  SessionShows(s)'
  <2>1. s = sess[p] /\ state[s] \in Unreviewed /\ UNCHANGED <<review, preguard>>
    BY <1>4, AppliedMoves
  <2>2. Shown(s)' = {}
    BY <2>1 DEF Shown, SessionShows, ReviewInv, ReviewsFit, ReviewFits, NoReview
  <2>3. state'[s] \in WrittenInFull => applied'[s] = Targets(s)
    <3>1. CASE state'[s] = state[s]
      BY <2>1, <3>1 DEF WrittenInFull, Unreviewed
    <3>2. CASE state'[s] # state[s]
      BY <3>2, EntersInFull
    <3> QED BY <3>1, <3>2
  <2> QED BY <1>2, <2>2, <2>3 DEF SessionShows
<1> QED BY <1>3, <1>4

(* How the data of a worker's stage changes.                               *)
LEMMA BackKept ==
  ASSUME TypeOK, NEW p \in Worker, StageStep(p), Busy(p), ~LeaveStage(p)
  PROVE  \/ loc'[p].back \in {loc[p].back, "PLANNED", "COMMITTED"}
         \/ CommitCheck(p) /\ loc'[p].back = state[sess[p]]
              /\ state[sess[p]] \in Reviewable
<1>1. loc[p] \in Local /\ ~EnterHost(p)
  BY SessionOfWorker DEF Busy, EnterHost
<1>2. CASE FetchRunning(p) \/ AcquireLock(p) \/ ReleaseLock(p)
  <2>1. CASE FetchRunning(p)
    BY <1>1, <2>1, LocOK DEF FetchRunning, Local
  <2>2. CASE AcquireLock(p)
    BY <1>1, <2>2, LocOK DEF AcquireLock, Local
  <2>3. CASE ReleaseLock(p)
    BY <1>1, <2>3, LocOK DEF ReleaseLock, Local
  <2> QED BY <1>2, <2>1, <2>2, <2>3
<1>3. CASE ApplyCheck(p) \/ ReadProof(p) \/ ApplyFetchCandidate(p) \/ Decide(p)
  <2>1. CASE ApplyCheck(p)
    BY <1>1, <2>1, LocOK DEF ApplyCheck, Admit, Local
  <2>2. CASE ReadProof(p) \/ ApplyFetchCandidate(p)
    <3>1. CASE ReadProof(p)
      BY <1>1, <3>1, LocOK DEF ReadProof, Local
    <3>2. CASE ApplyFetchCandidate(p)
      BY <1>1, <3>2, LocOK DEF ApplyFetchCandidate, Local
    <3> QED BY <2>2, <3>1, <3>2
  <2>3. CASE Decide(p)
    BY <1>1, <2>3, LocOK, ZenonT(60) DEF Decide, Local
  <2> QED BY <1>3, <2>1, <2>2, <2>3
<1>4. CASE SaveSnapshot(p) \/ WriteOperation(p) \/ Validate(p) \/ CheckPost(p)
  <2>1. CASE SaveSnapshot(p) \/ Validate(p)
    BY <1>1, <2>1, LocOK DEF SaveSnapshot, Validate, Local
  <2>2. CASE WriteOperation(p)
    BY <1>1, <2>2, LocOK DEF WriteOperation, Local
  <2>3. CASE CheckPost(p)
    BY <1>1, <2>3, LocOK DEF CheckPost, Local
  <2> QED BY <1>4, <2>1, <2>2, <2>3
<1>5. CASE BuildApplyReview(p) \/ UndoOperation(p) \/ UndoCheck(p)
  BY <1>1, <1>5, LocOK DEF BuildApplyReview, UndoOperation, UndoCheck, Local
<1>6. CASE ReviewStep(p) \/ ReconcileStep(p)
  BY <1>1, <1>6, LocOK DEF ReviewStep, ReconcileStep, ReviewCheck,
         ReviewFetchCandidate, BuildReview, ReconcileCheck, ReconcileRunning,
         ReconcileTargets, ReconcileFetchCandidate, Local
<1>7. CASE CommitStep(p) \/ PushStep(p)
  <2>1. CASE CommitCheck(p)
    BY <1>1, <2>1, LocOK DEF CommitCheck, Admit, Local
  <2>2. CASE PushStep(p)
    BY <1>1, <2>2, LocOK DEF PushStep, PushCheck, PushRunning, Admit, Local
  <2>3. CASE CommitProof(p) \/ CommitTargets(p) \/ CommitProof2(p)
    BY <1>1, <2>3, LocOK DEF CommitProof, CommitTargets, CommitProof2
  <2>4. CASE CommitFetchCandidate(p) \/ CommitGuard(p) \/ CommitRunning(p)
    BY <1>1, <2>4, LocOK DEF CommitFetchCandidate, CommitGuard, CommitRunning,
           Local
  <2> QED BY <1>7, <2>1, <2>2, <2>3, <2>4 DEF CommitStep
<1>8. CASE JobStep(p)
  BY <1>1, <1>8, LocOK DEF JobStep, Dispatch, Poll, Local
<1> QED BY <1>1, <1>2, <1>3, <1>4, <1>5, <1>6, <1>7, <1>8 DEF StageStep, ApplyStep

(* Who goes on to record a review.                                         *)
LEMMA ToReview ==
  ASSUME TypeOK, StageFits, NEW p \in Worker, StageStep(p), Busy(p),
         pc'[p] = "review"
  PROVE  CheckPost(p) \/ ReviewFetchCandidate(p) \/ ReconcileFetchCandidate(p)
<1> USE GoesTo, GiveUpLabel
<1>1. ~EnterHost(p) /\ ~LeaveStage(p) /\ ~AcquireLock(p) /\ ~ReleaseLock(p)
        /\ ~FetchRunning(p)
  BY DEF EnterHost, LeaveStage, BecomeIdle, Busy, AcquireLock, ReleaseLock,
     FetchRunning
<1>2. ~ApplyCheck(p) /\ ~ReadProof(p) /\ ~ApplyFetchCandidate(p) /\ ~Decide(p)
  BY DEF ApplyCheck, ReadProof, ApplyFetchCandidate, Decide, Admit
<1>3. ~SaveSnapshot(p) /\ ~WriteOperation(p) /\ ~Validate(p) /\ ~UndoOperation(p)
        /\ ~UndoCheck(p) /\ ~BuildApplyReview(p)
  BY DEF SaveSnapshot, WriteOperation, Validate, UndoOperation, UndoCheck,
     BuildApplyReview
<1>4. ~ReviewCheck(p) /\ ~BuildReview(p) /\ ~ReconcileCheck(p)
        /\ ~ReconcileRunning(p) /\ ~ReconcileTargets(p)
  BY DEF ReviewCheck, BuildReview, ReconcileCheck, ReconcileRunning,
     ReconcileTargets
<1>5. ~CommitStep(p)
  BY DEF CommitStep, CommitCheck, CommitProof, CommitTargets, CommitProof2,
     CommitFetchCandidate, CommitGuard, CommitRunning, Admit, BeginJob
<1>6. ~PushStep(p) /\ ~JobStep(p)
  BY DEF PushStep, PushCheck, PushRunning, Admit, BeginJob, JobStep, Dispatch,
     Poll, Recover, LostJob, LostResult
<1> QED BY <1>1, <1>2, <1>3, <1>4, <1>5, <1>6
        DEF StageStep, ApplyStep, ReviewStep, ReconcileStep

(* Its own worker's part: what it is about to record it has found.         *)
LEMMA WorkerShowsStill ==
  ASSUME TypeOK, StageFits, StateFits, MarkerInv, ReviewInv, ShownInv,
         NEW p \in Worker, StageStep(p), Busy(p), ~LeaveStage(p)
  PROVE  WorkerShows(p)'
<1> DEFINE s == sess[p]
<1>1. /\ s \in Session /\ loc[p] \in Local /\ WorkerShows(p) /\ SessionShows(s)
      /\ ~EnterHost(p)
  BY SessionOfWorker DEF Busy, ShownInv, EnterHost
<1>2. sess'[p] = s /\ stage'[p] = stage[p] /\ Busy(p)'
  BY <1>1, StageQuiet, GoesTo DEF Quiet, Busy
<1>3. state'[s] \in Unreviewed => state[s] \in Unreviewed
  BY <1>1, NoWayBack DEF ReviewInv
<1>4. ASSUME pc'[p] = "review"
      PROVE  /\ Holds(s, applied'[s], loc'[p].view)
             /\ stage[p] = "apply" => applied'[s] = Safe(s, loc'[p].skip)
  <2>1. CASE CheckPost(p)
    <3>1. /\ Holds(s, Safe(s, loc[p].skip), candidate)
          /\ loc' = [loc EXCEPT ![p].view = candidate]
          /\ applied' = [applied EXCEPT ![s] = Safe(s, loc[p].skip)]
      BY <1>4, <2>1, GoesTo DEF CheckPost
    <3>2. loc'[p].view = candidate /\ loc'[p].skip = loc[p].skip
      BY <1>1, <3>1, LocOK DEF Local
    <3> QED BY <1>1, <3>1, <3>2 DEF TypeOK
  <2>2. CASE ReviewFetchCandidate(p)
    <3>1. /\ Holds(s, applied[s], candidate) /\ UNCHANGED applied
          /\ loc' = [loc EXCEPT ![p].view = candidate] /\ stage[p] = "review"
      BY <1>4, <2>2, GoesTo DEF ReviewFetchCandidate, manifestVars
    <3>2. loc'[p].view = candidate
      BY <1>1, <3>1, LocOK DEF Local
    <3> QED BY <3>1, <3>2
  <2>3. CASE ReconcileFetchCandidate(p)
    <3>1. /\ AllInCandidate(s) /\ stage[p] = "reconcile"
          /\ RecordExternal(p, "CANDIDATE_APPLIED")
          /\ loc' = [loc EXCEPT ![p].view = candidate]
      BY <1>4, <2>3, GoesTo DEF ReconcileFetchCandidate
    <3>2. loc'[p].view = candidate /\ applied'[s] = Targets(s)
      BY <1>1, <3>1, LocOK DEF Local, RecordExternal, TypeOK
    <3> QED BY <3>1, <3>2 DEF AllInCandidate
  <2> QED BY <1>4, <2>1, <2>2, <2>3, ToReview
<1>5. ASSUME pc'[p] = "guard"
      PROVE  Holds(s, applied'[s], loc'[p].view)
  <2>1. CommitFetchCandidate(p) /\ UNCHANGED applied
    BY <1>1, <1>5, ToGuard DEF CommitFetchCandidate
  <2>2. loc' = [loc EXCEPT ![p].view = candidate] /\ Holds(s, applied[s], candidate)
    BY <1>5, <2>1, GoesTo DEF CommitFetchCandidate
  <2>3. loc'[p].view = candidate
    BY <1>1, <2>2, LocOK DEF Local
  <2> QED BY <2>1, <2>2, <2>3
<1>6. ASSUME loc'[p].back \in WrittenInFull
      PROVE  applied'[s] = Targets(s) /\ state'[s] \notin Unreviewed
  <2>1. applied[s] = Targets(s) /\ state[s] \notin Unreviewed
    BY <1>1, <1>6, BackKept DEF WorkerShows, SessionShows, WrittenInFull,
       Reviewable, Unreviewed
  <2> QED BY <1>3, <2>1, AppliedMoves
<1> QED BY <1>2, <1>4, <1>5, <1>6 DEF WorkerShows, Holds

(* A session shows what it did when nothing but its state has changed, and *)
(* that to OUTCOME_UNKNOWN.                                                *)
LEMMA SessionStays ==
  ASSUME NEW s \in Session, SessionShows(s), UNCHANGED <<applied, review, preguard>>,
         state'[s] \in {state[s], "OUTCOME_UNKNOWN"}
  PROVE  SessionShows(s)'
<1>1. Shown(s)' = Shown(s)
  BY DEF Shown
<1> QED BY <1>1 DEF SessionShows, WrittenInFull, Unreviewed, Holds

(* A worker that does not step, while its session stays as it is.          *)
LEMMA WorkerStays ==
  ASSUME NEW q \in Worker, WorkerShows(q), pc'[q] = pc[q], sess'[q] = sess[q],
         stage'[q] = stage[q], loc'[q] = loc[q],
         ~Busy(q) \/ UNCHANGED <<state, applied>>
  PROVE  WorkerShows(q)'
<1>1. CASE ~Busy(q)
  BY <1>1 DEF WorkerShows, Busy
<1>2. CASE Busy(q) /\ UNCHANGED <<state, applied>>
  BY <1>2 DEF WorkerShows, Busy, Holds
<1> QED BY <1>1, <1>2

(* Every step keeps the evidence showing what is applied.                  *)
LEMMA NextShown ==
  ASSUME TypeOK, StageFits, MarkerInv, StateFits, ReviewInv, ShownInv, [Next]_vars
  PROVE  ShownInv'
<1> USE DEF ShownInv
<1>1. ASSUME NEW p \in Worker, WorkerStep(p)
      PROVE  ShownInv'
  <2>1. ASSUME pc'[p] \in {"idle", "marker", "check"},
               loc'[p].back = "PLANNED",
               \A q \in Worker \ {p} :
                 /\ pc'[q] = pc[q] /\ loc'[q] = loc[q]
                 /\ sess'[q] = sess[q] /\ stage'[q] = stage[q],
               UNCHANGED <<review, preguard, applied>>,
               UNCHANGED state
                 \/ (SetState(sess[p], "OUTCOME_UNKNOWN") /\ Busy(p))
        PROVE  ShownInv'
    <3>1. \A s \in Session : SessionShows(s)'
      BY <2>1, SessionStays DEF SetState, TypeOK
    <3>2. WorkerShows(p)'
      BY <2>1 DEF WorkerShows, WrittenInFull
    <3>3. \A q \in Worker \ {p} : ~Busy(q) \/ UNCHANGED state
      BY <2>1, OneBusy DEF MarkerInv
    <3>4. \A q \in Worker \ {p} : WorkerShows(q)'
      BY <2>1, <3>3, WorkerStays
    <3> QED BY <3>1, <3>2, <3>4
  <2>2. ASSUME BecomeIdle(p)
        PROVE  /\ pc'[p] = "idle" /\ loc'[p].back = "PLANNED"
               /\ \A q \in Worker \ {p} :
                    /\ pc'[q] = pc[q] /\ loc'[q] = loc[q]
                    /\ sess'[q] = sess[q] /\ stage'[q] = stage[q]
    <3>1. loc'[p] = NoLocal
      BY <2>2 DEF BecomeIdle, TypeOK
    <3> QED BY <2>2, <3>1, OthersStay DEF NoLocal
  <2>3. CASE \E s \in Session, st \in Requests : RequestStage(p, s, st)
    <3>1. PICK s \in Session, st \in Requests : RequestStage(p, s, st)
      BY <2>3
    <3>2. loc'[p].back = "PLANNED"
      BY <3>1 DEF RequestStage, TypeOK, NoLocal
    <3>3. UNCHANGED <<review, preguard, applied, state>>
      BY <3>1 DEF RequestStage, manifestVars
    <3> QED BY <2>1, <3>1, <3>2, <3>3, RequestStarts
  <2>4. CASE LeaveStage(p) \/ Crash(p)
    BY <2>1, <2>2, <2>4 DEF LeaveStage, Crash, EndProcess, manifestVars
  <2>5. CASE EnterHost(p)
    <3>1. UNCHANGED <<review, preguard, applied, state>> /\ ~Busy(p)
      BY <2>5 DEF EnterHost, manifestVars, Busy
    <3>2. CASE BecomeIdle(p)
      BY <2>1, <2>2, <3>1, <3>2
    <3>3. CASE Goto(p, "check") /\ UNCHANGED <<sess, stage, loc>>
      <4>1. /\ pc'[p] = "check" /\ loc'[p].back = "PLANNED"
            /\ \A q \in Worker \ {p} : pc'[q] = pc[q]
        BY <3>1, <3>3 DEF Goto, TypeOK, WorkerShows
      <4> QED BY <2>1, <3>1, <3>3, <4>1
    <3> QED BY <2>5, <3>2, <3>3 DEF EnterHost
  <2>6. CASE Interrupt(p)
    BY <2>1, <2>2, <2>6 DEF Interrupt, EndProcess, InTry
  <2>7. CASE StageStep(p) /\ ~EnterHost(p) /\ ~LeaveStage(p)
    <3>1. Busy(p)
      BY <2>7, StageQuiet DEF Quiet
    <3>2. \A s \in Session : SessionShows(s)'
      BY <2>7, <3>1, SessionsShow
    <3>3. WorkerShows(p)'
      BY <2>7, <3>1, WorkerShowsStill
    <3>4. \A q \in Worker \ {p} : WorkerShows(q)'
      BY <2>7, OthersWait, WorkerStays DEF Busy
    <3> QED BY <3>2, <3>3, <3>4
  <2>8. CASE Restart(p)
    BY <2>8, SessionStays, WorkerStays DEF Restart, manifestVars
  <2> QED BY <1>1, <2>3, <2>4, <2>5, <2>6, <2>7, <2>8 DEF WorkerStep
<1>2. CASE HostStep \/ ManualReconciliation \/ UNCHANGED vars
  <2>1. UNCHANGED <<manifestVars, pc, stage, sess, loc>>
    BY <1>2 DEF HostStep, ManualReconciliation, vars, workerVars
  <2> QED BY <2>1, SessionStays, WorkerStays DEF manifestVars
<1> QED BY <1>1, <1>2 DEF Next

(* In every behaviour a session that counts as written in full has all its *)
(* XPaths applied, and each tree a commit can be accepted on holds the     *)
(* plan's result at all that is applied, for any plans, whoever edits,     *)
(* commits or dies between the reads.                                      *)
THEOREM EvidenceIsWhole == Spec => []EvidenceShowsPlan
<1>1. Init => ShownInv
  BY DEF Init, ShownInv, SessionShows, WorkerShows, InitApplied, WrittenInFull,
     Shown, NoReview, NoGuard, NoLocal, Busy, EngineConstants
<1>2. TypeOK /\ StageFits /\ MarkerInv /\ StateFits /\ ReviewInv /\ ShownInv
        /\ [Next]_vars => ShownInv'
  BY NextShown
<1>3. ShownInv => EvidenceShowsPlan
  BY DEF ShownInv, SessionShows, EvidenceShowsPlan, WrittenInFull
<1> QED BY <1>1, <1>2, <1>3, TypesHold, MarkerHolds, StatesFit, EvidenceFits, PTL
        DEF Spec

(* What RestoreAfterSettled says of a step.                                *)
RestoresSettled ==
  \A r \in Session :
    state[r] # "RESTORING" /\ state'[r] = "RESTORING" =>
      \A c \in Session : Kind[c] = "cleanup" =>
        /\ state[c] # "OUTCOME_UNKNOWN"
        /\ state[c] \in InFlight => c \in cleared

(* In every behaviour a restore starts to write only when no cleanup may   *)
(* be half written: one whose process died keeps the marker, one whose     *)
(* outcome is unknown keeps the restore from its plan.                     *)
THEOREM RestoresAfterSettled == Spec => RestoreAfterSettled
<1>1. ASSUME TypeOK, MarkerInv, [Next]_vars PROVE RestoresSettled
  <2> SUFFICES ASSUME NEW r \in Session, state[r] # "RESTORING",
                      state'[r] = "RESTORING",
                      NEW c \in Session, Kind[c] = "cleanup"
               PROVE  /\ state[c] # "OUTCOME_UNKNOWN"
                      /\ state[c] \in InFlight => c \in cleared
    BY DEF RestoresSettled
  <2>1. PICK p \in Worker : StageStep(p) /\ sess[p] = r
    BY <1>1, MovedByStage
  <2>2. Decide(p)
    BY <1>1, <2>1, NewStates DEF Outcome, External, Recoverable, Reviewable
  <2>3. Kind[r] = "restore" /\ ~RestoreHistoryBroken(r)
    BY <1>1, <2>1, <2>2, DecideStates
  <2>4. marker = r
    BY <1>1, <2>1, <2>2 DEF Decide, MarkerInv, BusyHoldsMarker, Busy
  <2>5. state[c] \in InFlight /\ c \notin cleared => c = r
    BY <1>1, <2>4 DEF MarkerInv, MarkerCoversUnresolved, Unresolved
  <2> QED BY <2>3, <2>5 DEF RestoreHistoryBroken
<1>2. TypeOK /\ MarkerInv /\ [Next]_vars => [RestoresSettled]_vars
  BY <1>1
<1> QED BY <1>2, TypeCorrect, MarkerHolds, PTL
        DEF Spec, RestoreAfterSettled, RestoresSettled

=============================================================================
