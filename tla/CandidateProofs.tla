-------------------------- MODULE CandidateProofs --------------------------
(***************************************************************************)
(* What the engine does to the candidate, for any plans, sessions, workers *)
(* and edits by other people.  The argument: between taking and releasing  *)
(* its config locks a stage holds every scope its session writes, so what  *)
(* it has found out about an XPath of the plan stays true until it writes  *)
(* there, and what it has left half way stays out of reach of others.      *)
(***************************************************************************)
EXTENDS JobProofs

(* A stage that takes config locks is past taking them and before their    *)
(* release.                                                                *)
Holding(p) ==
  /\ stage[p] \in {"apply", "commit", "push"}
  /\ Busy(p)
  /\ pc[p] \notin {"check", "lock", "release", "leave"}

(* The locks a worker has noted are held, and all it needs once it holds.  *)
LocksAt(p) ==
  /\ pc[p] \in {"marker", "check"} => loc[p].got = {}
  /\ Busy(p) => loc[p].got \subseteq cfgLocks
  /\ Holding(p) => loc[p].got = LockScopes(sess[p])

LocksHeld == \A p \in Worker : LocksAt(p)

(***************************************************************************)
(* Who changes what.                                                       *)
(***************************************************************************)

(* A stage changes the data of its own worker only.                        *)
LEMMA OwnData ==
  ASSUME TypeOK, NEW p \in Worker, StageStep(p), ~EnterHost(p), ~LeaveStage(p)
  PROVE  \A q \in Worker \ {p} : loc'[q] = loc[q]
<1>1. CASE AcquireLock(p) \/ ReleaseLock(p) \/ FetchRunning(p)
  BY <1>1, LocOK DEF AcquireLock, ReleaseLock, FetchRunning
<1>2. CASE ApplyCheck(p) \/ ReadProof(p) \/ ApplyFetchCandidate(p) \/ Decide(p)
  BY <1>2, LocOK DEF ApplyCheck, ReadProof, ApplyFetchCandidate, Decide, Admit
<1>3. CASE SaveSnapshot(p) \/ WriteOperation(p) \/ Validate(p) \/ CheckPost(p)
  BY <1>3, LocOK DEF SaveSnapshot, WriteOperation, Validate, CheckPost
<1>4. CASE BuildApplyReview(p) \/ UndoOperation(p) \/ UndoCheck(p)
  BY <1>4, LocOK DEF BuildApplyReview, UndoOperation, UndoCheck
<1>5. CASE ReviewStep(p) \/ ReconcileStep(p)
  BY <1>5, LocOK DEF ReviewStep, ReconcileStep, ReviewCheck,
         ReviewFetchCandidate, BuildReview, ReconcileCheck, ReconcileRunning,
         ReconcileTargets, ReconcileFetchCandidate
<1>6. CASE CommitStep(p) \/ PushStep(p)
  BY <1>6, LocOK DEF CommitStep, PushStep, CommitCheck, CommitProof,
         CommitTargets, CommitProof2, CommitFetchCandidate, CommitGuard,
         CommitRunning, PushCheck, PushRunning, Admit
<1>7. CASE JobStep(p)
  BY <1>7, LocOK DEF JobStep, Dispatch, Poll
<1> QED BY <1>1, <1>2, <1>3, <1>4, <1>5, <1>6, <1>7 DEF StageStep, ApplyStep

(* While a worker is past the marker, the others wait for it or are idle.  *)
LEMMA OthersWait ==
  ASSUME TypeOK, MarkerInv, NEW p \in Worker, StageStep(p), ~EnterHost(p),
         ~LeaveStage(p)
  PROVE  \A q \in Worker \ {p} :
           /\ ~Busy(q)' /\ pc'[q] = pc[q] /\ loc'[q] = loc[q]
           /\ sess'[q] = sess[q] /\ stage'[q] = stage[q]
<1>1. Quiet(p)
  BY StageQuiet
<1>2. \A q \in Worker \ {p} : ~Busy(q)
  BY <1>1, OneBusy DEF MarkerInv, Quiet
<1>3. \A q \in Worker \ {p} : pc'[q] = pc[q]
  BY <1>1 DEF Quiet, Goto, TypeOK
<1> QED BY <1>1, <1>2, <1>3, OwnData DEF Quiet, Busy

(* So they do when a worker becomes idle.                                  *)
LEMMA OthersStay ==
  ASSUME TypeOK, NEW p \in Worker, BecomeIdle(p)
  PROVE  /\ pc'[p] = "idle"
         /\ \A q \in Worker \ {p} :
              /\ pc'[q] = pc[q] /\ loc'[q] = loc[q]
              /\ sess'[q] = sess[q] /\ stage'[q] = stage[q]
  BY DEF BecomeIdle, Goto, TypeOK

(* A request starts a worker with fresh data and leaves the others alone.  *)
LEMMA RequestStarts ==
  ASSUME TypeOK, NEW p \in Worker, NEW s \in Session, NEW st \in Requests,
         RequestStage(p, s, st)
  PROVE  /\ pc'[p] = "marker" /\ loc'[p].got = {} /\ loc'[p].touched = {}
         /\ \A q \in Worker \ {p} :
              /\ pc'[q] = pc[q] /\ loc'[q] = loc[q]
              /\ sess'[q] = sess[q] /\ stage'[q] = stage[q]
  BY DEF RequestStage, Goto, TypeOK, NoLocal

(***************************************************************************)
(* The config locks.                                                       *)
(***************************************************************************)

(* Where a step goes to.                                                   *)
LEMMA GoesTo ==
  ASSUME TypeOK, NEW p \in Worker
  PROVE  /\ \A l : Goto(p, l) => pc'[p] = l
         /\ GiveUp(p) => pc'[p] \in {"leave", "release"}
         /\ OutcomeUnknown(p) => pc'[p] = "leave"
  BY DEF TypeOK, Goto, GiveUp, AfterRelease, OutcomeUnknown

(* The other steps of a stage keep the locks and what is noted of them.    *)
LEMMA LocksUntouched ==
  ASSUME TypeOK, NEW p \in Worker, StageStep(p), ~EnterHost(p),
         ~LeaveStage(p), ~AcquireLock(p), ~ReleaseLock(p)
  PROVE  cfgLocks' = cfgLocks /\ loc'[p].got = loc[p].got
<1>1. loc[p] \in Local
  BY StageQuiet, SessionOfWorker DEF Quiet, Busy
<1>2. CASE FetchRunning(p)
  BY <1>1, <1>2, LocOK DEF FetchRunning, hostVars, Local
<1>3. CASE ApplyCheck(p) \/ ReadProof(p) \/ ApplyFetchCandidate(p) \/ Decide(p)
  <2>1. CASE ApplyCheck(p)
    BY <1>1, <2>1, LocOK DEF ApplyCheck, Admit, hostVars, Local
  <2>2. CASE ReadProof(p) \/ ApplyFetchCandidate(p)
    BY <1>1, <2>2, LocOK DEF ReadProof, ApplyFetchCandidate, hostVars, Local
  <2>3. CASE Decide(p)
    BY <1>1, <2>3, LocOK, ZenonT(60) DEF Decide, hostVars, Local
  <2> QED BY <1>3, <2>1, <2>2, <2>3
<1>4. CASE SaveSnapshot(p) \/ WriteOperation(p) \/ Validate(p) \/ CheckPost(p)
  BY <1>1, <1>4, LocOK DEF SaveSnapshot, WriteOperation, Validate, CheckPost,
         hostVars, Local
<1>5. CASE BuildApplyReview(p) \/ UndoOperation(p) \/ UndoCheck(p)
  BY <1>1, <1>5, LocOK DEF BuildApplyReview, UndoOperation, UndoCheck,
         hostVars, Local
<1>6. CASE ReviewStep(p) \/ ReconcileStep(p)
  BY <1>1, <1>6, LocOK DEF ReviewStep, ReconcileStep, ReviewCheck,
         ReviewFetchCandidate, BuildReview, ReconcileCheck, ReconcileRunning,
         ReconcileTargets, ReconcileFetchCandidate, hostVars, Local
<1>7. CASE CommitStep(p) \/ PushStep(p)
  <2>1. CASE CommitCheck(p) \/ PushCheck(p) \/ PushRunning(p)
    BY <1>1, <2>1, LocOK DEF CommitCheck, PushCheck, PushRunning, Admit, hostVars, Local
  <2>2. CASE CommitProof(p) \/ CommitTargets(p) \/ CommitProof2(p)
    BY <1>1, <2>2, LocOK DEF CommitProof, CommitTargets, CommitProof2, Admit, hostVars, Local
  <2>3. CASE CommitFetchCandidate(p) \/ CommitGuard(p) \/ CommitRunning(p)
    BY <1>1, <2>3, LocOK DEF CommitFetchCandidate, CommitGuard, CommitRunning,
           Admit, hostVars, Local
  <2> QED BY <1>7, <2>1, <2>2, <2>3 DEF CommitStep, PushStep
<1>8. CASE JobStep(p)
  BY <1>1, <1>8, LocOK DEF JobStep, Dispatch, Poll, hostVars, Local
<1> QED BY <1>2, <1>3, <1>4, <1>5, <1>6, <1>7, <1>8 DEF StageStep, ApplyStep

(* They reach the part that needs the locks only from within it.           *)
LEMMA StillHolding ==
  ASSUME TypeOK, StageFits, NEW p \in Worker, StageStep(p), ~EnterHost(p),
         ~LeaveStage(p), ~AcquireLock(p), ~ReleaseLock(p)
  PROVE  /\ pc'[p] \notin {"marker", "check"}
         /\ Holding(p)' => Holding(p)
<1>1. stage'[p] = stage[p]
  BY StageQuiet DEF Quiet
<1> USE GoesTo
<1>2. CASE FetchRunning(p)
  BY <1>1, <1>2 DEF FetchRunning, Holding, Busy
<1>3. CASE ApplyCheck(p) \/ CommitCheck(p) \/ PushCheck(p)
  BY <1>1, <1>3 DEF ApplyCheck, CommitCheck, PushCheck, Admit, Holding, Busy
<1>4. CASE ReadProof(p) \/ ApplyFetchCandidate(p) \/ Decide(p)
  <2>1. Holding(p)
    BY <1>4 DEF ReadProof, ApplyFetchCandidate, Decide, Holding, Busy,
           StageFits, Fits
  <2> QED BY <1>4, <2>1 DEF ReadProof, ApplyFetchCandidate, Decide
<1>5. CASE SaveSnapshot(p) \/ WriteOperation(p) \/ Validate(p) \/ CheckPost(p)
  <2>1. Holding(p)
    BY <1>5 DEF SaveSnapshot, WriteOperation, Validate, CheckPost, Holding,
           Busy, StageFits, Fits
  <2> QED BY <1>5, <2>1 DEF SaveSnapshot, WriteOperation, Validate, CheckPost
<1>6. CASE BuildApplyReview(p) \/ UndoOperation(p) \/ UndoCheck(p)
  <2>1. Holding(p)
    BY <1>6 DEF BuildApplyReview, UndoOperation, UndoCheck, Holding, Busy,
           StageFits, Fits
  <2> QED BY <1>6, <2>1 DEF BuildApplyReview, UndoOperation, UndoCheck
<1>7. CASE ReviewStep(p) \/ ReconcileStep(p)
  BY <1>1, <1>7 DEF ReviewStep, ReconcileStep, ReviewCheck,
         ReviewFetchCandidate, BuildReview, ReconcileCheck, ReconcileRunning,
         ReconcileTargets, ReconcileFetchCandidate, Holding
<1>8. CASE CommitProof(p) \/ CommitTargets(p) \/ CommitFetchCandidate(p)
  <2>1. Holding(p)
    BY <1>8 DEF CommitProof, CommitTargets, CommitFetchCandidate, Holding, Busy
  <2> QED BY <1>8, <2>1 DEF CommitProof, CommitTargets, CommitFetchCandidate
<1>9. CASE CommitProof2(p) \/ CommitGuard(p) \/ CommitRunning(p) \/ PushRunning(p)
  <2>1. Holding(p)
    BY <1>9 DEF CommitProof2, CommitGuard, CommitRunning, PushRunning, Holding,
           Busy, StageFits, Fits
  <2> QED BY <1>9, <2>1 DEF CommitProof2, CommitGuard, CommitRunning,
             PushRunning, BeginJob
<1>10. CASE JobStep(p)
  <2>1. Holding(p)
    BY <1>10 DEF JobStep, Dispatch, Poll, Holding, Busy, StageFits, Fits
  <2> QED BY <1>10, <2>1 DEF JobStep, Dispatch, Poll, Recover, LostJob,
             LostResult
<1> QED BY <1>2, <1>3, <1>4, <1>5, <1>6, <1>7, <1>8, <1>9, <1>10
        DEF StageStep, ApplyStep, CommitStep, PushStep

(* Taking the locks: the last one taken completes them.                    *)
LEMMA AcquireHolds ==
  ASSUME TypeOK, LocksHeld, NEW p \in Worker, AcquireLock(p)
  PROVE  LocksAt(p)'
<1>1. /\ pc[p] = "lock" /\ loc[p] \in Local /\ loc[p].got \subseteq cfgLocks
      /\ sess'[p] = sess[p] /\ stage'[p] = stage[p]
  BY SessionOfWorker DEF AcquireLock, LocksHeld, LocksAt, Busy
<1>2. PICK sc \in LockScopes(sess[p]) \ loc[p].got :
        \/ /\ cfgLocks' = cfgLocks \cup {sc}
           /\ loc' = [loc EXCEPT ![p].got = loc[p].got \cup {sc}]
           /\ Goto(p, IF loc[p].got \cup {sc} # LockScopes(sess[p]) THEN "lock"
                      ELSE IF stage[p] = "push" THEN "running" ELSE "proof")
        \/ /\ cfgLocks \subseteq cfgLocks'
           /\ GiveUp(p) \/ OutcomeUnknown(p)
           /\ UNCHANGED loc
  BY DEF AcquireLock, Cut
<1>3. CASE /\ cfgLocks' = cfgLocks \cup {sc}
           /\ loc' = [loc EXCEPT ![p].got = loc[p].got \cup {sc}]
           /\ Goto(p, IF loc[p].got \cup {sc} # LockScopes(sess[p]) THEN "lock"
                      ELSE IF stage[p] = "push" THEN "running" ELSE "proof")
  <2>1. loc'[p].got = loc[p].got \cup {sc}
    BY <1>1, <1>3, LocOK DEF Local
  <2>2. pc'[p] = IF loc[p].got \cup {sc} # LockScopes(sess[p]) THEN "lock"
                 ELSE IF stage[p] = "push" THEN "running" ELSE "proof"
    BY <1>3, GoesTo
  <2>3. LockScopes(sess[p])' = LockScopes(sess[p])
    BY <1>1 DEF LockScopes
  <2> QED BY <1>1, <1>3, <2>1, <2>2, <2>3 DEF LocksAt, Holding
<1>4. CASE /\ cfgLocks \subseteq cfgLocks'
           /\ GiveUp(p) \/ OutcomeUnknown(p)
           /\ UNCHANGED loc
  BY <1>1, <1>4, GoesTo DEF LocksAt, Holding
<1> QED BY <1>2, <1>3, <1>4

(* Releasing one.                                                          *)
LEMMA ReleaseHolds ==
  ASSUME TypeOK, LocksHeld, NEW p \in Worker, ReleaseLock(p)
  PROVE  LocksAt(p)'
<1>1. /\ pc[p] = "release" /\ loc[p] \in Local /\ loc[p].got \subseteq cfgLocks
  BY SessionOfWorker DEF ReleaseLock, LocksHeld, LocksAt, Busy
<1>2. PICK sc \in loc[p].got :
        /\ cfgLocks \ {sc} \subseteq cfgLocks'
        /\ loc' = [loc EXCEPT ![p].got = loc[p].got \ {sc}]
        /\ Goto(p, AfterRelease(loc[p].got \ {sc}))
  BY DEF ReleaseLock
<1>3. loc'[p].got = loc[p].got \ {sc}
  BY <1>1, <1>2, LocOK DEF Local
<1>4. pc'[p] \in {"leave", "release"}
  BY <1>2, GoesTo, GiveUpLabel
<1> QED BY <1>1, <1>2, <1>3, <1>4 DEF LocksAt, Holding

(* Every other step of a stage.                                            *)
LEMMA StageHolds ==
  ASSUME TypeOK, StageFits, MarkerInv, LocksHeld, NEW p \in Worker,
         StageStep(p), ~EnterHost(p), ~LeaveStage(p)
  PROVE  LocksAt(p)'
<1>1. CASE ~AcquireLock(p) /\ ~ReleaseLock(p)
  <2>1. Busy(p) /\ sess'[p] = sess[p] /\ stage'[p] = stage[p]
    BY StageQuiet DEF Quiet
  <2>2. LockScopes(sess[p])' = LockScopes(sess[p])
    BY <2>1 DEF LockScopes
  <2> QED BY <1>1, <2>1, <2>2, LocksUntouched, StillHolding DEF LocksHeld, LocksAt
<1> QED BY <1>1, AcquireHolds, ReleaseHolds

(* A worker that does not step has its locks as before, if they are kept.  *)
LEMMA StayingHolds ==
  ASSUME LocksHeld, NEW q \in Worker, cfgLocks \subseteq cfgLocks',
         pc'[q] = pc[q], loc'[q] = loc[q], sess'[q] = sess[q],
         stage'[q] = stage[q]
  PROVE  LocksAt(q)'
<1>1. LockScopes(sess[q])' = LockScopes(sess[q])
  BY DEF LockScopes
<1> QED BY <1>1 DEF LocksHeld, LocksAt, Holding, Busy

(* Every step keeps the locks of those who hold them.                      *)
LEMMA NextLocks ==
  ASSUME TypeOK, StageFits, MarkerInv, LocksHeld, [Next]_vars
  PROVE  LocksHeld'
<1>1. ASSUME NEW p \in Worker, WorkerStep(p)
      PROVE  LocksHeld'
  <2>1. ASSUME NEW s \in Session, NEW st \in Requests, RequestStage(p, s, st)
        PROVE  LocksHeld'
    <3>1. UNCHANGED cfgLocks
      BY <2>1 DEF RequestStage, hostVars
    <3>2. LocksAt(p)'
      BY <2>1, RequestStarts DEF LocksAt, Holding, Busy
    <3> QED BY <2>1, <3>1, <3>2, RequestStarts, StayingHolds DEF LocksHeld
  <2>2. CASE EnterHost(p)
    <3>1. UNCHANGED cfgLocks
      BY <2>2 DEF EnterHost, hostVars
    <3>2. CASE Goto(p, "check") /\ UNCHANGED <<sess, stage, loc>>
      <4>1. pc[p] = "marker" /\ pc'[p] = "check"
            /\ \A q \in Worker \ {p} : pc'[q] = pc[q]
        BY <2>2, <3>2 DEF EnterHost, Goto, TypeOK
      <4>2. LocksAt(p)'
        BY <3>1, <3>2, <4>1 DEF LocksHeld, LocksAt, Holding
      <4> QED BY <3>1, <3>2, <4>1, <4>2, StayingHolds DEF LocksHeld
    <3>3. CASE BecomeIdle(p)
      <4>1. LocksAt(p)'
        BY <3>3, OthersStay DEF LocksAt, Holding, Busy
      <4> QED BY <3>1, <3>3, <4>1, OthersStay, StayingHolds DEF LocksHeld
    <3> QED BY <2>2, <3>2, <3>3 DEF EnterHost
  <2>3. CASE LeaveStage(p) \/ Interrupt(p) \/ Crash(p)
    <3>1. UNCHANGED cfgLocks /\ BecomeIdle(p)
      BY <2>3 DEF LeaveStage, Interrupt, Crash, EndProcess, hostVars
    <3>2. LocksAt(p)'
      BY <3>1, OthersStay DEF LocksAt, Holding, Busy
    <3> QED BY <3>1, <3>2, OthersStay, StayingHolds DEF LocksHeld
  <2>4. CASE StageStep(p) /\ ~EnterHost(p) /\ ~LeaveStage(p)
    <3>1. ASSUME NEW q \in Worker \ {p} PROVE LocksAt(q)'
      BY <2>4, OthersWait DEF LocksHeld, LocksAt, Holding, Busy
    <3> QED BY <2>4, <3>1, StageHolds DEF LocksHeld
  <2>5. CASE Restart(p)
    BY <2>5, StayingHolds DEF Restart, hostVars, LocksHeld
  <2> QED BY <1>1, <2>1, <2>2, <2>3, <2>4, <2>5 DEF WorkerStep
<1>2. CASE HostStep \/ UNCHANGED vars
  <2>1. UNCHANGED <<cfgLocks, pc, loc, sess, stage>>
    BY <1>2 DEF HostStep, EditCandidate, CommitElsewhere, FinishJob, vars,
                hostVars, workerVars
  <2> QED BY <2>1, StayingHolds DEF LocksHeld
<1>3. CASE ManualReconciliation
  <2>1. UNCHANGED <<pc, loc, sess, stage>> /\ \A q \in Worker : pc[q] = "idle"
    BY <1>3 DEF ManualReconciliation, workerVars
  <2> QED BY <2>1 DEF LocksHeld, LocksAt, Holding, Busy
<1> QED BY <1>1, <1>2, <1>3 DEF Next

(* In every behaviour a stage past its admission holds every scope its     *)
(* session writes until it releases them: nothing but its own release, and *)
(* the operator when nobody works, takes a config lock away.               *)
THEOREM LocksAreHeld == Spec => []LocksHeld
<1>1. Init => LocksHeld
  BY DEF Init, LocksHeld, LocksAt, Holding, Busy
<1>2. TypeOK /\ StageFits /\ MarkerInv /\ LocksHeld /\ [Next]_vars => LocksHeld'
  BY NextLocks
<1> QED BY <1>1, <1>2, TypesHold, MarkerHolds, PTL DEF Spec

(* With all its scopes, every XPath a session writes is locked.            *)
LEMMA ScopesLock ==
  ASSUME NEW s \in Session, LockScopes(s) \subseteq cfgLocks,
         NEW q \in Targets(s)
  PROVE  Locked(q)
  BY DEF LockScopes, Locked

(***************************************************************************)
(* What a stage has touched.                                               *)
(***************************************************************************)

(* Labels between the first operation of a stage and its end.              *)
Writing == {"write", "validate", "post", "undo"}

(* A stage touches what it may write, and nothing before it writes.        *)
TouchedAt(p) ==
  /\ pc[p] \notin Writing \cup {"idle", "review", "release", "leave"} =>
       loc[p].touched = {}
  /\ pc[p] \in Writing => loc[p].touched \subseteq Safe(sess[p], loc[p].skip)

TouchedKnown == \A p \in Worker : TouchedAt(p)

(* Only a write touches, and only a decision leaves components out.        *)
LEMMA TouchedKept ==
  ASSUME TypeOK, NEW p \in Worker, StageStep(p), ~EnterHost(p),
         ~LeaveStage(p), ~WriteOperation(p)
  PROVE  /\ loc'[p].touched = loc[p].touched
         /\ Decide(p) \/ loc'[p].skip = loc[p].skip
<1>1. loc[p] \in Local
  BY StageQuiet, SessionOfWorker DEF Quiet, Busy
<1>2. CASE AcquireLock(p) \/ ReleaseLock(p) \/ FetchRunning(p)
  <2>1. CASE AcquireLock(p) \/ ReleaseLock(p)
    BY <1>1, <2>1, LocOK, ZenonT(60) DEF AcquireLock, ReleaseLock, Local
  <2>2. CASE FetchRunning(p)
    BY <1>1, <2>2, LocOK DEF FetchRunning, Local
  <2> QED BY <1>2, <2>1, <2>2
<1>3. CASE ApplyCheck(p) \/ ReadProof(p) \/ ApplyFetchCandidate(p) \/ Decide(p)
  <2>1. CASE ApplyCheck(p)
    BY <1>1, <2>1, LocOK DEF ApplyCheck, Admit, Local
  <2>2. CASE ReadProof(p) \/ ApplyFetchCandidate(p)
    BY <1>1, <2>2, LocOK, ZenonT(60) DEF ReadProof, ApplyFetchCandidate, Local
  <2>3. CASE Decide(p)
    BY <1>1, <2>3, LocOK, ZenonT(60) DEF Decide, Local
  <2> QED BY <1>3, <2>1, <2>2, <2>3
<1>4. CASE SaveSnapshot(p) \/ Validate(p) \/ CheckPost(p)
  BY <1>1, <1>4, LocOK DEF SaveSnapshot, Validate, CheckPost, Local
<1>5. CASE BuildApplyReview(p) \/ UndoOperation(p) \/ UndoCheck(p)
  BY <1>1, <1>5, LocOK DEF BuildApplyReview, UndoOperation, UndoCheck, Local
<1>6. CASE ReviewStep(p) \/ ReconcileStep(p)
  BY <1>1, <1>6, LocOK DEF ReviewStep, ReconcileStep, ReviewCheck,
         ReviewFetchCandidate, BuildReview, ReconcileCheck, ReconcileRunning,
         ReconcileTargets, ReconcileFetchCandidate, Local
<1>7. CASE CommitStep(p) \/ PushStep(p)
  <2>1. CASE CommitCheck(p) \/ PushCheck(p) \/ PushRunning(p)
    BY <1>1, <2>1, LocOK DEF CommitCheck, PushCheck, PushRunning, Admit, Local
  <2>2. CASE CommitProof(p) \/ CommitTargets(p) \/ CommitProof2(p)
    BY <1>1, <2>2, LocOK DEF CommitProof, CommitTargets, CommitProof2, Admit, Local
  <2>3. CASE CommitFetchCandidate(p) \/ CommitGuard(p) \/ CommitRunning(p)
    BY <1>1, <2>3, LocOK DEF CommitFetchCandidate, CommitGuard, CommitRunning,
           Admit, Local
  <2> QED BY <1>7, <2>1, <2>2, <2>3 DEF CommitStep, PushStep
<1>8. CASE JobStep(p)
  BY <1>1, <1>8, LocOK DEF JobStep, Dispatch, Poll, Local
<1> QED BY <1>2, <1>3, <1>4, <1>5, <1>6, <1>7, <1>8 DEF StageStep, ApplyStep

(* The labels of the writing part are entered by the decision and the      *)
(* snapshot, and left for the end of the stage.                            *)
LEMMA WritingLabels ==
  ASSUME TypeOK, NEW p \in Worker, StageStep(p), ~EnterHost(p), ~LeaveStage(p)
  PROVE  /\ pc'[p] \in Writing => pc[p] \in Writing \cup {"snapshot"}
         /\ pc[p] \in Writing \cup {"review", "release", "leave"} =>
              pc'[p] \in Writing \cup {"review", "release", "leave"}
         /\ pc[p] = "undo" => pc'[p] \in {"undo", "release", "leave"}
         /\ pc'[p] = "snapshot" => Decide(p)
         /\ pc'[p] = "decide" => ReadProof(p) \/ ApplyFetchCandidate(p)
<1> USE GoesTo DEF Writing
<1>1. CASE AcquireLock(p) \/ FetchRunning(p)
  BY <1>1 DEF AcquireLock, FetchRunning
<1>2. CASE ReleaseLock(p)
  BY <1>2, GiveUpLabel DEF ReleaseLock
<1>3. CASE ApplyCheck(p) \/ CommitCheck(p) \/ PushCheck(p)
  BY <1>3 DEF ApplyCheck, CommitCheck, PushCheck, Admit
<1>4. CASE ReadProof(p) \/ ApplyFetchCandidate(p) \/ Decide(p)
  BY <1>4 DEF ReadProof, ApplyFetchCandidate, Decide
<1>5. CASE SaveSnapshot(p) \/ WriteOperation(p) \/ Validate(p) \/ CheckPost(p)
  BY <1>5 DEF SaveSnapshot, WriteOperation, Validate, CheckPost
<1>6. CASE BuildApplyReview(p) \/ UndoOperation(p) \/ UndoCheck(p)
  BY <1>6 DEF BuildApplyReview, UndoOperation, UndoCheck
<1>7. CASE ReviewStep(p) \/ ReconcileStep(p)
  BY <1>7 DEF ReviewStep, ReconcileStep, ReviewCheck, ReviewFetchCandidate,
         BuildReview, ReconcileCheck, ReconcileRunning, ReconcileTargets,
         ReconcileFetchCandidate
<1>8. CASE CommitProof(p) \/ CommitTargets(p) \/ CommitFetchCandidate(p)
  BY <1>8 DEF CommitProof, CommitTargets, CommitFetchCandidate
<1>9. CASE CommitProof2(p) \/ CommitGuard(p) \/ CommitRunning(p) \/ PushRunning(p)
  BY <1>9 DEF CommitProof2, CommitGuard, CommitRunning, PushRunning, BeginJob
<1>10. CASE JobStep(p)
  BY <1>10 DEF JobStep, Dispatch, Poll, Recover, LostJob, LostResult
<1> QED BY <1>1, <1>2, <1>3, <1>4, <1>5, <1>6, <1>7, <1>8, <1>9, <1>10
        DEF StageStep, ApplyStep, CommitStep, PushStep

(* A write touches an XPath that it may write, and finds out first.        *)
LEMMA WriteTouches ==
  ASSUME TypeOK, NEW p \in Worker, WriteOperation(p)
  PROVE  /\ pc[p] = "write" /\ sess[p] \in Session /\ sess'[p] = sess[p]
         /\ loc'[p].skip = loc[p].skip
         /\ \E k \in DOMAIN Forward[sess[p]] :
              /\ Forward[sess[p]][k].path \in Safe(sess[p], loc[p].skip)
              /\ \/ /\ candidate' = Written(Forward[sess[p]][k])
                    /\ loc'[p].touched =
                         loc[p].touched \cup {Forward[sess[p]][k].path}
                 \/ /\ pc'[p] = "undo"
                    /\ candidate' = candidate \/ CutAnswers
                    /\ loc'[p].touched = loc[p].touched
                 \/ /\ pc'[p] = "leave"
                    /\ candidate' \in {candidate, Written(Forward[sess[p]][k])}
                    /\ loc'[p].touched = loc[p].touched
<1>1. pc[p] = "write" /\ sess[p] \in Session /\ loc[p] \in Local /\ sess' = sess
  BY SessionOfWorker DEF WriteOperation
<1>2. PICK k \in FirstOf(Pending(p)) :
     \/ /\ candidate' = Written(Forward[sess[p]][k])
        /\ loc' = [loc EXCEPT ![p].at = k + 1, ![p].touched = TouchedBy(p, k)]
     \/ /\ Goto(p, "undo")
        /\ loc' = [loc EXCEPT ![p].at = 1]
        /\ candidate' = candidate \/ CutAnswers
     \/ /\ candidate' \in {candidate, Written(Forward[sess[p]][k])}
        /\ OutcomeUnknown(p)
        /\ UNCHANGED loc
  BY DEF WriteOperation, Cut
<1>3. k \in DOMAIN Forward[sess[p]]
      /\ Forward[sess[p]][k].path \in Safe(sess[p], loc[p].skip)
  BY DEF FirstOf, Pending
<1>4. loc'[p].skip = loc[p].skip
  BY <1>1, <1>2, LocOK DEF Local
<1>5. \/ /\ candidate' = Written(Forward[sess[p]][k])
         /\ loc'[p].touched = loc[p].touched \cup {Forward[sess[p]][k].path}
      \/ /\ pc'[p] = "undo"
         /\ candidate' = candidate \/ CutAnswers
         /\ loc'[p].touched = loc[p].touched
      \/ /\ pc'[p] = "leave"
         /\ candidate' \in {candidate, Written(Forward[sess[p]][k])}
         /\ loc'[p].touched = loc[p].touched
  BY <1>1, <1>2, LocOK, GoesTo DEF Local, TouchedBy
<1> QED BY <1>1, <1>3, <1>4, <1>5

(* Every step of a stage keeps track of what it has touched.               *)
LEMMA StageTouched ==
  ASSUME TypeOK, TouchedKnown, NEW p \in Worker, StageStep(p), ~EnterHost(p),
         ~LeaveStage(p)
  PROVE  TouchedAt(p)'
<1>1. Busy(p) /\ sess'[p] = sess[p]
  BY StageQuiet DEF Quiet
<1>2. TouchedAt(p)
  BY DEF TouchedKnown
<1>3. CASE WriteOperation(p)
  BY <1>1, <1>2, <1>3, WriteTouches, WritingLabels DEF TouchedAt, Writing, Safe
<1>4. CASE ~WriteOperation(p)
  <2>1. pc'[p] \in Writing => loc'[p].skip = loc[p].skip
    BY <1>4, TouchedKept, WritingLabels DEF Decide, Writing
  <2> QED BY <1>1, <1>2, <1>4, <2>1, TouchedKept, WritingLabels
          DEF TouchedAt, Busy, Writing, Safe
<1> QED BY <1>3, <1>4

(* A worker that does not step has touched what it had.                    *)
LEMMA StayingTouched ==
  ASSUME TouchedKnown, NEW q \in Worker, pc'[q] = pc[q], loc'[q] = loc[q],
         sess'[q] = sess[q]
  PROVE  TouchedAt(q)'
  BY DEF TouchedKnown, TouchedAt, Safe

(* Every step keeps track of what is touched.                              *)
LEMMA NextTouched ==
  ASSUME TypeOK, MarkerInv, TouchedKnown, [Next]_vars
  PROVE  TouchedKnown'
<1>1. ASSUME NEW p \in Worker, WorkerStep(p)
      PROVE  TouchedKnown'
  <2>1. ASSUME NEW s \in Session, NEW st \in Requests, RequestStage(p, s, st)
        PROVE  TouchedKnown'
    <3>1. TouchedAt(p)'
      BY <2>1, RequestStarts DEF TouchedAt, Writing
    <3> QED BY <2>1, <3>1, RequestStarts, StayingTouched DEF TouchedKnown
  <2>2. CASE Goto(p, "check") /\ UNCHANGED <<sess, stage, loc>> /\ pc[p] = "marker"
    <3>1. pc'[p] = "check" /\ \A q \in Worker \ {p} : pc'[q] = pc[q]
      BY <2>2 DEF Goto, TypeOK
    <3>2. TouchedAt(p)'
      BY <2>2, <3>1 DEF TouchedKnown, TouchedAt, Writing
    <3> QED BY <2>2, <3>1, <3>2, StayingTouched DEF TouchedKnown
  <2>3. CASE BecomeIdle(p)
    <3>1. TouchedAt(p)'
      BY <2>3, OthersStay DEF TouchedAt, Writing
    <3> QED BY <2>3, <3>1, OthersStay, StayingTouched DEF TouchedKnown
  <2>4. CASE StageStep(p) /\ ~EnterHost(p) /\ ~LeaveStage(p)
    <3>1. ASSUME NEW q \in Worker \ {p} PROVE TouchedAt(q)'
      BY <2>4, OthersWait, StayingTouched
    <3> QED BY <2>4, <3>1, StageTouched DEF TouchedKnown
  <2>5. CASE Restart(p)
    BY <2>5, StayingTouched DEF Restart, TouchedKnown
  <2>6. EnterHost(p) => BecomeIdle(p) \/ (/\ Goto(p, "check") /\ pc[p] = "marker"
                                         /\ UNCHANGED <<sess, stage, loc>>)
    BY DEF EnterHost
  <2>7. LeaveStage(p) \/ Interrupt(p) \/ Crash(p) => BecomeIdle(p)
    BY DEF LeaveStage, Interrupt, Crash, EndProcess
  <2> QED BY <1>1, <2>1, <2>2, <2>3, <2>4, <2>5, <2>6, <2>7 DEF WorkerStep
<1>2. CASE HostStep \/ ManualReconciliation \/ UNCHANGED vars
  <2>1. UNCHANGED <<pc, loc, sess>>
    BY <1>2 DEF HostStep, ManualReconciliation, vars, workerVars
  <2> QED BY <2>1, StayingTouched DEF TouchedKnown
<1> QED BY <1>1, <1>2 DEF Next

(* In every behaviour a stage has touched only XPaths of the components it *)
(* writes, and none before its first write.                                *)
THEOREM TouchesAreKnown == Spec => []TouchedKnown
<1>1. Init => TouchedKnown
  BY DEF Init, TouchedKnown, TouchedAt, Writing
<1>2. TypeOK /\ MarkerInv /\ TouchedKnown /\ [Next]_vars => TouchedKnown'
  BY NextTouched
<1> QED BY <1>1, <1>2, TypesHold, MarkerHolds, PTL DEF Spec

(***************************************************************************)
(* What a stage has found out stays true while it holds its locks.         *)
(***************************************************************************)

(* Where the decision is made, the candidate at every XPath of the plan is *)
(* the one that was downloaded, or is about to be read.                    *)
DecidesOnLive(p) ==
  pc[p] = "decide" =>
    loc[p].fast \/ \A q \in Targets(sess[p]) : loc[p].view[q] = candidate[q]

(* What a stage may write and has not touched holds what the plan found    *)
(* there.  A refused write whose answer was cut may have been done.        *)
UntouchedHolds(p) ==
  pc[p] \in Writing \cup {"snapshot"} /\ (pc[p] = "undo" => ~CutAnswers) =>
    \A q \in Safe(sess[p], loc[p].skip) \ loc[p].touched :
      candidate[q] = Before[sess[p]][q]

(* From its last XPath proof on, a commit has what was applied before it.  *)
CommitHolds(p) ==
  stage[p] = "commit"
    /\ pc[p] \in {"proof2", "guard", "runningProof", "dispatch"} =>
      Holds(sess[p], applied[sess[p]], candidate)

PlannedAt(p) == DecidesOnLive(p) /\ UntouchedHolds(p) /\ CommitHolds(p)
PlannedHolds == \A p \in Worker : PlannedAt(p)

(* The candidate is written by two steps only.                             *)
LEMMA CandidateKept ==
  ASSUME NEW p \in Worker, StageStep(p), ~WriteOperation(p), ~UndoOperation(p)
  PROVE  UNCHANGED candidate
<1>1. CASE EnterHost(p) \/ LeaveStage(p) \/ FetchRunning(p)
  BY <1>1 DEF EnterHost, LeaveStage, FetchRunning, hostVars
<1>2. CASE AcquireLock(p) \/ ReleaseLock(p)
  BY <1>2 DEF AcquireLock, ReleaseLock
<1>3. CASE ApplyStep(p)
  BY <1>3 DEF ApplyStep, ApplyCheck, ReadProof, ApplyFetchCandidate, Decide,
         SaveSnapshot, Validate, CheckPost, BuildApplyReview, UndoCheck, hostVars
<1>4. CASE ReviewStep(p) \/ ReconcileStep(p)
  BY <1>4 DEF ReviewStep, ReconcileStep, ReviewCheck, ReviewFetchCandidate,
         BuildReview, ReconcileCheck, ReconcileRunning, ReconcileTargets,
         ReconcileFetchCandidate, hostVars
<1>5. CASE CommitStep(p) \/ PushStep(p)
  BY <1>5 DEF CommitStep, PushStep, CommitCheck, CommitProof, CommitTargets,
         CommitProof2, CommitFetchCandidate, CommitGuard, CommitRunning,
         PushCheck, PushRunning, hostVars
<1>6. CASE JobStep(p)
  BY <1>6 DEF JobStep, Dispatch, Poll, hostVars
<1> QED BY <1>1, <1>2, <1>3, <1>4, <1>5, <1>6 DEF StageStep

(* The decision is reached with the candidate just read.                   *)
LEMMA DecideReached ==
  ASSUME TypeOK, NEW p \in Worker, StageStep(p), ~EnterHost(p), ~LeaveStage(p)
  PROVE  DecidesOnLive(p)'
<1>1. CASE pc'[p] = "decide"
  <2>1. ReadProof(p) \/ ApplyFetchCandidate(p)
    BY <1>1, WritingLabels
  <2>2. loc[p] \in Local
    BY StageQuiet, SessionOfWorker DEF Quiet, Busy
  <2>3. CASE ReadProof(p)
    BY <1>1, <2>2, <2>3, GoesTo, LocOK DEF ReadProof, DecidesOnLive, Local
  <2>4. CASE ApplyFetchCandidate(p)
    <3>1. UNCHANGED candidate
      BY <2>4 DEF ApplyFetchCandidate, hostVars
    <3>2. loc'[p].view = candidate
      BY <1>1, <2>2, <2>4, GoesTo, LocOK DEF ApplyFetchCandidate, Local
    <3> QED BY <3>1, <3>2 DEF DecidesOnLive
  <2> QED BY <2>1, <2>3, <2>4
<1> QED BY <1>1 DEF DecidesOnLive

(* A decision to write leaves out every component that has changed.        *)
LEMMA DecisionHolds ==
  ASSUME TypeOK, TouchedKnown, NEW p \in Worker, DecidesOnLive(p), Decide(p),
         pc'[p] = "snapshot"
  PROVE  /\ loc'[p].touched = {} /\ candidate' = candidate
         /\ \A q \in Safe(sess[p], loc'[p].skip) :
              candidate[q] = Before[sess[p]][q]
<1> DEFINE s == sess[p]
<1>1. s \in Session /\ loc[p] \in Local /\ pc[p] = "decide"
  BY SessionOfWorker DEF Decide
<1>2. PICK failed : /\ loc' = [loc EXCEPT ![p].skip = Conflicted(p) \cup failed]
                    /\ UNCHANGED hostVars
  BY GoesTo DEF Decide
<1>3. loc'[p].skip = Conflicted(p) \cup failed /\ loc'[p].touched = loc[p].touched
  BY <1>1, <1>2, LocOK DEF Local
<1>4. loc[p].touched = {}
  BY <1>1 DEF TouchedKnown, TouchedAt, Writing
<1>5. ASSUME NEW q \in Safe(s, loc'[p].skip), candidate[q] # Before[s][q]
      PROVE  FALSE
  <2>1. q \in Targets(s) /\ CompOf[s][q] \notin Conflicted(p)
    BY <1>3, <1>5 DEF Safe
  <2>2. CASE loc[p].fast
    BY <1>5, <2>1, <2>2 DEF Conflicted, Changed, ComponentsOf
  <2>3. CASE loc[p].view[q] = candidate[q]
    BY <1>5, <2>1, <2>3 DEF Conflicted, Changed, ComponentsOf
  <2> QED BY <1>1, <2>1, <2>2, <2>3 DEF DecidesOnLive
<1> QED BY <1>2, <1>3, <1>4, <1>5 DEF hostVars

(* A write changes the XPath it touches, an undo one that is touched.      *)
LEMMA OthersUnwritten ==
  ASSUME TypeOK, NEW s \in Session, NEW op \in [path : Targets(s), value : Value],
         NEW q \in Path, q # op.path
  PROVE  Written(op)[q] = candidate[q]
<1>1. candidate \in Tree
  BY LiveTrees
<1> QED BY <1>1 DEF Written, Tree

(* The untouched part of the plan is kept as it was found.                 *)
LEMMA StageUntouched ==
  ASSUME TypeOK, TouchedKnown, NEW p \in Worker, DecidesOnLive(p),
         UntouchedHolds(p), StageStep(p), ~EnterHost(p), ~LeaveStage(p)
  PROVE  UntouchedHolds(p)'
<1>1. Busy(p) /\ sess'[p] = sess[p] /\ sess[p] \in Session
  BY StageQuiet, SessionOfWorker DEF Quiet, Busy
<1>2. \A skip : Safe(sess[p], skip) \subseteq Path
  BY <1>1, PlanType DEF Safe
<1>3. CASE pc'[p] = "snapshot"
  <2>1. Decide(p)
    BY <1>3, WritingLabels
  <2> QED BY <1>1, <1>3, <2>1, DecisionHolds DEF UntouchedHolds, Safe
<1>4. CASE WriteOperation(p)
  <2>1. PICK k \in DOMAIN Forward[sess[p]] :
          \/ /\ candidate' = Written(Forward[sess[p]][k])
             /\ loc'[p].touched = loc[p].touched \cup {Forward[sess[p]][k].path}
          \/ /\ pc'[p] = "undo"
             /\ candidate' = candidate \/ CutAnswers
             /\ loc'[p].touched = loc[p].touched
          \/ pc'[p] = "leave"
    BY <1>4, WriteTouches
  <2>2. pc[p] = "write" /\ loc'[p].skip = loc[p].skip
    BY <1>4, WriteTouches
  <2>3. Forward[sess[p]][k] \in [path : Targets(sess[p]), value : Value]
    BY <1>1, OperationType
  <2>4. \A q \in Path \ {Forward[sess[p]][k].path} :
          Written(Forward[sess[p]][k])[q] = candidate[q]
    BY <1>1, <2>3, OthersUnwritten
  <2> QED BY <1>1, <1>2, <2>1, <2>2, <2>4 DEF UntouchedHolds, Safe, Writing
<1>5. CASE UndoOperation(p)
  <2>1. PICK k \in ToUndo(p) :
          candidate' \in {candidate, Written(Inverse[sess[p]][k])}
    BY <1>5 DEF UndoOperation, FirstOf
  <2>2. Inverse[sess[p]][k] \in [path : Targets(sess[p]), value : Value]
        /\ Inverse[sess[p]][k].path \in loc[p].touched
    BY <1>1, <2>1, OperationType DEF ToUndo
  <2>3. \A q \in Path \ {Inverse[sess[p]][k].path} :
          Written(Inverse[sess[p]][k])[q] = candidate[q]
    BY <1>1, <2>2, OthersUnwritten
  <2>4. \A q \in Path \ loc[p].touched : candidate'[q] = candidate[q]
    BY <2>1, <2>2, <2>3
  <2>5. /\ pc[p] = "undo" /\ loc'[p].touched = loc[p].touched
        /\ loc'[p].skip = loc[p].skip
    <3>1. ~WriteOperation(p) /\ ~Decide(p) /\ pc[p] = "undo"
      BY <1>5 DEF UndoOperation, WriteOperation, Decide
    <3> QED BY <3>1, TouchedKept
  <2>6. pc'[p] \in {"undo", "release", "leave"}
    BY <2>5, WritingLabels
  <2> QED BY <1>1, <1>2, <2>4, <2>5, <2>6 DEF UntouchedHolds, Safe, Writing
<1>6. CASE pc'[p] # "snapshot" /\ ~WriteOperation(p) /\ ~UndoOperation(p)
  <2>1. UNCHANGED candidate
    BY <1>6, CandidateKept
  <2>2. CASE pc'[p] \in Writing
    <3>1. pc[p] \in Writing \cup {"snapshot"}
          /\ (pc[p] = "undo" => pc'[p] = "undo")
      BY <2>2, WritingLabels DEF Writing
    <3>2. loc'[p].touched = loc[p].touched /\ loc'[p].skip = loc[p].skip
      BY <1>6, <3>1, TouchedKept DEF Decide, Writing
    <3> QED BY <1>1, <2>1, <3>1, <3>2 DEF UntouchedHolds, Safe
  <2> QED BY <1>6, <2>2 DEF UntouchedHolds
<1> QED BY <1>3, <1>4, <1>5, <1>6

(* The last part of a commit is entered through one of its proofs, and     *)
(* only from there is a job begun.                                         *)
LEMMA CommitLabels ==
  ASSUME TypeOK, StageFits, NEW p \in Worker, StageStep(p), ~EnterHost(p),
         ~LeaveStage(p), stage[p] = "commit",
         pc'[p] \in {"proof2", "guard", "runningProof", "dispatch"}
  PROVE  /\ UNCHANGED <<candidate, applied>> /\ sess'[p] = sess[p]
         /\ \/ CommitTargets(p) /\ pc'[p] = "proof2"
            \/ CommitFetchCandidate(p) /\ pc'[p] = "guard"
            \/ pc[p] \in {"proof2", "guard", "runningProof"}
<1> USE GoesTo
<1>1. sess'[p] = sess[p]
  BY StageQuiet DEF Quiet
<1>2. CASE CommitStep(p)
  <2>1. UNCHANGED <<candidate, applied>>
    BY <1>2 DEF CommitStep, CommitCheck, CommitProof, CommitTargets,
           CommitProof2, CommitFetchCandidate, CommitGuard, CommitRunning,
           hostVars, manifestVars
  <2>2. \/ CommitTargets(p) /\ pc'[p] = "proof2"
        \/ CommitFetchCandidate(p) /\ pc'[p] = "guard"
        \/ pc[p] \in {"proof2", "guard", "runningProof"}
    BY <1>2 DEF CommitStep, CommitCheck, CommitProof, CommitTargets,
           CommitProof2, CommitFetchCandidate, CommitGuard, CommitRunning, Admit
  <2> QED BY <1>1, <2>1, <2>2
<1>3. CASE AcquireLock(p) \/ FetchRunning(p) \/ ReleaseLock(p) \/ JobStep(p)
  <2>1. CASE AcquireLock(p)
    BY <2>1 DEF AcquireLock
  <2>2. CASE FetchRunning(p)
    BY <2>2 DEF FetchRunning
  <2>3. CASE ReleaseLock(p)
    BY <2>3, GiveUpLabel DEF ReleaseLock
  <2>4. CASE JobStep(p)
    BY <2>4 DEF JobStep, Dispatch, Poll, Recover, LostJob, LostResult
  <2> QED BY <1>3, <2>1, <2>2, <2>3, <2>4
<1>4. CASE ApplyStep(p)
  <2>1. CASE ApplyCheck(p) \/ ReadProof(p) \/ ApplyFetchCandidate(p) \/ BuildApplyReview(p)
    BY <2>1 DEF ApplyCheck, ReadProof, ApplyFetchCandidate, BuildApplyReview
  <2>2. CASE Decide(p) \/ SaveSnapshot(p) \/ WriteOperation(p) \/ Validate(p)
             \/ CheckPost(p) \/ UndoOperation(p) \/ UndoCheck(p)
    BY <2>2 DEF Decide, SaveSnapshot, WriteOperation, Validate, CheckPost,
           UndoOperation, UndoCheck, StageFits, Fits
  <2> QED BY <1>4, <2>1, <2>2 DEF ApplyStep
<1>5. CASE ReviewStep(p) \/ ReconcileStep(p) \/ PushStep(p)
  BY <1>5 DEF ReviewStep, ReconcileStep, PushStep, ReviewCheck,
         ReviewFetchCandidate, BuildReview, ReconcileCheck, ReconcileRunning,
         ReconcileTargets, ReconcileFetchCandidate, PushCheck, PushRunning
<1> QED BY <1>2, <1>3, <1>4, <1>5 DEF StageStep

(* A commit that goes on has proved, or proves, the XPaths it applied.     *)
LEMMA StageCommits ==
  ASSUME TypeOK, StageFits, NEW p \in Worker, CommitHolds(p), StageStep(p),
         ~EnterHost(p), ~LeaveStage(p)
  PROVE  CommitHolds(p)'
<1>1. stage'[p] = stage[p]
  BY StageQuiet DEF Quiet
<1>2. CASE stage[p] = "commit"
           /\ pc'[p] \in {"proof2", "guard", "runningProof", "dispatch"}
  <2>1. Holds(sess[p], applied[sess[p]], candidate)
    <3>1. CASE CommitTargets(p) /\ pc'[p] = "proof2"
      BY <3>1, GoesTo DEF CommitTargets
    <3>2. CASE CommitFetchCandidate(p) /\ pc'[p] = "guard"
      BY <3>2, GoesTo DEF CommitFetchCandidate
    <3>3. CASE pc[p] \in {"proof2", "guard", "runningProof"}
      BY <1>2, <3>3 DEF CommitHolds
    <3> QED BY <1>2, <3>1, <3>2, <3>3, CommitLabels
  <2> QED BY <1>2, <2>1, CommitLabels DEF CommitHolds, Holds
<1> QED BY <1>1, <1>2 DEF CommitHolds

(* A worker that does not step keeps what it has found out, if the XPaths  *)
(* of its plan and the record of what was applied stay as they are.        *)
LEMMA StayingPlanned ==
  ASSUME NEW q \in Worker, PlannedAt(q), pc'[q] = pc[q], loc'[q] = loc[q],
         sess'[q] = sess[q], stage'[q] = stage[q],
         \/ pc[q] \in {"idle", "marker"}
         \/ /\ UNCHANGED applied
            /\ applied[sess[q]] \subseteq Targets(sess[q])
            /\ Holding(q) =>
                 \A x \in Targets(sess[q]) : candidate'[x] = candidate[x],
         Fits(pc[q], stage[q])
  PROVE  PlannedAt(q)'
<1>1. DecidesOnLive(q)'
  BY DEF PlannedAt, DecidesOnLive, Holding, Busy, Fits, Targets
<1>2. UntouchedHolds(q)'
  BY DEF PlannedAt, UntouchedHolds, Holding, Busy, Fits, Safe, Targets, Writing
<1>3. CommitHolds(q)'
  <2>1. CASE stage[q] = "commit"
             /\ pc[q] \in {"proof2", "guard", "runningProof", "dispatch"}
    <3>1. /\ Holding(q) /\ UNCHANGED applied
          /\ Holds(sess[q], applied[sess[q]], candidate)
      BY <2>1 DEF PlannedAt, CommitHolds, Holding, Busy
    <3>2. \A x \in applied[sess[q]] : candidate'[x] = After[sess[q]][x]
      BY <2>1, <3>1 DEF Holds
    <3> QED BY <3>1, <3>2 DEF CommitHolds, Holds
  <2> QED BY <2>1 DEF CommitHolds
<1> QED BY <1>1, <1>2, <1>3 DEF PlannedAt

(* Nobody else edits an XPath of a plan whose scopes are all held.         *)
LEMMA EditsStayOut ==
  ASSUME ~OwnEdits, TypeOK, NEW s \in Session, LockScopes(s) \subseteq cfgLocks,
         EditCandidate, NEW q \in Targets(s)
  PROVE  candidate'[q] = candidate[q]
<1>1. Locked(q)
  BY ScopesLock
<1>2. PICK x \in Path, v \in Value : /\ ~Locked(x)
                                     /\ candidate' = [candidate EXCEPT ![x] = v]
  BY PanoramaConstants DEF EditCandidate
<1>3. candidate \in Tree
  BY LiveTrees
<1> QED BY <1>1, <1>2, <1>3 DEF Tree

(* A worker that holds its locks holds all it needs.                       *)
LEMMA HoldingHolds ==
  ASSUME TypeOK, LocksHeld, NEW p \in Worker, Holding(p)
  PROVE  sess[p] \in Session /\ LockScopes(sess[p]) \subseteq cfgLocks
  BY SessionOfWorker DEF LocksHeld, LocksAt, Holding, Busy

(* Everything found out outlives the steps of the others.                  *)
LEMMA NextPlanned ==
  ASSUME ~OwnEdits, TypeOK, StageFits, MarkerInv, LocksHeld, TouchedKnown,
         PlannedHolds, [Next]_vars
  PROVE  PlannedHolds'
<1>1. \A q \in Worker : PlannedAt(q) /\ Fits(pc[q], stage[q])
  BY DEF PlannedHolds, StageFits
<1>2. \A q \in Worker :
        pc[q] \in {"idle", "marker"} \/ applied[sess[q]] \subseteq Targets(sess[q])
  BY SessionOfWorker DEF TypeOK
<1>3. \A q \in Worker : pc'[q] \in {"idle", "check"} => PlannedAt(q)'
  BY DEF PlannedAt, DecidesOnLive, UntouchedHolds, CommitHolds, Writing
<1>4. ASSUME NEW p \in Worker, WorkerStep(p)
      PROVE  PlannedHolds'
  <2>1. ASSUME NEW s \in Session, NEW st \in Requests, RequestStage(p, s, st)
        PROVE  PlannedHolds'
    <3>1. UNCHANGED <<candidate, applied>>
      BY <2>1 DEF RequestStage, hostVars, manifestVars
    <3>2. PlannedAt(p)'
      BY <2>1, RequestStarts DEF PlannedAt, DecidesOnLive, UntouchedHolds,
         CommitHolds, Writing
    <3> QED BY <1>1, <1>2, <2>1, <3>1, <3>2, RequestStarts, StayingPlanned
            DEF PlannedHolds
  <2>2. CASE EnterHost(p) /\ Goto(p, "check") /\ UNCHANGED <<sess, stage, loc>>
    <3>1. pc'[p] = "check" /\ \A q \in Worker \ {p} : pc'[q] = pc[q]
      BY <2>2 DEF Goto, TypeOK
    <3>2. UNCHANGED <<candidate, applied>>
      BY <2>2 DEF EnterHost, hostVars, manifestVars
    <3> QED BY <1>1, <1>2, <1>3, <2>2, <3>1, <3>2, StayingPlanned
            DEF PlannedHolds
  <2>3. CASE BecomeIdle(p) /\ (EnterHost(p) \/ LeaveStage(p) \/ Interrupt(p)
                                 \/ Crash(p))
    <3>1. UNCHANGED <<candidate, applied>>
      BY <2>3 DEF EnterHost, LeaveStage, Interrupt, Crash, hostVars, manifestVars
    <3> QED BY <1>1, <1>2, <1>3, <2>3, <3>1, OthersStay, StayingPlanned
            DEF PlannedHolds
  <2>4. CASE StageStep(p) /\ ~EnterHost(p) /\ ~LeaveStage(p)
    <3>1. ASSUME NEW q \in Worker \ {p} PROVE PlannedAt(q)'
      <4>1. pc'[q] \in {"idle", "marker"}
        BY <2>4, OthersWait DEF Busy
      <4> QED BY <4>1 DEF PlannedAt, DecidesOnLive, UntouchedHolds, CommitHolds,
              Writing
    <3>2. PlannedAt(p)'
      BY <1>1, <2>4, DecideReached, StageUntouched, StageCommits DEF PlannedAt
    <3> QED BY <3>1, <3>2 DEF PlannedHolds
  <2>5. CASE Restart(p)
    <3>1. UNCHANGED <<pc, stage, sess, loc, candidate, applied>>
      BY <2>5 DEF Restart, hostVars, manifestVars
    <3> QED BY <1>1, <1>2, <3>1, StayingPlanned DEF PlannedHolds
  <2>6. EnterHost(p) => \/ Goto(p, "check") /\ UNCHANGED <<sess, stage, loc>>
                        \/ BecomeIdle(p)
    BY DEF EnterHost
  <2>7. LeaveStage(p) \/ Interrupt(p) \/ Crash(p) => BecomeIdle(p)
    BY DEF LeaveStage, Interrupt, Crash, EndProcess
  <2> QED BY <1>4, <2>1, <2>2, <2>3, <2>4, <2>5, <2>6, <2>7 DEF WorkerStep
<1>5. CASE HostStep
  <2>1. UNCHANGED <<pc, stage, sess, loc, applied>>
    BY <1>5 DEF HostStep, workerVars, manifestVars
  <2>2. ASSUME NEW q \in Worker, Holding(q), NEW x \in Targets(sess[q])
        PROVE  candidate'[x] = candidate[x]
    <3>1. sess[q] \in Session /\ LockScopes(sess[q]) \subseteq cfgLocks
      BY <2>2, HoldingHolds
    <3>2. EditCandidate \/ UNCHANGED candidate
      BY <1>5 DEF HostStep, CommitElsewhere, FinishJob
    <3> QED BY <2>2, <3>1, <3>2, EditsStayOut
  <2> QED BY <1>1, <1>2, <2>1, <2>2, StayingPlanned DEF PlannedHolds
<1>6. CASE ManualReconciliation \/ UNCHANGED vars
  <2>1. UNCHANGED <<pc, stage, sess, loc, applied, candidate>>
    BY <1>6 DEF ManualReconciliation, workerVars, manifestVars, vars, hostVars
  <2> QED BY <1>1, <1>2, <2>1, StayingPlanned DEF PlannedHolds
<1> QED BY <1>4, <1>5, <1>6 DEF Next

(* In every behaviour, if the Toolbox's own account is used nowhere else,  *)
(* what a stage has found out of the candidate at the XPaths of its plan   *)
(* holds until it writes there, whoever else edits and commits.            *)
THEOREM PlansHold == ~OwnEdits => (Spec => []PlannedHolds)
<1> SUFFICES ASSUME ~OwnEdits PROVE Spec => []PlannedHolds
  OBVIOUS
<1>1. Init => PlannedHolds
  BY DEF Init, PlannedHolds, PlannedAt, DecidesOnLive, UntouchedHolds,
     CommitHolds, Writing
<1>2. TypeOK /\ StageFits /\ MarkerInv /\ LocksHeld /\ TouchedKnown
        /\ PlannedHolds /\ [Next]_vars => PlannedHolds'
  BY NextPlanned
<1> QED BY <1>1, <1>2, TypesHold, MarkerHolds, LocksAreHeld, TouchesAreKnown,
        PTL DEF Spec

(***************************************************************************)
(* What the stages promise of the candidate.                               *)
(***************************************************************************)

(* Only the worker that writes writes, if not somebody else edits.         *)
LEMMA WriterIsAlone ==
  ASSUME TypeOK, MarkerInv, [Next]_vars, NEW p \in Worker, pc[p] = "write",
         edits' = edits, candidate' # candidate
  PROVE  WriteOperation(p)
<1>1. PICK r \in Worker : WorkerStep(r)
  <2>1. ~HostStep
    <3>1. edits \in Nat
      BY PanoramaConstants DEF TypeOK, HostTypeOK
    <3> QED BY <3>1 DEF HostStep, EditCandidate, CommitElsewhere, FinishJob
  <2>2. ~ManualReconciliation /\ vars' # vars
    BY DEF ManualReconciliation, vars, hostVars
  <2> QED BY <2>1, <2>2 DEF Next
<1>2. StageStep(r)
  BY <1>1 DEF WorkerStep, RequestStage, Interrupt, Crash, Restart, hostVars
<1>3. WriteOperation(r) \/ UndoOperation(r)
  BY <1>2, CandidateKept
<1>4. r = p
  <2>1. ~EnterHost(r) /\ ~LeaveStage(r)
    BY <1>3 DEF EnterHost, LeaveStage, WriteOperation, UndoOperation
  <2> QED BY <1>2, <2>1, OthersWait DEF Busy
<1> QED BY <1>3, <1>4 DEF UndoOperation

(* What WritesOnPlannedValue says of a step.                               *)
WritesOnPlanned ==
  \A p \in Worker : \A q \in Path :
    /\ pc[p] = "write" /\ edits' = edits /\ candidate'[q] # candidate[q]
    /\ q \notin loc[p].touched
    => q \in Targets(sess[p]) /\ candidate[q] = Before[sess[p]][q]

(* In every behaviour, if the Toolbox's own account is used nowhere else,  *)
(* the first operation on an XPath finds there what the plan found: no     *)
(* edit of somebody else is ever written over.                             *)
THEOREM NothingOverwritten == ~OwnEdits => (Spec => WritesOnPlannedValue)
<1> SUFFICES ASSUME ~OwnEdits PROVE Spec => WritesOnPlannedValue
  OBVIOUS
<1>1. ASSUME TypeOK, MarkerInv, PlannedHolds, [Next]_vars
      PROVE  WritesOnPlanned
  <2> SUFFICES ASSUME NEW p \in Worker, NEW q \in Path, pc[p] = "write",
                      edits' = edits, candidate'[q] # candidate[q],
                      q \notin loc[p].touched
               PROVE  q \in Targets(sess[p]) /\ candidate[q] = Before[sess[p]][q]
    BY DEF WritesOnPlanned
  <2>1. WriteOperation(p)
    BY <1>1, WriterIsAlone
  <2>2. PICK k \in DOMAIN Forward[sess[p]] :
          /\ Forward[sess[p]][k].path \in Safe(sess[p], loc[p].skip)
          /\ candidate' \in {candidate, Written(Forward[sess[p]][k])}
    BY <2>1 DEF WriteOperation, FirstOf, Pending, Cut
  <2>3. q = Forward[sess[p]][k].path
    <3>1. sess[p] \in Session
      BY <1>1, <2>1, SessionOfWorker DEF WriteOperation
    <3> QED BY <1>1, <2>2, <3>1, OthersUnwritten, OperationType
  <2> QED BY <1>1, <2>2, <2>3 DEF PlannedHolds, PlannedAt, UntouchedHolds,
          Writing, Safe
<1>2. TypeOK /\ MarkerInv /\ PlannedHolds /\ [Next]_vars => [WritesOnPlanned]_vars
  BY <1>1
<1> QED BY <1>2, TypesHold, MarkerHolds, PlansHold, PTL
        DEF Spec, WritesOnPlannedValue, WritesOnPlanned

(* Where the state of a manifest comes from.                               *)
LEMMA NewStates ==
  ASSUME TypeOK, NEW p \in Worker, StageStep(p), NEW s \in Session,
         state'[s] # state[s]
  PROVE  /\ sess[p] = s /\ state' = [state EXCEPT ![s] = state'[s]]
         /\ \/ Decide(p)
            \/ UndoCheck(p) /\ state'[s] = "FAILED"
            \/ BuildApplyReview(p) /\ state'[s] = Outcome(p)
               /\ state'[s] \in Transitions[state[s]]
            \/ ReconcileStep(p) /\ External(state[s], state'[s])
            \/ Recoverable(state[s], state'[s]) /\ state'[s] = loc[p].back
            \/ state'[s] \in {"OUTCOME_UNKNOWN", "CONFLICT", "COMMITTING",
                              "PUSHING", "COMMITTED", "PUSHED"}
<1>1. state' # state /\ state \in [Session -> SessionState]
  BY DEF TypeOK
<1>2. sess[p] = s /\ ~EnterHost(p) /\ ~LeaveStage(p)
      /\ state' = [state EXCEPT ![s] = state'[s]]
  BY <1>1, StageQuiet DEF Quiet, EnterHost, LeaveStage, manifestVars
<1>3. /\ \A new : SetState(s, new) => state'[s] = new
      /\ \A new : Transition(s, new) =>
           state'[s] = new /\ new \in Transitions[state[s]]
      /\ OutcomeUnknown(p) => state'[s] = "OUTCOME_UNKNOWN"
  BY <1>1, <1>2 DEF SetState, Transition, OutcomeUnknown
<1>4. CASE AcquireLock(p) \/ ReleaseLock(p) \/ FetchRunning(p)
  BY <1>1, <1>2, <1>3, <1>4 DEF AcquireLock, ReleaseLock, FetchRunning,
     manifestVars
<1>5. CASE ReviewStep(p)
  BY <1>1, <1>5 DEF ReviewStep, ReviewCheck, ReviewFetchCandidate, BuildReview,
     manifestVars
<1>6. CASE ReconcileStep(p)
  <2>1. \A new : RecordExternal(p, new) => External(state[s], state'[s])
    BY <1>2, <1>3 DEF RecordExternal
  <2> QED BY <1>1, <1>2, <1>6, <2>1 DEF ReconcileStep, ReconcileCheck,
          ReconcileRunning, ReconcileTargets, ReconcileFetchCandidate,
          manifestVars
<1>7. CASE CommitStep(p) \/ PushStep(p)
  BY <1>1, <1>2, <1>3, <1>7 DEF CommitStep, PushStep, CommitCheck, CommitProof,
     CommitTargets, CommitProof2, CommitFetchCandidate, CommitGuard,
     CommitRunning, PushCheck, PushRunning, BeginJob, DuringState, manifestVars
<1>8. CASE JobStep(p)
  <2>1. Recover(p) => Recoverable(state[s], state'[s]) /\ state'[s] = loc[p].back
    BY <1>2, <1>3 DEF Recover
  <2>2. Transition(s, DoneState(p)) => state'[s] \in {"COMMITTED", "PUSHED"}
    BY <1>3 DEF DoneState
  <2> QED BY <1>1, <1>2, <1>3, <1>8, <2>1, <2>2 DEF JobStep, Dispatch, Poll,
          LostJob, LostResult
<1>9. CASE UndoCheck(p)
  BY <1>2, <1>3, <1>9 DEF UndoCheck
<1>10. CASE BuildApplyReview(p)
  BY <1>2, <1>3, <1>10 DEF BuildApplyReview
<1>11. CASE ApplyCheck(p) \/ ReadProof(p) \/ ApplyFetchCandidate(p)
            \/ SaveSnapshot(p) \/ WriteOperation(p) \/ Validate(p)
            \/ CheckPost(p) \/ UndoOperation(p)
  BY <1>1, <1>2, <1>3, <1>11 DEF ApplyCheck, ReadProof, ApplyFetchCandidate,
     SaveSnapshot, WriteOperation, Validate, CheckPost, UndoOperation,
     manifestVars
<1> QED BY <1>2, <1>4, <1>5, <1>6, <1>7, <1>8, <1>9, <1>10, <1>11
        DEF StageStep, ApplyStep

(* A decision moves the manifest to one of three states, and to writing a  *)
(* restore only if nothing speaks against its history.                     *)
LEMMA DecideStates ==
  ASSUME TypeOK, NEW p \in Worker, Decide(p), state'[sess[p]] # state[sess[p]]
  PROVE  \/ state'[sess[p]] = "CONFLICT"
         \/ state'[sess[p]] = "WRITING_CANDIDATE" /\ Kind[sess[p]] # "restore"
         \/ /\ state'[sess[p]] = "RESTORING" /\ Kind[sess[p]] = "restore"
            /\ ~RestoreHistoryBroken(sess[p])
<1> DEFINE s == sess[p]
<1>1. s \in Session /\ state \in [Session -> SessionState]
  BY SessionOfWorker DEF Decide, TypeOK
<1>2. \A new : Transition(s, new) => state'[s] = new
  BY <1>1 DEF SetState, Transition
<1> QED BY <1>2 DEF Decide

(* Only a checked rollback ends a session as FAILED.                       *)
LEMMA FailsByUndo ==
  ASSUME TypeOK, NEW p \in Worker, StageStep(p), NEW s \in Session,
         state[s] # "FAILED", state'[s] = "FAILED"
  PROVE  /\ UndoCheck(p) /\ sess[p] = s
         /\ \A q \in loc[p].touched : candidate[q] = Before[s][q]
<1>1. UndoCheck(p) /\ sess[p] = s
  BY NewStates, DecideStates DEF Outcome, External, Recoverable, Reviewable
<1> QED BY <1>1 DEF UndoCheck, OutcomeUnknown, SetState, TypeOK

(* What NoResidueOnFailure says of a step.                                 *)
FailsClean ==
  \A s \in Session :
    state[s] # "FAILED" /\ state'[s] = "FAILED" =>
      \E p \in Worker :
        /\ sess[p] = s
        /\ \A q \in Safe(s, loc[p].skip) : candidate'[q] = Before[s][q]

(* In every behaviour, if the Toolbox's own account is used nowhere else   *)
(* and no answer to a mutating request is cut short, a session that ends   *)
(* as FAILED has left nothing behind at any XPath that it could write,     *)
(* wherever the stage was when it was refused.                             *)
THEOREM FailuresAreClean ==
  ~OwnEdits /\ ~CutAnswers => (Spec => NoResidueOnFailure)
<1> SUFFICES ASSUME ~OwnEdits, ~CutAnswers PROVE Spec => NoResidueOnFailure
  OBVIOUS
<1>1. ASSUME TypeOK, PlannedHolds, [Next]_vars
      PROVE  FailsClean
  <2> SUFFICES ASSUME NEW s \in Session, state[s] # "FAILED", state'[s] = "FAILED"
               PROVE  \E p \in Worker :
                        /\ sess[p] = s
                        /\ \A q \in Safe(s, loc[p].skip) :
                             candidate'[q] = Before[s][q]
    BY DEF FailsClean
  <2>1. PICK p \in Worker : WorkerStep(p)
    <3>1. UNCHANGED state => FALSE
      OBVIOUS
    <3> QED BY <1>1, <3>1 DEF Next, HostStep, ManualReconciliation, vars,
            manifestVars
  <2>2. StageStep(p)
    <3>1. ~Interrupt(p)
      BY <1>1 DEF Interrupt, SetState, TypeOK
    <3> QED BY <2>1, <3>1 DEF WorkerStep, RequestStage, Crash, Restart,
            manifestVars
  <2>3. UndoCheck(p) /\ sess[p] = s
        /\ \A q \in loc[p].touched : candidate[q] = Before[s][q]
    BY <1>1, <2>2, FailsByUndo
  <2>4. pc[p] = "undo" /\ UNCHANGED candidate
    BY <2>3 DEF UndoCheck, hostVars
  <2>5. \A q \in Safe(s, loc[p].skip) \ loc[p].touched :
          candidate[q] = Before[s][q]
    BY <1>1, <2>3, <2>4 DEF PlannedHolds, PlannedAt, UntouchedHolds, Writing
  <2> QED BY <2>3, <2>4, <2>5
<1>2. TypeOK /\ PlannedHolds /\ [Next]_vars => [FailsClean]_vars
  BY <1>1
<1> QED BY <1>2, TypesHold, PlansHold, PTL DEF Spec, NoResidueOnFailure, FailsClean

(* What DispatchedAsPlanned says of a step.                                *)
DispatchesPlanned ==
  Len(jobs') > Len(jobs) =>
    LET job == jobs'[Len(jobs')]
    IN  job.kind = "commit" => Holds(job.sess, job.paths, candidate)

(* In every behaviour, if the Toolbox's own account is used nowhere else,  *)
(* the commit job is queued while every XPath the session wrote holds what *)
(* the plan left there: nobody gets in between the last proof of it, the   *)
(* reads of the guard and the request.                                     *)
THEOREM CommitsThePlan == ~OwnEdits => (Spec => DispatchedAsPlanned)
<1> SUFFICES ASSUME ~OwnEdits PROVE Spec => DispatchedAsPlanned
  OBVIOUS
<1>1. ASSUME TypeOK, StageFits, PlannedHolds, [Next]_vars
      PROVE  DispatchesPlanned
  <2> SUFFICES ASSUME Len(jobs') > Len(jobs)
               PROVE  LET job == jobs'[Len(jobs')]
                      IN  job.kind = "commit" =>
                            Holds(job.sess, job.paths, candidate)
    BY DEF DispatchesPlanned
  <2>1. jobs \in Seq(Job) /\ Len(jobs) \in Nat
    BY <1>1 DEF TypeOK, HostTypeOK
  <2>2. jobs' # jobs
    BY <2>1
  <2>3. PICK p \in Worker : WorkerStep(p)
    <3>1. ~FinishJob
      BY <2>1 DEF FinishJob
    <3>2. ~HostStep
      BY <2>2, <3>1 DEF HostStep, EditCandidate, CommitElsewhere
    <3> QED BY <1>1, <2>2, <3>2 DEF Next, ManualReconciliation, vars, hostVars
  <2>4. StageStep(p)
    BY <2>2, <2>3 DEF WorkerStep, RequestStage, Interrupt, Crash, Restart, hostVars
  <2>5. Dispatch(p)
    BY <2>2, <2>4, OtherSteps DEF EnterHost, LeaveStage, JobStep, Poll, hostVars
  <2>6. jobs' = Queued(p) /\ pc[p] = "dispatch"
    BY <2>2, <2>5 DEF Dispatch, Cut
  <2>7. sess[p] \in Session /\ stage[p] \in {"commit", "push"}
    BY <1>1, <2>6, SessionOfWorker DEF StageFits, Fits
  <2>8. jobs'[Len(jobs')] = [kind |-> stage[p], sess |-> sess[p],
                             paths |-> applied[sess[p]], st |-> "run"]
    BY <2>1, <2>6 DEF Queued
  <2> QED BY <1>1, <2>6, <2>8 DEF PlannedHolds, PlannedAt, CommitHolds
<1>2. TypeOK /\ StageFits /\ PlannedHolds /\ [Next]_vars => [DispatchesPlanned]_vars
  BY <1>1
<1> QED BY <1>2, TypesHold, PlansHold, PTL
        DEF Spec, DispatchedAsPlanned, DispatchesPlanned

(***************************************************************************)
(* XPaths that are half way.                                               *)
(***************************************************************************)
HalfWay(s) == {q \in Targets(s) : candidate[q] \in HalfWritten(s, q)}

(* A worker is on it: it goes on, or takes it back.                        *)
InHand(s, q) ==
  \E p \in Worker : pc[p] \in Writing /\ sess[p] = s /\ q \in loc[p].touched

(* The stage is over with its outcome open and its locks in place, and no  *)
(* other has started since.                                                *)
LeftLocked(s) ==
  /\ state[s] \in Unresolved
  /\ marker = s
  /\ LockScopes(s) \subseteq cfgLocks
  /\ \A p \in Worker : Busy(p) => pc[p] = "leave"

HalfAccounted ==
  \A s \in Session \ cleared : \A q \in HalfWay(s) :
    InHand(s, q) \/ LeftLocked(s)

(* While a worker is at work, only its own XPaths are half way.            *)
LEMMA HalfIsOwn ==
  ASSUME MarkerInv, HalfAccounted, NEW p \in Worker, Busy(p), pc[p] # "leave",
         NEW s \in Session \ cleared, NEW q \in HalfWay(s)
  PROVE  pc[p] \in Writing /\ sess[p] = s /\ q \in loc[p].touched
<1>1. ~LeftLocked(s)
  BY DEF LeftLocked
<1>2. PICK r \in Worker : pc[r] \in Writing /\ sess[r] = s /\ q \in loc[r].touched
  BY <1>1 DEF HalfAccounted, InHand
<1>3. r = p
  BY <1>2, OneBusy DEF MarkerInv, Busy, Writing
<1> QED BY <1>2, <1>3

(* What a stage writes is half way for nobody else.                        *)
LEMMA WritesNothingHalf ==
  ASSUME HalfValuesAreOwn, TypeOK, NEW r \in Session,
         NEW op \in [path : Targets(r), value : Value],
         \/ \E k \in DOMAIN Forward[r] : op = Forward[r][k]
         \/ \E k \in DOMAIN Inverse[r] : op = Inverse[r][k],
         NEW s \in Session, NEW q \in Targets(s),
         Written(op)[q] \in HalfWritten(s, q)
  PROVE  candidate[q] \in HalfWritten(s, q) \/ (s = r /\ q = op.path)
<1>1. candidate \in Tree /\ q \in Path
  BY LiveTrees, PlanType
<1>2. CASE q # op.path
  BY <1>1, <1>2, OthersUnwritten
<1>3. CASE q = op.path
  <2>1. op = [path |-> q, value |-> op.value]
    BY <1>3
  <2>2. Written(op)[q] = op.value
    BY <1>1, <1>3 DEF Written, Tree
  <2> QED BY <1>3, <2>1, <2>2 DEF HalfValuesAreOwn
<1> QED BY <1>2, <1>3

(* A stage that ends with its outcome open leaves its locks.               *)
LEMMA UnknownLeavesLocks ==
  ASSUME TypeOK, StageFits, MarkerInv, LocksHeld, NEW p \in Worker, StageStep(p),
         ~EnterHost(p), ~LeaveStage(p), pc[p] \in Writing \cup {"snapshot"},
         OutcomeUnknown(p), UNCHANGED cfgLocks
  PROVE  LeftLocked(sess[p])'
<1>1. sess[p] \in Session /\ LockScopes(sess[p]) \subseteq cfgLocks
  BY HoldingHolds DEF Holding, Busy, StageFits, Fits, Writing
<1>2. marker' = marker /\ sess' = sess /\ marker = sess[p]
  BY StageQuiet DEF Quiet, MarkerInv, BusyHoldsMarker, fileVars
<1>3. state'[sess[p]] \in Unresolved
  BY <1>1 DEF OutcomeUnknown, SetState, TypeOK, Unresolved
<1>4. \A q \in Worker : Busy(q)' => pc'[q] = "leave"
  BY OthersWait, GoesTo
<1> QED BY <1>1, <1>2, <1>3, <1>4 DEF LeftLocked, LockScopes

(* What is half way after a step was so before it, or has just been        *)
(* written by its own worker.                                              *)
LEMMA HalfAfter ==
  ASSUME ~CutAnswers, HalfValuesAreOwn, TypeOK, MarkerInv, HalfAccounted,
         NEW p \in Worker, StageStep(p), ~EnterHost(p), ~LeaveStage(p),
         pc[p] # "leave", NEW s \in Session \ cleared, NEW q \in HalfWay(s)'
  PROVE  /\ sess[p] = s /\ q \in Targets(s) /\ pc[p] \in Writing
         /\ q \in loc'[p].touched \/ pc'[p] = "leave"
         /\ q \in HalfWay(s) \/ WriteOperation(p) \/ UndoOperation(p)
<1>1. Busy(p) /\ sess[p] \in Session
  BY StageQuiet, SessionOfWorker DEF Quiet, Busy
<1>2. q \in Targets(s) /\ candidate'[q] \in HalfWritten(s, q)
  BY DEF HalfWay, HalfWritten, Targets
<1>3. CASE WriteOperation(p)
  <2>1. PICK k \in DOMAIN Forward[sess[p]] :
          \/ /\ candidate' = Written(Forward[sess[p]][k])
             /\ loc'[p].touched = loc[p].touched \cup {Forward[sess[p]][k].path}
          \/ candidate' = candidate /\ loc'[p].touched = loc[p].touched
          \/ /\ pc'[p] = "leave"
             /\ candidate' \in {candidate, Written(Forward[sess[p]][k])}
             /\ loc'[p].touched = loc[p].touched
    BY <1>3, WriteTouches
  <2>2. pc[p] \in Writing /\ Forward[sess[p]][k] \in [path : Targets(sess[p]), value : Value]
    BY <1>1, <1>3, OperationType DEF WriteOperation, Writing
  <2>3. candidate[q] \in HalfWritten(s, q)
          \/ (/\ candidate' = Written(Forward[sess[p]][k])
              /\ s = sess[p] /\ q = Forward[sess[p]][k].path)
    BY <1>1, <1>2, <2>1, <2>2, WritesNothingHalf
  <2>4. candidate[q] \in HalfWritten(s, q) => sess[p] = s /\ q \in loc[p].touched
    BY <1>1, <1>2, HalfIsOwn DEF HalfWay
  <2> QED BY <1>2, <1>3, <2>1, <2>2, <2>3, <2>4
<1>4. CASE UndoOperation(p)
  <2>1. PICK k \in ToUndo(p) :
          candidate' \in {candidate, Written(Inverse[sess[p]][k])}
    BY <1>4 DEF UndoOperation, FirstOf
  <2>2. /\ Inverse[sess[p]][k] \in [path : Targets(sess[p]), value : Value]
        /\ Inverse[sess[p]][k].path \in loc[p].touched /\ k \in DOMAIN Inverse[sess[p]]
    BY <1>1, <2>1, OperationType DEF ToUndo
  <2>3. candidate[q] \in HalfWritten(s, q)
          \/ (s = sess[p] /\ q = Inverse[sess[p]][k].path)
    BY <1>1, <1>2, <2>1, <2>2, WritesNothingHalf
  <2>4. candidate[q] \in HalfWritten(s, q) => sess[p] = s /\ q \in loc[p].touched
    BY <1>1, <1>2, HalfIsOwn DEF HalfWay
  <2>5. loc'[p].touched = loc[p].touched /\ pc[p] \in Writing
    <3>1. ~WriteOperation(p) /\ pc[p] = "undo"
      BY <1>4 DEF UndoOperation, WriteOperation
    <3> QED BY <3>1, TouchedKept DEF Writing
  <2> QED BY <1>2, <1>4, <2>2, <2>3, <2>4, <2>5
<1>5. CASE ~WriteOperation(p) /\ ~UndoOperation(p)
  <2>1. q \in HalfWay(s)
    BY <1>2, <1>5, CandidateKept DEF HalfWay
  <2>2. pc[p] \in Writing /\ sess[p] = s /\ q \in loc[p].touched
    BY <1>1, <2>1, HalfIsOwn
  <2> QED BY <1>2, <1>5, <2>1, <2>2, TouchedKept
<1> QED BY <1>3, <1>4, <1>5

(* A stage that comes to its end has left nothing half way, or has left    *)
(* its locks with it.                                                      *)
LEMMA EndsAccounted ==
  ASSUME TypeOK, StageFits, MarkerInv, LocksHeld, TouchedKnown, NEW p \in Worker,
         StageStep(p), ~EnterHost(p), ~LeaveStage(p), pc[p] \in Writing,
         pc'[p] \notin Writing,
         NEW q \in Targets(sess[p]), candidate'[q] \in HalfWritten(sess[p], q),
         \/ q \in loc[p].touched
         \/ WriteOperation(p) \/ UndoOperation(p)
  PROVE  LeftLocked(sess[p])'
<1> DEFINE s == sess[p]
<1> SUFFICES OutcomeUnknown(p) /\ UNCHANGED cfgLocks
  BY UnknownLeavesLocks
<1> USE GoesTo DEF Writing
<1>1. CASE WriteOperation(p)
  BY <1>1 DEF WriteOperation
<1>2. CASE UndoOperation(p)
  BY <1>2 DEF UndoOperation
<1>3. CASE CheckPost(p)
  <2>1. CASE Holds(s, Safe(s, loc[p].skip), candidate)
    <3>1. q \in loc[p].touched /\ UNCHANGED candidate /\ pc[p] = "post"
      BY <1>3 DEF CheckPost, hostVars, WriteOperation, UndoOperation
    <3>2. q \in Safe(s, loc[p].skip)
      BY <3>1 DEF TouchedKnown, TouchedAt
    <3> QED BY <2>1, <3>1, <3>2 DEF Holds, HalfWritten
  <2>2. CASE ~Holds(s, Safe(s, loc[p].skip), candidate)
    BY <1>3, <2>2 DEF CheckPost
  <2> QED BY <2>1, <2>2
<1>4. CASE UndoCheck(p)
  <2>1. CASE \A x \in loc[p].touched : candidate[x] = Before[s][x]
    <3>1. q \in loc[p].touched /\ UNCHANGED candidate
      BY <1>4 DEF UndoCheck, hostVars, WriteOperation, UndoOperation, FirstOf
    <3> QED BY <2>1, <3>1 DEF HalfWritten
  <2>2. CASE ~\A x \in loc[p].touched : candidate[x] = Before[s][x]
    BY <1>4, <2>2 DEF UndoCheck, hostVars
  <2> QED BY <2>1, <2>2
<1>5. CASE Validate(p)
  BY <1>5 DEF Validate
<1>6. Busy(p) /\ Fits(pc[p], stage[p])
  BY StageQuiet DEF Quiet, StageFits
<1>7. \/ WriteOperation(p) \/ Validate(p) \/ CheckPost(p) \/ UndoOperation(p)
      \/ UndoCheck(p)
  <2>1. ~AcquireLock(p) /\ ~FetchRunning(p) /\ ~ReleaseLock(p)
    BY DEF AcquireLock, FetchRunning, ReleaseLock
  <2>2. ~ReviewStep(p) /\ ~ReconcileStep(p)
    BY DEF ReviewStep, ReconcileStep, ReviewCheck, ReviewFetchCandidate,
       BuildReview, ReconcileCheck, ReconcileRunning, ReconcileTargets,
       ReconcileFetchCandidate
  <2>3. ~CommitStep(p) /\ ~PushStep(p) /\ ~JobStep(p)
    BY DEF CommitStep, PushStep, CommitCheck, CommitProof, CommitTargets,
       CommitProof2, CommitFetchCandidate, CommitGuard, CommitRunning,
       PushCheck, PushRunning, JobStep, Dispatch, Poll
  <2>4. ~ApplyCheck(p) /\ ~ReadProof(p) /\ ~ApplyFetchCandidate(p) /\ ~Decide(p)
          /\ ~SaveSnapshot(p) /\ ~BuildApplyReview(p)
    BY DEF ApplyCheck, ReadProof, ApplyFetchCandidate, Decide, SaveSnapshot,
       BuildApplyReview
  <2> QED BY <2>1, <2>2, <2>3, <2>4 DEF StageStep, ApplyStep
<1> QED BY <1>1, <1>2, <1>3, <1>4, <1>5, <1>7

(* Steps that touch neither the candidate nor the locks, of a worker that  *)
(* writes nothing, change nothing of it.                                   *)
LEMMA StillAccounted ==
  ASSUME HalfAccounted, NEW p \in Worker, pc[p] \notin Writing,
         pc'[p] \in {"idle", "marker"},
         \A r \in Worker \ {p} :
           pc'[r] = pc[r] /\ loc'[r] = loc[r] /\ sess'[r] = sess[r],
         UNCHANGED <<candidate, cfgLocks, cleared>>,
         \A s \in Session :
           LeftLocked(s) => state'[s] = state[s] /\ marker' = marker
  PROVE  HalfAccounted'
<1> SUFFICES ASSUME NEW s \in Session \ cleared, NEW q \in HalfWay(s)
             PROVE  InHand(s, q)' \/ LeftLocked(s)'
  BY DEF HalfAccounted, HalfWay, HalfWritten, Targets
<1>1. CASE InHand(s, q)
  BY <1>1 DEF InHand
<1>2. CASE LeftLocked(s)
  BY <1>2 DEF LeftLocked, Busy, LockScopes, Targets
<1> QED BY <1>1, <1>2 DEF HalfAccounted

(* A stage that dies in the middle of its writes leaves its locks.         *)
LEMMA DeathAccounted ==
  ASSUME TypeOK, StageFits, MarkerInv, LocksHeld, StateFits, HalfAccounted,
         NEW p \in Worker, pc[p] \in Writing, BecomeIdle(p),
         UNCHANGED <<candidate, cfgLocks, marker, cleared>>,
         \/ UNCHANGED state
         \/ SetState(sess[p], "OUTCOME_UNKNOWN")
  PROVE  HalfAccounted'
<1> SUFFICES ASSUME NEW s \in Session \ cleared, NEW q \in HalfWay(s)
             PROVE  LeftLocked(s)'
  BY DEF HalfAccounted, HalfWay, HalfWritten, Targets
<1>1. Busy(p) /\ sess[p] = s
  BY HalfIsOwn DEF Busy, Writing
<1>2. marker = s /\ LockScopes(s) \subseteq cfgLocks
  BY <1>1, HoldingHolds DEF MarkerInv, BusyHoldsMarker, Holding, Busy,
     StageFits, Fits, Writing
<1>3. state'[s] \in Unresolved
  BY <1>1 DEF SetState, StateFits, StateFitsAt, Writing, Unresolved, InFlight,
     TypeOK
<1>4. \A r \in Worker : ~Busy(r)'
  BY <1>1, OneBusy, OthersStay DEF MarkerInv, Busy
<1> QED BY <1>2, <1>3, <1>4 DEF LeftLocked, LockScopes, Targets

(* Every step keeps account of what is half way.                           *)
LEMMA NextHalf ==
  ASSUME ~CutAnswers, HalfValuesAreOwn, TypeOK, StageFits, MarkerInv, LocksHeld,
         StateFits, TouchedKnown, HalfAccounted, [Next]_vars
  PROVE  HalfAccounted'
<1>1. ASSUME NEW p \in Worker, WorkerStep(p)
      PROVE  HalfAccounted'
  <2>1. ASSUME NEW s \in Session, NEW st \in Requests, RequestStage(p, s, st)
        PROVE  HalfAccounted'
    BY <2>1, RequestStarts, StillAccounted DEF RequestStage, hostVars,
       manifestVars, Writing
  <2>2. CASE EnterHost(p) /\ HostFree
    <3>1. \A s \in Session : ~LeftLocked(s)
      BY <2>2, EngineConstants DEF HostFree, LeftLocked
    <3>2. \A s \in Session : \A q \in HalfWay(s) : ~InHand(s, q)
      BY <2>2, EngineConstants DEF HostFree, InHand, MarkerInv,
         BusyHoldsMarker, Busy, Writing
    <3>3. UNCHANGED <<candidate, cleared>>
      BY <2>2 DEF EnterHost, hostVars
    <3> QED BY <3>1, <3>2, <3>3 DEF HalfAccounted, HalfWay, HalfWritten, Targets
  <2>3. CASE EnterHost(p) /\ ~HostFree
    BY <2>3, OthersStay, StillAccounted DEF EnterHost, hostVars, manifestVars,
       Writing
  <2>4. CASE LeaveStage(p)
    <3>1. \A s \in Session : LeftLocked(s) => marker' = marker
      BY <2>4 DEF LeaveStage, KeepsMarker, LeftLocked, MarkerInv,
         BusyHoldsMarker, Busy
    <3> QED BY <2>4, <3>1, OthersStay, StillAccounted DEF LeaveStage, hostVars,
            manifestVars, Writing
  <2>5. CASE StageStep(p) /\ ~EnterHost(p) /\ ~LeaveStage(p)
    <3>1. pc[p] # "leave" /\ Busy(p)
      BY <2>5, OtherSteps DEF JobStep, Dispatch, Poll, Busy
    <3>2. cleared' = cleared /\ sess'[p] = sess[p]
      BY <2>5, StageQuiet DEF Quiet, fileVars
    <3>3. ASSUME NEW s \in Session \ cleared, NEW q \in HalfWay(s)'
          PROVE  InHand(s, q)' \/ LeftLocked(s)'
      <4>1. /\ sess[p] = s /\ q \in Targets(s) /\ pc[p] \in Writing
            /\ q \in loc'[p].touched \/ pc'[p] = "leave"
            /\ q \in HalfWay(s) \/ WriteOperation(p) \/ UndoOperation(p)
        BY <1>1, <2>5, <3>1, <3>3, HalfAfter
      <4>2. CASE pc'[p] \in Writing
        BY <3>2, <4>1, <4>2 DEF InHand, Writing
      <4>3. CASE pc'[p] \notin Writing
        <5>1. q \in loc[p].touched \/ WriteOperation(p) \/ UndoOperation(p)
          BY <3>1, <3>3, <4>1, HalfIsOwn
        <5>2. candidate'[q] \in HalfWritten(s, q)
          BY <3>3 DEF HalfWay, HalfWritten
        <5>3. LeftLocked(sess[p])'
          BY <1>1, <2>5, <4>1, <4>3, <5>1, <5>2, EndsAccounted
        <5> QED BY <3>2, <4>1, <5>3 DEF LeftLocked
      <4> QED BY <4>2, <4>3
    <3> QED BY <3>2, <3>3 DEF HalfAccounted
  <2>6. CASE Interrupt(p) \/ Crash(p)
    <3>1. /\ BecomeIdle(p) /\ UNCHANGED <<candidate, cfgLocks, marker, cleared>>
          /\ \/ UNCHANGED state
             \/ SetState(sess[p], "OUTCOME_UNKNOWN") /\ InTry(p)
      BY <2>6 DEF Interrupt, Crash, EndProcess, hostVars, manifestVars, fileVars
    <3>2. CASE pc[p] \in Writing
      BY <3>1, <3>2, DeathAccounted
    <3>3. CASE pc[p] \notin Writing
      <4>1. \A s \in Session : LeftLocked(s) => UNCHANGED state
        BY <3>1 DEF LeftLocked, InTry
      <4> QED BY <3>1, <3>3, <4>1, OthersStay, StillAccounted
    <3> QED BY <3>2, <3>3
  <2>7. CASE Restart(p)
    BY <2>7 DEF Restart, hostVars, manifestVars, fileVars, HalfAccounted,
       HalfWay, HalfWritten, Targets, InHand, LeftLocked, Busy, LockScopes
  <2> QED BY <1>1, <2>1, <2>2, <2>3, <2>4, <2>5, <2>6, <2>7 DEF WorkerStep
<1>2. CASE HostStep
  <2>1. UNCHANGED <<state, marker, cleared, pc, sess, loc, cfgLocks>>
    BY <1>2 DEF HostStep, EditCandidate, CommitElsewhere, FinishJob,
       manifestVars, fileVars, workerVars
  <2>2. ASSUME NEW s \in Session, NEW q \in HalfWay(s)' PROVE q \in HalfWay(s)
    <3>1. q \in Targets(s) /\ candidate'[q] \in HalfWritten(s, q)
      BY <2>2 DEF HalfWay, HalfWritten, Targets
    <3>2. UNCHANGED candidate \/ EditCandidate
      BY <1>2 DEF HostStep, CommitElsewhere, FinishJob
    <3>3. CASE EditCandidate
      <4>1. PICK x \in Path : \E v \in EditValue[x] :
              candidate' = [candidate EXCEPT ![x] = v]
        BY <3>3 DEF EditCandidate
      <4>2. x # q
        BY <3>1, <4>1, LiveTrees DEF Tree, HalfValuesAreOwn
      <4> QED BY <3>1, <4>1, <4>2, LiveTrees, PlanType DEF Tree, HalfWay
    <3> QED BY <3>1, <3>2, <3>3 DEF HalfWay
  <2> QED BY <2>1, <2>2 DEF HalfAccounted, InHand, LeftLocked, Busy, LockScopes,
          Targets
<1>3. CASE ManualReconciliation
  <2>1. /\ \A p \in Worker : pc[p] = "idle"
        /\ cleared' = cleared \cup {s \in Session : state[s] \in Unresolved}
        /\ UNCHANGED candidate
    BY <1>3 DEF ManualReconciliation
  <2>2. \A s \in Session \ cleared' : HalfWay(s) = {}
    BY <2>1 DEF HalfAccounted, InHand, LeftLocked, Writing
  <2> QED BY <2>1, <2>2 DEF HalfAccounted, HalfWay, HalfWritten, Targets
<1>4. CASE UNCHANGED vars
  BY <1>4 DEF vars, hostVars, manifestVars, fileVars, workerVars, HalfAccounted,
     HalfWay, HalfWritten, Targets, InHand, LeftLocked, Busy, LockScopes
<1> QED BY <1>1, <1>2, <1>3, <1>4 DEF Next

(* In every behaviour, if no answer to a mutating request is cut short and *)
(* nobody writes another's half-way values, an XPath is half way only in   *)
(* the hands of a worker or behind the marker and all config locks.        *)
THEOREM HalfIsAccounted ==
  ~CutAnswers /\ HalfValuesAreOwn => (Spec => []HalfAccounted)
<1> SUFFICES ASSUME ~CutAnswers, HalfValuesAreOwn PROVE Spec => []HalfAccounted
  OBVIOUS
<1>1. Init => HalfAccounted
  BY DEF Init, HalfAccounted, HalfWay, HalfValuesAreOwn
<1>2. TypeOK /\ StageFits /\ MarkerInv /\ LocksHeld /\ StateFits
        /\ TouchedKnown /\ HalfAccounted /\ [Next]_vars => HalfAccounted'
  BY NextHalf
<1> QED BY <1>1, <1>2, TypesHold, MarkerHolds, StatesFit, LocksAreHeld,
        TouchesAreKnown, PTL DEF Spec

(* In every behaviour, under the same hypotheses, an XPath that a session  *)
(* whose outcome is open has left half way is under its config lock until  *)
(* the operator has reconciled: nobody builds on it.                       *)
THEOREM HalfWayIsLocked ==
  ~CutAnswers /\ HalfValuesAreOwn => (Spec => []HalfWrittenIsLocked)
<1> SUFFICES ASSUME ~CutAnswers, HalfValuesAreOwn
             PROVE  Spec => []HalfWrittenIsLocked
  OBVIOUS
<1>1. ASSUME TypeOK, StageFits, LocksHeld, HalfAccounted
      PROVE  HalfWrittenIsLocked
  <2> SUFFICES ASSUME NEW s \in Session \ cleared, NEW q \in Targets(s),
                      q \in HalfWay(s)
               PROVE  Locked(q)
    BY DEF HalfWrittenIsLocked, HalfWay
  <2>1. CASE InHand(s, q)
    <3>1. PICK p \in Worker : pc[p] \in Writing /\ sess[p] = s
      BY <2>1 DEF InHand
    <3>2. LockScopes(s) \subseteq cfgLocks
      BY <1>1, <3>1, HoldingHolds DEF Holding, Busy, StageFits, Fits, Writing
    <3> QED BY <3>2, ScopesLock
  <2>2. CASE LeftLocked(s)
    BY <2>2, ScopesLock DEF LeftLocked
  <2> QED BY <1>1, <2>1, <2>2 DEF HalfAccounted
<1> QED BY <1>1, TypesHold, LocksAreHeld, HalfIsAccounted, PTL

=============================================================================
