---------------------------- MODULE ReviewStages ----------------------------
(***************************************************************************)
(* The two stages that only read Panorama: prepare_commit_review renews    *)
(* the review of a written candidate, reconcile_external_execution admits  *)
(* a plan that somebody has carried out by hand.  Neither takes a config   *)
(* lock, so other people's edits fall between any two of their reads.      *)
(***************************************************************************)
EXTENDS EngineState

ReviewCheck(p) ==
  /\ pc[p] = "check" /\ stage[p] = "review"
  /\ \/ /\ state[sess[p]] \in Reviewable
        /\ applied[sess[p]] # {}
        /\ Goto(p, "fetchRunning")
     \/ Goto(p, "leave")
  /\ UNCHANGED <<hostVars, manifestVars, fileVars, stage, sess, loc, jobLock,
                 faults>>

ReviewFetchCandidate(p) ==
  /\ pc[p] = "fetchCandidate" /\ stage[p] = "review"
  /\ \/ /\ Holds(sess[p], applied[sess[p]], candidate)
        /\ loc' = [loc EXCEPT ![p].view = candidate]
        /\ Goto(p, "review")
     \/ GiveUp(p) /\ UNCHANGED loc
  /\ UNCHANGED <<hostVars, manifestVars, fileVars, stage, sess, jobLock, faults>>

(* The change summary is read after both trees.                            *)
BuildReview(p) ==
  /\ pc[p] = "review" /\ stage[p] \in {"review", "reconcile"}
  /\ \/ \E native \in Summaries :
          review' = [review EXCEPT ![sess[p]] =
                       ReviewOf(sess[p], loc[p].run, loc[p].view, native)]
     \/ UNCHANGED review
  /\ stale' = Rewritten(sess[p])
  /\ Goto(p, "leave")
  /\ UNCHANGED <<hostVars, state, applied, preguard, fileVars, stage, sess,
                 loc, jobLock, faults>>

(***************************************************************************)
(* Reconciliation of an execution outside the Toolbox.                     *)
(***************************************************************************)
ReconcileCheck(p) ==
  /\ pc[p] = "check" /\ stage[p] = "reconcile"
  /\ Goto(p, IF state[sess[p]] \in {"PLANNED", "FAILED"} THEN "running"
             ELSE "leave")
  /\ UNCHANGED <<hostVars, manifestVars, fileVars, stage, sess, loc, jobLock,
                 faults>>

RecordExternal(p, new) ==
  /\ External(state[sess[p]], new)
  /\ SetState(sess[p], new)
  /\ applied' = [applied EXCEPT ![sess[p]] = Targets(sess[p])]

(* XPath reads of running; when one fails, both trees are downloaded.      *)
ReconcileRunning(p) ==
  /\ pc[p] = "running" /\ stage[p] = "reconcile"
  /\ \/ /\ Holds(sess[p], Targets(sess[p]), running)
        /\ RecordExternal(p, "COMMITTED")
        /\ Goto(p, "leave")
     \/ /\ \/ ~Holds(sess[p], Targets(sess[p]), running) /\ Goto(p, "targets")
           \/ Goto(p, "fetchRunning")
        /\ UNCHANGED <<state, applied, stale>>
  /\ UNCHANGED <<hostVars, review, preguard, fileVars, stage, sess, loc,
                 jobLock, faults>>

ReconcileTargets(p) ==
  /\ pc[p] = "targets" /\ stage[p] = "reconcile"
  /\ \/ Goto(p, "fetchRunning")             \* all match, or a read fails
     \/ /\ ~Holds(sess[p], Targets(sess[p]), candidate)
        /\ Goto(p, "leave")
  /\ UNCHANGED <<hostVars, manifestVars, fileVars, stage, sess, loc, jobLock,
                 faults>>

(* Wrong on purpose: the XPath reads before the download are relied on.    *)
AllInCandidateBefore(s) == TRUE

(* The trees decide, not the XPath reads before them.                      *)
AllInCandidate(s) == Holds(s, Targets(s), candidate)

ReconcileFetchCandidate(p) ==
  /\ pc[p] = "fetchCandidate" /\ stage[p] = "reconcile"
  /\ LET s == sess[p] IN
     \/ /\ Holds(s, Targets(s), loc[p].run)
        /\ RecordExternal(p, "COMMITTED")
        /\ Goto(p, "leave")
        /\ UNCHANGED loc
     \/ /\ ~Holds(s, Targets(s), loc[p].run)
        /\ AllInCandidate(s)
        /\ RecordExternal(p, "CANDIDATE_APPLIED")
        /\ loc' = [loc EXCEPT ![p].view = candidate]
        /\ Goto(p, "review")
     \/ /\ Goto(p, "leave")
        /\ UNCHANGED <<state, applied, stale, loc>>
  /\ UNCHANGED <<hostVars, review, preguard, fileVars, stage, sess, jobLock,
                 faults>>

ReviewStep(p) == ReviewCheck(p) \/ ReviewFetchCandidate(p) \/ BuildReview(p)

ReconcileStep(p) ==
  \/ ReconcileCheck(p) \/ ReconcileRunning(p) \/ ReconcileTargets(p)
  \/ ReconcileFetchCandidate(p)
=============================================================================
