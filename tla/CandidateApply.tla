--------------------------- MODULE CandidateApply ---------------------------
(***************************************************************************)
(* The stage apply_candidate: prove that the plan is still current, leave  *)
(* out the components that are not, write the rest to the candidate, check *)
(* it, and undo it when any of that is refused.                            *)
(***************************************************************************)
EXTENDS EngineState

ApplyCheck(p) ==
  /\ pc[p] = "check" /\ stage[p] = "apply"
  /\ \/ state[sess[p]] = "PLANNED" /\ Admit(p, "PLANNED")
     \/ Goto(p, "leave") /\ UNCHANGED loc   \* another state, or no lease
  /\ UNCHANGED <<hostVars, manifestVars, fileVars, stage, sess, jobLock, faults>>

(* The live change summary is byte for byte the one of the plan: the local *)
(* snapshots stand for the live trees.  Otherwise both are downloaded.     *)
ReadProof(p) ==
  /\ pc[p] = "proof" /\ stage[p] = "apply"
  /\ \/ /\ TRUE \in Answers /\ candidate = InitTree /\ running = InitTree
        /\ loc' = [loc EXCEPT ![p].run = InitTree, ![p].view = InitTree,
                              ![p].fast = TRUE]
        /\ Goto(p, "decide")
     \/ Goto(p, "fetchRunning") /\ UNCHANGED loc
  /\ UNCHANGED <<hostVars, manifestVars, fileVars, stage, sess, jobLock, faults>>

ApplyFetchCandidate(p) ==
  /\ pc[p] = "fetchCandidate" /\ stage[p] = "apply"
  /\ \/ loc' = [loc EXCEPT ![p].view = candidate] /\ Goto(p, "decide")
     \/ GiveUp(p) /\ UNCHANGED loc
  /\ UNCHANGED <<hostVars, manifestVars, fileVars, stage, sess, jobLock, faults>>

(* Cleanups that have been applied and not undone by a failure.            *)
History == {c \in Session : Kind[c] = "cleanup" /\ state[c] \in Applied}

(* Wrong on purpose: cleanups of unknown outcome are not looked at.        *)
RestoreHistoryKnown(s) ==
  /\ Kind[s] = "restore"
  /\ \/ s \in stale
     \/ ~(Baseline[s] \subseteq History)
     \/ (History \ Baseline[s]) \cap Related[s] # {}

(* A restore is planned against the cleanup history of its time.           *)
RestoreHistoryBroken(s) ==
  /\ Kind[s] = "restore"
  /\ \/ s \in stale
     \/ \E c \in Session : Kind[c] = "cleanup" /\ state[c] = "OUTCOME_UNKNOWN"
     \/ ~(Baseline[s] \subseteq History)
     \/ (History \ Baseline[s]) \cap Related[s] # {}

(* Components with an XPath that does not hold what the plan found there.  *)
Changed(s, tree) == ComponentsOf(s, {q \in Targets(s) : tree[q] # Before[s][q]})

(* Components for which the planner, run again on the candidate, decides   *)
(* otherwise: somebody has added a reference to what they delete.          *)
Replanned(s, tree) ==
  IF Kind[s] = "cleanup"
  THEN {c \in Component : \E q \in Context[s][c] : tree[q] \in RefValue}
  ELSE {}

(* Wrong on purpose: only the planner is asked, not the fingerprints.      *)
ConflictedByReplan(p) == Replanned(sess[p], loc[p].view)

Conflicted(p) ==
  LET s == sess[p]
  IN  Changed(s, loc[p].view) \cup Replanned(s, loc[p].view)
      \cup (IF loc[p].fast THEN Changed(s, candidate) ELSE {})

Safe(s, skip) == {q \in Targets(s) : CompOf[s][q] \notin skip}

(* All of it is local but for the XPath reads of the fast path.  A planner *)
(* that fails on the candidate counts against every component.             *)
Decide(p) ==
  /\ pc[p] = "decide"
  /\ LET s == sess[p] IN
     \/ /\ RestoreHistoryBroken(s)
        /\ Transition(s, "CONFLICT")
        /\ GiveUp(p)
        /\ UNCHANGED loc
     \/ /\ ~RestoreHistoryBroken(s)
        /\ \E failed \in {{}} \cup (IF Kind[s] = "cleanup" /\ ~loc[p].fast
                                    THEN {Component} ELSE {}) :
             LET skip == Conflicted(p) \cup failed
             IN  IF Safe(s, skip) = {}
                 THEN /\ Transition(s, "CONFLICT")
                      /\ GiveUp(p)
                      /\ UNCHANGED loc
                 ELSE /\ Transition(s, IF Kind[s] = "restore" THEN "RESTORING"
                                       ELSE "WRITING_CANDIDATE")
                      /\ loc' = [loc EXCEPT ![p].skip = skip]
                      /\ Goto(p, "snapshot")
     \/ /\ loc[p].fast                       \* an XPath read fails
        /\ GiveUp(p)
        /\ UNCHANGED <<state, stale, loc>>
  /\ UNCHANGED <<hostVars, applied, review, preguard, fileVars, stage, sess,
                 jobLock, faults>>

(* A snapshot saved on the server changes neither tree.                    *)
SaveSnapshot(p) ==
  /\ pc[p] = "snapshot"
  /\ \/ Goto(p, "write") /\ stale' = Rewritten(sess[p]) /\ UNCHANGED state
     \/ Goto(p, "undo") /\ UNCHANGED <<state, stale>>
     \/ OutcomeUnknown(p)
  /\ UNCHANGED <<hostVars, applied, review, preguard, fileVars, stage, sess,
                 loc, jobLock, faults>>

Pending(p) ==
  {k \in DOMAIN Forward[sess[p]] :
     k >= loc[p].at /\ Forward[sess[p]][k].path \in Safe(sess[p], loc[p].skip)}

FirstOf(I) == {k \in I : \A m \in I : k <= m}

Written(op) == [candidate EXCEPT ![op.path] = op.value]

(* Wrong on purpose: a mutation counts once its last operation is accepted.*)
TouchedAtEnd(p, k) ==
  loc[p].touched \cup
    {q \in {Forward[sess[p]][k].path} :
       \A m \in DOMAIN Forward[sess[p]] :
         Forward[sess[p]][m].path = q => m <= k}

(* The rollback covers a mutation from its first accepted operation on.    *)
TouchedBy(p, k) == loc[p].touched \cup {Forward[sess[p]][k].path}

WriteOperation(p) ==
  /\ pc[p] = "write"
  /\ \E k \in FirstOf(Pending(p)) :
     \/ /\ candidate' = Written(Forward[sess[p]][k])
        /\ loc' = [loc EXCEPT ![p].at = k + 1, ![p].touched = TouchedBy(p, k)]
        /\ Goto(p, IF Pending(p) = {k} THEN "validate" ELSE "write")
        /\ UNCHANGED <<state, stale>>
     \/ /\ Goto(p, "undo")
        /\ loc' = [loc EXCEPT ![p].at = 1]
        /\ candidate' \in {candidate} \cup Cut({Written(Forward[sess[p]][k])})
        /\ UNCHANGED <<state, stale>>
     \/ /\ candidate' \in {candidate, Written(Forward[sess[p]][k])}
        /\ OutcomeUnknown(p)
        /\ UNCHANGED loc
  /\ UNCHANGED <<running, cfgLocks, jobs, edits, applied, review, preguard,
                 fileVars, stage, sess, jobLock, faults>>

(* A validate job that fails, cannot be started or is not seen to end.     *)
Validate(p) ==
  /\ pc[p] = "validate"
  /\ \/ Goto(p, "post") /\ stale' = Rewritten(sess[p]) /\ UNCHANGED loc
     \/ /\ Goto(p, "undo")
        /\ loc' = [loc EXCEPT ![p].at = 1]
        /\ UNCHANGED stale
  /\ UNCHANGED <<hostVars, state, applied, review, preguard, fileVars, stage,
                 sess, jobLock, faults>>

CheckPost(p) ==
  /\ pc[p] = "post"
  /\ LET s == sess[p]
         safe == Safe(s, loc[p].skip) IN
     \/ /\ Holds(s, safe, candidate)
        /\ loc' = [loc EXCEPT ![p].view = candidate]
        /\ applied' = [applied EXCEPT ![s] = safe]
        /\ stale' = Rewritten(s)
        /\ Goto(p, "review")
     \/ /\ Goto(p, "undo")            \* a mismatch, or the download fails
        /\ loc' = [loc EXCEPT ![p].at = 1]
        /\ UNCHANGED <<applied, stale>>
  /\ UNCHANGED <<hostVars, state, review, preguard, fileVars, stage, sess,
                 jobLock, faults>>

Outcome(p) ==
  IF loc[p].skip \cup PlanSkipped[sess[p]] # {} THEN "PARTIAL"
  ELSE IF Kind[sess[p]] = "restore" THEN "RESTORED"
  ELSE "CANDIDATE_APPLIED"

(* The review is of the running tree read before the write and the         *)
(* candidate read after it, beside a change summary read last.  A review   *)
(* that cannot be built leaves the candidate as it is.                     *)
BuildApplyReview(p) ==
  /\ pc[p] = "review" /\ stage[p] = "apply"
  /\ \/ \E native \in Summaries :
          review' = [review EXCEPT ![sess[p]] =
                       ReviewOf(sess[p], loc[p].run, loc[p].view, native)]
     \/ UNCHANGED review
  /\ Transition(sess[p], Outcome(p))
  /\ GiveUp(p)
  /\ UNCHANGED <<hostVars, applied, preguard, fileVars, stage, sess, loc,
                 jobLock, faults>>

(***************************************************************************)
(* Rollback: the inverse operations of the touched mutations, the last     *)
(* mutation first, then a check of the candidate.                          *)
(***************************************************************************)
ToUndo(p) ==
  {k \in DOMAIN Inverse[sess[p]] :
     k >= loc[p].at /\ Inverse[sess[p]][k].path \in loc[p].touched}

UndoOperation(p) ==
  /\ pc[p] = "undo"
  /\ \E k \in FirstOf(ToUndo(p)) :
     \/ /\ candidate' = Written(Inverse[sess[p]][k])
        /\ loc' = [loc EXCEPT ![p].at = k + 1]
        /\ stale' = Rewritten(sess[p])
        /\ UNCHANGED <<state, pc>>
     \/ /\ candidate' \in {candidate, Written(Inverse[sess[p]][k])}
        /\ OutcomeUnknown(p)             \* refused, or no answer
        /\ UNCHANGED loc
  /\ UNCHANGED <<running, cfgLocks, jobs, edits, applied, review, preguard,
                 fileVars, stage, sess, jobLock, faults>>

UndoCheck(p) ==
  /\ pc[p] = "undo"
  /\ ToUndo(p) = {}
  /\ LET s == sess[p] IN
     \/ /\ \A q \in loc[p].touched : candidate[q] = Before[s][q]
        /\ SetState(s, "FAILED")
        /\ GiveUp(p)
     \/ OutcomeUnknown(p)                \* a mismatch, or no download
  /\ UNCHANGED <<hostVars, applied, review, preguard, fileVars, stage, sess,
                 loc, jobLock, faults>>

ApplyStep(p) ==
  \/ ApplyCheck(p) \/ ReadProof(p) \/ ApplyFetchCandidate(p) \/ Decide(p)
  \/ SaveSnapshot(p) \/ WriteOperation(p) \/ Validate(p) \/ CheckPost(p)
  \/ BuildApplyReview(p) \/ UndoOperation(p) \/ UndoCheck(p)
=============================================================================
