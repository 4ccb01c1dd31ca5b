--------------------------- MODULE ToolboxProofs ---------------------------
(***************************************************************************)
(* Type correctness of the transaction engine, for any sessions, XPaths,   *)
(* workers and plans: one lemma for the initial states, one per action,    *)
(* each with a step for every variable the action changes.                 *)
(*                                                                         *)
(* The host marker keeps sessions apart.  The argument: a worker past the  *)
(* marker holds it for its session, and the operation lock keeps a second  *)
(* worker off that session; so only one worker at a time moves a manifest, *)
(* and the manifest is that of the marker's session.                       *)
(*                                                                         *)
(* The engine implements the session ledger, and never has two Panorama    *)
(* jobs at once.  Both rest on what the manifest says while a stage is at  *)
(* a label: before the table of the store is consulted, and where          *)
(* force_terminal_state does not consult it.                               *)
(***************************************************************************)
EXTENDS Toolbox, TLAPS

(***************************************************************************)
(* Records and the evidence operators.                                     *)
(***************************************************************************)

(* What a worker starts a stage with is well formed.                       *)
LEMMA NoLocalType == NoLocal \in Local
  BY EngineConstants DEF NoLocal, Local, SessionState

(* A session that has not been reviewed has an empty guard.                *)
LEMMA NoGuardType == NoGuard \in Guard
  BY EngineConstants DEF NoGuard, Guard, NoNative, Native

(* Reading the change summary gives two trees, whether it is answered or   *)
(* not.                                                                    *)
LEMMA SummariesType ==
  ASSUME HostTypeOK
  PROVE  Summaries \subseteq Native
<1> SUFFICES ASSUME NEW b \in Answers
             PROVE  (IF b THEN ChangeSummary ELSE NoNative(InitTree)) \in Native
  BY DEF Summaries
<1>1. ChangeSummary \in Native
  BY DEF HostTypeOK, ChangeSummary, Native
<1>2. NoNative(InitTree) \in Native
  BY EngineConstants DEF NoNative, Native
<1> QED BY <1>1, <1>2, PanoramaConstants

(* What the plan of a session says, apart from its operations.             *)
LEMMA PlanType ==
  ASSUME NEW s \in Session
  PROVE  /\ Targets(s) \subseteq Path
         /\ CompOf[s] \in [Targets(s) -> Component]
         /\ Context[s] \in [Component -> SUBSET Path]
  BY EngineConstants

(* The findings of a scope guard are XPaths of the configuration.          *)
LEMMA FindingsType ==
  ASSUME TypeOK, NEW s \in Session, NEW run \in Tree, NEW cand \in Tree
  PROVE  ScopeFindings(s, run, cand) \subseteq Path
<1>1. applied[s] \subseteq Path /\ applied[s] \subseteq Targets(s)
  BY PlanType DEF TypeOK
<1>2. ComponentsOf(s, applied[s]) \subseteq Component
  BY <1>1, PlanType DEF ComponentsOf
<1>3. Residual(s, applied[s], cand) \subseteq Path
  BY <1>2, PlanType DEF Residual
<1> QED BY <1>1, <1>3 DEF ScopeFindings

(* A scope guard built from two trees and a change summary is well formed. *)
LEMMA GuardType ==
  ASSUME TypeOK, NEW s \in Session, NEW run \in Tree, NEW cand \in Tree,
         NEW native \in Native
  PROVE  GuardOf(s, run, cand, native) \in Guard
  BY FindingsType DEF GuardOf, Guard

(* So is the review that holds it.                                         *)
LEMMA ReviewType ==
  ASSUME TypeOK, NEW s \in Session, NEW run \in Tree, NEW cand \in Tree,
         NEW native \in Native
  PROVE  ReviewOf(s, run, cand, native) \in Review
  BY GuardType DEF ReviewOf, Review

(* The operations of a session are a sequence.                             *)
LEMMA PlanSequences ==
  ASSUME NEW s \in Session
  PROVE  /\ Forward[s] \in Seq([path : Targets(s), value : Value])
         /\ Inverse[s] \in Seq([path : Targets(s), value : Value])
  BY EngineConstants

(* An element of a sequence is of the type of its elements.                *)
LEMMA ElementType ==
  ASSUME NEW S, NEW q \in Seq(S), NEW k \in DOMAIN q
  PROVE  k \in Nat /\ q[k] \in S
  OBVIOUS

(* Replacing an element by another of the type keeps the sequence's type.  *)
LEMMA UpdateType ==
  ASSUME NEW S, NEW q \in Seq(S), NEW k \in DOMAIN q, NEW e \in S
  PROVE  [q EXCEPT ![k] = e] \in Seq(S)
  OBVIOUS

(* Each operation of a session writes an XPath of it.                      *)
LEMMA OperationType ==
  ASSUME NEW s \in Session
  PROVE  /\ \A k \in DOMAIN Forward[s] : k \in Nat /\
              Forward[s][k] \in [path : Targets(s), value : Value]
         /\ \A k \in DOMAIN Inverse[s] : k \in Nat /\
              Inverse[s][k] \in [path : Targets(s), value : Value]
  BY PlanSequences, ElementType

(* Writing it keeps the candidate a tree.                                  *)
LEMMA WrittenType ==
  ASSUME HostTypeOK, NEW s \in Session,
         NEW op \in [path : Targets(s), value : Value]
  PROVE  Written(op) \in Tree
  BY DEF HostTypeOK, Tree, Written

(***************************************************************************)
(* The initial states.                                                     *)
(***************************************************************************)

(* Init assigns every variable a value of its type.                        *)
LEMMA InitTypes == Init => TypeOK
<1> SUFFICES ASSUME Init PROVE TypeOK
  OBVIOUS
<1>1. HostTypeOK
  BY EngineConstants, PanoramaConstants DEF Init, HostTypeOK
<1>2. state \in [Session -> SessionState]
  BY EngineConstants DEF Init, SessionState
<1>3. /\ applied \in [Session -> SUBSET Path]
      /\ \A s \in Session : applied[s] \subseteq Targets(s)
  BY EngineConstants DEF Init, InitApplied
<1>4. NoReview \in Review
  BY EngineConstants, NoGuardType DEF NoReview, Review
<1>5. review \in [Session -> Review] /\ preguard \in [Session -> Guard]
  BY <1>4, NoGuardType DEF Init
<1>6. loc \in [Worker -> Local]
  BY NoLocalType DEF Init
<1>7. /\ pc \in [Worker -> Label]
      /\ \A p \in Worker : pc[p] = "idle" \/ sess[p] \in Session
  BY DEF Init, Label
<1>8. faults \in 0..MaxFaults
  BY EngineConstants DEF Init
<1> QED BY <1>1, <1>2, <1>3, <1>5, <1>6, <1>7, <1>8 DEF Init, TypeOK

(***************************************************************************)
(* Steps of the appliance and of the operator.                             *)
(***************************************************************************)

(* An edit by somebody else leaves the candidate a tree.                   *)
LEMMA EditTypes ==
  ASSUME TypeOK, EditCandidate, UNCHANGED <<manifestVars, fileVars, workerVars,
                                            faults>>
  PROVE  TypeOK'
<1>1. HostTypeOK'
  <2>1. PICK q \in Path : \E v \in EditValue[q] :
          candidate' = [candidate EXCEPT ![q] = v]
    BY DEF EditCandidate
  <2>2. EditValue[q] \subseteq Value
    BY PanoramaConstants
  <2>3. candidate' \in Tree
    BY <2>1, <2>2 DEF TypeOK, HostTypeOK, Tree
  <2>4. edits' \in 0..MaxEdits
    BY PanoramaConstants DEF TypeOK, HostTypeOK, EditCandidate
  <2> QED BY <2>3, <2>4 DEF TypeOK, HostTypeOK, EditCandidate
<1> QED BY <1>1 DEF TypeOK, manifestVars, fileVars, workerVars

(* So does a commit by somebody else.                                      *)
LEMMA CommitElsewhereTypes ==
  ASSUME TypeOK, CommitElsewhere, UNCHANGED <<manifestVars, fileVars,
                                              workerVars, faults>>
  PROVE  TypeOK'
<1>1. HostTypeOK'
  <2>1. running' \in Tree
    BY DEF TypeOK, HostTypeOK, CommitElsewhere, Tree
  <2>2. edits' \in 0..MaxEdits
    BY PanoramaConstants DEF TypeOK, HostTypeOK, CommitElsewhere
  <2> QED BY <2>1, <2>2 DEF TypeOK, HostTypeOK, CommitElsewhere
<1> QED BY <1>1 DEF TypeOK, manifestVars, fileVars, workerVars

(* The end of a job changes its state alone, and perhaps running.          *)
LEMMA FinishTypes ==
  ASSUME TypeOK, FinishJob, UNCHANGED <<manifestVars, fileVars, workerVars,
                                        faults>>
  PROVE  TypeOK'
<1>1. HostTypeOK'
  <2>1. PICK j \in LiveJobs :
          /\ \/ jobs' = [jobs EXCEPT ![j].st = "fail"]
             \/ jobs' = [jobs EXCEPT ![j].st = "ok"]
          /\ \/ UNCHANGED running
             \/ \E D \in SUBSET Path :
                  running' = [q \in Path |->
                               IF q \in D THEN candidate[q] ELSE running[q]]
          /\ UNCHANGED <<candidate, cfgLocks, edits>>
    BY DEF FinishJob
  <2>2. running' \in Tree
    BY <2>1 DEF TypeOK, HostTypeOK, Tree
  <2>3. jobs' \in Seq(Job)
    <3>1. j \in DOMAIN jobs /\ jobs[j] \in Job
      BY ElementType DEF TypeOK, HostTypeOK, LiveJobs
    <3>2. \A st \in JobState : [jobs[j] EXCEPT !.st = st] \in Job
      BY <3>1 DEF Job
    <3>3. PICK st \in JobState : jobs' = [jobs EXCEPT ![j].st = st]
      BY <2>1 DEF JobState
    <3>4. jobs' = [jobs EXCEPT ![j] = [jobs[j] EXCEPT !.st = st]]
      BY <3>3
    <3> QED BY <3>1, <3>2, <3>4, UpdateType DEF TypeOK, HostTypeOK
  <2> QED BY <2>1, <2>2, <2>3 DEF TypeOK, HostTypeOK
<1> QED BY <1>1 DEF TypeOK, manifestVars, fileVars, workerVars

(* The operator removes files and locks, and notes the open sessions.      *)
LEMMA ManualTypes ==
  ASSUME TypeOK, ManualReconciliation
  PROVE  TypeOK'
  BY DEF TypeOK, HostTypeOK, ManualReconciliation, manifestVars, workerVars

(***************************************************************************)
(* Entering and leaving a stage.                                           *)
(***************************************************************************)

(* A worker that runs a stage has a session.                               *)
LEMMA SessionOfWorker ==
  ASSUME TypeOK, NEW p \in Worker, pc[p] # "idle"
  PROVE  sess[p] \in Session /\ loc[p] \in Local
  BY DEF TypeOK

(* Going on to another label, in the same stage.                           *)
LEMMA GotoTypes ==
  ASSUME TypeOK, NEW p \in Worker, pc[p] # "idle",
         NEW l \in Label, Goto(p, l), UNCHANGED <<stage, sess>>
  PROVE  /\ pc' \in [Worker -> Label]
         /\ stage' \in [Worker -> Stage \cup {"none"}]
         /\ sess' \in [Worker -> Session \cup {NoSession}]
         /\ \A r \in Worker : pc'[r] = "idle" \/ sess'[r] \in Session
  BY DEF TypeOK, Goto

(* Giving up leads to the release of the locks, or out of the stage.       *)
LEMMA GiveUpLabel ==
  ASSUME NEW got
  PROVE  AfterRelease(got) \in {"leave", "release"} /\ AfterRelease(got) \in Label
  BY DEF AfterRelease, Label

(* A worker that becomes idle forgets its session and its data.            *)
LEMMA IdleTypes ==
  ASSUME TypeOK, NEW p \in Worker, BecomeIdle(p)
  PROVE  /\ pc' \in [Worker -> Label]
         /\ stage' \in [Worker -> Stage \cup {"none"}]
         /\ sess' \in [Worker -> Session \cup {NoSession}]
         /\ \A r \in Worker : pc'[r] = "idle" \/ sess'[r] \in Session
         /\ loc' \in [Worker -> Local]
  BY NoLocalType DEF TypeOK, BecomeIdle, Goto, Label

(* A request gives a worker a session, a stage and fresh data.             *)
LEMMA RequestTypes ==
  ASSUME TypeOK, NEW p \in Worker, NEW s \in Session, NEW st \in Requests,
         RequestStage(p, s, st)
  PROVE  TypeOK'
<1> USE DEF TypeOK, RequestStage
<1>1. /\ pc' \in [Worker -> Label]
      /\ sess' \in [Worker -> Session \cup {NoSession}]
      /\ \A r \in Worker : pc'[r] = "idle" \/ sess'[r] \in Session
  BY DEF Goto, Label
<1>2. opHeld' \subseteq Session
  OBVIOUS
<1>3. stage' \in [Worker -> Stage \cup {"none"}]
  BY EngineConstants
<1>4. loc' \in [Worker -> Local]
  <2>1. PICK a \in Acks \cup {"none"} :
          loc' = [loc EXCEPT ![p] = [NoLocal EXCEPT !.ack = a]]
    OBVIOUS
  <2>2. [NoLocal EXCEPT !.ack = a] \in Local
    BY NoLocalType, EngineConstants DEF Local
  <2> QED BY <2>1, <2>2
<1> QED BY <1>1, <1>2, <1>3, <1>4 DEF hostVars, manifestVars, HostTypeOK

(* Taking the host marker, or being turned away.                           *)
LEMMA EnterTypes ==
  ASSUME TypeOK, NEW p \in Worker, EnterHost(p)
  PROVE  TypeOK'
<1> USE DEF TypeOK, EnterHost
<1>1. CASE HostFree
  <2>1. Goto(p, "check") /\ UNCHANGED <<stage, sess>> /\ "check" \in Label
    BY <1>1 DEF Label
  <2>2. marker' \in Session \cup {NoSession}
    BY <1>1
  <2>3. UNCHANGED <<opHeld, loc>>
    BY <1>1
  <2> QED BY <2>1, <2>2, <2>3, GotoTypes DEF hostVars, manifestVars, HostTypeOK
<1>2. CASE ~HostFree
  <2>1. BecomeIdle(p) /\ opHeld' \subseteq Session /\ UNCHANGED marker
    BY <1>2
  <2> QED BY <2>1, IdleTypes DEF hostVars, manifestVars, HostTypeOK
<1> QED BY <1>1, <1>2

(* Leaving a stage removes the operation lock and may remove the marker.   *)
LEMMA LeaveTypes ==
  ASSUME TypeOK, NEW p \in Worker, LeaveStage(p)
  PROVE  TypeOK'
  BY IdleTypes DEF TypeOK, LeaveStage, hostVars, manifestVars, HostTypeOK

(* An interrupt records an unknown outcome, at most.                       *)
LEMMA InterruptTypes ==
  ASSUME TypeOK, NEW p \in Worker, Interrupt(p)
  PROVE  TypeOK'
<1>1. BecomeIdle(p) /\ faults' \in 0..MaxFaults /\ jobLock' \in [Worker -> BOOLEAN]
  BY EngineConstants DEF TypeOK, Interrupt, EndProcess
<1>2. state' \in [Session -> SessionState] /\ stale' \subseteq Session
  BY DEF TypeOK, Interrupt, SetState, Rewritten, SessionState
<1> QED BY <1>1, <1>2, IdleTypes DEF TypeOK, Interrupt, hostVars, HostTypeOK

(* A crash changes nothing that is shared.                                 *)
LEMMA CrashTypes ==
  ASSUME TypeOK, NEW p \in Worker, Crash(p)
  PROVE  TypeOK'
<1>1. BecomeIdle(p) /\ faults' \in 0..MaxFaults /\ jobLock' \in [Worker -> BOOLEAN]
  BY EngineConstants DEF TypeOK, Crash, EndProcess
<1> QED BY <1>1, IdleTypes
        DEF TypeOK, Crash, hostVars, manifestVars, fileVars, HostTypeOK

(* A restart frees the job lock of a worker.                               *)
LEMMA RestartTypes ==
  ASSUME TypeOK, NEW p \in Worker, Restart(p)
  PROVE  TypeOK'
  BY DEF TypeOK, Restart, hostVars, manifestVars, fileVars, HostTypeOK

(***************************************************************************)
(* Config locks and the first download.                                    *)
(***************************************************************************)

(* A download, a decision or a cursor replaces one field of a worker's     *)
(* data.                                                                   *)
LEMMA LocalTypes ==
  ASSUME NEW f \in [Worker -> Local], NEW p \in Worker
  PROVE  /\ \A t \in Tree : [f EXCEPT ![p].run = t] \in [Worker -> Local]
         /\ \A t \in Tree : [f EXCEPT ![p].view = t] \in [Worker -> Local]
         /\ \A b \in BOOLEAN : [f EXCEPT ![p].fast = b] \in [Worker -> Local]
         /\ \A c \in SUBSET Component :
              [f EXCEPT ![p].skip = c] \in [Worker -> Local]
         /\ \A n \in Nat : [f EXCEPT ![p].at = n] \in [Worker -> Local]
         /\ \A n \in Nat : [f EXCEPT ![p].job = n] \in [Worker -> Local]
<1>1. ASSUME NEW t \in Tree PROVE [f EXCEPT ![p].run = t] \in [Worker -> Local]
  BY DEF Local
<1>2. ASSUME NEW t \in Tree PROVE [f EXCEPT ![p].view = t] \in [Worker -> Local]
  BY DEF Local
<1>3. ASSUME NEW b \in BOOLEAN
      PROVE  [f EXCEPT ![p].fast = b] \in [Worker -> Local]
  BY DEF Local
<1>4. ASSUME NEW c \in SUBSET Component
      PROVE  [f EXCEPT ![p].skip = c] \in [Worker -> Local]
  BY DEF Local
<1>5. ASSUME NEW n \in Nat PROVE [f EXCEPT ![p].at = n] \in [Worker -> Local]
  BY DEF Local
<1>6. ASSUME NEW n \in Nat PROVE [f EXCEPT ![p].job = n] \in [Worker -> Local]
  BY DEF Local
<1> QED BY <1>1, <1>2, <1>3, <1>4, <1>5, <1>6

(* The data of the workers is well formed.                                 *)
LEMMA LocOK ==
  ASSUME TypeOK
  PROVE  loc \in [Worker -> Local]
  BY DEF TypeOK

(* The live trees are trees.                                               *)
LEMMA LiveTrees ==
  ASSUME TypeOK
  PROVE  candidate \in Tree /\ running \in Tree
  BY DEF TypeOK, HostTypeOK

(* A manifest state is replaced by another, and restores may become stale. *)
LEMMA SetStateTypes ==
  ASSUME TypeOK, NEW s, NEW new \in SessionState, SetState(s, new)
  PROVE  state' \in [Session -> SessionState] /\ stale' \subseteq Session
  BY DEF TypeOK, SetState, Rewritten

(* Restores become stale, no state changes.                                *)
LEMMA RewrittenTypes ==
  ASSUME TypeOK, NEW s
  PROVE  Rewritten(s) \subseteq Session
  BY DEF TypeOK, Rewritten

(* The scopes a stage locks are scopes of the configuration.               *)
LEMMA ScopesType ==
  ASSUME NEW s \in Session
  PROVE  LockScopes(s) \subseteq Scope
  BY PlanType, PanoramaConstants DEF LockScopes

(* A config lock is acquired, refused, or in doubt.                        *)
LEMMA AcquireTypes ==
  ASSUME TypeOK, NEW p \in Worker, AcquireLock(p)
  PROVE  TypeOK'
<1>1. pc[p] # "idle" /\ sess[p] \in Session /\ loc[p] \in Local
  BY SessionOfWorker DEF AcquireLock
<1>2. PICK sc \in LockScopes(sess[p]) :
        /\ cfgLocks' \in {cfgLocks, cfgLocks \cup {sc}}
        /\ loc' \in {loc, [loc EXCEPT ![p].got = loc[p].got \cup {sc}]}
        /\ \E l \in {"lock", "running", "proof", "leave", "release"} :
             Goto(p, l)
        /\ \/ state' = state /\ stale' \in {stale, Rewritten(sess[p])}
           \/ SetState(sess[p], "OUTCOME_UNKNOWN")
  BY GiveUpLabel DEF AcquireLock, OutcomeUnknown, GiveUp, Cut
<1>3. HostTypeOK'
  BY <1>1, <1>2, ScopesType DEF TypeOK, HostTypeOK, AcquireLock
<1>4. loc' \in [Worker -> Local]
  <2>1. loc[p].got \cup {sc} \in SUBSET Scope
    BY <1>1, <1>2, ScopesType DEF Local
  <2> QED BY <1>1, <1>2, <2>1 DEF TypeOK, Local
<1>5. state' \in [Session -> SessionState] /\ stale' \subseteq Session
  BY <1>2, SetStateTypes, RewrittenTypes DEF TypeOK, SessionState
<1>6. PICK l \in Label : Goto(p, l)
  BY <1>2 DEF Label
<1> QED BY <1>1, <1>3, <1>4, <1>5, <1>6, GotoTypes
        DEF TypeOK, AcquireLock, fileVars

(* A config lock is released, or left behind with a warning.               *)
LEMMA ReleaseTypes ==
  ASSUME TypeOK, NEW p \in Worker, ReleaseLock(p)
  PROVE  TypeOK'
<1>1. pc[p] # "idle" /\ loc[p] \in Local
  BY SessionOfWorker DEF ReleaseLock
<1>2. PICK sc \in loc[p].got :
        /\ cfgLocks' \in {cfgLocks \ {sc}, cfgLocks}
        /\ loc' = [loc EXCEPT ![p].got = @ \ {sc}]
        /\ Goto(p, AfterRelease(loc[p].got \ {sc}))
  BY DEF ReleaseLock
<1>3. loc' \in [Worker -> Local]
  BY <1>1, <1>2 DEF TypeOK, Local
<1>4. stale' \subseteq Session
  BY RewrittenTypes DEF ReleaseLock
<1>5. PICK l \in Label : Goto(p, l)
  BY <1>2, GiveUpLabel
<1> QED BY <1>1, <1>2, <1>3, <1>4, <1>5, GotoTypes
        DEF TypeOK, HostTypeOK, ReleaseLock, fileVars

(* The running tree is downloaded, or the stage gives up.                  *)
LEMMA FetchRunningTypes ==
  ASSUME TypeOK, NEW p \in Worker, FetchRunning(p)
  PROVE  TypeOK'
<1>1. pc[p] # "idle" /\ loc[p] \in Local
  BY SessionOfWorker DEF FetchRunning
<1>2. loc' \in [Worker -> Local]
  BY LocalTypes, LiveTrees DEF TypeOK, FetchRunning
<1>3. PICK l \in Label : Goto(p, l)
  BY GiveUpLabel DEF FetchRunning, GiveUp, Label
<1> QED BY <1>1, <1>2, <1>3, GotoTypes
        DEF TypeOK, HostTypeOK, FetchRunning, hostVars, manifestVars, fileVars

(***************************************************************************)
(* The stage that writes the candidate.                                    *)
(***************************************************************************)

(* A stage is admitted with the state it returns to when a job fails.      *)
LEMMA AdmitTypes ==
  ASSUME TypeOK, NEW p \in Worker, NEW back \in SessionState, Admit(p, back)
  PROVE  loc' \in [Worker -> Local] /\ Goto(p, "lock") /\ "lock" \in Label
  BY SMTT(30) DEF TypeOK, Admit, Local, Label

(* A cleanup or restore is admitted, or turned away.                       *)
LEMMA ApplyCheckTypes ==
  ASSUME TypeOK, NEW p \in Worker, ApplyCheck(p)
  PROVE  TypeOK'
<1>1. /\ loc' \in [Worker -> Local]
      /\ \E l \in Label : Goto(p, l)
  BY AdmitTypes DEF TypeOK, ApplyCheck, SessionState, Label
<1> QED BY <1>1, GotoTypes
        DEF TypeOK, HostTypeOK, ApplyCheck, hostVars, manifestVars, fileVars

(* The proof of the plan gives the trees it was made on.                   *)
LEMMA ReadProofTypes ==
  ASSUME TypeOK, NEW p \in Worker, ReadProof(p)
  PROVE  TypeOK'
<1>1. pc[p] # "idle" /\ loc[p] \in Local
  BY SessionOfWorker DEF ReadProof
<1>2. loc' \in [Worker -> Local]
  <2>1. [loc EXCEPT ![p].run = InitTree, ![p].view = InitTree,
                    ![p].fast = TRUE] \in [Worker -> Local]
    <3> DEFINE f == [loc EXCEPT ![p].run = InitTree]
               g == [f EXCEPT ![p].view = InitTree]
    <3>1. loc \in [Worker -> Local] /\ InitTree \in Tree
      BY EngineConstants DEF TypeOK
    <3>2. f \in [Worker -> Local]
      BY <3>1, LocalTypes
    <3>3. g \in [Worker -> Local]
      BY <3>1, <3>2, LocalTypes
    <3>4. [g EXCEPT ![p].fast = TRUE] \in [Worker -> Local]
      BY <3>3, LocalTypes
    <3> QED BY <3>4
  <2> QED BY <2>1 DEF TypeOK, ReadProof
<1>3. PICK l \in Label : Goto(p, l)
  BY DEF ReadProof, Label
<1> QED BY <1>1, <1>2, <1>3, GotoTypes
        DEF TypeOK, HostTypeOK, ReadProof, hostVars, manifestVars, fileVars

(* The candidate is downloaded, or the stage gives up.                     *)
LEMMA ApplyFetchTypes ==
  ASSUME TypeOK, NEW p \in Worker, ApplyFetchCandidate(p)
  PROVE  TypeOK'
<1>1. pc[p] # "idle" /\ loc[p] \in Local
  BY SessionOfWorker DEF ApplyFetchCandidate
<1>2. loc' \in [Worker -> Local]
  BY LocalTypes, LiveTrees DEF TypeOK, ApplyFetchCandidate
<1>3. PICK l \in Label : Goto(p, l)
  BY GiveUpLabel DEF ApplyFetchCandidate, GiveUp, Label
<1> QED BY <1>1, <1>2, <1>3, GotoTypes
        DEF TypeOK, HostTypeOK, ApplyFetchCandidate, hostVars, manifestVars,
            fileVars

(* Components in conflict are components.                                  *)
LEMMA ConflictedType ==
  ASSUME TypeOK, NEW p \in Worker, sess[p] \in Session
  PROVE  Conflicted(p) \subseteq Component
<1>1. \A tree : Changed(sess[p], tree) \subseteq Component
  BY PlanType DEF Changed, ComponentsOf
<1>2. \A tree : Replanned(sess[p], tree) \subseteq Component
  BY DEF Replanned
<1> QED BY <1>1, <1>2 DEF Conflicted

(* The decision moves the manifest and fixes the components left out.      *)
LEMMA DecideTypes ==
  ASSUME TypeOK, NEW p \in Worker, Decide(p)
  PROVE  TypeOK'
<1>1. pc[p] # "idle" /\ sess[p] \in Session
  BY SessionOfWorker DEF Decide
<1>2. \/ UNCHANGED <<state, stale>>
      \/ \E new \in SessionState : SetState(sess[p], new)
  BY DEF Decide, Transition, SessionState
<1>3. state' \in [Session -> SessionState] /\ stale' \subseteq Session
  BY <1>2, SetStateTypes DEF TypeOK
<1>4. \/ loc' = loc
      \/ \E skip \in SUBSET Component : loc' = [loc EXCEPT ![p].skip = skip]
  BY <1>1, ConflictedType DEF Decide
<1>5. loc' \in [Worker -> Local]
  BY <1>4, LocalTypes, LocOK
<1>6. PICK l \in Label : Goto(p, l)
  BY GiveUpLabel DEF Decide, GiveUp, Label
<1> QED BY <1>1, <1>3, <1>5, <1>6, GotoTypes
        DEF TypeOK, HostTypeOK, Decide, hostVars, fileVars

(* The snapshot request is answered, refused, or in doubt.                 *)
LEMMA SnapshotTypes ==
  ASSUME TypeOK, NEW p \in Worker, SaveSnapshot(p)
  PROVE  TypeOK'
<1>1. state' \in [Session -> SessionState] /\ stale' \subseteq Session
  BY SetStateTypes, RewrittenTypes
     DEF TypeOK, SaveSnapshot, OutcomeUnknown, SessionState
<1>2. pc[p] # "idle" /\ \E l \in Label : Goto(p, l)
  BY DEF SaveSnapshot, OutcomeUnknown, Label
<1> QED BY <1>1, <1>2, GotoTypes
        DEF TypeOK, HostTypeOK, SaveSnapshot, hostVars, fileVars

(* A forward operation is written, refused, or in doubt.                   *)
LEMMA WriteTypes ==
  ASSUME TypeOK, NEW p \in Worker, WriteOperation(p)
  PROVE  TypeOK'
<1>1. pc[p] # "idle" /\ sess[p] \in Session /\ loc[p] \in Local
  BY SessionOfWorker DEF WriteOperation
<1>2. PICK k \in DOMAIN Forward[sess[p]] :
        /\ candidate' \in {candidate, Written(Forward[sess[p]][k])}
        /\ \/ loc' = [loc EXCEPT ![p].at = k + 1, ![p].touched = TouchedBy(p, k)]
           \/ loc' = [loc EXCEPT ![p].at = 1]
           \/ loc' = loc
        /\ \/ UNCHANGED <<state, stale>>
           \/ SetState(sess[p], "OUTCOME_UNKNOWN")
        /\ \E l \in {"validate", "write", "undo", "leave"} : Goto(p, l)
  BY DEF WriteOperation, FirstOf, Pending, OutcomeUnknown, Cut
<1>3. k \in Nat /\ Forward[sess[p]][k] \in [path : Targets(sess[p]), value : Value]
  BY <1>1, OperationType
<1>4. candidate' \in Tree
  BY <1>1, <1>2, <1>3, LiveTrees, WrittenType DEF TypeOK
<1>5. loc' \in [Worker -> Local]
  <2>1. Forward[sess[p]][k].path \in Path
    BY <1>1, <1>3, PlanType
  <2>2. TouchedBy(p, k) \subseteq Path
    BY <1>1, <2>1 DEF TouchedBy, Local
  <2>3. \A f \in [Worker -> Local] :
          [f EXCEPT ![p].touched = TouchedBy(p, k)] \in [Worker -> Local]
    BY <2>2 DEF Local
  <2>4. [loc EXCEPT ![p].at = k + 1] \in [Worker -> Local]
    BY <1>3, LocalTypes, LocOK, SMTT(30)
  <2>5. [loc EXCEPT ![p].at = k + 1, ![p].touched = TouchedBy(p, k)]
          \in [Worker -> Local]
    <3> DEFINE f == [loc EXCEPT ![p].at = k + 1]
    <3>1. [f EXCEPT ![p].touched = TouchedBy(p, k)] \in [Worker -> Local]
      BY <2>3, <2>4
    <3> QED BY <3>1
  <2>6. [loc EXCEPT ![p].at = 1] \in [Worker -> Local]
    BY LocalTypes, LocOK
  <2> QED BY <1>2, <2>5, <2>6, LocOK
<1>6. state' \in [Session -> SessionState] /\ stale' \subseteq Session
  BY <1>2, SetStateTypes DEF TypeOK, SessionState
<1>7. PICK l \in Label : Goto(p, l)
  BY <1>2 DEF Label
<1> QED BY <1>1, <1>4, <1>5, <1>6, <1>7, GotoTypes
        DEF TypeOK, HostTypeOK, WriteOperation, fileVars

(* The validate job passes, or the stage turns to its rollback.            *)
LEMMA ValidateTypes ==
  ASSUME TypeOK, NEW p \in Worker, Validate(p)
  PROVE  TypeOK'
<1>1. loc' \in [Worker -> Local]
  BY LocalTypes, LocOK DEF Validate
<1>2. stale' \subseteq Session
  BY RewrittenTypes DEF TypeOK, Validate
<1>3. pc[p] # "idle" /\ \E l \in Label : Goto(p, l)
  BY DEF Validate, Label
<1> QED BY <1>1, <1>2, <1>3, GotoTypes
        DEF TypeOK, HostTypeOK, Validate, hostVars, fileVars

(* What has been applied is part of what the session targets.              *)
LEMMA CheckPostTypes ==
  ASSUME TypeOK, NEW p \in Worker, CheckPost(p)
  PROVE  TypeOK'
<1>1. pc[p] # "idle" /\ sess[p] \in Session
  BY SessionOfWorker DEF CheckPost
<1>2. \/ applied' = applied
      \/ applied' = [applied EXCEPT ![sess[p]] = Safe(sess[p], loc[p].skip)]
  BY DEF CheckPost
<1>3. /\ applied' \in [Session -> SUBSET Path]
      /\ \A s \in Session : applied'[s] \subseteq Targets(s)
  <2>1. Safe(sess[p], loc[p].skip) \subseteq Targets(sess[p])
    BY DEF Safe
  <2> QED BY <1>1, <1>2, <2>1, PlanType DEF TypeOK
<1>4. loc' \in [Worker -> Local]
  BY LocalTypes, LiveTrees, LocOK DEF CheckPost
<1>5. stale' \subseteq Session
  BY RewrittenTypes DEF TypeOK, CheckPost
<1>6. \E l \in Label : Goto(p, l)
  BY DEF CheckPost, Label
<1> QED BY <1>1, <1>3, <1>4, <1>5, <1>6, GotoTypes
        DEF TypeOK, HostTypeOK, CheckPost, hostVars, fileVars

(* The apply stage ends with a review, or without.                         *)
LEMMA ApplyReviewTypes ==
  ASSUME TypeOK, NEW p \in Worker, BuildApplyReview(p)
  PROVE  TypeOK'
<1>1. pc[p] # "idle" /\ sess[p] \in Session /\ loc[p] \in Local
  BY SessionOfWorker DEF BuildApplyReview
<1>2. review' \in [Session -> Review]
  <2>1. loc[p].run \in Tree /\ loc[p].view \in Tree
    BY <1>1 DEF Local
  <2>2. \A native \in Summaries :
          ReviewOf(sess[p], loc[p].run, loc[p].view, native) \in Review
    BY <1>1, <2>1, SummariesType, ReviewType DEF TypeOK
  <2> QED BY <2>2 DEF TypeOK, BuildApplyReview
<1>3. state' \in [Session -> SessionState] /\ stale' \subseteq Session
  <2>1. Outcome(p) \in SessionState
    BY DEF Outcome, SessionState
  <2> QED BY <2>1, SetStateTypes DEF BuildApplyReview, Transition
<1>4. \E l \in Label : Goto(p, l)
  BY GiveUpLabel DEF BuildApplyReview, GiveUp
<1> QED BY <1>1, <1>2, <1>3, <1>4, GotoTypes
        DEF TypeOK, HostTypeOK, BuildApplyReview, hostVars, fileVars

(* An inverse operation is written, or the outcome is unknown.             *)
LEMMA UndoTypes ==
  ASSUME TypeOK, NEW p \in Worker, UndoOperation(p)
  PROVE  TypeOK'
<1>1. pc[p] # "idle" /\ sess[p] \in Session
  BY SessionOfWorker DEF UndoOperation
<1>2. PICK k \in DOMAIN Inverse[sess[p]] :
        /\ candidate' \in {candidate, Written(Inverse[sess[p]][k])}
        /\ \/ loc' = [loc EXCEPT ![p].at = k + 1] \/ loc' = loc
        /\ \/ state' = state /\ stale' = Rewritten(sess[p])
           \/ SetState(sess[p], "OUTCOME_UNKNOWN")
        /\ pc' = pc \/ Goto(p, "leave")
  BY DEF UndoOperation, FirstOf, ToUndo, OutcomeUnknown
<1>3. k \in Nat /\ Inverse[sess[p]][k] \in [path : Targets(sess[p]), value : Value]
  BY <1>1, OperationType
<1>4. candidate' \in Tree
  BY <1>1, <1>2, <1>3, LiveTrees, WrittenType DEF TypeOK
<1>5. loc' \in [Worker -> Local]
  BY <1>2, <1>3, LocalTypes, LocOK
<1>6. state' \in [Session -> SessionState] /\ stale' \subseteq Session
  BY <1>2, SetStateTypes, RewrittenTypes DEF TypeOK, SessionState
<1>7. UNCHANGED <<stage, sess>> /\ "leave" \in Label
  BY DEF UndoOperation, Label
<1>8. CASE pc' = pc
  BY <1>4, <1>5, <1>6, <1>8 DEF TypeOK, HostTypeOK, UndoOperation, fileVars
<1>9. CASE Goto(p, "leave")
  BY <1>1, <1>4, <1>5, <1>6, <1>7, <1>9, GotoTypes
     DEF TypeOK, HostTypeOK, UndoOperation, fileVars
<1> QED BY <1>2, <1>8, <1>9

(* A rollback that is done ends as failed, or as unknown.                  *)
LEMMA UndoCheckTypes ==
  ASSUME TypeOK, NEW p \in Worker, UndoCheck(p)
  PROVE  TypeOK'
<1>1. state' \in [Session -> SessionState] /\ stale' \subseteq Session
  BY SetStateTypes DEF UndoCheck, OutcomeUnknown, SessionState
<1>2. pc[p] # "idle" /\ \E l \in Label : Goto(p, l)
  BY GiveUpLabel DEF UndoCheck, GiveUp, OutcomeUnknown, Label
<1> QED BY <1>1, <1>2, GotoTypes
        DEF TypeOK, HostTypeOK, UndoCheck, hostVars, fileVars

(* Every step of the apply stage.                                          *)
LEMMA ApplyTypes ==
  ASSUME TypeOK, NEW p \in Worker, ApplyStep(p)
  PROVE  TypeOK'
  BY ApplyCheckTypes, ReadProofTypes, ApplyFetchTypes, DecideTypes,
     SnapshotTypes, WriteTypes, ValidateTypes, CheckPostTypes,
     ApplyReviewTypes, UndoTypes, UndoCheckTypes DEF ApplyStep

(***************************************************************************)
(* The stages that only read.                                              *)
(***************************************************************************)

(* A step that changes nothing but the label of a worker, and the trees it *)
(* holds, keeps every type.                                                *)
LEMMA ReadTypes ==
  ASSUME TypeOK, NEW p \in Worker, pc[p] # "idle",
         NEW l \in Label, Goto(p, l), loc' \in [Worker -> Local],
         UNCHANGED <<hostVars, manifestVars, fileVars, stage, sess, jobLock,
                     faults>>
  PROVE  TypeOK'
  BY GotoTypes DEF TypeOK, HostTypeOK, hostVars, manifestVars, fileVars

(* A review is asked for, of a written candidate or in vain.               *)
LEMMA ReviewCheckTypes ==
  ASSUME TypeOK, NEW p \in Worker, ReviewCheck(p)
  PROVE  TypeOK'
<1>1. pc[p] # "idle" /\ \E l \in Label : Goto(p, l)
  BY DEF ReviewCheck, Label
<1> QED BY <1>1, LocOK, ReadTypes DEF ReviewCheck

(* The candidate of a review is downloaded, or the stage gives up.         *)
LEMMA ReviewFetchTypes ==
  ASSUME TypeOK, NEW p \in Worker, ReviewFetchCandidate(p)
  PROVE  TypeOK'
<1>1. pc[p] # "idle" /\ \E l \in Label : Goto(p, l)
  BY GiveUpLabel DEF ReviewFetchCandidate, GiveUp, Label
<1>2. loc' \in [Worker -> Local]
  BY LocalTypes, LiveTrees, LocOK DEF ReviewFetchCandidate
<1> QED BY <1>1, <1>2, ReadTypes DEF ReviewFetchCandidate

(* A review is built and recorded, or the stage ends without one.          *)
LEMMA BuildReviewTypes ==
  ASSUME TypeOK, NEW p \in Worker, BuildReview(p)
  PROVE  TypeOK'
<1>1. pc[p] # "idle" /\ sess[p] \in Session /\ loc[p] \in Local
  BY SessionOfWorker DEF BuildReview
<1>2. review' \in [Session -> Review]
  <2>1. loc[p].run \in Tree /\ loc[p].view \in Tree
    BY <1>1 DEF Local
  <2>2. \A native \in Summaries :
          ReviewOf(sess[p], loc[p].run, loc[p].view, native) \in Review
    BY <1>1, <2>1, SummariesType, ReviewType DEF TypeOK
  <2> QED BY <2>2 DEF TypeOK, BuildReview
<1>3. stale' \subseteq Session
  BY RewrittenTypes DEF BuildReview
<1>4. \E l \in Label : Goto(p, l)
  BY DEF BuildReview, Label
<1> QED BY <1>1, <1>2, <1>3, <1>4, GotoTypes
        DEF TypeOK, HostTypeOK, BuildReview, hostVars, fileVars

(* A reconciliation starts, in a state that allows it.                     *)
LEMMA ReconcileCheckTypes ==
  ASSUME TypeOK, NEW p \in Worker, ReconcileCheck(p)
  PROVE  TypeOK'
<1>1. pc[p] # "idle" /\ \E l \in Label : Goto(p, l)
  BY DEF ReconcileCheck, Label
<1> QED BY <1>1, LocOK, ReadTypes DEF ReconcileCheck

(* What is admitted from outside is all that the session targets.          *)
LEMMA ExternalTypes ==
  ASSUME TypeOK, NEW p \in Worker, sess[p] \in Session,
         NEW new \in SessionState, RecordExternal(p, new)
  PROVE  /\ state' \in [Session -> SessionState]
         /\ stale' \subseteq Session
         /\ applied' \in [Session -> SUBSET Path]
         /\ \A s \in Session : applied'[s] \subseteq Targets(s)
  BY SetStateTypes, PlanType DEF TypeOK, RecordExternal

(* The XPath reads of running.                                             *)
LEMMA ReconcileRunningTypes ==
  ASSUME TypeOK, NEW p \in Worker, ReconcileRunning(p)
  PROVE  TypeOK'
<1>1. pc[p] # "idle" /\ sess[p] \in Session
  BY SessionOfWorker DEF ReconcileRunning
<1>2. \/ RecordExternal(p, "COMMITTED")
      \/ UNCHANGED <<state, applied, stale>>
  BY DEF ReconcileRunning
<1>3. /\ state' \in [Session -> SessionState]
      /\ stale' \subseteq Session
      /\ applied' \in [Session -> SUBSET Path]
      /\ \A s \in Session : applied'[s] \subseteq Targets(s)
  BY <1>1, <1>2, ExternalTypes DEF TypeOK, SessionState
<1>4. \E l \in Label : Goto(p, l)
  BY DEF ReconcileRunning, Label
<1> QED BY <1>1, <1>3, <1>4, GotoTypes
        DEF TypeOK, HostTypeOK, ReconcileRunning, hostVars, fileVars

(* The XPath reads of the candidate.                                       *)
LEMMA ReconcileTargetsTypes ==
  ASSUME TypeOK, NEW p \in Worker, ReconcileTargets(p)
  PROVE  TypeOK'
<1>1. pc[p] # "idle" /\ \E l \in Label : Goto(p, l)
  BY DEF ReconcileTargets, Label
<1> QED BY <1>1, LocOK, ReadTypes DEF ReconcileTargets

(* The trees decide whether the work done outside is admitted.             *)
LEMMA ReconcileFetchTypes ==
  ASSUME TypeOK, NEW p \in Worker, ReconcileFetchCandidate(p)
  PROVE  TypeOK'
<1>1. pc[p] # "idle" /\ sess[p] \in Session
  BY SessionOfWorker DEF ReconcileFetchCandidate
<1>2. \/ RecordExternal(p, "COMMITTED")
      \/ RecordExternal(p, "CANDIDATE_APPLIED")
      \/ UNCHANGED <<state, applied, stale>>
  BY DEF ReconcileFetchCandidate
<1>3. /\ state' \in [Session -> SessionState]
      /\ stale' \subseteq Session
      /\ applied' \in [Session -> SUBSET Path]
      /\ \A s \in Session : applied'[s] \subseteq Targets(s)
  BY <1>1, <1>2, ExternalTypes DEF TypeOK, SessionState
<1>4. \E l \in Label : Goto(p, l)
  BY DEF ReconcileFetchCandidate, Label
<1>5. loc' \in [Worker -> Local]
  BY LocalTypes, LiveTrees, LocOK DEF ReconcileFetchCandidate
<1> QED BY <1>1, <1>3, <1>4, <1>5, GotoTypes
        DEF TypeOK, HostTypeOK, ReconcileFetchCandidate, hostVars, fileVars

(***************************************************************************)
(* The stages that end in a job.                                           *)
(***************************************************************************)

(* Recovery moves the manifest back to the state before the job.           *)
LEMMA RecoverTypes ==
  ASSUME TypeOK, NEW p \in Worker, pc[p] # "idle", Recover(p)
  PROVE  /\ state' \in [Session -> SessionState]
         /\ stale' \subseteq Session
         /\ \E l \in Label : Goto(p, l)
<1>1. loc[p].back \in SessionState
  BY SessionOfWorker DEF Local
<1> QED BY <1>1, SetStateTypes, GiveUpLabel DEF Recover, GiveUp

(* An unknown outcome ends the stage.                                      *)
LEMMA UnknownTypes ==
  ASSUME TypeOK, NEW p \in Worker, OutcomeUnknown(p)
  PROVE  /\ state' \in [Session -> SessionState]
         /\ stale' \subseteq Session
         /\ \E l \in Label : Goto(p, l)
  BY SetStateTypes DEF OutcomeUnknown, SessionState, Label

(* The manifest is moved before the job is asked for.                      *)
LEMMA BeginTypes ==
  ASSUME TypeOK, NEW p \in Worker, BeginJob(p)
  PROVE  /\ state' \in [Session -> SessionState]
         /\ stale' \subseteq Session
         /\ \E l \in Label : Goto(p, l)
  BY SetStateTypes DEF BeginJob, Transition, DuringState, SessionState, Label

(* Whose labels a stage can be at: only apply writes, only commit works a  *)
(* guard out again, only commit and push wait for a job.                   *)
Fits(l, st) ==
  /\ l \in {"decide", "snapshot", "write", "validate", "post", "undo"} =>
       st = "apply"
  /\ l \in {"proof2", "guard", "runningProof"} => st = "commit"
  /\ l \in {"dispatch", "poll"} => st \in {"commit", "push"}

StageFits == \A p \in Worker : Fits(pc[p], stage[p])

(* Going on to a label of the same stage.                                  *)
LEMMA GotoFits ==
  ASSUME TypeOK, StageFits, NEW p \in Worker, NEW l, Goto(p, l),
         UNCHANGED stage, Fits(l, stage[p])
  PROVE  StageFits'
  BY DEF TypeOK, StageFits, Goto

(* Giving up, or leaving, is open to every stage.                          *)
LEMMA AnyStage ==
  ASSUME NEW st,
         NEW l \in {"idle", "marker", "check", "lock", "proof", "fetchRunning",
                    "fetchCandidate", "review", "targets", "running",
                    "release", "leave"}
  PROVE  Fits(l, st)
  BY DEF Fits

(* An idle worker runs no stage.                                           *)
LEMMA IdleFits ==
  ASSUME TypeOK, StageFits, NEW p \in Worker, BecomeIdle(p)
  PROVE  StageFits'
  BY DEF TypeOK, StageFits, Fits, BecomeIdle, Goto

(* No step of the apply stage leads to a label of another stage.           *)
LEMMA ApplyFits ==
  ASSUME TypeOK, StageFits, NEW p \in Worker, ApplyStep(p)
  PROVE  StageFits'
<1>1. stage[p] = "apply" /\ UNCHANGED stage
  BY DEF StageFits, Fits, ApplyStep, ApplyCheck, ReadProof,
         ApplyFetchCandidate, Decide, SaveSnapshot, WriteOperation, Validate,
         CheckPost, BuildApplyReview, UndoOperation, UndoCheck
<1>2. CASE ApplyCheck(p) \/ ReadProof(p) \/ ApplyFetchCandidate(p)
  BY <1>1, <1>2, GotoFits, GiveUpLabel
     DEF ApplyCheck, ReadProof, ApplyFetchCandidate, Admit, GiveUp, Fits
<1>3. CASE Decide(p) \/ SaveSnapshot(p)
  BY <1>1, <1>3, GotoFits, GiveUpLabel
     DEF Decide, SaveSnapshot, OutcomeUnknown, GiveUp, Fits
<1>4. CASE WriteOperation(p) \/ Validate(p) \/ CheckPost(p)
  BY <1>1, <1>4, GotoFits
     DEF WriteOperation, Validate, CheckPost, OutcomeUnknown, Fits
<1>5. CASE BuildApplyReview(p) \/ UndoCheck(p)
  BY <1>1, <1>5, GotoFits, GiveUpLabel
     DEF BuildApplyReview, UndoCheck, OutcomeUnknown, GiveUp, Fits
<1>6. CASE UndoOperation(p)
  <2>1. pc' = pc \/ Goto(p, "leave")
    BY <1>6 DEF UndoOperation, OutcomeUnknown
  <2> QED BY <1>1, <2>1, GotoFits DEF StageFits, Fits
<1> QED BY <1>2, <1>3, <1>4, <1>5, <1>6 DEF ApplyStep

(* Nor does a step of the stages that only read.                           *)
LEMMA ReadFits ==
  ASSUME TypeOK, StageFits, NEW p \in Worker, ReviewStep(p) \/ ReconcileStep(p)
  PROVE  StageFits'
<1>1. UNCHANGED stage
  BY DEF ReviewStep, ReconcileStep, ReviewCheck, ReviewFetchCandidate,
         BuildReview, ReconcileCheck, ReconcileRunning, ReconcileTargets,
         ReconcileFetchCandidate
<1>2. \E l \in {"fetchRunning", "fetchCandidate", "review", "running",
                "targets", "leave", "release"} : Goto(p, l)
  BY GiveUpLabel
     DEF ReviewStep, ReconcileStep, ReviewCheck, ReviewFetchCandidate,
         BuildReview, ReconcileCheck, ReconcileRunning, ReconcileTargets,
         ReconcileFetchCandidate, GiveUp
<1> QED BY <1>1, <1>2, GotoFits DEF Fits

(* Nor does a step of commit and push.                                     *)
LEMMA JobFits ==
  ASSUME TypeOK, StageFits, NEW p \in Worker,
         CommitStep(p) \/ PushStep(p) \/ JobStep(p)
  PROVE  StageFits'
<1>1. stage[p] \in {"commit", "push"} /\ UNCHANGED stage
  BY DEF StageFits, Fits, CommitStep, PushStep, JobStep, CommitCheck,
         CommitProof, CommitTargets, CommitProof2, CommitFetchCandidate,
         CommitGuard, CommitRunning, PushCheck, PushRunning, Dispatch, Poll
<1>2. CASE CommitStep(p)
  <2>1. stage[p] = "commit"
    BY <1>2 DEF StageFits, Fits, CommitStep, CommitCheck, CommitProof,
         CommitTargets, CommitProof2, CommitFetchCandidate, CommitGuard,
         CommitRunning
  <2>2. \E l \in {"lock", "leave", "release", "targets", "fetchCandidate",
                  "proof2", "guard", "runningProof", "dispatch"} : Goto(p, l)
    BY <1>2, GiveUpLabel
       DEF CommitStep, CommitCheck, CommitProof, CommitTargets, CommitProof2,
           CommitFetchCandidate, CommitGuard, CommitRunning, BeginJob, Admit,
           GiveUp
  <2> QED BY <1>1, <2>1, <2>2, GotoFits DEF Fits
<1>3. CASE PushStep(p) \/ JobStep(p)
  <2>1. \E l \in {"lock", "leave", "release", "dispatch", "poll"} : Goto(p, l)
    BY <1>3, GiveUpLabel
       DEF PushStep, JobStep, PushCheck, PushRunning, Dispatch, Poll, BeginJob,
           Admit, GiveUp, Recover, OutcomeUnknown, LostJob, LostResult
  <2> QED BY <1>1, <2>1, GotoFits DEF Fits
<1> QED BY <1>2, <1>3

(* A commit or push is dispatched by a stage that may start a job.         *)
LEMMA QueuedType ==
  ASSUME TypeOK, NEW p \in Worker, sess[p] \in Session,
         stage[p] \in {"commit", "push"}
  PROVE  Queued(p) \in Seq(Job)
<1>1. [kind |-> stage[p], sess |-> sess[p], paths |-> applied[sess[p]],
       st |-> "run"] \in Job
  BY DEF TypeOK, Job, JobState
<1> QED BY <1>1 DEF TypeOK, HostTypeOK, Queued

(* A job is queued, refused or in doubt.                                   *)
LEMMA DispatchTypes ==
  ASSUME TypeOK, StageFits, NEW p \in Worker, Dispatch(p)
  PROVE  TypeOK'
<1>1. /\ pc[p] # "idle" /\ sess[p] \in Session
      /\ stage[p] \in {"commit", "push"}
  BY SessionOfWorker DEF Dispatch, StageFits, Fits
<1>2. jobs' \in Seq(Job)
  <2>1. jobs' = jobs \/ jobs' = Queued(p)
    BY DEF Dispatch, Cut
  <2> QED BY <1>1, <2>1, QueuedType DEF TypeOK, HostTypeOK
<1>3. loc' \in [Worker -> Local]
  <2>1. Len(jobs) + 1 \in Nat
    BY DEF TypeOK, HostTypeOK
  <2>2. loc' = loc \/ loc' = [loc EXCEPT ![p].job = Len(jobs) + 1]
    BY DEF Dispatch
  <2> QED BY <2>1, <2>2, LocalTypes, LocOK, SMTT(30)
<1>4. jobLock' \in [Worker -> BOOLEAN]
  BY DEF TypeOK, Dispatch
<1>5. /\ state' \in [Session -> SessionState]
      /\ stale' \subseteq Session
      /\ \E l \in Label : Goto(p, l)
  <2>1. CASE UNCHANGED state /\ stale' = Rewritten(sess[p]) /\ Goto(p, "poll")
    BY <2>1, RewrittenTypes DEF TypeOK, Label
  <2>2. CASE Recover(p)
    BY <1>1, <2>2, RecoverTypes
  <2>3. CASE OutcomeUnknown(p)
    BY <2>3, UnknownTypes
  <2> QED BY <2>1, <2>2, <2>3 DEF Dispatch
<1> QED BY <1>1, <1>2, <1>3, <1>4, <1>5, GotoTypes
        DEF TypeOK, HostTypeOK, Dispatch, fileVars

(* A job is seen to end, or lost.                                          *)
LEMMA PollTypes ==
  ASSUME TypeOK, NEW p \in Worker, Poll(p)
  PROVE  TypeOK'
<1>1. pc[p] # "idle"
  BY DEF Poll
<1>2. jobLock' \in [Worker -> BOOLEAN]
  BY DEF TypeOK, Poll
<1>3. /\ state' \in [Session -> SessionState]
      /\ stale' \subseteq Session
      /\ \E l \in Label : Goto(p, l)
  <2>1. CASE Transition(sess[p], DoneState(p)) /\ GiveUp(p)
    BY <2>1, SetStateTypes, GiveUpLabel
       DEF Transition, DoneState, SessionState, GiveUp
  <2>2. CASE Recover(p)
    BY <1>1, <2>2, RecoverTypes
  <2>3. CASE OutcomeUnknown(p)
    BY <2>3, UnknownTypes
  <2> QED BY <2>1, <2>2, <2>3 DEF Poll, LostJob, LostResult
<1> QED BY <1>1, <1>2, <1>3, GotoTypes
        DEF TypeOK, HostTypeOK, Poll, hostVars, fileVars

(* A commit is admitted, or turned away.                                   *)
LEMMA CommitCheckTypes ==
  ASSUME TypeOK, NEW p \in Worker, CommitCheck(p)
  PROVE  TypeOK'
<1>1. pc[p] # "idle" /\ sess[p] \in Session
  BY SessionOfWorker DEF CommitCheck
<1>2. loc' \in [Worker -> Local] /\ \E l \in Label : Goto(p, l)
  BY <1>1, AdmitTypes, LocOK DEF CommitCheck, Label, TypeOK
<1> QED BY <1>1, <1>2, ReadTypes DEF CommitCheck

(* The change summary and the XPaths are compared.                         *)
LEMMA CommitReadTypes ==
  ASSUME TypeOK, NEW p \in Worker, CommitProof(p) \/ CommitTargets(p)
  PROVE  TypeOK'
<1>1. pc[p] # "idle" /\ \E l \in Label : Goto(p, l)
  BY GiveUpLabel DEF CommitProof, CommitTargets, GiveUp, Label
<1> QED BY <1>1, LocOK, ReadTypes DEF CommitProof, CommitTargets

(* What the live state is compared with is a guard.                        *)
LEMMA BasisType ==
  ASSUME TypeOK, NEW p \in Worker, sess[p] \in Session
  PROVE  Basis(p) \in Guard /\ review[sess[p]] \in Review
<1>1. review[sess[p]] \in Review /\ preguard[sess[p]] \in Guard
  BY DEF TypeOK
<1> QED BY <1>1 DEF Basis, Review

(* The guard of the snapshot is recorded with a fresh change summary.      *)
LEMMA CommitProof2Types ==
  ASSUME TypeOK, NEW p \in Worker, CommitProof2(p)
  PROVE  TypeOK'
<1>1. pc[p] # "idle" /\ sess[p] \in Session
  BY SessionOfWorker DEF CommitProof2
<1>2. preguard' \in [Session -> Guard]
  <2>1. ChangeSummary \in Native
    BY LiveTrees DEF ChangeSummary, Native
  <2>2. [Basis(p) EXCEPT !.native = ChangeSummary] \in Guard
    BY <1>1, <2>1, BasisType DEF Guard
  <2>3. \/ preguard' = preguard
        \/ preguard' = [preguard EXCEPT ![sess[p]] =
                          [Basis(p) EXCEPT !.native = ChangeSummary]]
    BY DEF CommitProof2, RecordGuard
  <2> QED BY <2>2, <2>3 DEF TypeOK
<1>3. /\ state' \in [Session -> SessionState]
      /\ stale' \subseteq Session
      /\ \E l \in Label : Goto(p, l)
  <2>1. CASE BeginJob(p)
    BY <2>1, BeginTypes
  <2>2. CASE /\ UNCHANGED state
             /\ stale' \in {stale, Rewritten(sess[p])}
             /\ GiveUp(p) \/ Goto(p, "fetchCandidate")
    BY <2>2, RewrittenTypes, GiveUpLabel DEF TypeOK, GiveUp, Label
  <2> QED BY <2>1, <2>2 DEF CommitProof2
<1> QED BY <1>1, <1>2, <1>3, GotoTypes
        DEF TypeOK, HostTypeOK, CommitProof2, hostVars, fileVars

(* The candidate is kept as a snapshot, or the download fails.             *)
LEMMA CommitFetchTypes ==
  ASSUME TypeOK, NEW p \in Worker, CommitFetchCandidate(p)
  PROVE  TypeOK'
<1>1. pc[p] # "idle" /\ sess[p] \in Session
  BY SessionOfWorker DEF CommitFetchCandidate
<1>2. preguard' \in [Session -> Guard]
  <2>1. \A t \in Tree : \A g \in Guard : [g EXCEPT !.snap = t] \in Guard
    BY DEF Guard
  <2>2. preguard[sess[p]] \in Guard
    BY <1>1 DEF TypeOK
  <2>3. \/ preguard' = preguard
        \/ preguard' = [preguard EXCEPT ![sess[p]] =
                          [preguard[sess[p]] EXCEPT !.snap = candidate]]
    BY DEF CommitFetchCandidate
  <2> QED BY <2>1, <2>2, <2>3, LiveTrees DEF TypeOK
<1>3. loc' \in [Worker -> Local]
  BY LocalTypes, LiveTrees, LocOK DEF CommitFetchCandidate
<1>4. stale' \subseteq Session
  BY RewrittenTypes DEF TypeOK, CommitFetchCandidate
<1>5. \E l \in Label : Goto(p, l)
  BY GiveUpLabel DEF CommitFetchCandidate, GiveUp, Label
<1> QED BY <1>1, <1>2, <1>3, <1>4, <1>5, GotoTypes
        DEF TypeOK, HostTypeOK, CommitFetchCandidate, hostVars, fileVars

(* The guard is worked out on the downloaded candidate and recorded.       *)
LEMMA CommitGuardTypes ==
  ASSUME TypeOK, NEW p \in Worker, CommitGuard(p)
  PROVE  TypeOK'
<1>1. pc[p] # "idle" /\ sess[p] \in Session /\ loc[p] \in Local
  BY SessionOfWorker DEF CommitGuard
<1>2. PICK native \in Summaries :
        RecordGuard(p, GuardOf(sess[p], review[sess[p]].run, loc[p].view, native))
  BY DEF CommitGuard
<1>3. preguard' \in [Session -> Guard]
  <2>1. review[sess[p]].run \in Tree /\ loc[p].view \in Tree
    BY <1>1, BasisType DEF Review, Local
  <2>2. GuardOf(sess[p], review[sess[p]].run, loc[p].view, native) \in Guard
    BY <1>1, <2>1, SummariesType, GuardType DEF TypeOK
  <2> QED BY <1>2, <2>2 DEF TypeOK, RecordGuard
<1>4. /\ state' \in [Session -> SessionState]
      /\ stale' \subseteq Session
      /\ \E l \in Label : Goto(p, l)
  <2>1. CASE BeginJob(p)
    BY <2>1, BeginTypes
  <2>2. CASE /\ UNCHANGED state
             /\ stale' = Rewritten(sess[p])
             /\ GiveUp(p) \/ Goto(p, "runningProof")
    BY <2>2, RewrittenTypes, GiveUpLabel DEF TypeOK, GiveUp, Label
  <2> QED BY <2>1, <2>2 DEF CommitGuard
<1> QED BY <1>1, <1>3, <1>4, GotoTypes
        DEF TypeOK, HostTypeOK, CommitGuard, hostVars, fileVars

(* Running is compared instead, and the job begun or not.                  *)
LEMMA CommitRunningTypes ==
  ASSUME TypeOK, NEW p \in Worker, CommitRunning(p)
  PROVE  TypeOK'
<1>1. pc[p] # "idle"
  BY DEF CommitRunning
<1>2. /\ state' \in [Session -> SessionState]
      /\ stale' \subseteq Session
      /\ \E l \in Label : Goto(p, l)
  <2>1. CASE BeginJob(p)
    BY <2>1, BeginTypes
  <2>2. CASE GiveUp(p) /\ UNCHANGED <<state, stale>>
    BY <2>2, GiveUpLabel DEF TypeOK, GiveUp
  <2> QED BY <2>1, <2>2 DEF CommitRunning
<1> QED BY <1>1, <1>2, GotoTypes
        DEF TypeOK, HostTypeOK, CommitRunning, hostVars, fileVars

(* A push is admitted, or turned away.                                     *)
LEMMA PushCheckTypes ==
  ASSUME TypeOK, NEW p \in Worker, PushCheck(p)
  PROVE  TypeOK'
<1>1. pc[p] # "idle" /\ loc' \in [Worker -> Local] /\ \E l \in Label : Goto(p, l)
  BY AdmitTypes, LocOK DEF PushCheck, SessionState, Label
<1> QED BY <1>1, ReadTypes DEF PushCheck

(* What was committed is still in running, or the push is a conflict.      *)
LEMMA PushRunningTypes ==
  ASSUME TypeOK, NEW p \in Worker, PushRunning(p)
  PROVE  TypeOK'
<1>1. pc[p] # "idle"
  BY DEF PushRunning
<1>2. /\ state' \in [Session -> SessionState]
      /\ stale' \subseteq Session
      /\ \E l \in Label : Goto(p, l)
  <2>1. CASE BeginJob(p)
    BY <2>1, BeginTypes
  <2>2. CASE Transition(sess[p], "CONFLICT") /\ GiveUp(p)
    BY <2>2, SetStateTypes, GiveUpLabel DEF Transition, GiveUp, SessionState
  <2>3. CASE GiveUp(p) /\ UNCHANGED <<state, stale>>
    BY <2>3, GiveUpLabel DEF TypeOK, GiveUp
  <2> QED BY <2>1, <2>2, <2>3 DEF PushRunning
<1> QED BY <1>1, <1>2, GotoTypes
        DEF TypeOK, HostTypeOK, PushRunning, hostVars, fileVars

(***************************************************************************)
(* The theorem.                                                            *)
(***************************************************************************)

(* Every step of a stage that has been asked for.                          *)
LEMMA StageTypes ==
  ASSUME TypeOK, StageFits, NEW p \in Worker, StageStep(p)
  PROVE  TypeOK'
<1>1. CASE EnterHost(p) \/ AcquireLock(p) \/ FetchRunning(p)
             \/ ReleaseLock(p) \/ LeaveStage(p)
  BY <1>1, EnterTypes, AcquireTypes, FetchRunningTypes, ReleaseTypes, LeaveTypes
<1>2. CASE ApplyStep(p)
  BY <1>2, ApplyTypes
<1>3. CASE ReviewStep(p)
  BY <1>3, ReviewCheckTypes, ReviewFetchTypes, BuildReviewTypes DEF ReviewStep
<1>4. CASE ReconcileStep(p)
  BY <1>4, ReconcileCheckTypes, ReconcileRunningTypes, ReconcileTargetsTypes,
     ReconcileFetchTypes DEF ReconcileStep
<1>5. CASE CommitStep(p)
  BY <1>5, CommitCheckTypes, CommitReadTypes, CommitProof2Types,
     CommitFetchTypes, CommitGuardTypes, CommitRunningTypes DEF CommitStep
<1>6. CASE PushStep(p)
  BY <1>6, PushCheckTypes, PushRunningTypes DEF PushStep
<1>7. CASE JobStep(p)
  BY <1>7, DispatchTypes, PollTypes DEF JobStep
<1> QED BY <1>1, <1>2, <1>3, <1>4, <1>5, <1>6, <1>7 DEF StageStep

(* No step of a stage leads to a label of another one.                     *)
LEMMA StageStepFits ==
  ASSUME TypeOK, StageFits, NEW p \in Worker, StageStep(p)
  PROVE  StageFits'
<1>1. CASE EnterHost(p)
  BY <1>1, IdleFits, GotoFits DEF EnterHost, Fits
<1>2. CASE LeaveStage(p)
  BY <1>2, IdleFits DEF LeaveStage
<1>3. CASE AcquireLock(p) \/ FetchRunning(p) \/ ReleaseLock(p)
  <2>1. \E l \in {"lock", "running", "proof", "leave", "release",
                  "fetchCandidate"} : Goto(p, l)
    BY <1>3, GiveUpLabel
       DEF AcquireLock, FetchRunning, ReleaseLock, GiveUp, OutcomeUnknown
  <2>2. UNCHANGED stage
    BY <1>3 DEF AcquireLock, FetchRunning, ReleaseLock
  <2> QED BY <2>1, <2>2, AnyStage, GotoFits
<1> QED BY <1>1, <1>2, <1>3, ApplyFits, ReadFits, JobFits DEF StageStep

(* The type invariant and the stage of every label are kept by every step. *)
LEMMA NextTypes ==
  ASSUME TypeOK, StageFits, [Next]_vars
  PROVE  TypeOK' /\ StageFits'
<1>1. ASSUME NEW p \in Worker, WorkerStep(p)
      PROVE  TypeOK' /\ StageFits'
  <2>1. CASE \E s \in Session, st \in Requests : RequestStage(p, s, st)
    <3>1. PICK s \in Session, st \in Requests : RequestStage(p, s, st)
      BY <2>1
    <3>2. Goto(p, "marker") /\ stage' = [stage EXCEPT ![p] = st]
      BY <3>1 DEF RequestStage
    <3>3. StageFits'
      BY <3>2 DEF Goto, TypeOK, StageFits, Fits
    <3> QED BY <3>1, <3>3, RequestTypes
  <2>2. CASE StageStep(p)
    BY <2>2, StageTypes, StageStepFits
  <2>3. CASE Interrupt(p) \/ Crash(p)
    <3>1. BecomeIdle(p)
      BY <2>3 DEF Interrupt, Crash, EndProcess
    <3>2. TypeOK'
      BY <2>3, InterruptTypes, CrashTypes
    <3> QED BY <3>1, <3>2, IdleFits
  <2>4. CASE Restart(p)
    BY <2>4, RestartTypes DEF Restart, StageFits
  <2> QED BY <1>1, <2>1, <2>2, <2>3, <2>4 DEF WorkerStep
<1>2. CASE HostStep
  BY <1>2, EditTypes, CommitElsewhereTypes, FinishTypes
     DEF HostStep, workerVars, StageFits
<1>3. CASE ManualReconciliation
  BY <1>3, ManualTypes DEF ManualReconciliation, workerVars, StageFits
<1>4. CASE UNCHANGED vars
  BY <1>4 DEF vars, hostVars, manifestVars, fileVars, workerVars, TypeOK,
              HostTypeOK, StageFits
<1> QED BY <1>1, <1>2, <1>3, <1>4 DEF Next

(* In every behaviour of the engine every variable has its type, and a     *)
(* worker is only at labels of the stage it runs.                          *)
THEOREM TypesHold == Spec => [](TypeOK /\ StageFits)
<1>1. Init => TypeOK /\ StageFits
  BY InitTypes DEF Init, StageFits, Fits
<1>2. TypeOK /\ StageFits /\ [Next]_vars => TypeOK' /\ StageFits'
  BY NextTypes
<1> QED BY <1>1, <1>2, PTL DEF Spec

(* In every behaviour of the engine every variable has its type.           *)
THEOREM TypeCorrect == Spec => []TypeOK
  BY TypesHold, PTL

(***************************************************************************)
(* The marker and the ledger.                                              *)
(***************************************************************************)

(* A worker that has taken the host marker holds it.                       *)
BusyHoldsMarker == \A p \in Worker : Busy(p) => marker = sess[p]

(* A worker that runs a stage holds the operation lock of its session.     *)
RunsUnderLock == \A p \in Worker : pc[p] # "idle" => sess[p] \in opHeld

(* No two workers run a stage of the same session.                         *)
SessionsApart ==
  \A p, q \in Worker :
    pc[p] # "idle" /\ pc[q] # "idle" /\ sess[p] = sess[q] => p = q

(* The inductive invariant: the marker covers open sessions because only   *)
(* its holder can open one.                                                *)
MarkerInv ==
  /\ BusyHoldsMarker
  /\ RunsUnderLock
  /\ SessionsApart
  /\ MarkerCoversUnresolved

(* What a step between the entry into a stage and its end does to the      *)
(* files: nothing, but for the manifest state of its own session.          *)
Quiet(p) ==
  /\ Busy(p)
  /\ \E l \in Label \ {"idle", "marker"} : Goto(p, l)
  /\ \E new \in SessionState : state' = [state EXCEPT ![sess[p]] = new]
  /\ UNCHANGED <<fileVars, stage, sess, faults>>

(* Steps that leave the manifest state alone are of that form.             *)
LEMMA KeptState ==
  ASSUME TypeOK, NEW p \in Worker, sess[p] \in Session, UNCHANGED state
  PROVE  \E new \in SessionState : state' = [state EXCEPT ![sess[p]] = new]
<1>1. state[sess[p]] \in SessionState
  BY DEF TypeOK
<1>2. state' = [state EXCEPT ![sess[p]] = state[sess[p]]]
  BY DEF TypeOK
<1> QED BY <1>1, <1>2

(* So are steps that record a new state.                                   *)
LEMMA MovedState ==
  ASSUME NEW p \in Worker, NEW new \in SessionState, SetState(sess[p], new)
  PROVE  \E n \in SessionState : state' = [state EXCEPT ![sess[p]] = n]
  BY DEF SetState

(* A step to another label that keeps the files and either keeps or        *)
(* records the manifest state is quiet.                                    *)
LEMMA QuietRule ==
  ASSUME TypeOK, NEW p \in Worker, Busy(p),
         NEW l \in Label \ {"idle", "marker"}, Goto(p, l),
         \/ UNCHANGED state
         \/ \E new \in SessionState : SetState(sess[p], new),
         UNCHANGED <<fileVars, stage, sess, faults>>
  PROVE  Quiet(p)
<1>1. sess[p] \in Session
  BY SessionOfWorker DEF Busy
<1> QED BY <1>1, KeptState, MovedState DEF Quiet

(* Labels that a stage goes on to.                                         *)
LEMMA OnwardLabels ==
  /\ \A got : AfterRelease(got) \in Label \ {"idle", "marker"}
  /\ {"check", "lock", "proof", "fetchRunning", "fetchCandidate", "decide",
      "snapshot", "write", "validate", "post", "review", "undo", "targets",
      "proof2", "guard", "runningProof", "dispatch", "poll", "running",
      "release", "leave"} \subseteq Label \ {"idle", "marker"}
  BY DEF AfterRelease, Label

(* Every step of the apply stage is quiet.                                 *)
LEMMA ApplyQuiet ==
  ASSUME TypeOK, NEW p \in Worker, ApplyStep(p)
  PROVE  Quiet(p)
<1> USE OnwardLabels, QuietRule
<1>1. CASE ApplyCheck(p) \/ ReadProof(p) \/ ApplyFetchCandidate(p)
  BY <1>1 DEF ApplyCheck, ReadProof, ApplyFetchCandidate, Admit, GiveUp, Busy,
              manifestVars
<1>2. CASE Decide(p)
  BY <1>2 DEF Decide, Transition, GiveUp, Busy, SessionState
<1>3. CASE SaveSnapshot(p)
  BY <1>3 DEF SaveSnapshot, OutcomeUnknown, Busy, SessionState
<1>4. CASE WriteOperation(p)
  BY <1>4 DEF WriteOperation, OutcomeUnknown, Busy, SessionState
<1>5. CASE Validate(p) \/ CheckPost(p)
  BY <1>5 DEF Validate, CheckPost, Busy
<1>6. CASE BuildApplyReview(p)
  BY <1>6 DEF BuildApplyReview, Transition, GiveUp, Busy, Outcome, SessionState
<1>7. CASE UndoOperation(p)
  <2>1. CASE UNCHANGED <<state, pc>>
    <3>1. Goto(p, "undo")
      BY <1>7, <2>1 DEF UndoOperation, Goto, TypeOK
    <3> QED BY <1>7, <2>1, <3>1 DEF UndoOperation, Busy
  <2>2. CASE OutcomeUnknown(p)
    BY <1>7, <2>2 DEF UndoOperation, OutcomeUnknown, Busy, SessionState
  <2> QED BY <1>7, <2>1, <2>2 DEF UndoOperation
<1>8. CASE UndoCheck(p)
  BY <1>8 DEF UndoCheck, OutcomeUnknown, GiveUp, Busy, SessionState
<1> QED BY <1>1, <1>2, <1>3, <1>4, <1>5, <1>6, <1>7, <1>8 DEF ApplyStep

(* So is every step of the stages that only read.                          *)
LEMMA ReadQuiet ==
  ASSUME TypeOK, NEW p \in Worker, ReviewStep(p) \/ ReconcileStep(p)
  PROVE  Quiet(p)
<1> USE OnwardLabels, QuietRule
<1>1. CASE ReviewStep(p)
  BY <1>1 DEF ReviewStep, ReviewCheck, ReviewFetchCandidate, BuildReview,
              GiveUp, Busy, manifestVars
<1>2. CASE ReconcileCheck(p) \/ ReconcileTargets(p)
  BY <1>2 DEF ReconcileCheck, ReconcileTargets, Busy, manifestVars
<1>3. CASE ReconcileRunning(p) \/ ReconcileFetchCandidate(p)
  BY <1>3 DEF ReconcileRunning, ReconcileFetchCandidate, RecordExternal, Busy,
              SessionState
<1> QED BY <1>1, <1>2, <1>3 DEF ReconcileStep

(* So is every step of commit and push.                                    *)
LEMMA JobQuiet ==
  ASSUME TypeOK, NEW p \in Worker, CommitStep(p) \/ PushStep(p) \/ JobStep(p)
  PROVE  Quiet(p)
<1> USE OnwardLabels, QuietRule
<1>1. CASE CommitCheck(p) \/ CommitProof(p) \/ CommitTargets(p) \/ PushCheck(p)
  BY <1>1 DEF CommitCheck, CommitProof, CommitTargets, PushCheck, Admit, GiveUp,
              Busy, manifestVars
<1>2. CASE CommitProof2(p) \/ CommitGuard(p) \/ CommitRunning(p)
  BY <1>2 DEF CommitProof2, CommitGuard, CommitRunning, BeginJob, DuringState,
              Transition, GiveUp, Busy, SessionState
<1>3. CASE CommitFetchCandidate(p)
  BY <1>3 DEF CommitFetchCandidate, GiveUp, Busy
<1>4. CASE PushRunning(p)
  BY <1>4 DEF PushRunning, BeginJob, DuringState, Transition, GiveUp, Busy,
              SessionState
<1>5. CASE Dispatch(p) \/ Poll(p)
  <2>1. Busy(p) /\ loc[p].back \in SessionState
    BY <1>5, SessionOfWorker DEF Dispatch, Poll, Busy, Local
  <2>2. UNCHANGED <<fileVars, stage, sess, faults>>
    BY <1>5 DEF Dispatch, Poll
  <2>3. CASE Recover(p)
    BY <2>1, <2>2, <2>3 DEF Recover, GiveUp
  <2>4. CASE OutcomeUnknown(p)
    BY <2>1, <2>2, <2>4 DEF OutcomeUnknown, SessionState
  <2>5. CASE Transition(sess[p], DoneState(p)) /\ GiveUp(p)
    BY <2>1, <2>2, <2>5 DEF Transition, DoneState, GiveUp, SessionState
  <2>6. CASE UNCHANGED state /\ Goto(p, "poll")
    BY <2>1, <2>2, <2>6
  <2> QED BY <1>5, <2>3, <2>4, <2>5, <2>6 DEF Dispatch, Poll, LostJob, LostResult
<1> QED BY <1>1, <1>2, <1>3, <1>4, <1>5 DEF CommitStep, PushStep, JobStep

(* A step of a stage takes the marker, gives it back, or is quiet.         *)
LEMMA StageQuiet ==
  ASSUME TypeOK, NEW p \in Worker, StageStep(p)
  PROVE  EnterHost(p) \/ LeaveStage(p) \/ Quiet(p)
<1> USE OnwardLabels, QuietRule
<1>1. CASE AcquireLock(p)
  BY <1>1 DEF AcquireLock, OutcomeUnknown, GiveUp, Busy, SessionState
<1>2. CASE FetchRunning(p) \/ ReleaseLock(p)
  BY <1>2 DEF FetchRunning, ReleaseLock, GiveUp, Busy, manifestVars
<1> QED BY <1>1, <1>2, ApplyQuiet, ReadQuiet, JobQuiet DEF StageStep

(***************************************************************************)
(* The marker invariant, step by step.                                     *)
(***************************************************************************)

(* Two workers past the marker would share its session.                    *)
LEMMA OneBusy ==
  ASSUME BusyHoldsMarker, SessionsApart,
         NEW p \in Worker, NEW q \in Worker, Busy(p), Busy(q)
  PROVE  p = q
  BY DEF BusyHoldsMarker, SessionsApart, Busy

(* A quiet step moves only the manifest that the marker names.             *)
LEMMA QuietMarker ==
  ASSUME TypeOK, MarkerInv, NEW p \in Worker, Quiet(p)
  PROVE  MarkerInv'
<1>1. PICK l \in Label \ {"idle", "marker"} : Goto(p, l)
  BY DEF Quiet
<1>2. \A q \in Worker : /\ pc'[q] # "idle" <=> pc[q] # "idle"
                        /\ Busy(q)' <=> Busy(q)
  BY <1>1 DEF TypeOK, Goto, Busy, Quiet
<1>3. BusyHoldsMarker' /\ RunsUnderLock' /\ SessionsApart'
  BY <1>2 DEF MarkerInv, BusyHoldsMarker, RunsUnderLock, SessionsApart, Quiet,
              fileVars
<1>4. MarkerCoversUnresolved'
  <2>1. marker = sess[p]
    BY DEF MarkerInv, BusyHoldsMarker, Quiet
  <2>2. \A s \in Session : s # sess[p] => state'[s] = state[s]
    BY DEF TypeOK, Quiet
  <2> QED BY <2>1, <2>2 DEF MarkerInv, MarkerCoversUnresolved, Quiet, fileVars
<1> QED BY <1>3, <1>4 DEF MarkerInv

(* A worker is given a session nobody else runs a stage of.                *)
LEMMA RequestMarker ==
  ASSUME TypeOK, MarkerInv, NEW p \in Worker, NEW s \in Session,
         NEW st \in Requests, RequestStage(p, s, st)
  PROVE  MarkerInv'
<1>1. /\ pc[p] = "idle" /\ s \notin opHeld
      /\ opHeld' = opHeld \cup {s}
      /\ pc' = [pc EXCEPT ![p] = "marker"]
      /\ sess' = [sess EXCEPT ![p] = s]
      /\ UNCHANGED <<state, marker, cleared>>
  BY DEF RequestStage, Goto, manifestVars
<1>2. BusyHoldsMarker'
  BY <1>1 DEF TypeOK, MarkerInv, BusyHoldsMarker, Busy
<1>3. RunsUnderLock'
  BY <1>1 DEF TypeOK, MarkerInv, RunsUnderLock
<1>4. SessionsApart'
  BY <1>1 DEF TypeOK, MarkerInv, RunsUnderLock, SessionsApart
<1>5. MarkerCoversUnresolved'
  BY <1>1 DEF MarkerInv, MarkerCoversUnresolved
<1> QED BY <1>2, <1>3, <1>4, <1>5 DEF MarkerInv

(* A worker that becomes idle gives up the lock of its session only.       *)
LEMMA IdleMarker ==
  ASSUME TypeOK, MarkerInv, NEW p \in Worker, pc[p] # "idle", BecomeIdle(p),
         opHeld' = opHeld \/ opHeld' = opHeld \ {sess[p]},
         UNCHANGED marker \/ Busy(p)
  PROVE  BusyHoldsMarker' /\ RunsUnderLock' /\ SessionsApart'
<1>1. /\ pc' = [pc EXCEPT ![p] = "idle"]
      /\ sess' = [sess EXCEPT ![p] = NoSession]
  BY DEF BecomeIdle, Goto
<1>2. \A q \in Worker : pc'[q] # "idle" =>
        q # p /\ pc'[q] = pc[q] /\ sess'[q] = sess[q]
  BY <1>1 DEF TypeOK
<1>3. BusyHoldsMarker'
  <2>1. SUFFICES ASSUME NEW q \in Worker, Busy(q)'
                 PROVE  marker' = sess'[q]
    BY DEF BusyHoldsMarker
  <2>2. q # p /\ Busy(q) /\ sess'[q] = sess[q]
    BY <1>2, <2>1 DEF Busy
  <2>3. UNCHANGED marker
    BY <2>2, OneBusy DEF MarkerInv
  <2> QED BY <2>2, <2>3 DEF MarkerInv, BusyHoldsMarker
<1>4. RunsUnderLock'
  BY <1>2 DEF MarkerInv, RunsUnderLock, SessionsApart
<1>5. SessionsApart'
  BY <1>2 DEF MarkerInv, SessionsApart
<1> QED BY <1>3, <1>4, <1>5

(* The marker is taken only when no session is open.                       *)
LEMMA EnterMarker ==
  ASSUME TypeOK, MarkerInv, NEW p \in Worker, EnterHost(p)
  PROVE  MarkerInv'
<1>1. CASE HostFree
  <2>1. /\ pc[p] = "marker" /\ marker = NoSession /\ marker' = sess[p]
        /\ pc' = [pc EXCEPT ![p] = "check"]
        /\ UNCHANGED <<opHeld, sess, state, cleared>>
    BY <1>1 DEF EnterHost, HostFree, Goto, manifestVars
  <2>2. \A q \in Worker : ~Busy(q)
    <3>1. SUFFICES ASSUME NEW q \in Worker, Busy(q) PROVE FALSE
      OBVIOUS
    <3>2. sess[q] = NoSession /\ sess[q] \in Session
      BY <2>1, <3>1, SessionOfWorker DEF MarkerInv, BusyHoldsMarker, Busy
    <3> QED BY <3>2, EngineConstants
  <2>3. BusyHoldsMarker'
    BY <2>1, <2>2 DEF TypeOK, BusyHoldsMarker, Busy
  <2>4. RunsUnderLock' /\ SessionsApart'
    BY <2>1 DEF TypeOK, MarkerInv, RunsUnderLock, SessionsApart
  <2>5. MarkerCoversUnresolved'
    BY <2>1, EngineConstants DEF MarkerInv, MarkerCoversUnresolved
  <2> QED BY <2>3, <2>4, <2>5 DEF MarkerInv
<1>2. CASE ~HostFree
  <2>1. /\ pc[p] # "idle" /\ BecomeIdle(p)
        /\ opHeld' = opHeld \ {sess[p]}
        /\ UNCHANGED <<marker, state, cleared>>
    BY <1>2 DEF EnterHost, manifestVars
  <2>2. MarkerCoversUnresolved'
    BY <2>1 DEF MarkerInv, MarkerCoversUnresolved
  <2> QED BY <2>1, <2>2, IdleMarker DEF MarkerInv
<1> QED BY <1>1, <1>2

(* A stage that ends with its session open leaves the marker.              *)
LEMMA LeaveMarker ==
  ASSUME TypeOK, MarkerInv, NEW p \in Worker, LeaveStage(p)
  PROVE  MarkerInv'
<1>1. /\ pc[p] # "idle" /\ Busy(p) /\ BecomeIdle(p)
      /\ opHeld' = opHeld \ {sess[p]}
      /\ marker' = IF state[sess[p]] \in Unresolved THEN marker ELSE NoSession
      /\ UNCHANGED <<state, cleared>>
  BY DEF LeaveStage, KeepsMarker, Busy, manifestVars
<1>2. marker = sess[p]
  BY <1>1 DEF MarkerInv, BusyHoldsMarker
<1>3. MarkerCoversUnresolved'
  BY <1>1, <1>2 DEF MarkerInv, MarkerCoversUnresolved
<1> QED BY <1>1, <1>3, IdleMarker DEF MarkerInv

(* An interrupted worker opens at most the session it holds the marker of. *)
LEMMA InterruptMarker ==
  ASSUME TypeOK, MarkerInv, NEW p \in Worker, Interrupt(p)
  PROVE  MarkerInv'
<1>1. /\ pc[p] # "idle" /\ BecomeIdle(p)
      /\ opHeld' = opHeld \ {sess[p]}
      /\ UNCHANGED <<marker, cleared>>
  BY DEF Interrupt, EndProcess
<1>2. \/ UNCHANGED state
      \/ Busy(p) /\ state' = [state EXCEPT ![sess[p]] = "OUTCOME_UNKNOWN"]
  BY DEF Interrupt, InTry, SetState
<1>3. MarkerCoversUnresolved'
  <2>1. CASE UNCHANGED state
    BY <1>1, <2>1 DEF MarkerInv, MarkerCoversUnresolved
  <2>2. CASE Busy(p) /\ state' = [state EXCEPT ![sess[p]] = "OUTCOME_UNKNOWN"]
    <3>1. marker = sess[p]
      BY <2>2 DEF MarkerInv, BusyHoldsMarker
    <3> QED BY <1>1, <2>2, <3>1 DEF TypeOK, MarkerInv, MarkerCoversUnresolved
  <2> QED BY <1>2, <2>1, <2>2
<1> QED BY <1>1, <1>3, IdleMarker DEF MarkerInv

(* A killed worker leaves every file as it is.                             *)
LEMMA CrashMarker ==
  ASSUME TypeOK, MarkerInv, NEW p \in Worker, Crash(p)
  PROVE  MarkerInv'
<1>1. /\ pc[p] # "idle" /\ BecomeIdle(p)
      /\ UNCHANGED <<opHeld, marker, state, cleared>>
  BY DEF Crash, EndProcess, fileVars, manifestVars
<1>2. MarkerCoversUnresolved'
  BY <1>1 DEF MarkerInv, MarkerCoversUnresolved
<1> QED BY <1>1, <1>2, IdleMarker DEF MarkerInv

(* The operator removes the files when nobody works, and notes every open  *)
(* session as reconciled.                                                  *)
LEMMA ManualMarker ==
  ASSUME TypeOK, MarkerInv, ManualReconciliation
  PROVE  MarkerInv'
<1>1. /\ \A p \in Worker : pc'[p] = "idle"
      /\ cleared' = cleared \cup {s \in Session : state[s] \in Unresolved}
      /\ UNCHANGED state
  BY DEF ManualReconciliation, workerVars, manifestVars
<1> QED BY <1>1 DEF MarkerInv, BusyHoldsMarker, RunsUnderLock, SessionsApart,
                    MarkerCoversUnresolved, Busy

(* Every step keeps the marker invariant.                                  *)
LEMMA NextMarker ==
  ASSUME TypeOK, MarkerInv, [Next]_vars
  PROVE  MarkerInv'
<1>1. ASSUME NEW p \in Worker, WorkerStep(p)
      PROVE  MarkerInv'
  <2>1. CASE \E s \in Session, st \in Requests : RequestStage(p, s, st)
    BY <2>1, RequestMarker
  <2>2. CASE StageStep(p)
    BY <2>2, StageQuiet, EnterMarker, LeaveMarker, QuietMarker
  <2>3. CASE Interrupt(p) \/ Crash(p)
    BY <2>3, InterruptMarker, CrashMarker
  <2>4. CASE Restart(p)
    BY <2>4 DEF Restart, fileVars, manifestVars, MarkerInv, BusyHoldsMarker,
                RunsUnderLock, SessionsApart, MarkerCoversUnresolved, Busy
  <2> QED BY <1>1, <2>1, <2>2, <2>3, <2>4 DEF WorkerStep
<1>2. CASE HostStep \/ UNCHANGED vars
  <2>1. UNCHANGED <<manifestVars, fileVars, workerVars>>
    BY <1>2 DEF HostStep, vars
  <2> QED BY <2>1 DEF manifestVars, fileVars, workerVars, MarkerInv,
                      BusyHoldsMarker, RunsUnderLock, SessionsApart,
                      MarkerCoversUnresolved, Busy
<1>3. CASE ManualReconciliation
  BY <1>3, ManualMarker
<1> QED BY <1>1, <1>2, <1>3 DEF Next

(* In every behaviour of the engine a busy worker holds the marker, under  *)
(* the operation lock of a session nobody else runs.                       *)
THEOREM MarkerHolds == Spec => []MarkerInv
<1>1. Init => MarkerInv
  BY EngineConstants
     DEF Init, MarkerInv, BusyHoldsMarker, RunsUnderLock, SessionsApart,
         MarkerCoversUnresolved, Busy, Unresolved, InFlight
<1>2. TypeOK /\ MarkerInv /\ [Next]_vars => MarkerInv'
  BY NextMarker
<1> QED BY <1>1, <1>2, TypeCorrect, PTL DEF Spec

(* A session whose outcome is open keeps the host marker until an operator *)
(* has reconciled it, for any sessions, workers, crashes and interrupts.   *)
THEOREM OpenSessionsKeepMarker == Spec => []MarkerCoversUnresolved
<1>1. MarkerInv => MarkerCoversUnresolved
  BY DEF MarkerInv
<1> QED BY <1>1, MarkerHolds, PTL

(***************************************************************************)
(* The ledger                                                              *)
(***************************************************************************)
(* What a stage may find in its manifest at a label.                       *)
StateFitsAt(l, st) ==
  /\ l = "lock" => st \in {"PLANNED", "COMMITTED"} \cup Reviewable
  /\ l \in {"snapshot", "write", "validate", "post", "undo"} =>
       st \in {"WRITING_CANDIDATE", "RESTORING"}
  /\ l \in {"dispatch", "poll"} => st \in {"COMMITTING", "PUSHING"}

StateFits == \A p \in Worker : StateFitsAt(pc[p], state[sess[p]])

(* A move of a manifest that the ledger knows.                             *)
LegalMove(s) ==
  \/ UNCHANGED state
  \/ \E new \in SessionState :
       /\ \/ new \in Transitions[state[s]]
          \/ Recoverable(state[s], new)
          \/ External(state[s], new)
       /\ state' = [state EXCEPT ![s] = new]

(* A step between the entry into a stage and its end: it goes to a label   *)
(* whose state it leaves behind, by a legal move.                          *)
FittingStep(p) ==
  \E l \in Label :
    /\ Goto(p, l)
    /\ StateFitsAt(l, state'[sess[p]])
    /\ LegalMove(sess[p])

(* The table lets a stage that started give up as unknown, and one that    *)
(* writes give up as failed.                                               *)
LEMMA TerminalMoves ==
  /\ \A st \in InFlight \cup {"PLANNED", "COMMITTED"} \cup Reviewable :
       "OUTCOME_UNKNOWN" \in Transitions[st]
  /\ \A st \in {"WRITING_CANDIDATE", "RESTORING"} : "FAILED" \in Transitions[st]
  BY DEF Transitions, InFlight, Reviewable

(* A step that keeps the state, to a label without demands or from one     *)
(* with the same ones.                                                     *)
LEMMA KeptFits ==
  ASSUME NEW p \in Worker, NEW l \in Label, Goto(p, l), UNCHANGED state,
         StateFitsAt(l, state[sess[p]])
  PROVE  FittingStep(p)
<1>1. state'[sess[p]] = state[sess[p]]
  OBVIOUS
<1> QED BY <1>1 DEF FittingStep, LegalMove

(* A step that records a state the table admits.                           *)
LEMMA MovedFits ==
  ASSUME TypeOK, NEW p \in Worker, sess[p] \in Session,
         NEW l \in Label, Goto(p, l),
         NEW new \in SessionState, SetState(sess[p], new),
         \/ new \in Transitions[state[sess[p]]]
         \/ Recoverable(state[sess[p]], new)
         \/ External(state[sess[p]], new),
         StateFitsAt(l, new)
  PROVE  FittingStep(p)
<1>1. state' = [state EXCEPT ![sess[p]] = new]
  BY DEF SetState
<1>2. state'[sess[p]] = new
  BY <1>1 DEF TypeOK
<1>3. LegalMove(sess[p])
  BY <1>1 DEF LegalMove
<1> QED BY <1>2, <1>3 DEF FittingStep

(* Labels with no demand on the state.                                     *)
LEMMA FreeLabels ==
  ASSUME NEW st
  PROVE  /\ \A got : AfterRelease(got) \in Label
                     /\ StateFitsAt(AfterRelease(got), st)
         /\ \A l \in {"proof", "fetchRunning", "fetchCandidate", "decide",
                      "review", "targets", "proof2", "guard", "runningProof",
                      "running", "release", "leave"} :
              l \in Label /\ StateFitsAt(l, st)
  BY DEF AfterRelease, Label, StateFitsAt

(* Giving up without a record.                                             *)
LEMMA GiveUpFits ==
  ASSUME NEW p \in Worker, GiveUp(p), UNCHANGED state
  PROVE  FittingStep(p)
  BY FreeLabels, KeptFits DEF GiveUp

(* Giving up with a record that the table admits.                          *)
LEMMA RecordAndGiveUpFits ==
  ASSUME TypeOK, NEW p \in Worker, sess[p] \in Session, GiveUp(p),
         NEW new \in SessionState, SetState(sess[p], new),
         \/ new \in Transitions[state[sess[p]]]
         \/ Recoverable(state[sess[p]], new)
  PROVE  FittingStep(p)
  BY FreeLabels, MovedFits DEF GiveUp

(* Recording an unknown outcome, at a label where the table admits it.     *)
LEMMA UnknownFits ==
  ASSUME TypeOK, StateFits, NEW p \in Worker, sess[p] \in Session,
         pc[p] \in {"lock", "snapshot", "write", "validate", "post", "undo",
                    "dispatch", "poll"},
         OutcomeUnknown(p)
  PROVE  FittingStep(p)
<1>1. "OUTCOME_UNKNOWN" \in Transitions[state[sess[p]]]
  BY TerminalMoves DEF StateFits, StateFitsAt, InFlight
<1> QED BY <1>1, FreeLabels, MovedFits DEF OutcomeUnknown, SessionState

(* Recovery after a job that is known to have failed.                      *)
LEMMA RecoverFits ==
  ASSUME TypeOK, NEW p \in Worker, pc[p] # "idle", Recover(p)
  PROVE  FittingStep(p)
<1>1. sess[p] \in Session /\ loc[p].back \in SessionState
  BY SessionOfWorker DEF Local
<1> QED BY <1>1, RecordAndGiveUpFits DEF Recover

(* The start of a job.                                                     *)
LEMMA BeginFits ==
  ASSUME TypeOK, NEW p \in Worker, pc[p] # "idle", BeginJob(p)
  PROVE  FittingStep(p)
<1>1. /\ sess[p] \in Session /\ "dispatch" \in Label
      /\ DuringState(p) \in SessionState
      /\ StateFitsAt("dispatch", DuringState(p))
  BY SessionOfWorker DEF DuringState, SessionState, StateFitsAt, Label
<1> QED BY <1>1, MovedFits DEF BeginJob, Transition

(* A stage is admitted in a state that can still become unknown.           *)
LEMMA AdmitFits ==
  ASSUME NEW p \in Worker, NEW back, Admit(p, back), UNCHANGED state,
         state[sess[p]] \in {"PLANNED", "COMMITTED"} \cup Reviewable
  PROVE  FittingStep(p)
<1>1. "lock" \in Label /\ StateFitsAt("lock", state[sess[p]])
  BY DEF StateFitsAt, Label
<1> QED BY <1>1, KeptFits DEF Admit

(***************************************************************************)
(* The steps of the stages.                                                *)
(***************************************************************************)

(* Steps that only read, of any stage.                                     *)
LEMMA ReadingFits ==
  ASSUME NEW p \in Worker,
         \/ FetchRunning(p) \/ ReleaseLock(p) \/ ReadProof(p)
         \/ ApplyFetchCandidate(p) \/ ReviewStep(p) \/ ReconcileCheck(p)
         \/ ReconcileTargets(p) \/ CommitProof(p) \/ CommitTargets(p)
         \/ CommitFetchCandidate(p)
  PROVE  FittingStep(p)
<1>1. UNCHANGED state
  BY DEF FetchRunning, ReleaseLock, ReadProof, ApplyFetchCandidate, ReviewStep,
         ReviewCheck, ReviewFetchCandidate, BuildReview, ReconcileCheck,
         ReconcileTargets, CommitProof, CommitTargets, CommitFetchCandidate,
         manifestVars
<1>2. \/ \E got : Goto(p, AfterRelease(got))
      \/ \E l \in {"fetchRunning", "fetchCandidate", "decide", "review",
                   "targets", "proof2", "guard", "running", "leave"} : Goto(p, l)
  BY DEF FetchRunning, ReleaseLock, ReadProof, ApplyFetchCandidate, ReviewStep,
         ReviewCheck, ReviewFetchCandidate, BuildReview, ReconcileCheck,
         ReconcileTargets, CommitProof, CommitTargets, CommitFetchCandidate,
         GiveUp
<1> QED BY <1>1, <1>2, FreeLabels, KeptFits

(* Admission, or a refusal.                                                *)
LEMMA CheckingFits ==
  ASSUME NEW p \in Worker, ApplyCheck(p) \/ CommitCheck(p) \/ PushCheck(p)
  PROVE  FittingStep(p)
<1>1. UNCHANGED state
  BY DEF ApplyCheck, CommitCheck, PushCheck, manifestVars
<1>2. \/ Goto(p, "leave")
      \/ /\ \E back : Admit(p, back)
         /\ state[sess[p]] \in {"PLANNED", "COMMITTED"} \cup Reviewable
  BY DEF ApplyCheck, CommitCheck, PushCheck
<1> QED BY <1>1, <1>2, FreeLabels, KeptFits, AdmitFits

(* The config locks are acquired in the state the stage was admitted in.   *)
LEMMA AcquiringFits ==
  ASSUME TypeOK, StateFits, NEW p \in Worker, AcquireLock(p)
  PROVE  FittingStep(p)
<1>1. pc[p] = "lock" /\ sess[p] \in Session
  BY SessionOfWorker DEF AcquireLock
<1>2. StateFitsAt("lock", state[sess[p]]) /\ "lock" \in Label
  BY <1>1 DEF StateFits, Label
<1>3. \/ UNCHANGED state /\ (\E l \in {"lock", "running", "proof"} : Goto(p, l))
      \/ UNCHANGED state /\ GiveUp(p)
      \/ OutcomeUnknown(p)
  BY DEF AcquireLock
<1> QED BY <1>1, <1>2, <1>3, FreeLabels, KeptFits, GiveUpFits, UnknownFits

(* The decision to write moves the manifest first.                         *)
LEMMA DecidingFits ==
  ASSUME TypeOK, NEW p \in Worker, Decide(p)
  PROVE  FittingStep(p)
<1>1. sess[p] \in Session
  BY SessionOfWorker DEF Decide
<1>2. \/ GiveUp(p) /\ UNCHANGED state
      \/ GiveUp(p) /\ Transition(sess[p], "CONFLICT")
      \/ /\ Goto(p, "snapshot")
         /\ \E new \in {"RESTORING", "WRITING_CANDIDATE"} :
              Transition(sess[p], new)
  BY DEF Decide
<1>3. \A new \in {"RESTORING", "WRITING_CANDIDATE"} :
        new \in SessionState /\ StateFitsAt("snapshot", new)
  BY DEF SessionState, StateFitsAt
<1>4. "snapshot" \in Label /\ "CONFLICT" \in SessionState
  BY DEF Label, SessionState
<1> QED BY <1>1, <1>2, <1>3, <1>4, GiveUpFits, RecordAndGiveUpFits, MovedFits
        DEF Transition

(* Writing, checking and undoing keep the state, or end as unknown.        *)
LEMMA WritingFits ==
  ASSUME TypeOK, StateFits, NEW p \in Worker,
         \/ SaveSnapshot(p) \/ WriteOperation(p) \/ Validate(p) \/ CheckPost(p)
         \/ UndoOperation(p)
  PROVE  FittingStep(p)
<1>1. /\ pc[p] \in {"snapshot", "write", "validate", "post", "undo"}
      /\ sess[p] \in Session
  BY SessionOfWorker
     DEF SaveSnapshot, WriteOperation, Validate, CheckPost, UndoOperation
<1>2. /\ state[sess[p]] \in {"WRITING_CANDIDATE", "RESTORING"}
      /\ \A l \in {"write", "validate", "post", "undo", "review"} :
           l \in Label /\ StateFitsAt(l, state[sess[p]])
  BY <1>1 DEF StateFits, StateFitsAt, Label
<1>3. \/ OutcomeUnknown(p)
      \/ UNCHANGED state /\ (pc' = pc /\ pc[p] = "undo")
      \/ UNCHANGED state
         /\ \E l \in {"write", "validate", "post", "undo", "review"} : Goto(p, l)
  BY DEF SaveSnapshot, WriteOperation, Validate, CheckPost, UndoOperation
<1>4. pc' = pc /\ pc[p] = "undo" => Goto(p, "undo")
  BY DEF TypeOK, Goto
<1> QED BY <1>1, <1>2, <1>3, <1>4, KeptFits, UnknownFits

(* The apply stage ends with the state of its outcome, or as failed.       *)
LEMMA EndingFits ==
  ASSUME TypeOK, StateFits, NEW p \in Worker, BuildApplyReview(p) \/ UndoCheck(p)
  PROVE  FittingStep(p)
<1>1. sess[p] \in Session
  BY SessionOfWorker DEF BuildApplyReview, UndoCheck
<1>2. CASE BuildApplyReview(p)
  <2>1. GiveUp(p) /\ Transition(sess[p], Outcome(p)) /\ Outcome(p) \in SessionState
    BY <1>2 DEF BuildApplyReview, Outcome, SessionState
  <2> QED BY <1>1, <2>1, RecordAndGiveUpFits DEF Transition
<1>3. CASE UndoCheck(p)
  <2>1. pc[p] = "undo" /\ "FAILED" \in SessionState
    BY <1>3 DEF UndoCheck, SessionState
  <2>2. "FAILED" \in Transitions[state[sess[p]]]
    BY <2>1, TerminalMoves DEF StateFits, StateFitsAt
  <2>3. (GiveUp(p) /\ SetState(sess[p], "FAILED")) \/ OutcomeUnknown(p)
    BY <1>3 DEF UndoCheck
  <2> QED BY <1>1, <2>1, <2>2, <2>3, RecordAndGiveUpFits, UnknownFits
<1> QED BY <1>2, <1>3

(* What is admitted from outside the Toolbox is admitted by its own rule.  *)
LEMMA ExternalFits ==
  ASSUME TypeOK, NEW p \in Worker,
         ReconcileRunning(p) \/ ReconcileFetchCandidate(p)
  PROVE  FittingStep(p)
<1>1. sess[p] \in Session
  BY SessionOfWorker DEF ReconcileRunning, ReconcileFetchCandidate
<1>2. \E l \in {"leave", "targets", "fetchRunning", "review"} :
        /\ Goto(p, l)
        /\ \/ UNCHANGED state
           \/ \E new \in {"COMMITTED", "CANDIDATE_APPLIED"} :
                External(state[sess[p]], new) /\ SetState(sess[p], new)
  BY DEF ReconcileRunning, ReconcileFetchCandidate, RecordExternal
<1>3. {"COMMITTED", "CANDIDATE_APPLIED"} \subseteq SessionState
  BY DEF SessionState
<1> QED BY <1>1, <1>2, <1>3, FreeLabels, KeptFits, MovedFits

(* The last checks before a job begin it, or give up.                      *)
LEMMA ProvingFits ==
  ASSUME TypeOK, NEW p \in Worker,
         \/ CommitProof2(p) \/ CommitGuard(p) \/ CommitRunning(p)
         \/ PushRunning(p)
  PROVE  FittingStep(p)
<1>1. pc[p] # "idle" /\ sess[p] \in Session
  BY SessionOfWorker DEF CommitProof2, CommitGuard, CommitRunning, PushRunning
<1>2. \/ BeginJob(p)
      \/ GiveUp(p) /\ UNCHANGED state
      \/ GiveUp(p) /\ Transition(sess[p], "CONFLICT")
      \/ UNCHANGED state /\ \E l \in {"fetchCandidate", "runningProof"} : Goto(p, l)
  BY DEF CommitProof2, CommitGuard, CommitRunning, PushRunning
<1>3. "CONFLICT" \in SessionState
  BY DEF SessionState
<1> QED BY <1>1, <1>2, <1>3, BeginFits, GiveUpFits, RecordAndGiveUpFits,
           FreeLabels, KeptFits DEF Transition

(* A job is queued, seen to end, recovered from, or lost.                  *)
LEMMA JobFitsState ==
  ASSUME TypeOK, StateFits, NEW p \in Worker, JobStep(p)
  PROVE  FittingStep(p)
<1>1. pc[p] \in {"dispatch", "poll"} /\ sess[p] \in Session
  BY SessionOfWorker DEF JobStep, Dispatch, Poll
<1>2. \/ UNCHANGED state /\ Goto(p, "poll")
      \/ Recover(p)
      \/ OutcomeUnknown(p)
      \/ GiveUp(p) /\ Transition(sess[p], DoneState(p))
  BY DEF JobStep, Dispatch, Poll, LostJob, LostResult
<1>3. "poll" \in Label /\ StateFitsAt("poll", state[sess[p]])
  BY <1>1 DEF StateFits, StateFitsAt, Label
<1>4. DoneState(p) \in SessionState
  BY DEF DoneState, SessionState
<1> QED BY <1>1, <1>2, <1>3, <1>4, KeptFits, RecoverFits, UnknownFits,
           RecordAndGiveUpFits DEF Transition

(* Every step of a stage between its entry and its end fits.               *)
LEMMA StageStepFitsState ==
  ASSUME TypeOK, StateFits, NEW p \in Worker, StageStep(p)
  PROVE  EnterHost(p) \/ LeaveStage(p) \/ (Quiet(p) /\ FittingStep(p))
<1>1. ASSUME ~EnterHost(p), ~LeaveStage(p)
      PROVE  FittingStep(p)
  <2>1. CASE ApplyStep(p)
    BY <2>1, CheckingFits, ReadingFits, DecidingFits, WritingFits, EndingFits
       DEF ApplyStep
  <2>2. CASE ReviewStep(p) \/ ReconcileStep(p)
    BY <2>2, ReadingFits, ExternalFits DEF ReconcileStep
  <2>3. CASE CommitStep(p) \/ PushStep(p) \/ JobStep(p)
    BY <2>3, CheckingFits, ReadingFits, ProvingFits, JobFitsState
       DEF CommitStep, PushStep
  <2>4. CASE AcquireLock(p) \/ FetchRunning(p) \/ ReleaseLock(p)
    BY <2>4, AcquiringFits, ReadingFits
  <2> QED BY <1>1, <2>1, <2>2, <2>3, <2>4 DEF StageStep
<1> QED BY <1>1, StageQuiet

(***************************************************************************)
(* The state of every label is an invariant.                               *)
(***************************************************************************)

(* A worker that does not step keeps its state: while it is past the       *)
(* marker, nobody else moves a manifest.                                   *)
LEMMA OthersFit ==
  ASSUME MarkerInv, StateFits, NEW p \in Worker, NEW q \in Worker, q # p,
         pc'[q] = pc[q], sess'[q] = sess[q], UNCHANGED state \/ Busy(p)
  PROVE  StateFitsAt(pc[q], state'[sess[q]])
<1>1. CASE UNCHANGED state
  BY <1>1 DEF StateFits
<1>2. CASE Busy(p)
  <2>1. ~Busy(q)
    BY <1>2, OneBusy DEF MarkerInv
  <2> QED BY <2>1 DEF Busy, StateFitsAt
<1> QED BY <1>1, <1>2

(* A worker that goes to a label whose state it leaves behind.             *)
LEMMA GoingFits ==
  ASSUME TypeOK, MarkerInv, StateFits, NEW p \in Worker, NEW l,
         Goto(p, l), StateFitsAt(l, state'[sess'[p]]),
         \A q \in Worker \ {p} : sess'[q] = sess[q],
         UNCHANGED state \/ Busy(p)
  PROVE  StateFits'
<1>1. \A q \in Worker : pc'[q] = IF q = p THEN l ELSE pc[q]
  BY DEF TypeOK, Goto
<1>2. \A q \in Worker \ {p} : StateFitsAt(pc'[q], state'[sess'[q]])
  BY <1>1, OthersFit
<1> QED BY <1>1, <1>2 DEF StateFits

(* A worker that becomes idle.                                             *)
LEMMA IdleFitsState ==
  ASSUME TypeOK, MarkerInv, StateFits, NEW p \in Worker, BecomeIdle(p),
         UNCHANGED state \/ Busy(p)
  PROVE  StateFits'
<1>1. Goto(p, "idle") /\ \A q \in Worker \ {p} : sess'[q] = sess[q]
  BY DEF BecomeIdle, TypeOK
<1>2. StateFitsAt("idle", state'[sess'[p]])
  BY DEF StateFitsAt
<1> QED BY <1>1, <1>2, GoingFits

(* Every step keeps the state of every label.                              *)
LEMMA NextStateFits ==
  ASSUME TypeOK, MarkerInv, StateFits, [Next]_vars
  PROVE  StateFits'
<1>1. ASSUME NEW p \in Worker, WorkerStep(p)
      PROVE  StateFits'
  <2>1. ASSUME NEW s \in Session, NEW st \in Requests, RequestStage(p, s, st)
        PROVE  StateFits'
    <3>1. /\ Goto(p, "marker") /\ UNCHANGED state
          /\ \A q \in Worker \ {p} : sess'[q] = sess[q]
      BY <2>1 DEF RequestStage, manifestVars, TypeOK
    <3>2. StateFitsAt("marker", state'[sess'[p]])
      BY DEF StateFitsAt
    <3> QED BY <3>1, <3>2, GoingFits
  <2>2. CASE EnterHost(p)
    <3>1. StateFitsAt("check", state'[sess'[p]])
      BY DEF StateFitsAt
    <3>2. UNCHANGED state /\ (BecomeIdle(p) \/ (Goto(p, "check") /\ UNCHANGED sess))
      BY <2>2 DEF EnterHost, manifestVars
    <3> QED BY <3>1, <3>2, GoingFits, IdleFitsState
  <2>3. CASE LeaveStage(p)
    BY <2>3, IdleFitsState DEF LeaveStage, manifestVars
  <2>4. CASE Quiet(p) /\ FittingStep(p)
    <3>1. Busy(p) /\ UNCHANGED sess
      BY <2>4 DEF Quiet
    <3> QED BY <2>4, <3>1, GoingFits DEF FittingStep
  <2>5. CASE StageStep(p)
    BY <2>2, <2>3, <2>4, <2>5, StageStepFitsState
  <2>6. CASE Interrupt(p) \/ Crash(p)
    <3>1. BecomeIdle(p) /\ (UNCHANGED state \/ Busy(p))
      BY <2>6 DEF Interrupt, Crash, EndProcess, InTry, manifestVars
    <3> QED BY <3>1, IdleFitsState
  <2>7. CASE Restart(p)
    BY <2>7 DEF Restart, manifestVars, StateFits
  <2> QED BY <1>1, <2>1, <2>5, <2>6, <2>7 DEF WorkerStep
<1>2. CASE HostStep \/ ManualReconciliation \/ UNCHANGED vars
  BY <1>2 DEF HostStep, ManualReconciliation, vars, workerVars, manifestVars,
              StateFits
<1> QED BY <1>1, <1>2 DEF Next

(* In every behaviour the manifest says what the labels rely on.           *)
THEOREM StatesFit == Spec => []StateFits
<1>1. Init => StateFits
  BY DEF Init, StateFits, StateFitsAt
<1>2. TypeOK /\ MarkerInv /\ StateFits /\ [Next]_vars => StateFits'
  BY NextStateFits
<1> QED BY <1>1, <1>2, TypeCorrect, MarkerHolds, PTL DEF Spec

(***************************************************************************)
(* The refinement.                                                         *)
(***************************************************************************)

(* A step to idle that keeps files and state does not move the ledger;     *)
(* a legal move of the marker's session does, as the ledger allows.        *)
LEMMA LedgerMove ==
  ASSUME TypeOK, NEW s \in Session, marker = s, LegalMove(s),
         UNCHANGED <<marker, cleared>>
  PROVE  [Ledger!LedgerNext]_(Ledger!ledgerVars)
<1>1. CASE UNCHANGED state
  BY <1>1 DEF Ledger!ledgerVars
<1>2. CASE \E new \in SessionState :
             /\ \/ new \in Transitions[state[s]]
                \/ Recoverable(state[s], new)
                \/ External(state[s], new)
             /\ state' = [state EXCEPT ![s] = new]
  <2>1. Ledger!Move(s)
    BY <1>2 DEF Ledger!Move, Ledger!SessionState, Ledger!Transitions,
                Ledger!Recoverable, Ledger!External, Ledger!Reviewable,
                SessionState, Transitions, Recoverable, External, Reviewable
  <2> QED BY <2>1 DEF Ledger!LedgerNext
<1> QED BY <1>1, <1>2 DEF LegalMove

(* Every step of the engine is a step of the ledger, or none.              *)
LEMMA LedgerStep ==
  ASSUME TypeOK, MarkerInv, StateFits, [Next]_vars
  PROVE  [Ledger!LedgerNext]_(Ledger!ledgerVars)
<1>1. ASSUME NEW p \in Worker, WorkerStep(p)
      PROVE  [Ledger!LedgerNext]_(Ledger!ledgerVars)
  <2>1. CASE \/ \E s \in Session, st \in Requests : RequestStage(p, s, st)
             \/ Crash(p) \/ Restart(p)
    BY <2>1 DEF RequestStage, Crash, Restart, manifestVars, fileVars,
                Ledger!ledgerVars
  <2>2. CASE EnterHost(p)
    <3>1. sess[p] \in Session
      BY <2>2, SessionOfWorker DEF EnterHost
    <3>2. \/ UNCHANGED <<state, marker, cleared>>
          \/ Ledger!Begin(sess[p])
      BY <2>2 DEF EnterHost, HostFree, manifestVars, Ledger!Begin
    <3> QED BY <3>1, <3>2 DEF Ledger!LedgerNext, Ledger!ledgerVars
  <2>3. CASE LeaveStage(p)
    <3>1. sess[p] \in Session /\ marker = sess[p]
      BY <2>3, SessionOfWorker DEF LeaveStage, MarkerInv, BusyHoldsMarker, Busy
    <3>2. \/ UNCHANGED <<state, marker, cleared>>
          \/ Ledger!End(sess[p])
      BY <2>3, <3>1 DEF LeaveStage, KeepsMarker, manifestVars, Ledger!End,
                 Ledger!Unresolved, Ledger!InFlight, Unresolved, InFlight
    <3> QED BY <3>1, <3>2 DEF Ledger!LedgerNext, Ledger!ledgerVars
  <2>4. CASE Quiet(p) /\ FittingStep(p)
    <3>1. sess[p] \in Session /\ marker = sess[p]
      BY <2>4, SessionOfWorker DEF Quiet, Busy, MarkerInv, BusyHoldsMarker
    <3> QED BY <2>4, <3>1, LedgerMove DEF Quiet, FittingStep, fileVars
  <2>5. CASE StageStep(p)
    BY <2>2, <2>3, <2>4, <2>5, StageStepFitsState
  <2>6. CASE Interrupt(p)
    <3>1. UNCHANGED <<marker, cleared>> /\ sess[p] \in Session
      BY <2>6, SessionOfWorker DEF Interrupt
    <3>2. CASE UNCHANGED state
      BY <3>1, <3>2 DEF Ledger!ledgerVars
    <3>3. CASE /\ Busy(p) /\ state[sess[p]] \in InFlight
               /\ SetState(sess[p], "OUTCOME_UNKNOWN")
      <4>1. marker = sess[p]
        BY <3>3 DEF MarkerInv, BusyHoldsMarker
      <4>2. LegalMove(sess[p])
        BY <3>3, TerminalMoves DEF LegalMove, SetState, SessionState
      <4> QED BY <3>1, <4>1, <4>2, LedgerMove
    <3> QED BY <2>6, <3>2, <3>3 DEF Interrupt, InTry
  <2> QED BY <1>1, <2>1, <2>5, <2>6 DEF WorkerStep
<1>2. CASE HostStep \/ UNCHANGED vars
  BY <1>2 DEF HostStep, vars, manifestVars, fileVars, Ledger!ledgerVars
<1>3. CASE ManualReconciliation
  <2>1. Ledger!Reconcile
    BY <1>3 DEF ManualReconciliation, manifestVars, Ledger!Reconcile,
                Ledger!Unresolved, Ledger!InFlight, Unresolved, InFlight
  <2> QED BY <2>1 DEF Ledger!LedgerNext
<1> QED BY <1>1, <1>2, <1>3 DEF Next

(* The engine implements the session ledger: whatever its workers do, and  *)
(* whenever they die, manifests and marker move only as the store promises.*)
THEOREM EngineKeepsLedger == Spec => LedgerKept
<1>1. Init => Ledger!LedgerInit
  BY DEF Init, Ledger!LedgerInit
<1>2. TypeOK /\ MarkerInv /\ StateFits /\ [Next]_vars
        => [Ledger!LedgerNext]_(Ledger!ledgerVars)
  BY LedgerStep
<1> QED BY <1>1, <1>2, TypeCorrect, MarkerHolds, StatesFit, PTL
        DEF Spec, LedgerKept, Ledger!LedgerSpec
=============================================================================
