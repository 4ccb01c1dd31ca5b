------------------------------ MODULE Panorama ------------------------------
(***************************************************************************)
(* The appliance, as the Toolbox uses it: a candidate tree that several    *)
(* administrators edit, the running tree that commit jobs move it to,      *)
(* config locks that keep other administrators out of a scope, and the     *)
(* commit and commit-all jobs the Toolbox has started.  Nothing of this is *)
(* Toolbox code: it is modelled from the requests client.py sends and the  *)
(* answers it expects.                                                     *)
(*                                                                         *)
(* Panorama holds a config lock for an administrator, not for a session:   *)
(* an edit made with the Toolbox's own account is not kept out by it.      *)
(* OwnEdits says whether such edits happen.                                *)
(***************************************************************************)
EXTENDS Integers, Sequences, FiniteSets

CONSTANTS
  Session,      \* sessions of the store, each with one PatchSet
  Path,         \* XPaths of the configuration that matter to them
  Value,        \* what an XPath can hold
  Scope,        \* lockable scopes: device groups, and Shared
  Shared,       \* the shared scope; its lock covers every other one
  ScopeOf,      \* the scope an XPath belongs to
  EditValue,    \* what other people may write into an XPath
  Answers,      \* whether the change summary is answered: TRUE, FALSE, both
  OwnEdits,     \* whether the Toolbox's own account is used elsewhere
  MaxEdits,     \* bound: edits and commits by other people
  MaxJobs       \* bound: commit and push jobs of a behaviour

ASSUME PanoramaConstants ==
  /\ Shared \in Scope
  /\ ScopeOf \in [Path -> Scope]
  /\ EditValue \in [Path -> SUBSET Value]
  /\ OwnEdits \in BOOLEAN
  /\ Answers \subseteq BOOLEAN
  /\ MaxEdits \in Nat
  /\ MaxJobs \in Nat

VARIABLES
  candidate,    \* the candidate tree
  running,      \* the running tree
  cfgLocks,     \* scopes whose config lock the Toolbox account holds
  jobs,         \* the jobs of the Toolbox, in the order they were queued
  edits         \* how much of MaxEdits is used

hostVars == <<candidate, running, cfgLocks, jobs, edits>>

Tree == [Path -> Value]
JobState == {"run", "ok", "fail"}
Job == [kind : {"commit", "push"}, sess : Session, paths : SUBSET Path,
        st : JobState]

(* The answer to <show config list change-summary>: it tells two           *)
(* configurations apart exactly, and some releases do not answer it.       *)
Native == [has : BOOLEAN, run : Tree, cand : Tree]
NoNative(tree) == [has |-> FALSE, run |-> tree, cand |-> tree]
ChangeSummary == [has |-> TRUE, run |-> running, cand |-> candidate]

LiveJobs == {j \in DOMAIN jobs : jobs[j].st = "run"}

Locked(q) == ScopeOf[q] \in cfgLocks \/ Shared \in cfgLocks

(* Another administrator, or the operator in the web interface, edits one  *)
(* XPath of the candidate.                                                 *)
EditCandidate ==
  /\ edits < MaxEdits
  /\ \E q \in Path : \E v \in EditValue[q] \ {candidate[q]} :
       /\ OwnEdits \/ ~Locked(q)
       /\ candidate' = [candidate EXCEPT ![q] = v]
  /\ edits' = edits + 1
  /\ UNCHANGED <<running, cfgLocks, jobs>>

(* Somebody else commits: some of the pending changes reach running.       *)
(* A config lock does not keep a commit out.                               *)
CommitElsewhere ==
  /\ edits < MaxEdits
  /\ LiveJobs = {}
  /\ \E D \in (SUBSET {q \in Path : candidate[q] # running[q]}) \ {{}} :
       running' = [q \in Path |-> IF q \in D THEN candidate[q] ELSE running[q]]
  /\ edits' = edits + 1
  /\ UNCHANGED <<candidate, cfgLocks, jobs>>

(* A job of the Toolbox ends.  A commit that succeeds takes the XPaths the *)
(* session wrote to running, and as partial commit is per administrator    *)
(* and full commit is not, any other pending change with them.             *)
FinishJob ==
  \E j \in LiveJobs :
    /\ \/ /\ jobs' = [jobs EXCEPT ![j].st = "fail"]
          /\ UNCHANGED running
       \/ /\ jobs' = [jobs EXCEPT ![j].st = "ok"]
          /\ IF jobs[j].kind = "commit"
             THEN \E D \in SUBSET Path :
                    /\ jobs[j].paths \subseteq D
                    /\ running' = [q \in Path |->
                         IF q \in D THEN candidate[q] ELSE running[q]]
             ELSE UNCHANGED running
    /\ UNCHANGED <<candidate, cfgLocks, edits>>

HostTypeOK ==
  /\ candidate \in Tree
  /\ running \in Tree
  /\ cfgLocks \subseteq Scope
  /\ jobs \in Seq(Job)
  /\ edits \in 0..MaxEdits
=============================================================================
