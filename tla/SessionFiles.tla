---------------------------- MODULE SessionFiles ----------------------------
(***************************************************************************)
(* The files of one session, and the calls of SessionStore that write them.*)
(* A call is several steps: a file is replaced as a whole (temporary file, *)
(* fsync, rename), the manifest is read, changed and replaced, a line is   *)
(* appended to the journal.  A process can die between any two of them.    *)
(*                                                                         *)
(*   creator  the planning request that creates the session and goes on    *)
(*            writing to it; takes no lock                                 *)
(*   stage    a stage of the engine, under .operation.lock; it makes any   *)
(*            calls in any order                                           *)
(*   hand     the request that adds hand-mode files; takes no lock         *)
(***************************************************************************)
EXTENDS SessionStates, Integers, Sequences, FiniteSets

CONSTANTS
  Creator,    \* the process that creates the session
  Stager,     \* processes that run stages
  Hand,       \* processes that ask for hand-mode files
  Label,      \* labels of snapshots a stage writes
  Report,     \* kinds of artifacts a stage writes
  HandKind,   \* kinds of hand-mode artifacts, in the order they are written
  Used,       \* manifest states that stages move to
  Overlap,    \* whether requests on the session may overlap
  MaxCalls,   \* bound: calls of the store made by stages
  MaxDeaths   \* bound: processes that die

Proc == {Creator} \cup Stager \cup Hand
PlanLabel == "plan_running"
PlanReport == "plan_report"
Labels == Label \cup {PlanLabel}

(* A hand-mode file has a preferred name and a fallback.                   *)
Name == ((Report \cup {PlanReport}) \X {1}) \cup ({HandKind[k] : k \in DOMAIN HandKind} \X {1, 2})
Artifact == [file : Name, kind : {n[1] : n \in Name}]

ASSUME SessionFilesConstants ==
  /\ Creator \notin Stager \cup Hand
  /\ Stager \cap Hand = {}
  /\ HandKind \in Seq({HandKind[k] : k \in DOMAIN HandKind})
  /\ Used \subseteq SessionState
  /\ Overlap \in BOOLEAN
  /\ MaxCalls \in Nat
  /\ MaxDeaths \in Nat

VARIABLES
  manifest,   \* manifest.json
  patchset,   \* whether patchset.json and the entity backups are there
  snapFile,   \* which version of each snapshot file is there, 0 for none
  artFile,    \* names of the artifact files that are there
  journal,    \* complete lines: the sequence number and state of each event
  tail,       \* how the last line ends
  lock,       \* whether .operation.lock exists
  pc, todo,   \* of each process: its next step and its further calls
  work,       \* of each process: its call and what it has read for it
  calls, deaths

fileVars == <<manifest, patchset, snapFile, artFile, journal, tail>>
procVars == <<pc, todo, work>>
vars == <<fileVars, lock, procVars, calls, deaths>>

NoManifest == [st |-> "NONE", snaps |-> [l \in Labels |-> 0], arts |-> {},
               count |-> 0]
NewManifest == [NoManifest EXCEPT !.st = "PLANNED"]

(* Calls of the store.                                                     *)
Call == [do : {"create", "state", "note", "snap", "art", "once", "event"},
         how : {"", "table", "force", "back", "external"},
         arg : Labels \cup {n[1] : n \in Name} \cup SessionState \cup {""}]
Do(do, how, arg) == [do |-> do, how |-> how, arg |-> arg]

(* What planning does with a new session.  One snapshot stands for running *)
(* and candidate, one report for the three that are written.               *)
Creation ==
  <<Do("snap", "", PlanLabel), Do("event", "", ""), Do("note", "", "")>>
    \o [k \in DOMAIN HandKind |-> Do("once", "", HandKind[k])]
    \o <<Do("art", "", PlanReport), Do("note", "", ""), Do("event", "", "")>>

HandMode == [k \in DOMAIN HandKind |-> Do("once", "", HandKind[k])]

Nothing == [call |-> Do("event", "", ""), held |-> NoManifest, head |-> 0]

(* Wrong on purpose: no name is picked for a hand-mode file.               *)
FirstStepUnpicked ==
  [create |-> "patch", state |-> "load", note |-> "load", snap |-> "replace",
   art |-> "check", once |-> "check", event |-> "head"]

(* Where a call begins.                                                    *)
FirstStep ==
  [create |-> "patch", state |-> "load", note |-> "load", snap |-> "replace",
   art |-> "check", once |-> "pick", event |-> "head"]

Init ==
  /\ manifest = NoManifest
  /\ patchset = FALSE
  /\ snapFile = [l \in Labels |-> 0]
  /\ artFile = {}
  /\ journal = <<>>
  /\ tail = "whole"
  /\ lock = FALSE
  /\ pc = [p \in Proc |-> IF p = Creator THEN "patch" ELSE "idle"]
  /\ todo = [p \in Proc |-> IF p = Creator THEN Creation ELSE <<>>]
  /\ work = [p \in Proc |-> Nothing]
  /\ calls = 0
  /\ deaths = 0

Goto(p, label) == pc' = [pc EXCEPT ![p] = label]
Leave(p, label) == Goto(p, label) /\ work' = [work EXCEPT ![p] = Nothing]
Ready(p) == Leave(p, "ready")

(* A call that fails raises: a request ends, a stage handles it.           *)
Fail(p) ==
  /\ todo' = [todo EXCEPT ![p] = <<>>]
  /\ Ready(p)

-----------------------------------------------------------------------------
(***************************************************************************)
(* The steps of a call.                                                    *)
(***************************************************************************)
rest == <<lock, calls, deaths>>

(* patchset.json and the backup of every mutation's before-image.          *)
WritePatchset(p) ==
  /\ pc[p] = "patch"
  /\ patchset' = TRUE
  /\ Goto(p, "first")
  /\ UNCHANGED <<manifest, snapFile, artFile, journal, tail, todo, work, rest>>

FirstManifest(p) ==
  /\ pc[p] = "first"
  /\ manifest' = NewManifest
  /\ Ready(p)
  /\ UNCHANGED <<patchset, snapFile, artFile, journal, tail, todo, rest>>

(* The journal can be read when it ends with a whole line and its events   *)
(* are one chain; a manifest when it is not ahead of the journal as well.  *)
Readable == tail # "cut" /\ \A k \in DOMAIN journal : journal[k].seq = k
Loadable == manifest # NoManifest /\ Readable /\ manifest.count <= Len(journal)

(* What load_manifest returns: the journal's own count goes in.            *)
Loaded == [manifest EXCEPT !.count = Len(journal)]

Load(p) ==
  /\ pc[p] = "load"
  /\ \/ /\ Loadable
        /\ work' = [work EXCEPT ![p].held = Loaded]
        /\ Goto(p, "save")
        /\ UNCHANGED todo
     \/ ~Loadable /\ Fail(p)
  /\ UNCHANGED <<fileVars, rest>>

(* Wrong on purpose: the table is not looked at.                           *)
AnyMove(from, how, to) == TRUE

(* transition, force_terminal_state, record_recoverable_stage_failure and  *)
(* record_external_execution, each with its own check of the move.         *)
MayMove(from, how, to) ==
  CASE how = "table" -> to \in Transitions[from]
    [] how = "force" -> to \in {"FAILED", "OUTCOME_UNKNOWN", "CONFLICT"}
    [] how = "back" -> Recoverable(from, to)
    [] how = "external" -> External(from, to)
    [] OTHER -> FALSE

(* The version of a snapshot, or the number of an artifact's name, that a  *)
(* call has chosen is kept in its head.                                    *)
Arg(p) == work[p].call.arg
FileOf(p) == <<Arg(p), work[p].head>>
ArtifactOf(p) == [file |-> FileOf(p), kind |-> Arg(p)]

(* Wrong on purpose: the count of the event to come goes in with the state.*)
ChangedAhead(p) ==
  LET m == work[p].held
  IN  CASE work[p].call.do = "state" -> [m EXCEPT !.st = Arg(p), !.count = @ + 1]
        [] work[p].call.do = "snap" -> [m EXCEPT !.snaps[Arg(p)] = work[p].head]
        [] work[p].call.do \in {"art", "once"} ->
             [m EXCEPT !.arts = @ \cup {ArtifactOf(p)}]
        [] OTHER -> m

(* Wrong on purpose: the hash of a new snapshot is not recorded.           *)
ChangedForgetsHash(p) ==
  LET m == work[p].held
  IN  CASE work[p].call.do = "state" -> [m EXCEPT !.st = Arg(p)]
        [] work[p].call.do \in {"art", "once"} ->
             [m EXCEPT !.arts = @ \cup {ArtifactOf(p)}]
        [] OTHER -> m

Changed(p) ==
  LET m == work[p].held
  IN  CASE work[p].call.do = "state" -> [m EXCEPT !.st = Arg(p)]
        [] work[p].call.do = "snap" -> [m EXCEPT !.snaps[Arg(p)] = work[p].head]
        [] work[p].call.do \in {"art", "once"} ->
             [m EXCEPT !.arts = @ \cup {ArtifactOf(p)}]
        [] OTHER -> m

(* The manifest is replaced by what was read, with one change: nothing     *)
(* compares it with what is there by now.                                  *)
Save(p) ==
  /\ pc[p] = "save"
  /\ LET c == work[p].call
     IN  IF c.do = "state" /\ ~MayMove(work[p].held.st, c.how, c.arg)
         THEN Fail(p) /\ UNCHANGED manifest
         ELSE /\ manifest' = Changed(p)
              /\ IF c.do = "state"
                 THEN Goto(p, "head") /\ UNCHANGED work
                 ELSE Ready(p)
              /\ UNCHANGED todo
  /\ UNCHANGED <<patchset, snapFile, artFile, journal, tail, rest>>

ReplaceSnapshot(p) ==
  /\ pc[p] = "replace"
  /\ snapFile' = [snapFile EXCEPT ![Arg(p)] = @ + 1]
  /\ work' = [work EXCEPT ![p].head = snapFile[Arg(p)] + 1]
  /\ Goto(p, "load")
  /\ UNCHANGED <<manifest, patchset, artFile, journal, tail, todo, rest>>

RecordedName(n) == \E a \in manifest.arts : a.file = n

(* _write_artifact_once: nothing for a kind that is recorded already; else *)
(* the preferred name, or the fallback when that one is recorded.          *)
PickName(p) ==
  /\ pc[p] = "pick"
  /\ \/ ~Loadable /\ Fail(p)
     \/ /\ Loadable
        /\ \E a \in manifest.arts : a.kind = Arg(p)
        /\ Ready(p)
        /\ UNCHANGED todo
     \/ /\ Loadable
        /\ \A a \in manifest.arts : a.kind # Arg(p)
        /\ work' = [work EXCEPT ![p].head =
                      IF RecordedName(<<Arg(p), 1>>) THEN 2 ELSE 1]
        /\ Goto(p, "check")
        /\ UNCHANGED todo
  /\ UNCHANGED <<fileVars, rest>>

CheckArtifact(p) ==
  /\ pc[p] = "check"
  /\ IF ~Loadable \/ FileOf(p) \in artFile \/ RecordedName(FileOf(p))
     THEN Fail(p)
     ELSE Goto(p, "write") /\ UNCHANGED <<todo, work>>
  /\ UNCHANGED <<fileVars, rest>>

(* Wrong on purpose: the record comes before the file it is about.         *)
RecordArtifactFirst(p) ==
  /\ pc[p] = "write"
  /\ manifest' = [Loaded EXCEPT !.arts = @ \cup {ArtifactOf(p)}]
  /\ Goto(p, "load")
  /\ UNCHANGED <<patchset, snapFile, artFile, journal, tail, todo, work, rest>>

WriteArtifact(p) ==
  /\ pc[p] = "write"
  /\ artFile' = artFile \cup {FileOf(p)}
  /\ Goto(p, "load")
  /\ UNCHANGED <<manifest, patchset, snapFile, journal, tail, todo, work, rest>>

ReadHead(p) ==
  /\ pc[p] = "head"
  /\ IF Readable
     THEN /\ work' = [work EXCEPT ![p].head = Len(journal) + 1]
          /\ Goto(p, "append")
          /\ UNCHANGED todo
     ELSE Fail(p)
  /\ UNCHANGED <<fileVars, rest>>

Event(p) ==
  [seq |-> work[p].head,
   st |-> IF work[p].call.do = "state" THEN Arg(p) ELSE ""]

(* A line is glued to one that has lost its end of line.                   *)
AppendEvent(p) ==
  /\ pc[p] = "append"
  /\ IF tail = "whole"
     THEN journal' = Append(journal, Event(p)) /\ UNCHANGED tail
     ELSE tail' = "cut" /\ UNCHANGED journal
  /\ Ready(p)
  /\ UNCHANGED <<manifest, patchset, snapFile, artFile, todo, rest>>

-----------------------------------------------------------------------------
(***************************************************************************)
(* Processes.                                                              *)
(***************************************************************************)
Begin(p, c) ==
  /\ work' = [work EXCEPT ![p] =
                [call |-> c, held |-> NoManifest,
                 head |-> IF c.do = "art" THEN 1 ELSE 0]]
  /\ Goto(p, FirstStep[c.do])

(* The next call of a request, or its end.                                 *)
Continue(p) ==
  /\ p \in {Creator} \cup Hand
  /\ pc[p] = "ready"
  /\ IF todo[p] = <<>>
     THEN Leave(p, "idle") /\ UNCHANGED todo
     ELSE /\ Begin(p, Head(todo[p]))
          /\ todo' = [todo EXCEPT ![p] = Tail(@)]
  /\ UNCHANGED <<fileVars, rest>>

AtRest(p) == pc[p] \in {"idle", "dead"}

HandRequest(p) ==
  /\ p \in Hand
  /\ pc[p] = "idle"
  /\ Overlap \/ \A q \in Proc : AtRest(q)
  /\ Loadable
  /\ Ready(p)
  /\ todo' = [todo EXCEPT ![p] = HandMode]
  /\ UNCHANGED <<fileVars, rest>>

(* Wrong on purpose: a lock file that is there is taken over.              *)
LockTakenOver == TRUE
LockFree == ~lock

EnterStage(p) ==
  /\ p \in Stager
  /\ pc[p] = "idle"
  /\ Overlap \/ \A q \in {Creator} \cup Hand : AtRest(q)
  /\ LockFree
  /\ Loadable
  /\ lock' = TRUE
  /\ Ready(p)
  /\ UNCHANGED <<fileVars, todo, calls, deaths>>

StageCalls ==
  [do : {"state"}, how : {"table", "force", "back", "external"}, arg : Used]
  \cup [do : {"snap"}, how : {""}, arg : Label]
  \cup [do : {"art"}, how : {""}, arg : Report]
  \cup {Do("note", "", ""), Do("event", "", "")}

StageCall(p) ==
  /\ p \in Stager
  /\ pc[p] = "ready"
  /\ calls < MaxCalls
  /\ calls' = calls + 1
  /\ \E c \in StageCalls : Begin(p, c)
  /\ UNCHANGED <<fileVars, todo, lock, deaths>>

LeaveStage(p) ==
  /\ p \in Stager
  /\ pc[p] = "ready"
  /\ lock' = FALSE
  /\ Leave(p, "idle")
  /\ UNCHANGED <<fileVars, todo, calls, deaths>>

(* A process is killed or the machine goes down.  Files are replaced as a  *)
(* whole or not at all; a line being appended may be there in part.        *)
Die(p) ==
  /\ ~AtRest(p)
  /\ deaths < MaxDeaths
  /\ deaths' = deaths + 1
  /\ Leave(p, "dead")
  /\ todo' = [todo EXCEPT ![p] = <<>>]
  /\ \/ UNCHANGED <<journal, tail>>
     \/ pc[p] = "append" /\ tail' = "cut" /\ UNCHANGED journal
     \/ /\ pc[p] = "append" /\ tail = "whole"
        /\ tail' = "noEol"
        /\ journal' = Append(journal, Event(p))
  /\ UNCHANGED <<manifest, patchset, snapFile, artFile, lock, calls>>

(* The operator removes what a dead stage has left.                        *)
ClearLock ==
  /\ lock
  /\ \A p \in Stager : AtRest(p)
  /\ lock' = FALSE
  /\ UNCHANGED <<fileVars, procVars, calls, deaths>>

Step(p) ==
  \/ WritePatchset(p) \/ FirstManifest(p) \/ Load(p) \/ Save(p)
  \/ ReplaceSnapshot(p) \/ PickName(p) \/ CheckArtifact(p) \/ WriteArtifact(p)
  \/ ReadHead(p) \/ AppendEvent(p)

Next ==
  \/ \E p \in Proc :
       \/ Step(p) \/ Continue(p) \/ HandRequest(p)
       \/ EnterStage(p) \/ StageCall(p) \/ LeaveStage(p) \/ Die(p)
  \/ ClearLock

Spec == Init /\ [][Next]_vars

-----------------------------------------------------------------------------
TypeOK ==
  /\ manifest \in [st : SessionState \cup {"NONE"}, snaps : [Labels -> Nat],
                   arts : SUBSET Artifact, count : Nat]
  /\ patchset \in BOOLEAN
  /\ snapFile \in [Labels -> Nat]
  /\ artFile \subseteq Name
  /\ journal \in Seq([seq : Nat, st : SessionState \cup {""}])
  /\ tail \in {"whole", "noEol", "cut"}
  /\ lock \in BOOLEAN
  /\ calls \in 0..MaxCalls
  /\ deaths \in 0..MaxDeaths

(* What a session records is there: the file of every recorded artifact    *)
(* and, once a manifest names it, the PatchSet with its backups.  Holds    *)
(* whatever overlaps and whoever dies, since every file comes before its   *)
(* record.                                                                 *)
RecordedIsThere ==
  /\ manifest # NoManifest => patchset
  /\ \A a \in manifest.arts : a.file \in artFile

(* The journal is one chain: the operation lock lets a single process      *)
(* append, and a process that died does not go on.                         *)
JournalIsChained == \A k \in DOMAIN journal : journal[k].seq = k

(* A manifest never claims events that the journal does not hold, so that  *)
(* no death between the two makes the session unreadable.                  *)
ManifestBehindJournal == manifest.count <= Len(journal)

(* What a death can leave: a snapshot newer than its hash, a file without  *)
(* a record, a state without its event, a broken last line.                *)
NewerSnapshots == {l \in Labels : snapFile[l] # manifest.snaps[l]}
UnrecordedFiles == artFile \ {a.file : a \in manifest.arts}

StateEvents == {k \in DOMAIN journal : journal[k].st # ""}
StateOfJournal ==
  IF StateEvents = {} THEN "PLANNED"
  ELSE journal[CHOOSE k \in StateEvents : \A m \in StateEvents : m <= k].st
StateUntold == manifest # NoManifest /\ StateOfJournal # manifest.st

Damage ==
  Cardinality(NewerSnapshots) + Cardinality(UnrecordedFiles)
    + IF StateUntold \/ tail # "whole" THEN 1 ELSE 0

Running == {p \in Proc : pc[p] \notin {"idle", "dead", "ready"}}

(* As long as the journal can be read, every process that is at work or    *)
(* has died accounts for at most one of these, and nothing else disagrees: *)
(* a session on which nobody died verifies between calls.                  *)
DamageIsLocal ==
  ~Overlap /\ tail # "cut" => Damage <= deaths + Cardinality(Running)

Register ==
  INSTANCE SessionRegister
    WITH st <- manifest.st, recorded <- manifest.arts, events <- Len(journal)

(* Requests that do not overlap see the session as a register: whoever    *)
(* dies, its state moves along the table of the store, no record is lost   *)
(* and its journal grows by whole events.                                  *)
RegisterKept == Register!RegisterSpec

(* Adding hand-mode files changes no state: "append-only" says the README. *)
HandModeAppends ==
  [][\A p \in Hand : pc[p] = "save" /\ pc'[p] = "ready" =>
       manifest'.st = manifest.st /\ manifest.arts \subseteq manifest'.arts]_vars
=============================================================================
