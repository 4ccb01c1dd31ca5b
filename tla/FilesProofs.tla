----------------------------- MODULE FilesProofs -----------------------------
(***************************************************************************)
(* What a session records is there, and requests that do not overlap see a *)
(* register, for any number of processes, calls, deaths and kinds of files.*)
(* The argument: FilesInv says, for each step a process can be at, what it *)
(* has read and written by then; files only grow, so that what one process *)
(* does never takes this from another.  Where requests do not overlap, one *)
(* process at most is at work, so that what it has read is still so.       *)
(* What such requests leave in disagreement was left by the dead, one thing*)
(* each: DamageInv says what the one at work still holds in its hands.     *)
(***************************************************************************)
EXTENDS SessionFiles, FiniteSetTheorems, TLAPS

ManifestType ==
  [st : SessionState \cup {"NONE"}, snaps : [Labels -> Nat],
   arts : SUBSET Artifact, count : Nat]

(* Calls a process can make, with arguments of their kind.                 *)
FitCall ==
  {c \in Call :
     /\ c.do # "create"
     /\ c.do = "snap" => c.arg \in Labels
     /\ c.do = "art" => <<c.arg, 1>> \in Name
     /\ c.do = "once" => <<c.arg, 1>> \in Name /\ <<c.arg, 2>> \in Name
     /\ c.do = "state" => c.arg \in SessionState}

WorkType == [call : FitCall, held : ManifestType, head : Nat]

StepName ==
  {"idle", "dead", "ready", "patch", "first", "load", "save", "replace",
   "pick", "check", "write", "head", "append"}

ProcsTyped ==
  /\ pc \in [Proc -> StepName]
  /\ todo \in [Proc -> Seq(FitCall)]
  /\ work \in [Proc -> WorkType]

(* What a process has done before each of its steps.                       *)
ProcFits(p) ==
  /\ pc[p] \in {"patch", "first"} => p = Creator /\ manifest = NoManifest
  /\ pc[p] = "first" => patchset
  /\ pc[p] = "replace" => work[p].call.do = "snap"
  /\ pc[p] = "pick" => work[p].call.do = "once"
  /\ pc[p] \in {"check", "write"} =>
       work[p].call.do \in {"art", "once"} /\ FileOf(p) \in Name
  /\ pc[p] \in {"load", "save"} =>
       /\ work[p].call.do \in {"state", "note", "snap", "art", "once"}
       /\ work[p].call.do \in {"art", "once"} => FileOf(p) \in Name \cap artFile
  /\ pc[p] = "save" =>
       /\ manifest # NoManifest
       /\ work[p].held.st \in SessionState
       /\ work[p].held.count <= Len(journal)
       /\ \A a \in work[p].held.arts : a.file \in artFile

ManifestFits ==
  /\ manifest # NoManifest => manifest.st \in SessionState /\ patchset
  /\ \A a \in manifest.arts : a.file \in artFile
  /\ manifest.count <= Len(journal)

FilesInv ==
  /\ TypeOK
  /\ ProcsTyped
  /\ ManifestFits
  /\ \A p \in Proc : ProcFits(p)

(***************************************************************************)
(* Types.                                                                  *)
(***************************************************************************)

(* Calls without an argument.                                              *)
LEMMA PlainCallFits ==
  Do("event", "", "") \in FitCall /\ Do("note", "", "") \in FitCall
<1>1. \A d \in {"event", "note"} : [do |-> d, how |-> "", arg |-> ""] \in Call
  BY DEF Call
<1> QED BY <1>1 DEF Do, FitCall

(* What a process that is at rest or between calls has.                    *)
LEMMA NothingType ==
  NoManifest \in ManifestType /\ NewManifest \in ManifestType
    /\ Nothing \in WorkType /\ NewManifest # NoManifest
<1>1. NoManifest \in ManifestType /\ NewManifest \in ManifestType
  BY DEF NoManifest, NewManifest, ManifestType, SessionState
<1>2. Do("event", "", "") \in FitCall
  BY PlainCallFits
<1>3. NewManifest.st = "PLANNED" /\ NoManifest.st = "NONE"
  BY DEF NoManifest, NewManifest
<1> QED BY <1>1, <1>2, <1>3 DEF Nothing, WorkType

(* A call of hand mode is one that can be made.                            *)
LEMMA HandCallFits ==
  ASSUME NEW k \in DOMAIN HandKind
  PROVE  Do("once", "", HandKind[k]) \in FitCall
<1>1. <<HandKind[k], 1>> \in Name /\ <<HandKind[k], 2>> \in Name
  BY DEF Name
<1>2. HandKind[k] \in {n[1] : n \in Name}
  BY <1>1
<1> QED BY <1>1, <1>2 DEF Do, FitCall, Call

(* Three calls in a row.                                                   *)
LEMMA ThreeInARow ==
  ASSUME NEW S, NEW a \in S, NEW b \in S, NEW c \in S
  PROVE  <<a, b, c>> \in Seq(S)
  OBVIOUS

(* So are the calls of planning and of a hand-mode request.                *)
LEMMA RequestCallsFit ==
  Creation \in Seq(FitCall) /\ HandMode \in Seq(FitCall)
<1> DEFINE hand == [k \in DOMAIN HandKind |-> Do("once", "", HandKind[k])]
<1>1. hand \in Seq(FitCall)
  <2>1. DOMAIN HandKind = 1..Len(HandKind) /\ Len(HandKind) \in Nat
    BY SessionFilesConstants
  <2>2. hand \in [1..Len(HandKind) -> FitCall]
    BY <2>1, HandCallFits
  <2> HIDE DEF hand
  <2> QED BY <2>1, <2>2
<1>2. /\ Do("snap", "", PlanLabel) \in FitCall
      /\ Do("event", "", "") \in FitCall
      /\ Do("note", "", "") \in FitCall
  BY PlainCallFits DEF Do, FitCall, Call, Labels
<1>3. Do("art", "", PlanReport) \in FitCall
  <2>1. <<PlanReport, 1>> \in Name
    BY DEF Name
  <2>2. PlanReport \in {n[1] : n \in Name}
    BY <2>1
  <2> QED BY <2>1, <2>2 DEF Do, FitCall, Call
<1> DEFINE before == <<Do("snap", "", PlanLabel), Do("event", "", ""), Do("note", "", "")>>
           after == <<Do("art", "", PlanReport), Do("note", "", ""), Do("event", "", "")>>
<1>4. before \in Seq(FitCall) /\ after \in Seq(FitCall)
  BY <1>2, <1>3, ThreeInARow
<1> HIDE DEF hand, before, after
<1>5. (before \o hand) \o after \in Seq(FitCall)
  <2>1. before \o hand \in Seq(FitCall)
    BY <1>1, <1>4
  <2> QED BY <1>4, <2>1
<1>6. HandMode = hand
  BY DEF HandMode, hand
<1>7. Creation = (before \o hand) \o after
  BY DEF Creation, hand, before, after
<1> QED BY <1>1, <1>5, <1>6, <1>7

(* Calls of a stage are calls that can be made.                            *)
LEMMA StageCallFits == StageCalls \subseteq FitCall
<1>1. [do : {"state"}, how : {"table", "force", "back", "external"}, arg : Used]
        \subseteq FitCall
  BY SessionFilesConstants DEF FitCall, Call
<1>2. [do : {"snap"}, how : {""}, arg : Label] \subseteq FitCall
  BY DEF FitCall, Call, Labels
<1>3. [do : {"art"}, how : {""}, arg : Report] \subseteq FitCall
  <2>1. \A r \in Report : <<r, 1>> \in Name
    BY DEF Name
  <2>2. ASSUME NEW r \in Report PROVE r \in {n[1] : n \in Name}
    <3>1. <<r, 1>> \in Name /\ <<r, 1>>[1] = r
      BY <2>1
    <3> QED BY <3>1
  <2> QED BY <2>1, <2>2 DEF FitCall, Call
<1>4. {Do("note", "", ""), Do("event", "", "")} \subseteq FitCall
  BY PlainCallFits
<1> QED BY <1>1, <1>2, <1>3, <1>4 DEF StageCalls

(***************************************************************************)
(* One process's step leaves the others as they are.                       *)
(***************************************************************************)

(* Files only grow, and a manifest does not go away.                       *)
FilesGrow ==
  /\ patchset => patchset'
  /\ artFile \subseteq artFile'
  /\ Len(journal) <= Len(journal')
  /\ manifest # NoManifest => manifest' # NoManifest

OnlyStep(p) == \A q \in Proc \ {p} : pc'[q] = pc[q] /\ work'[q] = work[q]

LEMMA SequenceLength ==
  ASSUME NEW S, NEW q \in Seq(S)
  PROVE  Len(q) \in Nat
  OBVIOUS

LEMMA JournalLength ==
  /\ TypeOK => Len(journal) \in Nat
  /\ TypeOK' => Len(journal') \in Nat
  BY SequenceLength DEF TypeOK

(* A process that takes no step keeps what it has.                         *)
LEMMA OthersFit ==
  ASSUME FilesInv, TypeOK', FilesGrow, NEW q \in Proc,
         pc'[q] = pc[q], work'[q] = work[q],
         pc[q] \in {"patch", "first"} => manifest' = manifest
  PROVE  ProcFits(q)'
<1>1. ProcFits(q)
  BY DEF FilesInv
<1>2. FileOf(q)' = FileOf(q)
  BY DEF FileOf, Arg
<1>3. Len(journal) \in Nat /\ Len(journal') \in Nat
  BY JournalLength DEF FilesInv
<1>4. work[q].held.count \in Nat
  BY DEF FilesInv, ProcsTyped, WorkType, ManifestType
<1> QED BY <1>1, <1>2, <1>3, <1>4 DEF ProcFits, FilesGrow

(* What is to be shown of a step of a process.                             *)
LEMMA StepKeeps ==
  ASSUME FilesInv, NEW p \in Proc, OnlyStep(p), FilesGrow,
         TypeOK', ProcsTyped', ManifestFits', ProcFits(p)',
         \A q \in Proc \ {p} : pc[q] \in {"patch", "first"} => manifest' = manifest
  PROVE  FilesInv'
<1>1. \A q \in Proc \ {p} : ProcFits(q)'
  BY OthersFit DEF OnlyStep
<1> QED BY <1>1 DEF FilesInv

(* The types of a process's step.                                          *)
LEMMA ProcsStayTyped ==
  ASSUME FilesInv, NEW p \in Proc, NEW l \in StepName, NEW t \in Seq(FitCall),
         NEW w \in WorkType,
         pc' = [pc EXCEPT ![p] = l], todo' = [todo EXCEPT ![p] = t],
         work' = [work EXCEPT ![p] = w]
  PROVE  /\ ProcsTyped' /\ OnlyStep(p)
         /\ pc'[p] = l /\ todo'[p] = t /\ work'[p] = w
  BY DEF FilesInv, ProcsTyped, OnlyStep

(* A process between calls, or at rest, owes nothing.                      *)
LEMMA RestFits ==
  ASSUME NEW p \in Proc, pc'[p] \in {"ready", "idle", "dead", "head", "append"}
  PROVE  ProcFits(p)'
  BY DEF ProcFits

(* A step that changes no file.                                            *)
LEMMA NoFileStep ==
  ASSUME FilesInv, NEW p \in Proc, UNCHANGED fileVars, OnlyStep(p), ProcsTyped',
         lock' \in BOOLEAN, calls' \in 0..MaxCalls, deaths' \in 0..MaxDeaths,
         ProcFits(p)'
  PROVE  FilesInv'
<1>1. TypeOK'
  BY DEF FilesInv, TypeOK, fileVars
<1>2. ManifestFits'
  BY DEF FilesInv, ManifestFits, fileVars
<1>3. FilesGrow
  BY JournalLength DEF FilesInv, fileVars, FilesGrow
<1> QED BY <1>1, <1>2, <1>3, StepKeeps DEF fileVars

(* A call that begins.                                                     *)
LEMMA BeginFits ==
  ASSUME FilesInv, NEW p \in Proc, NEW c \in FitCall, NEW t \in Seq(FitCall),
         Begin(p, c), todo' = [todo EXCEPT ![p] = t]
  PROVE  ProcsTyped' /\ OnlyStep(p) /\ ProcFits(p)'
<1> DEFINE w == [call |-> c, held |-> NoManifest,
                 head |-> IF c.do = "art" THEN 1 ELSE 0]
<1>1. w \in WorkType
  BY NothingType DEF WorkType
<1>2. /\ c.do \in {"state", "note", "snap", "art", "once", "event"}
      /\ c.do = "art" => <<c.arg, 1>> \in Name
  BY DEF FitCall, Call
<1>3. /\ FirstStep[c.do] \in StepName
      /\ c.do \in {"state", "note"} => FirstStep[c.do] = "load"
      /\ c.do = "snap" => FirstStep[c.do] = "replace"
      /\ c.do = "art" => FirstStep[c.do] = "check"
      /\ c.do = "once" => FirstStep[c.do] = "pick"
      /\ c.do = "event" => FirstStep[c.do] = "head"
  BY <1>2 DEF FirstStep, StepName
<1>4. pc' = [pc EXCEPT ![p] = FirstStep[c.do]] /\ work' = [work EXCEPT ![p] = w]
  BY DEF Begin, Goto
<1> HIDE DEF w
<1>5. /\ ProcsTyped' /\ OnlyStep(p)
      /\ pc'[p] = FirstStep[c.do] /\ work'[p] = w
  BY <1>1, <1>3, <1>4, ProcsStayTyped
<1>6. /\ work'[p].call = c
      /\ c.do = "art" => FileOf(p)' = <<c.arg, 1>>
  BY <1>5 DEF FileOf, Arg, w
<1>7. ProcFits(p)'
  BY <1>2, <1>3, <1>5, <1>6 DEF ProcFits
<1> QED BY <1>5, <1>7

(* A call that fails.                                                      *)
LEMMA FailFits ==
  ASSUME FilesInv, NEW p \in Proc, Fail(p)
  PROVE  ProcsTyped' /\ OnlyStep(p) /\ ProcFits(p)'
<1>1. "ready" \in StepName /\ <<>> \in Seq(FitCall) /\ Nothing \in WorkType
  BY NothingType DEF StepName
<1>2. ProcsTyped' /\ OnlyStep(p) /\ pc'[p] = "ready"
  BY <1>1, ProcsStayTyped DEF Fail, Ready, Leave, Goto
<1> QED BY <1>2, RestFits

(***************************************************************************)
(* The steps that change no file.                                          *)
(***************************************************************************)
LEMMA LoadKeeps ==
  ASSUME FilesInv, NEW p \in Proc, Load(p)
  PROVE  FilesInv'
<1>1. /\ UNCHANGED fileVars
      /\ lock' \in BOOLEAN /\ calls' \in 0..MaxCalls /\ deaths' \in 0..MaxDeaths
  BY DEF Load, rest, FilesInv, TypeOK
<1>2. CASE Fail(p)
  BY <1>1, <1>2, FailFits, NoFileStep
<1>3. CASE /\ Loadable
           /\ work' = [work EXCEPT ![p].held = Loaded]
           /\ Goto(p, "save")
           /\ UNCHANGED todo
  <2> DEFINE w == [work[p] EXCEPT !.held = Loaded]
  <2>1. Loaded \in ManifestType
    BY JournalLength DEF FilesInv, TypeOK, Loaded, ManifestType
  <2>2. w \in WorkType /\ todo[p] \in Seq(FitCall) /\ "save" \in StepName
    BY <2>1 DEF FilesInv, ProcsTyped, WorkType, StepName
  <2>3. /\ work' = [work EXCEPT ![p] = w] /\ pc' = [pc EXCEPT ![p] = "save"]
        /\ todo' = [todo EXCEPT ![p] = todo[p]]
    BY <1>3 DEF Goto, FilesInv, ProcsTyped
  <2>4. /\ w.call = work[p].call /\ w.head = work[p].head /\ w.held = Loaded
    BY DEF FilesInv, ProcsTyped, WorkType
  <2> HIDE DEF w
  <2>5. ProcsTyped' /\ OnlyStep(p) /\ pc'[p] = "save" /\ work'[p] = w
    BY <2>2, <2>3, ProcsStayTyped
  <2>6. FileOf(p)' = FileOf(p)
    BY <2>4, <2>5 DEF FileOf, Arg
  <2>7. pc[p] = "load" /\ ProcFits(p)
    BY DEF FilesInv, Load
  <2>8. /\ Loaded.st = manifest.st /\ Loaded.arts = manifest.arts
        /\ Loaded.count = Len(journal)
    BY DEF Loaded, FilesInv, TypeOK
  <2>9. ProcFits(p)'
    <3>1. manifest' = manifest /\ journal' = journal /\ artFile' = artFile
      BY <1>1 DEF fileVars
    <3>2. manifest # NoManifest /\ manifest.st \in SessionState
      BY <1>3 DEF Loadable, FilesInv, ManifestFits
    <3>3. \A a \in manifest.arts : a.file \in artFile
      BY DEF FilesInv, ManifestFits
    <3>4. Len(journal) \in Nat
      BY JournalLength DEF FilesInv
    <3> QED BY <2>4, <2>5, <2>6, <2>7, <2>8, <3>1, <3>2, <3>3, <3>4 DEF ProcFits
  <2> QED BY <1>1, <2>5, <2>9, NoFileStep
<1> QED BY <1>2, <1>3 DEF Load

(* A process that goes back to rest, or between calls.                     *)
LEMMA ReadyFits ==
  ASSUME FilesInv, NEW p \in Proc, NEW l \in {"ready", "idle", "dead"},
         Leave(p, l), NEW t \in Seq(FitCall), todo' = [todo EXCEPT ![p] = t]
  PROVE  ProcsTyped' /\ OnlyStep(p) /\ ProcFits(p)'
<1>1. l \in StepName /\ Nothing \in WorkType
  BY NothingType DEF StepName
<1>2. ProcsTyped' /\ OnlyStep(p) /\ pc'[p] = l
  BY <1>1, ProcsStayTyped DEF Leave, Goto
<1> QED BY <1>2, RestFits

LEMMA TodoKept ==
  ASSUME FilesInv, NEW p \in Proc, UNCHANGED todo
  PROVE  todo[p] \in Seq(FitCall) /\ todo' = [todo EXCEPT ![p] = todo[p]]
  BY DEF FilesInv, ProcsTyped

LEMMA HeadKept ==
  ASSUME FilesInv, NEW p \in Proc, NEW n \in Nat
  PROVE  [work[p] EXCEPT !.head = n] \in WorkType
<1>1. work[p] \in WorkType
  BY DEF FilesInv, ProcsTyped
<1> QED BY <1>1 DEF WorkType

LEMMA PickNameKeeps ==
  ASSUME FilesInv, NEW p \in Proc, PickName(p)
  PROVE  FilesInv'
<1>1. /\ UNCHANGED fileVars
      /\ lock' \in BOOLEAN /\ calls' \in 0..MaxCalls /\ deaths' \in 0..MaxDeaths
  BY DEF PickName, rest, FilesInv, TypeOK
<1>2. CASE Fail(p)
  BY <1>1, <1>2, FailFits, NoFileStep
<1>3. CASE Ready(p) /\ UNCHANGED todo
  BY <1>1, <1>3, TodoKept, ReadyFits, NoFileStep DEF Ready
<1>4. CASE /\ \E n \in {1, 2} : work' = [work EXCEPT ![p].head = n]
           /\ Goto(p, "check")
           /\ UNCHANGED todo
  <2>1. PICK n \in {1, 2} : work' = [work EXCEPT ![p].head = n]
    BY <1>4
  <2> DEFINE w == [work[p] EXCEPT !.head = n]
  <2>2. w \in WorkType /\ "check" \in StepName
    BY HeadKept DEF StepName
  <2>3. work' = [work EXCEPT ![p] = w] /\ pc' = [pc EXCEPT ![p] = "check"]
    BY <1>4, <2>1 DEF Goto, FilesInv, ProcsTyped
  <2>4. w.call = work[p].call /\ w.head = n
    BY DEF FilesInv, ProcsTyped, WorkType
  <2> HIDE DEF w
  <2>5. ProcsTyped' /\ OnlyStep(p) /\ pc'[p] = "check" /\ work'[p] = w
    <3>1. todo[p] \in Seq(FitCall) /\ todo' = [todo EXCEPT ![p] = todo[p]]
      BY <1>4, TodoKept
    <3> QED BY <2>2, <2>3, <3>1, ProcsStayTyped
  <2>6. work[p].call.do = "once" /\ work[p].call \in FitCall
    BY DEF PickName, FilesInv, ProcFits, ProcsTyped, WorkType
  <2>7. FileOf(p)' = <<work[p].call.arg, n>>
    BY <2>4, <2>5 DEF FileOf, Arg
  <2>8. <<work[p].call.arg, n>> \in Name
    BY <2>6 DEF FitCall
  <2>9. ProcFits(p)'
    BY <2>4, <2>5, <2>6, <2>7, <2>8 DEF ProcFits
  <2> QED BY <1>1, <2>5, <2>9, NoFileStep
<1> QED BY <1>2, <1>3, <1>4 DEF PickName

LEMMA CheckArtifactKeeps ==
  ASSUME FilesInv, NEW p \in Proc, CheckArtifact(p)
  PROVE  FilesInv'
<1>1. /\ UNCHANGED fileVars
      /\ lock' \in BOOLEAN /\ calls' \in 0..MaxCalls /\ deaths' \in 0..MaxDeaths
  BY DEF CheckArtifact, rest, FilesInv, TypeOK
<1>2. CASE Fail(p)
  BY <1>1, <1>2, FailFits, NoFileStep
<1>3. CASE Goto(p, "write") /\ UNCHANGED <<todo, work>>
  <2>1. "write" \in StepName /\ work[p] \in WorkType
        /\ work' = [work EXCEPT ![p] = work[p]]
    BY <1>3 DEF StepName, FilesInv, ProcsTyped
  <2>2. ProcsTyped' /\ OnlyStep(p) /\ pc'[p] = "write" /\ work'[p] = work[p]
    <3>1. todo[p] \in Seq(FitCall) /\ todo' = [todo EXCEPT ![p] = todo[p]]
      BY <1>3, TodoKept
    <3>2. pc' = [pc EXCEPT ![p] = "write"]
      BY <1>3 DEF Goto
    <3> QED BY <2>1, <3>1, <3>2, ProcsStayTyped
  <2>3. FileOf(p)' = FileOf(p)
    BY <2>2 DEF FileOf, Arg
  <2>4. ProcFits(p)'
    BY <2>2, <2>3 DEF ProcFits, FilesInv, CheckArtifact
  <2> QED BY <1>1, <2>2, <2>4, NoFileStep
<1> QED BY <1>2, <1>3 DEF CheckArtifact

LEMMA ReadHeadKeeps ==
  ASSUME FilesInv, NEW p \in Proc, ReadHead(p)
  PROVE  FilesInv'
<1>1. /\ UNCHANGED fileVars
      /\ lock' \in BOOLEAN /\ calls' \in 0..MaxCalls /\ deaths' \in 0..MaxDeaths
  BY DEF ReadHead, rest, FilesInv, TypeOK
<1>2. CASE Fail(p)
  BY <1>1, <1>2, FailFits, NoFileStep
<1>3. CASE /\ work' = [work EXCEPT ![p].head = Len(journal) + 1]
           /\ Goto(p, "append")
           /\ UNCHANGED todo
  <2> DEFINE w == [work[p] EXCEPT !.head = Len(journal) + 1]
  <2>1. w \in WorkType /\ "append" \in StepName
    <3>1. Len(journal) + 1 \in Nat
      BY JournalLength DEF FilesInv
    <3> QED BY <3>1, HeadKept DEF StepName
  <2>2. work' = [work EXCEPT ![p] = w] /\ pc' = [pc EXCEPT ![p] = "append"]
    BY <1>3 DEF Goto, FilesInv, ProcsTyped
  <2> HIDE DEF w
  <2>3. ProcsTyped' /\ OnlyStep(p) /\ pc'[p] = "append"
    <3>1. todo[p] \in Seq(FitCall) /\ todo' = [todo EXCEPT ![p] = todo[p]]
      BY <1>3, TodoKept
    <3> QED BY <2>1, <2>2, <3>1, ProcsStayTyped
  <2> QED BY <1>1, <2>3, RestFits, NoFileStep
<1> QED BY <1>2, <1>3 DEF ReadHead

(* The processes begin and end their calls.                                *)
LEMMA ProcessKeeps ==
  ASSUME FilesInv, NEW p \in Proc,
         \/ Continue(p) \/ HandRequest(p) \/ EnterStage(p) \/ StageCall(p)
         \/ LeaveStage(p)
  PROVE  FilesInv'
<1>1. /\ UNCHANGED fileVars
      /\ lock' \in BOOLEAN /\ calls' \in 0..MaxCalls /\ deaths' \in 0..MaxDeaths
  <2>1. /\ lock \in BOOLEAN /\ calls \in 0..MaxCalls /\ deaths \in 0..MaxDeaths
        /\ MaxCalls \in Nat
    BY SessionFilesConstants DEF FilesInv, TypeOK
  <2>2. CASE Continue(p) \/ HandRequest(p)
    BY <2>1, <2>2 DEF Continue, HandRequest, rest
  <2>3. CASE EnterStage(p) \/ LeaveStage(p)
    BY <2>1, <2>3 DEF EnterStage, LeaveStage
  <2>4. CASE StageCall(p)
    BY <2>1, <2>4 DEF StageCall
  <2> QED BY <2>2, <2>3, <2>4
<1>2. ProcsTyped' /\ OnlyStep(p) /\ ProcFits(p)'
  <2>1. todo[p] \in Seq(FitCall) /\ todo \in [Proc -> Seq(FitCall)]
    BY DEF FilesInv, ProcsTyped
  <2>2. CASE Continue(p)
    <3>1. CASE Leave(p, "idle") /\ UNCHANGED todo
      BY <3>1, TodoKept, ReadyFits
    <3>2. CASE /\ todo[p] # <<>>
               /\ Begin(p, Head(todo[p]))
               /\ todo' = [todo EXCEPT ![p] = Tail(@)]
      <4>1. Head(todo[p]) \in FitCall /\ Tail(todo[p]) \in Seq(FitCall)
        BY <2>1, <3>2
      <4>2. todo' = [todo EXCEPT ![p] = Tail(todo[p])]
        BY <2>1, <3>2
      <4> QED BY <3>2, <4>1, <4>2, BeginFits
    <3> QED BY <2>2, <3>1, <3>2 DEF Continue
  <2>3. CASE HandRequest(p)
    BY <2>3, ReadyFits, RequestCallsFit DEF HandRequest, Ready
  <2>4. CASE EnterStage(p)
    BY <2>4, TodoKept, ReadyFits DEF EnterStage, Ready
  <2>5. CASE LeaveStage(p)
    BY <2>5, TodoKept, ReadyFits DEF LeaveStage
  <2>6. CASE StageCall(p)
    <3>1. PICK c \in StageCalls : Begin(p, c)
      BY <2>6 DEF StageCall
    <3>2. c \in FitCall
      BY StageCallFits
    <3>3. todo' = [todo EXCEPT ![p] = todo[p]]
      BY <2>6, TodoKept DEF StageCall
    <3> QED BY <2>1, <3>1, <3>2, <3>3, BeginFits
  <2> QED BY <2>2, <2>3, <2>4, <2>5, <2>6
<1> QED BY <1>1, <1>2, NoFileStep

LEMMA ClearLockKeeps ==
  ASSUME FilesInv, ClearLock
  PROVE  FilesInv'
<1>1. UNCHANGED <<fileVars, procVars, calls, deaths>> /\ lock' = FALSE
  BY DEF ClearLock
<1>2. TypeOK' /\ ProcsTyped' /\ ManifestFits'
  BY <1>1 DEF FilesInv, TypeOK, ProcsTyped, ManifestFits, fileVars, procVars
<1>3. ASSUME NEW q \in Proc PROVE ProcFits(q)'
  BY <1>1 DEF FilesInv, ProcFits, FileOf, Arg, fileVars, procVars
<1> QED BY <1>2, <1>3 DEF FilesInv

(***************************************************************************)
(* The steps that write.                                                   *)
(***************************************************************************)
LEMMA WritePatchsetKeeps ==
  ASSUME FilesInv, NEW p \in Proc, WritePatchset(p)
  PROVE  FilesInv'
<1>1. /\ pc[p] = "patch" /\ patchset' = TRUE /\ pc' = [pc EXCEPT ![p] = "first"]
      /\ UNCHANGED <<manifest, snapFile, artFile, journal, tail, todo, work,
                     lock, calls, deaths>>
  BY DEF WritePatchset, Goto, rest
<1>2. TypeOK' /\ ManifestFits' /\ FilesGrow
  <2>1. TypeOK'
    BY <1>1 DEF FilesInv, TypeOK
  <2>2. ManifestFits'
    BY <1>1 DEF FilesInv, ManifestFits
  <2>3. FilesGrow
    BY <1>1, JournalLength DEF FilesInv, FilesGrow
  <2> QED BY <2>1, <2>2, <2>3
<1>3. "first" \in StepName /\ todo[p] \in Seq(FitCall) /\ work[p] \in WorkType
  BY DEF FilesInv, ProcsTyped, StepName
<1>4. todo' = [todo EXCEPT ![p] = todo[p]] /\ work' = [work EXCEPT ![p] = work[p]]
  BY <1>1 DEF FilesInv, ProcsTyped
<1>5. ProcsTyped' /\ OnlyStep(p) /\ pc'[p] = "first"
  BY <1>1, <1>3, <1>4, ProcsStayTyped
<1>6. ProcFits(p)'
  BY <1>1, <1>5 DEF FilesInv, ProcFits
<1> QED BY <1>1, <1>2, <1>5, <1>6, StepKeeps

LEMMA FirstManifestKeeps ==
  ASSUME FilesInv, NEW p \in Proc, FirstManifest(p)
  PROVE  FilesInv'
<1>1. /\ pc[p] = "first" /\ manifest' = NewManifest /\ Ready(p)
      /\ UNCHANGED <<patchset, snapFile, artFile, journal, tail, todo,
                     lock, calls, deaths>>
  BY DEF FirstManifest, rest
<1>2. /\ p = Creator /\ patchset
      /\ \A q \in Proc \ {p} : pc[q] \notin {"patch", "first"}
  BY <1>1 DEF FilesInv, ProcFits
<1>3. NewManifest.st = "PLANNED" /\ NewManifest.arts = {} /\ NewManifest.count = 0
  BY DEF NewManifest, NoManifest
<1>4. TypeOK'
  BY <1>1, NothingType DEF FilesInv, TypeOK, ManifestType
<1>5. ManifestFits' /\ FilesGrow
  BY <1>1, <1>2, <1>3, NothingType, JournalLength
     DEF FilesInv, ManifestFits, FilesGrow, SessionState
<1>6. ProcsTyped' /\ OnlyStep(p) /\ ProcFits(p)'
  BY <1>1, TodoKept, ReadyFits DEF Ready
<1> QED BY <1>2, <1>4, <1>5, <1>6, StepKeeps

LEMMA ReplaceSnapshotKeeps ==
  ASSUME FilesInv, NEW p \in Proc, ReplaceSnapshot(p)
  PROVE  FilesInv'
<1> DEFINE n == snapFile[Arg(p)] + 1
           w == [work[p] EXCEPT !.head = n]
<1>1. /\ pc[p] = "replace" /\ snapFile' = [snapFile EXCEPT ![Arg(p)] = n]
      /\ work' = [work EXCEPT ![p].head = n] /\ pc' = [pc EXCEPT ![p] = "load"]
      /\ UNCHANGED <<manifest, patchset, artFile, journal, tail, todo,
                     lock, calls, deaths>>
  BY DEF ReplaceSnapshot, Goto, rest, FilesInv, TypeOK
<1>2. work[p].call.do = "snap" /\ work[p].call \in FitCall
  BY <1>1 DEF FilesInv, ProcFits, ProcsTyped, WorkType
<1>3. Arg(p) \in Labels
  BY <1>2 DEF Arg, FitCall
<1>4. snapFile \in [Labels -> Nat] /\ n \in Nat
  <2>1. snapFile \in [Labels -> Nat]
    BY DEF FilesInv, TypeOK
  <2> QED BY <1>3, <2>1
<1>5. w \in WorkType /\ "load" \in StepName
  BY <1>4, HeadKept DEF StepName
<1>6. work' = [work EXCEPT ![p] = w]
  BY <1>1 DEF FilesInv, ProcsTyped
<1>7. w.call = work[p].call
  BY DEF FilesInv, ProcsTyped, WorkType
<1> HIDE DEF n, w
<1>8. ProcsTyped' /\ OnlyStep(p) /\ pc'[p] = "load" /\ work'[p] = w
  <2>1. todo[p] \in Seq(FitCall) /\ todo' = [todo EXCEPT ![p] = todo[p]]
    BY <1>1, TodoKept
  <2>2. pc' = [pc EXCEPT ![p] = "load"]
    BY <1>1
  <2> QED BY <1>5, <1>6, <2>1, <2>2, ProcsStayTyped
<1>9. snapFile' \in [Labels -> Nat]
  BY <1>1, <1>4
<1>10. TypeOK' /\ ManifestFits' /\ FilesGrow
  <2>1. TypeOK'
    BY <1>1, <1>9 DEF FilesInv, TypeOK
  <2>2. ManifestFits'
    BY <1>1 DEF FilesInv, ManifestFits
  <2>3. FilesGrow
    BY <1>1, JournalLength DEF FilesInv, FilesGrow
  <2> QED BY <2>1, <2>2, <2>3
<1>11. ProcFits(p)'
  BY <1>2, <1>7, <1>8 DEF ProcFits
<1> QED BY <1>1, <1>8, <1>10, <1>11, StepKeeps

LEMMA WriteArtifactKeeps ==
  ASSUME FilesInv, NEW p \in Proc, WriteArtifact(p)
  PROVE  FilesInv'
<1>1. /\ pc[p] = "write" /\ artFile' = artFile \cup {FileOf(p)}
      /\ pc' = [pc EXCEPT ![p] = "load"]
      /\ UNCHANGED <<manifest, patchset, snapFile, journal, tail, todo, work,
                     lock, calls, deaths>>
  BY DEF WriteArtifact, Goto, rest
<1>2. work[p].call.do \in {"art", "once"} /\ FileOf(p) \in Name
  BY <1>1 DEF FilesInv, ProcFits
<1>3. "load" \in StepName /\ work[p] \in WorkType /\ todo[p] \in Seq(FitCall)
      /\ work' = [work EXCEPT ![p] = work[p]] /\ todo' = [todo EXCEPT ![p] = todo[p]]
  BY <1>1 DEF FilesInv, ProcsTyped, StepName
<1>4. ProcsTyped' /\ OnlyStep(p) /\ pc'[p] = "load" /\ work'[p] = work[p]
  BY <1>1, <1>3, ProcsStayTyped, ZenonT(60)
<1>5. TypeOK'
  BY <1>1, <1>2 DEF FilesInv, TypeOK
<1>6. ManifestFits' /\ FilesGrow
  <2>1. ManifestFits'
    BY <1>1 DEF FilesInv, ManifestFits
  <2>2. FilesGrow
    BY <1>1, JournalLength DEF FilesInv, FilesGrow
  <2> QED BY <2>1, <2>2
<1>7. FileOf(p)' = FileOf(p)
  BY <1>4 DEF FileOf, Arg
<1>8. ProcFits(p)'
  BY <1>1, <1>2, <1>4, <1>7 DEF ProcFits
<1> QED BY <1>1, <1>4, <1>5, <1>6, <1>8, StepKeeps

(* What a call makes of the manifest it has read.                          *)
LEMMA ChangedManifest ==
  ASSUME FilesInv, NEW p \in Proc, pc[p] = "save"
  PROVE  /\ Changed(p) \in ManifestType
         /\ Changed(p).st = IF work[p].call.do = "state" THEN Arg(p)
                            ELSE work[p].held.st
         /\ Changed(p).arts = work[p].held.arts
                \cup IF work[p].call.do \in {"art", "once"} THEN {ArtifactOf(p)} ELSE {}
         /\ Changed(p).count = work[p].held.count
         /\ Changed(p).st \in SessionState
         /\ \A a \in Changed(p).arts : a.file \in artFile
         /\ work[p].call.do \in {"art", "once"} => ArtifactOf(p) \in Artifact
<1> DEFINE m == work[p].held
           do == work[p].call.do
           n == work[p].head
<1>1. /\ m \in ManifestType /\ n \in Nat /\ work[p].call \in FitCall
  BY DEF FilesInv, ProcsTyped, WorkType
<1>2. /\ m.st \in SessionState
      /\ \A a \in m.arts : a.file \in artFile
      /\ do \in {"state", "note", "snap", "art", "once"}
      /\ do \in {"art", "once"} => FileOf(p) \in Name \cap artFile
  BY DEF FilesInv, ProcFits
<1>3. /\ do = "snap" => Arg(p) \in Labels
      /\ do = "state" => Arg(p) \in SessionState
  BY <1>1 DEF FitCall, Arg
<1>4. ASSUME do \in {"art", "once"}
      PROVE  ArtifactOf(p) \in Artifact /\ ArtifactOf(p).file \in artFile
  <2>1. FileOf(p) \in Name /\ FileOf(p)[1] = Arg(p)
    BY <1>2, <1>4 DEF FileOf
  <2>2. Arg(p) \in {x[1] : x \in Name}
    BY <2>1
  <2> QED BY <1>2, <1>4, <2>1, <2>2 DEF ArtifactOf, Artifact
<1> HIDE DEF m, do, n
<1>5. CASE do = "state"
  <2>1. Changed(p) = [m EXCEPT !.st = Arg(p)]
    BY <1>5 DEF Changed, m, do
  <2>2. /\ Changed(p) \in ManifestType /\ Changed(p).st = Arg(p)
        /\ Changed(p).arts = m.arts /\ Changed(p).count = m.count
    BY <1>1, <1>3, <1>5, <2>1 DEF ManifestType
  <2> QED BY <1>2, <1>3, <1>5, <2>2 DEF m, do
<1>6. CASE do = "snap"
  <2>1. Changed(p) = [m EXCEPT !.snaps = [m.snaps EXCEPT ![Arg(p)] = n]]
    BY <1>1, <1>6 DEF Changed, m, do, n, ManifestType
  <2>2. [m.snaps EXCEPT ![Arg(p)] = n] \in [Labels -> Nat]
    BY <1>1, <1>3, <1>6 DEF ManifestType
  <2>3. /\ Changed(p) \in ManifestType /\ Changed(p).st = m.st
        /\ Changed(p).arts = m.arts /\ Changed(p).count = m.count
    BY <1>1, <2>1, <2>2 DEF ManifestType
  <2> QED BY <1>2, <1>6, <2>3 DEF m, do
<1>7. CASE do \in {"art", "once"}
  <2>1. Changed(p) = [m EXCEPT !.arts = m.arts \cup {ArtifactOf(p)}]
    BY <1>1, <1>7 DEF Changed, m, do, ManifestType
  <2>2. m.arts \cup {ArtifactOf(p)} \in SUBSET Artifact
    BY <1>1, <1>4, <1>7 DEF ManifestType
  <2>3. /\ Changed(p) \in ManifestType /\ Changed(p).st = m.st
        /\ Changed(p).arts = m.arts \cup {ArtifactOf(p)} /\ Changed(p).count = m.count
    BY <1>1, <2>1, <2>2 DEF ManifestType
  <2> QED BY <1>2, <1>4, <1>7, <2>3 DEF m, do
<1>8. CASE do = "note"
  <2>1. Changed(p) = m
    BY <1>8 DEF Changed, m, do
  <2> QED BY <1>1, <1>2, <1>8, <2>1 DEF m, do
<1> QED BY <1>2, <1>5, <1>6, <1>7, <1>8

LEMMA SaveKeeps ==
  ASSUME FilesInv, NEW p \in Proc, Save(p)
  PROVE  FilesInv'
<1>1. /\ pc[p] = "save"
      /\ UNCHANGED <<patchset, snapFile, artFile, journal, tail, lock, calls, deaths>>
  BY DEF Save, rest
<1>2. manifest # NoManifest /\ manifest.st \in SessionState /\ patchset
  BY <1>1 DEF FilesInv, ProcFits, ManifestFits
<1>3. \A q \in Proc : pc[q] \notin {"patch", "first"}
  BY <1>2 DEF FilesInv, ProcFits
<1>4. CASE Fail(p) /\ UNCHANGED manifest
  <2>1. lock \in BOOLEAN /\ calls \in 0..MaxCalls /\ deaths \in 0..MaxDeaths
    BY DEF FilesInv, TypeOK
  <2> QED BY <1>1, <1>4, <2>1, FailFits, NoFileStep DEF fileVars
<1>5. CASE /\ manifest' = Changed(p)
           /\ \/ Goto(p, "head") /\ UNCHANGED work
              \/ Ready(p)
           /\ UNCHANGED todo
  <2>1. /\ manifest' \in ManifestType /\ manifest'.st \in SessionState
        /\ manifest'.count = work[p].held.count
        /\ \A a \in manifest'.arts : a.file \in artFile
    BY <1>1, <1>5, ChangedManifest
  <2>2. work[p].held.count <= Len(journal)
    BY <1>1 DEF FilesInv, ProcFits
  <2>3. TypeOK'
    BY <1>1, <2>1 DEF FilesInv, TypeOK, ManifestType
  <2>4. ManifestFits'
    BY <1>1, <1>2, <2>1, <2>2 DEF ManifestFits
  <2>5. manifest' # NoManifest
    BY <2>1 DEF NoManifest, SessionState
  <2>6. FilesGrow
    BY <1>1, <2>5, JournalLength DEF FilesInv, FilesGrow
  <2>7. ProcsTyped' /\ OnlyStep(p) /\ ProcFits(p)'
    <3>1. CASE Ready(p)
      BY <1>5, <3>1, TodoKept, ReadyFits DEF Ready
    <3>2. CASE Goto(p, "head") /\ UNCHANGED work
      <4>1. "head" \in StepName /\ work[p] \in WorkType
            /\ work' = [work EXCEPT ![p] = work[p]]
            /\ pc' = [pc EXCEPT ![p] = "head"]
        BY <3>2 DEF FilesInv, ProcsTyped, StepName, Goto
      <4>2. todo[p] \in Seq(FitCall) /\ todo' = [todo EXCEPT ![p] = todo[p]]
        BY <1>5, TodoKept
      <4>3. ProcsTyped' /\ OnlyStep(p) /\ pc'[p] = "head"
        BY <4>1, <4>2, ProcsStayTyped
      <4> QED BY <4>3, RestFits
    <3> QED BY <1>5, <3>1, <3>2
  <2> QED BY <1>3, <2>3, <2>4, <2>6, <2>7, StepKeeps
<1> QED BY <1>4, <1>5 DEF Save

(* An event is one of the journal's.                                       *)
EventType == [seq : Nat, st : SessionState \cup {""}]

LEMMA EventFits ==
  ASSUME FilesInv, NEW p \in Proc
  PROVE  Event(p) \in EventType
<1>1. work[p].head \in Nat /\ work[p].call \in FitCall
  BY DEF FilesInv, ProcsTyped, WorkType
<1>2. work[p].call.do = "state" => Arg(p) \in SessionState
  BY <1>1 DEF FitCall, Arg
<1> QED BY <1>1, <1>2 DEF Event, EventType

(* The journal as it was, or with one event more.                          *)
LEMMA AppendLength ==
  ASSUME NEW S, NEW q \in Seq(S), NEW e \in S
  PROVE  Append(q, e) \in Seq(S) /\ Len(Append(q, e)) = Len(q) + 1
  OBVIOUS

LEMMA JournalGrows ==
  ASSUME FilesInv, NEW p \in Proc, journal' = journal \/ journal' = Append(journal, Event(p)),
         tail' \in {"whole", "noEol", "cut"}, deaths' \in 0..MaxDeaths,
         UNCHANGED <<manifest, patchset, snapFile, artFile, lock, calls>>
  PROVE  TypeOK' /\ ManifestFits' /\ FilesGrow
<1>1. journal \in Seq(EventType) /\ manifest.count \in Nat
  BY DEF FilesInv, TypeOK, EventType
<1>2. Len(journal) \in Nat /\ Event(p) \in EventType
  BY JournalLength, EventFits DEF FilesInv
<1>3. journal' \in Seq(EventType) /\ Len(journal') \in Nat /\ Len(journal) <= Len(journal')
  BY <1>1, <1>2, AppendLength
<1>4. TypeOK'
  BY <1>3 DEF FilesInv, TypeOK, EventType
<1>5. ManifestFits'
  BY <1>1, <1>2, <1>3 DEF FilesInv, ManifestFits
<1> QED BY <1>3, <1>4, <1>5 DEF FilesGrow

LEMMA AppendEventKeeps ==
  ASSUME FilesInv, NEW p \in Proc, AppendEvent(p)
  PROVE  FilesInv'
<1>1. /\ journal' = journal \/ journal' = Append(journal, Event(p))
      /\ tail' = tail \/ tail' = "cut"
      /\ UNCHANGED <<manifest, patchset, snapFile, artFile, todo, lock, calls, deaths>>
      /\ Ready(p)
  BY DEF AppendEvent, rest
<1>2. tail' \in {"whole", "noEol", "cut"} /\ deaths' \in 0..MaxDeaths
  BY <1>1 DEF FilesInv, TypeOK
<1>3. TypeOK' /\ ManifestFits' /\ FilesGrow
  BY <1>1, <1>2, JournalGrows
<1>4. ProcsTyped' /\ OnlyStep(p) /\ ProcFits(p)'
  BY <1>1, TodoKept, ReadyFits DEF Ready
<1> QED BY <1>1, <1>3, <1>4, StepKeeps

LEMMA DieKeeps ==
  ASSUME FilesInv, NEW p \in Proc, Die(p)
  PROVE  FilesInv'
<1>1. /\ journal' = journal \/ journal' = Append(journal, Event(p))
      /\ tail' \in {tail, "cut", "noEol"}
      /\ deaths' = deaths + 1 /\ deaths < MaxDeaths
      /\ UNCHANGED <<manifest, patchset, snapFile, artFile, lock, calls>>
      /\ Leave(p, "dead") /\ todo' = [todo EXCEPT ![p] = <<>>]
  BY DEF Die
<1>2. tail' \in {"whole", "noEol", "cut"} /\ deaths' \in 0..MaxDeaths
  <2>1. deaths \in 0..MaxDeaths /\ MaxDeaths \in Nat
    BY SessionFilesConstants DEF FilesInv, TypeOK
  <2>2. tail \in {"whole", "noEol", "cut"}
    BY DEF FilesInv, TypeOK
  <2>3. deaths' \in 0..MaxDeaths
    BY <1>1, <2>1
  <2> QED BY <1>1, <2>2, <2>3
<1>3. TypeOK' /\ ManifestFits' /\ FilesGrow
  BY <1>1, <1>2, JournalGrows
<1>4. ProcsTyped' /\ OnlyStep(p) /\ ProcFits(p)'
  <2>1. <<>> \in Seq(FitCall)
    OBVIOUS
  <2> QED BY <1>1, <2>1, ReadyFits
<1> QED BY <1>1, <1>3, <1>4, StepKeeps

(***************************************************************************)
(* All steps.                                                              *)
(***************************************************************************)
LEMMA StepFits ==
  ASSUME FilesInv, [Next]_vars
  PROVE  FilesInv'
<1>1. ASSUME NEW p \in Proc, Step(p) PROVE FilesInv'
  BY <1>1, WritePatchsetKeeps, FirstManifestKeeps, LoadKeeps, SaveKeeps,
     ReplaceSnapshotKeeps, PickNameKeeps, CheckArtifactKeeps, WriteArtifactKeeps,
     ReadHeadKeeps, AppendEventKeeps DEF Step
<1>2. ASSUME NEW p \in Proc,
             \/ Continue(p) \/ HandRequest(p) \/ EnterStage(p) \/ StageCall(p)
             \/ LeaveStage(p)
      PROVE  FilesInv'
  BY <1>2, ProcessKeeps
<1>3. CASE UNCHANGED vars
  <2>1. TypeOK' /\ ProcsTyped' /\ ManifestFits'
    BY <1>3 DEF FilesInv, TypeOK, ProcsTyped, ManifestFits, vars, fileVars, procVars
  <2>2. ASSUME NEW q \in Proc PROVE ProcFits(q)'
    BY <1>3 DEF FilesInv, ProcFits, FileOf, Arg, vars, fileVars, procVars
  <2> QED BY <2>1, <2>2 DEF FilesInv
<1> QED BY <1>1, <1>2, <1>3, DieKeeps, ClearLockKeeps DEF Next

LEMMA InitFits == Init => FilesInv
<1> SUFFICES ASSUME Init PROVE FilesInv
  OBVIOUS
<1>1. TypeOK
  <2>1. NoManifest \in ManifestType
    BY NothingType
  <2>2. <<>> \in Seq(EventType)
    OBVIOUS
  <2>3. 0 \in 0..MaxCalls /\ 0 \in 0..MaxDeaths
    BY SessionFilesConstants
  <2> QED BY <2>1, <2>2, <2>3 DEF Init, TypeOK, ManifestType, EventType
<1>2. ProcsTyped
  <2>1. <<>> \in Seq(FitCall) /\ Creation \in Seq(FitCall) /\ Nothing \in WorkType
    BY RequestCallsFit, NothingType
  <2> QED BY <2>1 DEF Init, ProcsTyped, StepName
<1>3. ManifestFits
  <2>1. manifest = NoManifest /\ manifest.arts = {} /\ manifest.count = 0
    BY DEF Init, NoManifest
  <2>2. Len(journal) = 0
    BY DEF Init
  <2> QED BY <2>1, <2>2 DEF ManifestFits
<1>4. ASSUME NEW p \in Proc PROVE ProcFits(p)
  BY DEF Init, ProcFits
<1> QED BY <1>1, <1>2, <1>3, <1>4 DEF FilesInv

LEMMA FilesFitAlways == Spec => []FilesInv
  BY InitFits, StepFits, PTL DEF Spec

(* Every variable keeps its type, whoever overlaps and whoever dies.       *)
THEOREM FilesTyped == Spec => []TypeOK
<1>1. FilesInv => TypeOK
  BY DEF FilesInv
<1> QED BY <1>1, FilesFitAlways, PTL

(* What a session records is there, whoever overlaps and whoever dies: each*)
(* file comes before its record, files only grow, and a manifest that is   *)
(* written back is one that was read.                                      *)
THEOREM RecordsAreThere == Spec => []RecordedIsThere
<1>1. FilesInv => RecordedIsThere
  BY DEF FilesInv, ManifestFits, RecordedIsThere
<1> QED BY <1>1, FilesFitAlways, PTL

(* No manifest is ahead of its journal, whoever overlaps and whoever dies. *)
THEOREM ManifestStaysBehind == Spec => []ManifestBehindJournal
<1>1. FilesInv => ManifestBehindJournal
  BY DEF FilesInv, ManifestFits, ManifestBehindJournal
<1> QED BY <1>1, FilesFitAlways, PTL

(***************************************************************************)
(* Requests that do not overlap.                                           *)
(***************************************************************************)

(* One process at most is at work; of the stages, under the lock.          *)
OneAtWork == \A p, q \in Proc : ~AtRest(p) /\ ~AtRest(q) => p = q
LockTells == \A p \in Stager : ~AtRest(p) => lock

(* What a process has read to write it back is still so.                   *)
ReadIsCurrent(p) ==
  /\ pc[p] = "save" => work[p].held = Loaded
  /\ pc[p] = "append" => work[p].head = Len(journal) + 1

AloneInv ==
  /\ OneAtWork
  /\ LockTells
  /\ \A p \in Proc : ReadIsCurrent(p)
  /\ JournalIsChained

(* A step of a process at work leaves it alone at work.                    *)
LEMMA StaysAlone ==
  ASSUME FilesInv, AloneInv, NEW p \in Proc, ~AtRest(p),
         NEW l, pc' = [pc EXCEPT ![p] = l],
         p \in Stager => lock' = lock \/ l = "idle",
         ReadIsCurrent(p)', JournalIsChained'
  PROVE  AloneInv'
<1>1. pc'[p] = l /\ \A q \in Proc \ {p} : pc'[q] = pc[q]
  BY DEF FilesInv, ProcsTyped
<1>2. \A q \in Proc \ {p} : AtRest(q) /\ AtRest(q)'
  BY <1>1 DEF AloneInv, OneAtWork, AtRest
<1>3. OneAtWork'
  BY <1>2 DEF OneAtWork
<1>4. LockTells'
  <2>1. ASSUME NEW q \in Stager, ~AtRest(q)' PROVE lock'
    <3>1. q = p
      BY <1>2, <2>1 DEF Proc
    <3>2. lock /\ l # "idle"
      BY <1>1, <2>1, <3>1 DEF AloneInv, LockTells, AtRest
    <3> QED BY <3>1, <3>2
  <2> QED BY <2>1 DEF LockTells
<1>5. ASSUME NEW q \in Proc \ {p} PROVE ReadIsCurrent(q)'
  BY <1>2 DEF ReadIsCurrent, AtRest
<1> QED BY <1>3, <1>4, <1>5 DEF AloneInv

LEMMA LocalStepAlone ==
  ASSUME FilesInv, AloneInv, NEW p \in Proc, ~AtRest(p), UNCHANGED journal,
         NEW l \in StepName \ {"save", "append"}, pc' = [pc EXCEPT ![p] = l],
         p \in Stager => lock' = lock \/ l = "idle"
  PROVE  AloneInv'
<1>1. pc'[p] = l
  BY DEF FilesInv, ProcsTyped
<1>2. ReadIsCurrent(p)'
  BY <1>1 DEF ReadIsCurrent
<1>3. JournalIsChained'
  BY DEF AloneInv, JournalIsChained
<1> QED BY <1>2, <1>3, StaysAlone

(* Steps that neither read to write back nor tell the journal.             *)
LEMMA OrdinaryStepAlone ==
  ASSUME FilesInv, AloneInv, NEW p \in Proc,
         \/ WritePatchset(p) \/ FirstManifest(p) \/ Save(p) \/ ReplaceSnapshot(p)
         \/ PickName(p) \/ CheckArtifact(p) \/ WriteArtifact(p) \/ Continue(p)
         \/ StageCall(p) \/ LeaveStage(p)
  PROVE  AloneInv'
<1>1. ~AtRest(p) /\ UNCHANGED journal
  BY DEF WritePatchset, FirstManifest, Save, ReplaceSnapshot, PickName,
         CheckArtifact, WriteArtifact, Continue, StageCall, LeaveStage, AtRest,
         fileVars
<1>2. ASSUME NEW c \in FitCall PROVE FirstStep[c.do] \in StepName \ {"save", "append"}
  <2>1. c.do \in {"state", "note", "snap", "art", "once", "event"}
    BY DEF FitCall, Call
  <2> QED BY <2>1 DEF FirstStep, StepName
<1>3. CASE LeaveStage(p)
  BY <1>1, <1>3, LocalStepAlone DEF LeaveStage, Leave, Goto, StepName
<1>4. CASE Continue(p) /\ todo[p] # <<>>
  <2>1. Head(todo[p]) \in FitCall
    <3>1. todo[p] \in Seq(FitCall)
      BY DEF FilesInv, ProcsTyped
    <3> QED BY <1>4, <3>1
  <2>2. pc' = [pc EXCEPT ![p] = FirstStep[Head(todo[p]).do]] /\ lock' = lock
    BY <1>4 DEF Continue, Begin, Goto, rest
  <2> QED BY <1>1, <1>2, <2>1, <2>2, LocalStepAlone
<1>5. CASE StageCall(p)
  <2>1. PICK c \in FitCall : Begin(p, c)
    BY <1>5, StageCallFits DEF StageCall
  <2>2. pc' = [pc EXCEPT ![p] = FirstStep[c.do]] /\ lock' = lock
    BY <1>5, <2>1 DEF StageCall, Begin, Goto
  <2> QED BY <1>1, <1>2, <2>2, LocalStepAlone
<1>6. CASE \/ WritePatchset(p) \/ FirstManifest(p) \/ Save(p) \/ ReplaceSnapshot(p)
           \/ PickName(p) \/ CheckArtifact(p) \/ WriteArtifact(p)
           \/ Continue(p) /\ todo[p] = <<>>
  <2>1. lock' = lock
    BY <1>6 DEF WritePatchset, FirstManifest, Save, ReplaceSnapshot, PickName,
                CheckArtifact, WriteArtifact, Continue, rest
  <2>2. \E l \in {"first", "ready", "head", "load", "check", "write", "idle"} :
          pc' = [pc EXCEPT ![p] = l]
    BY <1>6 DEF WritePatchset, FirstManifest, Save, ReplaceSnapshot, PickName,
                CheckArtifact, WriteArtifact, Continue, Fail, Ready, Leave, Goto
  <2>3. {"first", "ready", "head", "load", "check", "write", "idle"}
          \subseteq StepName \ {"save", "append"}
    BY DEF StepName
  <2> QED BY <1>1, <2>1, <2>2, <2>3, LocalStepAlone
<1> QED BY <1>3, <1>4, <1>5, <1>6

LEMMA LoadAlone ==
  ASSUME FilesInv, AloneInv, NEW p \in Proc, Load(p)
  PROVE  AloneInv'
<1>1. ~AtRest(p) /\ UNCHANGED <<manifest, journal, lock>>
  BY DEF Load, AtRest, fileVars, rest
<1>2. CASE Fail(p)
  BY <1>1, <1>2, LocalStepAlone DEF Fail, Ready, Leave, Goto, StepName
<1>3. CASE work' = [work EXCEPT ![p].held = Loaded] /\ Goto(p, "save")
  <2>1. work[p] \in WorkType /\ work \in [Proc -> WorkType]
    BY DEF FilesInv, ProcsTyped
  <2>2. work'[p].held = Loaded /\ Loaded' = Loaded
    BY <1>1, <1>3, <2>1 DEF Loaded, WorkType
  <2>3. pc' = [pc EXCEPT ![p] = "save"] /\ pc'[p] = "save"
    BY <1>3 DEF Goto, FilesInv, ProcsTyped
  <2>4. ReadIsCurrent(p)' /\ JournalIsChained'
    BY <1>1, <2>2, <2>3 DEF ReadIsCurrent, AloneInv, JournalIsChained
  <2> QED BY <1>1, <2>3, <2>4, StaysAlone
<1> QED BY <1>2, <1>3 DEF Load

LEMMA ReadHeadAlone ==
  ASSUME FilesInv, AloneInv, NEW p \in Proc, ReadHead(p)
  PROVE  AloneInv'
<1>1. ~AtRest(p) /\ UNCHANGED <<manifest, journal, lock>>
  BY DEF ReadHead, AtRest, fileVars, rest
<1>2. CASE Fail(p)
  BY <1>1, <1>2, LocalStepAlone DEF Fail, Ready, Leave, Goto, StepName
<1>3. CASE work' = [work EXCEPT ![p].head = Len(journal) + 1] /\ Goto(p, "append")
  <2>1. work[p] \in WorkType /\ work \in [Proc -> WorkType]
    BY DEF FilesInv, ProcsTyped
  <2>2. work'[p].head = Len(journal') + 1
    BY <1>1, <1>3, <2>1 DEF WorkType
  <2>3. pc' = [pc EXCEPT ![p] = "append"] /\ pc'[p] = "append"
    BY <1>3 DEF Goto, FilesInv, ProcsTyped
  <2>4. ReadIsCurrent(p)' /\ JournalIsChained'
    BY <1>1, <2>2, <2>3 DEF ReadIsCurrent, AloneInv, JournalIsChained
  <2> QED BY <1>1, <2>3, <2>4, StaysAlone
<1> QED BY <1>2, <1>3 DEF ReadHead

(* An event of the process at work is the next one.                        *)
LEMMA ChainGrows ==
  ASSUME FilesInv, AloneInv, NEW p \in Proc,
         \/ journal' = journal
         \/ pc[p] = "append" /\ journal' = Append(journal, Event(p))
  PROVE  JournalIsChained'
<1>1. CASE journal' = journal
  BY <1>1 DEF AloneInv, JournalIsChained
<1>2. CASE pc[p] = "append" /\ journal' = Append(journal, Event(p))
  <2>1. journal \in Seq(EventType) /\ Event(p) \in EventType
    BY EventFits DEF FilesInv, TypeOK, EventType
  <2>2. Event(p).seq = Len(journal) + 1
    BY <1>2 DEF AloneInv, ReadIsCurrent, Event
  <2>3. \A k \in DOMAIN journal : journal[k].seq = k
    BY DEF AloneInv, JournalIsChained
  <2> DEFINE e == Event(p)
  <2> HIDE DEF e
  <2>4. /\ DOMAIN journal' = DOMAIN journal \cup {Len(journal) + 1}
        /\ journal'[Len(journal) + 1] = e
        /\ \A k \in DOMAIN journal : journal'[k] = journal[k]
    <3>1. journal' = Append(journal, e) /\ e \in EventType
      BY <1>2, <2>1 DEF e
    <3> QED BY <2>1, <3>1
  <2> QED BY <2>2, <2>3, <2>4 DEF JournalIsChained, e
<1> QED BY <1>1, <1>2

LEMMA JournalStepAlone ==
  ASSUME FilesInv, AloneInv, NEW p \in Proc, AppendEvent(p) \/ Die(p)
  PROVE  AloneInv'
<1>1. /\ ~AtRest(p) /\ lock' = lock
      /\ \E l \in {"ready", "dead"} : pc' = [pc EXCEPT ![p] = l]
      /\ \/ journal' = journal
         \/ pc[p] = "append" /\ journal' = Append(journal, Event(p))
  BY DEF AppendEvent, Die, AtRest, rest, Ready, Leave, Goto
<1>2. JournalIsChained'
  BY <1>1, ChainGrows
<1>3. pc'[p] \in {"ready", "dead"}
  BY <1>1 DEF FilesInv, ProcsTyped
<1>4. ReadIsCurrent(p)'
  BY <1>3 DEF ReadIsCurrent
<1> QED BY <1>1, <1>2, <1>4, StaysAlone

(* A request is let in where all are at rest.                              *)
LEMMA EnterAlone ==
  ASSUME ~Overlap, FilesInv, AloneInv, NEW p \in Proc,
         HandRequest(p) \/ EnterStage(p)
  PROVE  AloneInv'
<1>1. /\ pc' = [pc EXCEPT ![p] = "ready"]
      /\ UNCHANGED <<manifest, journal>>
      /\ lock' = lock \/ lock'
  BY DEF HandRequest, EnterStage, Ready, Leave, Goto, fileVars, rest
<1>2. \A q \in Proc : AtRest(q)
  <2>1. CASE HandRequest(p)
    BY <2>1 DEF HandRequest
  <2>2. CASE EnterStage(p)
    <3>1. \A q \in {Creator} \cup Hand : AtRest(q)
      BY <2>2 DEF EnterStage
    <3>2. \A q \in Stager : AtRest(q)
      BY <2>2 DEF EnterStage, LockFree, AloneInv, LockTells
    <3> QED BY <3>1, <3>2 DEF Proc
  <2> QED BY <2>1, <2>2
<1>3. pc'[p] = "ready" /\ \A q \in Proc \ {p} : pc'[q] = pc[q]
  BY <1>1 DEF FilesInv, ProcsTyped
<1>4. \A q \in Proc \ {p} : AtRest(q)'
  BY <1>2, <1>3 DEF AtRest
<1>5. OneAtWork'
  BY <1>4 DEF OneAtWork
<1>6. LockTells'
  <2>1. ASSUME NEW q \in Stager, ~AtRest(q)' PROVE lock'
    <3>1. q = p
      BY <1>4, <2>1 DEF Proc
    <3>2. p \notin Hand
      BY <3>1, SessionFilesConstants
    <3> QED BY <3>2 DEF HandRequest, EnterStage
  <2> QED BY <2>1 DEF LockTells
<1>7. \A q \in Proc : ReadIsCurrent(q)'
  BY <1>3, <1>4 DEF ReadIsCurrent, AtRest
<1>8. JournalIsChained'
  BY <1>1 DEF AloneInv, JournalIsChained
<1> QED BY <1>5, <1>6, <1>7, <1>8 DEF AloneInv

LEMMA NextAlone ==
  ASSUME ~Overlap, FilesInv, AloneInv, [Next]_vars
  PROVE  AloneInv'
<1>1. CASE ClearLock \/ UNCHANGED vars
  <2>1. UNCHANGED <<manifest, journal, pc, work>>
    BY <1>1 DEF ClearLock, vars, fileVars, procVars
  <2>2. LockTells'
    <3>1. CASE ClearLock
      BY <2>1, <3>1 DEF ClearLock, LockTells, AtRest, Proc
    <3>2. CASE UNCHANGED vars
      BY <2>1, <3>2 DEF AloneInv, LockTells, AtRest, vars
    <3> QED BY <1>1, <3>1, <3>2
  <2> QED BY <2>1, <2>2 DEF AloneInv, OneAtWork, ReadIsCurrent, Loaded, AtRest,
                            JournalIsChained
<1>2. ASSUME NEW p \in Proc, Step(p) PROVE AloneInv'
  BY <1>2, OrdinaryStepAlone, LoadAlone, ReadHeadAlone, JournalStepAlone DEF Step
<1>3. ASSUME NEW p \in Proc,
             \/ Continue(p) \/ HandRequest(p) \/ EnterStage(p) \/ StageCall(p)
             \/ LeaveStage(p) \/ Die(p)
      PROVE  AloneInv'
  BY <1>3, OrdinaryStepAlone, EnterAlone, JournalStepAlone
<1> QED BY <1>1, <1>2, <1>3 DEF Next

LEMMA InitAlone == Init => AloneInv
<1> SUFFICES ASSUME Init PROVE AloneInv
  OBVIOUS
<1>1. \A p \in Proc \ {Creator} : AtRest(p)
  BY DEF Init, AtRest
<1>2. OneAtWork
  BY <1>1 DEF OneAtWork
<1>3. LockTells
  BY <1>1, SessionFilesConstants DEF LockTells, Proc
<1>4. \A p \in Proc : ReadIsCurrent(p)
  BY DEF Init, ReadIsCurrent
<1>5. JournalIsChained
  BY DEF Init, JournalIsChained
<1> QED BY <1>2, <1>3, <1>4, <1>5 DEF AloneInv

LEMMA AloneAlways == ~Overlap => (Spec => []AloneInv)
<1> SUFFICES ASSUME ~Overlap PROVE Spec => []AloneInv
  OBVIOUS
<1>1. FilesInv /\ AloneInv /\ [Next]_vars => AloneInv'
  BY NextAlone
<1> QED BY <1>1, InitAlone, FilesFitAlways, PTL DEF Spec

(* The journal of a session on which requests do not overlap is one chain: *)
(* only one process at a time has read where it ends, and one that died    *)
(* does not go on.                                                         *)
THEOREM JournalStaysChained == ~Overlap => (Spec => []JournalIsChained)
<1>1. AloneInv => JournalIsChained
  BY DEF AloneInv
<1> QED BY <1>1, AloneAlways, PTL


(***************************************************************************)
(* Requests that do not overlap see a register.                            *)
(***************************************************************************)
RegisterNext == Register!Move \/ Register!Record \/ Register!Note

(* What the store checks of a change of state is a move of the register.   *)
LEMMA CheckedMove ==
  ASSUME NEW from \in SessionState, NEW how, NEW to \in SessionState,
         MayMove(from, how, to)
  PROVE  Register!LegalMove(from, to)
<1>1. CASE how = "table"
  BY <1>1 DEF MayMove, Register!LegalMove, Register!SessionState,
              Register!Transitions, SessionState, Transitions
<1>2. CASE how = "force"
  BY <1>2 DEF MayMove, Register!LegalMove, Register!SessionState,
              Register!Forced, SessionState
<1>3. CASE how = "back"
  BY <1>3 DEF MayMove, Register!LegalMove, Register!Recoverable,
              Register!Reviewable, Recoverable, Reviewable
<1>4. CASE how = "external"
  BY <1>4 DEF MayMove, Register!LegalMove, Register!External, External
<1> QED BY <1>1, <1>2, <1>3, <1>4 DEF MayMove

(* A manifest that is written back changes one thing of what is there.     *)
LEMMA SaveIsRegistered ==
  ASSUME FilesInv, AloneInv, NEW p \in Proc, Save(p)
  PROVE  [RegisterNext]_(Register!registerVars)
<1>1. pc[p] = "save" /\ journal' = journal
  BY DEF Save
<1>2. work[p].held.st = manifest.st /\ work[p].held.arts = manifest.arts
  <2>1. work[p].held = Loaded
    BY <1>1 DEF AloneInv, ReadIsCurrent
  <2> QED BY <2>1 DEF Loaded, FilesInv, TypeOK
<1>3. manifest.st \in SessionState
  BY <1>1, <1>2 DEF FilesInv, ProcFits
<1>4. CASE manifest' = manifest
  BY <1>1, <1>4 DEF Register!registerVars
<1>5. CASE /\ manifest' = Changed(p)
           /\ work[p].call.do = "state"
           /\ MayMove(work[p].held.st, work[p].call.how, work[p].call.arg)
  <2>1. /\ manifest'.st = work[p].call.arg /\ manifest'.st \in SessionState
        /\ manifest'.arts = manifest.arts
    BY <1>1, <1>2, <1>5, ChangedManifest DEF Arg
  <2>2. Register!LegalMove(manifest.st, manifest'.st)
    BY <1>2, <1>3, <1>5, <2>1, CheckedMove
  <2> QED BY <1>1, <2>1, <2>2 DEF RegisterNext, Register!Move
<1>6. CASE manifest' = Changed(p) /\ work[p].call.do # "state"
  <2>1. manifest'.st = manifest.st
    BY <1>1, <1>2, <1>6, ChangedManifest
  <2>2. CASE work[p].call.do \in {"art", "once"} /\ ArtifactOf(p) \notin manifest.arts
    <3>1. /\ ArtifactOf(p) \in Artifact \ manifest.arts
          /\ manifest'.arts = manifest.arts \cup {ArtifactOf(p)}
      BY <1>1, <1>2, <1>6, <2>2, ChangedManifest
    <3>2. Register!Record
      BY <1>1, <2>1, <3>1 DEF Register!Record
    <3> QED BY <3>2 DEF RegisterNext
  <2>3. CASE ~(work[p].call.do \in {"art", "once"} /\ ArtifactOf(p) \notin manifest.arts)
    <3>1. manifest'.arts = manifest.arts
      BY <1>1, <1>2, <1>6, <2>3, ChangedManifest
    <3> QED BY <1>1, <2>1, <3>1 DEF Register!registerVars
  <2> QED BY <2>2, <2>3
<1> QED BY <1>4, <1>5, <1>6 DEF Save

LEMMA JournalIsRegistered ==
  ASSUME FilesInv, NEW p \in Proc, UNCHANGED manifest,
         journal' = journal \/ journal' = Append(journal, Event(p))
  PROVE  [RegisterNext]_(Register!registerVars)
<1>1. CASE journal' = journal
  BY <1>1 DEF Register!registerVars
<1>2. CASE journal' = Append(journal, Event(p))
  <2>1. journal \in Seq(EventType) /\ Event(p) \in EventType
    BY EventFits DEF FilesInv, TypeOK, EventType
  <2>2. Len(journal') = Len(journal) + 1
    BY <1>2, <2>1, AppendLength
  <2> QED BY <2>2 DEF RegisterNext, Register!Note
<1> QED BY <1>1, <1>2

(* The first manifest makes the session.                                   *)
LEMMA FirstIsRegistered ==
  ASSUME FilesInv, NEW p \in Proc, FirstManifest(p)
  PROVE  [RegisterNext]_(Register!registerVars)
<1>1. manifest = NoManifest /\ manifest' = NewManifest /\ journal' = journal
  BY DEF FilesInv, ProcFits, FirstManifest
<1>2. /\ manifest.st = "NONE" /\ manifest'.st = "PLANNED"
      /\ manifest'.arts = manifest.arts
  BY <1>1 DEF NoManifest, NewManifest
<1> QED BY <1>1, <1>2 DEF RegisterNext, Register!Move, Register!LegalMove

LEMMA StepIsRegistered ==
  ASSUME FilesInv, AloneInv, [Next]_vars
  PROVE  [RegisterNext]_(Register!registerVars)
<1>1. CASE UNCHANGED <<manifest, journal>>
  BY <1>1 DEF Register!registerVars
<1>2. CASE UNCHANGED vars \/ ClearLock
  BY <1>1, <1>2 DEF ClearLock, vars, fileVars
<1>3. ASSUME NEW p \in Proc,
             \/ WritePatchset(p) \/ Load(p) \/ ReplaceSnapshot(p) \/ PickName(p)
             \/ CheckArtifact(p) \/ WriteArtifact(p) \/ ReadHead(p) \/ Continue(p)
             \/ HandRequest(p) \/ EnterStage(p) \/ StageCall(p) \/ LeaveStage(p)
      PROVE  UNCHANGED <<manifest, journal>>
  BY <1>3 DEF WritePatchset, Load, ReplaceSnapshot, PickName, CheckArtifact,
              WriteArtifact, ReadHead, Continue, HandRequest, EnterStage,
              StageCall, LeaveStage, fileVars
<1>4. ASSUME NEW p \in Proc, AppendEvent(p) \/ Die(p)
      PROVE  [RegisterNext]_(Register!registerVars)
  BY <1>4, JournalIsRegistered DEF AppendEvent, Die
<1> QED BY <1>1, <1>2, <1>3, <1>4, SaveIsRegistered, FirstIsRegistered DEF Next, Step

(* Requests that do not overlap see the session as a register: whoever     *)
(* dies and wherever, its state moves along the table of the store, no     *)
(* record is lost and its journal grows by whole events.                   *)
THEOREM FilesKeepRegister == ~Overlap => (Spec => RegisterKept)
<1> SUFFICES ASSUME ~Overlap PROVE Spec => RegisterKept
  OBVIOUS
<1>1. Init => Register!RegisterInit
  <2>1. NoManifest.st = "NONE" /\ NoManifest.arts = {} /\ Len(<<>>) = 0
    BY DEF NoManifest
  <2> QED BY <2>1 DEF Init, Register!RegisterInit
<1>2. FilesInv /\ AloneInv /\ [Next]_vars
        => [Register!Move \/ Register!Record \/ Register!Note]_(Register!registerVars)
  BY StepIsRegistered DEF RegisterNext
<1> QED BY <1>1, <1>2, FilesFitAlways, AloneAlways, PTL
        DEF Spec, RegisterKept, Register!RegisterSpec

(***************************************************************************)
(* Damage is local.  A process at work holds at most one thing that does   *)
(* not agree yet; what nobody holds was left by one that died, and each    *)
(* death leaves one thing at most.                                         *)
(***************************************************************************)

(* Between a file and its record, or a state and its event.                *)
AtRecord(p) == pc[p] \in {"load", "save"}
HoldsSnapshot(p) == AtRecord(p) /\ work[p].call.do = "snap"
HoldsFile(p) == AtRecord(p) /\ work[p].call.do \in {"art", "once"}
HoldsState(p) == pc[p] \in {"head", "append"} /\ work[p].call.do = "state"

SnapshotsInHand == {l \in Labels : \E p \in Proc : HoldsSnapshot(p) /\ Arg(p) = l}
FilesInHand == {n \in Name : \E p \in Proc : HoldsFile(p) /\ FileOf(p) = n}
StateInHand == \E p \in Proc : HoldsState(p)

LeftSnapshots == NewerSnapshots \ SnapshotsInHand
LeftFiles == UnrecordedFiles \ FilesInHand
LeftTail == IF tail # "whole" \/ (StateUntold /\ ~StateInHand) THEN 1 ELSE 0
Left == Cardinality(LeftSnapshots) + Cardinality(LeftFiles) + LeftTail

LeftByTheDead ==
  /\ IsFiniteSet(LeftSnapshots) /\ IsFiniteSet(LeftFiles)
  /\ Left <= deaths

(* Before the first manifest there is nothing a manifest could tell of.    *)
NothingYet ==
  manifest = NoManifest =>
    /\ journal = <<>> /\ artFile = {}
    /\ \A l \in Labels : snapFile[l] = 0
    /\ \A p \in Proc : pc[p] \in {"idle", "dead", "patch", "first"}

(* What a process holds is what its next record says.                      *)
HoldsTruth(p) ==
  /\ HoldsSnapshot(p) => work[p].head = snapFile[Arg(p)]
  /\ HoldsState(p) => manifest.st = Arg(p)

LastStateIsThere ==
  StateEvents # {} => \E k \in StateEvents : \A m \in StateEvents : m <= k

DamageInv ==
  /\ NothingYet
  /\ \A p \in Proc : HoldsTruth(p)
  /\ LastStateIsThere
  /\ tail # "cut" => LeftByTheDead

LEMMA DeathsAreCounted == FilesInv => deaths \in Nat
<1>1. MaxDeaths \in Nat
  BY SessionFilesConstants
<1>2. FilesInv => deaths \in 0..MaxDeaths
  BY DEF FilesInv, TypeOK
<1>3. \A n \in 0..MaxDeaths : n \in Nat
  BY <1>1
<1> QED BY <1>2, <1>3

(* Nothing is left that was not.                                           *)
LEMMA FewerLeft ==
  ASSUME FilesInv, LeftByTheDead, LeftSnapshots' \subseteq LeftSnapshots,
         LeftFiles' \subseteq LeftFiles, LeftTail' <= LeftTail, deaths' = deaths
  PROVE  LeftByTheDead'
<1>1. /\ IsFiniteSet(LeftSnapshots') /\ Cardinality(LeftSnapshots') \in Nat
      /\ Cardinality(LeftSnapshots') <= Cardinality(LeftSnapshots)
      /\ Cardinality(LeftSnapshots) \in Nat
  BY FS_Subset, FS_CardinalityType DEF LeftByTheDead
<1>2. /\ IsFiniteSet(LeftFiles') /\ Cardinality(LeftFiles') \in Nat
      /\ Cardinality(LeftFiles') <= Cardinality(LeftFiles)
      /\ Cardinality(LeftFiles) \in Nat
  BY FS_Subset, FS_CardinalityType DEF LeftByTheDead
<1>3. deaths \in Nat /\ LeftTail \in 0..1 /\ LeftTail' \in 0..1
  BY DeathsAreCounted DEF LeftTail
<1>4. Left <= deaths
  BY DEF LeftByTheDead
<1>5. Left' <= Left
  BY <1>1, <1>2, <1>3 DEF Left
<1>6. Left \in Nat /\ Left' \in Nat
  BY <1>1, <1>2, <1>3 DEF Left
<1> QED BY <1>1, <1>2, <1>3, <1>4, <1>5, <1>6 DEF LeftByTheDead

(* The one process at work is the one that holds something.                *)
LEMMA OneHand ==
  ASSUME FilesInv, AloneInv, NEW p \in Proc, ~AtRest(p)
  PROVE  /\ SnapshotsInHand \subseteq IF HoldsSnapshot(p) THEN {Arg(p)} ELSE {}
         /\ FilesInHand \subseteq IF HoldsFile(p) THEN {FileOf(p)} ELSE {}
         /\ StateInHand <=> HoldsState(p)
         /\ \A q \in Proc \ {p} : AtRest(q)
<1>1. \A q \in Proc \ {p} : AtRest(q)
  BY DEF AloneInv, OneAtWork
<1>2. \A q \in Proc \ {p} : ~HoldsSnapshot(q) /\ ~HoldsFile(q) /\ ~HoldsState(q)
  BY <1>1 DEF AtRest, AtRecord, HoldsSnapshot, HoldsFile, HoldsState
<1> QED BY <1>1, <1>2 DEF SnapshotsInHand, FilesInHand, StateInHand

(* The last state that the journal tells is the one that was told last.    *)
LEMMA TellingIsLast ==
  ASSUME FilesInv, LastStateIsThere, NEW e \in EventType,
         journal' = Append(journal, e)
  PROVE  /\ LastStateIsThere'
         /\ StateOfJournal' = IF e.st # "" THEN e.st ELSE StateOfJournal
<1> DEFINE n == Len(journal) + 1
<1>1. journal \in Seq(EventType)
  BY DEF FilesInv, TypeOK, EventType
<1>2. Len(journal) \in Nat /\ DOMAIN journal = 1..Len(journal)
  BY <1>1
<1>3. /\ DOMAIN journal' = DOMAIN journal \cup {n}
      /\ journal'[n] = e
      /\ \A k \in DOMAIN journal : journal'[k] = journal[k]
  BY <1>1
<1>4. n \in Nat /\ n \notin DOMAIN journal /\ \A k \in DOMAIN journal : k \in Nat /\ k < n
  BY <1>2
<1> HIDE DEF n
<1>5. CASE e.st # ""
  <2>1. StateEvents' = StateEvents \cup {n}
    BY <1>3, <1>5 DEF StateEvents
  <2>2. \A k \in StateEvents : k \in Nat /\ k < n
    BY <1>4 DEF StateEvents
  <2>3. n \in StateEvents' /\ \A m \in StateEvents' : m <= n
    BY <1>4, <2>1, <2>2
  <2>4. \A k \in StateEvents' : (\A m \in StateEvents' : m <= k) => k = n
    BY <1>4, <2>1, <2>2, <2>3
  <2>5. (CHOOSE k \in StateEvents' : \A m \in StateEvents' : m <= k) = n
    BY <2>3, <2>4
  <2>6. StateEvents' # {}
    BY <2>3
  <2>7. StateOfJournal' = journal'[n].st
    BY <2>5, <2>6 DEF StateOfJournal
  <2>8. LastStateIsThere'
    BY <2>3 DEF LastStateIsThere
  <2>9. StateOfJournal' = e.st
    BY <1>3, <2>7
  <2> QED BY <1>5, <2>8, <2>9
<1>6. CASE e.st = ""
  <2>1. StateEvents' = StateEvents
    BY <1>3, <1>4, <1>6 DEF StateEvents
  <2>2. CASE StateEvents = {}
    BY <1>6, <2>1, <2>2 DEF StateOfJournal, LastStateIsThere
  <2>3. CASE StateEvents # {}
    <3> DEFINE k == CHOOSE k \in StateEvents : \A m \in StateEvents : m <= k
    <3>1. k \in StateEvents
      BY <2>3 DEF LastStateIsThere
    <3>2. k \in DOMAIN journal
      BY <3>1 DEF StateEvents
    <3>3. StateOfJournal = journal[k].st
      BY <2>3 DEF StateOfJournal
    <3>4. StateOfJournal' = journal'[k].st
      BY <2>1, <2>3 DEF StateOfJournal
    <3>5. LastStateIsThere'
      BY <2>1 DEF LastStateIsThere
    <3> HIDE DEF k
    <3> QED BY <1>3, <1>6, <3>2, <3>3, <3>4, <3>5
  <2> QED BY <2>2, <2>3
<1> QED BY <1>5, <1>6

(* A step that leaves alone what the damage is about.                      *)
quiet == <<manifest, snapFile, artFile, journal, tail>>

StillHolds(p) ==
  /\ HoldsSnapshot(p) => HoldsSnapshot(p)' /\ Arg(p)' = Arg(p)
  /\ HoldsFile(p) => HoldsFile(p)' /\ FileOf(p)' = FileOf(p)
  /\ HoldsState(p) => HoldsState(p)'

LEMMA OthersStillHold ==
  ASSUME NEW p \in Proc, OnlyStep(p), NEW q \in Proc \ {p}
  PROVE  /\ StillHolds(q)
         /\ HoldsSnapshot(q)' = HoldsSnapshot(q) /\ HoldsFile(q)' = HoldsFile(q)
         /\ HoldsState(q)' = HoldsState(q)
         /\ Arg(q)' = Arg(q) /\ work'[q] = work[q]
  BY DEF OnlyStep, StillHolds, HoldsSnapshot, HoldsFile, HoldsState, AtRecord,
         Arg, FileOf

LEMMA QuietTell ==
  ASSUME UNCHANGED quiet
  PROVE  /\ NewerSnapshots' = NewerSnapshots /\ UnrecordedFiles' = UnrecordedFiles
         /\ StateUntold' = StateUntold
         /\ LastStateIsThere => LastStateIsThere'
<1>1. StateEvents' = StateEvents
  BY DEF quiet, StateEvents
<1>2. StateOfJournal' = StateOfJournal
  BY <1>1 DEF quiet, StateOfJournal
<1> QED BY <1>1, <1>2
        DEF quiet, NewerSnapshots, UnrecordedFiles, StateUntold, LastStateIsThere

LEMMA QuietHands ==
  ASSUME FilesInv, UNCHANGED quiet, LeftByTheDead, deaths' = deaths,
         \A q \in Proc : StillHolds(q)
  PROVE  LeftByTheDead'
<1>1. SnapshotsInHand \subseteq SnapshotsInHand'
  <2>1. ASSUME NEW l \in SnapshotsInHand PROVE l \in SnapshotsInHand'
    <3>1. PICK q \in Proc : HoldsSnapshot(q) /\ Arg(q) = l
      BY <2>1 DEF SnapshotsInHand
    <3>2. HoldsSnapshot(q)' /\ Arg(q)' = l /\ l \in Labels
      BY <3>1 DEF StillHolds, SnapshotsInHand
    <3> QED BY <3>2 DEF SnapshotsInHand
  <2> QED BY <2>1
<1>2. FilesInHand \subseteq FilesInHand'
  <2>1. ASSUME NEW n \in FilesInHand PROVE n \in FilesInHand'
    <3>1. PICK q \in Proc : HoldsFile(q) /\ FileOf(q) = n
      BY <2>1 DEF FilesInHand
    <3>2. HoldsFile(q)' /\ FileOf(q)' = n /\ n \in Name
      BY <3>1 DEF StillHolds, FilesInHand
    <3> QED BY <3>2 DEF FilesInHand
  <2> QED BY <2>1
<1>3. StateInHand => StateInHand'
  BY DEF StateInHand, StillHolds
<1>4. LeftSnapshots' \subseteq LeftSnapshots /\ LeftFiles' \subseteq LeftFiles
  BY <1>1, <1>2, QuietTell DEF LeftSnapshots, LeftFiles
<1>5. LeftTail' <= LeftTail
  <2>1. tail' = tail
    BY DEF quiet
  <2> QED BY <1>3, <2>1, QuietTell DEF LeftTail
<1> QED BY <1>4, <1>5, FewerLeft

LEMMA QuietStep ==
  ASSUME FilesInv, DamageInv, UNCHANGED quiet, deaths' = deaths,
         NEW p \in Proc, OnlyStep(p), HoldsTruth(p)',
         tail # "cut" => StillHolds(p),
         manifest # NoManifest \/ pc'[p] \in {"idle", "dead", "patch", "first"}
  PROVE  DamageInv'
<1>1. NothingYet'
  BY DEF DamageInv, NothingYet, quiet, OnlyStep
<1>2. ASSUME NEW q \in Proc \ {p} PROVE HoldsTruth(q)'
  <2>1. HoldsTruth(q)
    BY DEF DamageInv
  <2>2. snapFile' = snapFile /\ manifest' = manifest
    BY DEF quiet
  <2> QED BY <2>1, <2>2, OthersStillHold DEF HoldsTruth
<1>3. LastStateIsThere'
  BY QuietTell DEF DamageInv
<1>4. ASSUME tail' # "cut" PROVE LeftByTheDead'
  <2>1. tail # "cut" /\ LeftByTheDead
    BY <1>4 DEF quiet, DamageInv
  <2>2. \A q \in Proc : StillHolds(q)
    BY <2>1, OthersStillHold
  <2> QED BY <2>1, <2>2, QuietHands
<1> QED BY <1>1, <1>2, <1>3, <1>4 DEF DamageInv

(***************************************************************************)
(* Steps of a process that holds nothing.                                  *)
(***************************************************************************)
LandsFree(p) == OnlyStep(p) /\ ~HoldsSnapshot(p)' /\ ~HoldsState(p)'

LEMMA GotoFree ==
  ASSUME FilesInv, NEW p \in Proc, NEW l \in StepName \ {"load", "save", "head", "append"},
         pc' = [pc EXCEPT ![p] = l], \A q \in Proc \ {p} : work'[q] = work[q]
  PROVE  LandsFree(p) /\ pc'[p] = l
<1>1. pc'[p] = l /\ OnlyStep(p)
  BY DEF FilesInv, ProcsTyped, OnlyStep
<1> QED BY <1>1 DEF LandsFree, HoldsSnapshot, HoldsState, AtRecord

LEMMA LeaveFree ==
  ASSUME FilesInv, NEW p \in Proc, NEW l \in {"ready", "idle", "dead"}, Leave(p, l)
  PROVE  LandsFree(p) /\ pc'[p] = l
<1>1. pc' = [pc EXCEPT ![p] = l] /\ \A q \in Proc \ {p} : work'[q] = work[q]
  BY DEF Leave, Goto, FilesInv, ProcsTyped
<1>2. l \in StepName \ {"load", "save", "head", "append"}
  BY DEF StepName
<1> QED BY <1>1, <1>2, GotoFree

LEMMA BeginFree ==
  ASSUME FilesInv, NEW p \in Proc, NEW c \in FitCall, Begin(p, c)
  PROVE  LandsFree(p)
<1>1. /\ pc'[p] = FirstStep[c.do] /\ work'[p].call = c
      /\ OnlyStep(p)
  BY DEF Begin, Goto, FilesInv, ProcsTyped, OnlyStep
<1>2. c.do \in {"state", "note", "snap", "art", "once", "event"}
  BY DEF FitCall, Call
<1>3. /\ c.do = "snap" => FirstStep[c.do] = "replace"
      /\ c.do = "state" => FirstStep[c.do] = "load"
  BY DEF FirstStep
<1> QED BY <1>1, <1>2, <1>3 DEF LandsFree, HoldsSnapshot, HoldsState, AtRecord

LEMMA FreeStep ==
  ASSUME FilesInv, DamageInv, UNCHANGED quiet, deaths' = deaths,
         NEW p \in Proc, LandsFree(p), pc[p] \notin {"load", "save", "head", "append"},
         manifest # NoManifest \/ pc'[p] \in {"idle", "dead", "patch", "first"}
  PROVE  DamageInv'
<1>1. StillHolds(p)
  BY DEF StillHolds, HoldsSnapshot, HoldsFile, HoldsState, AtRecord
<1>2. HoldsTruth(p)' /\ OnlyStep(p)
  BY DEF HoldsTruth, LandsFree
<1> QED BY <1>1, <1>2, QuietStep

LEMMA FreeStepDamage ==
  ASSUME FilesInv, DamageInv, NEW p \in Proc,
         \/ WritePatchset(p) \/ PickName(p) \/ CheckArtifact(p) \/ Continue(p)
         \/ StageCall(p) \/ LeaveStage(p) \/ HandRequest(p) \/ EnterStage(p)
  PROVE  DamageInv'
<1>1. /\ UNCHANGED quiet /\ deaths' = deaths
      /\ pc[p] \in {"patch", "pick", "check", "ready", "idle"}
  BY DEF WritePatchset, PickName, CheckArtifact, Continue, StageCall, LeaveStage,
         HandRequest, EnterStage, quiet, fileVars, rest
<1>2. manifest # NoManifest \/ pc'[p] \in {"idle", "dead", "patch", "first"}
  <2>1. CASE WritePatchset(p)
    BY <2>1 DEF WritePatchset, Goto, FilesInv, ProcsTyped
  <2>2. CASE HandRequest(p) \/ EnterStage(p)
    BY <2>2 DEF HandRequest, EnterStage, Loadable
  <2>3. CASE \/ PickName(p) \/ CheckArtifact(p) \/ Continue(p) \/ StageCall(p)
             \/ LeaveStage(p)
    BY <2>3 DEF PickName, CheckArtifact, Continue, StageCall, LeaveStage,
                DamageInv, NothingYet
  <2> QED BY <2>1, <2>2, <2>3
<1>3. LandsFree(p)
  <2>1. CASE WritePatchset(p)
    BY <2>1, GotoFree DEF WritePatchset, Goto, StepName
  <2>2. CASE PickName(p)
    <3>1. CASE Ready(p)
      BY <3>1, LeaveFree DEF Ready
    <3>2. CASE \E n \in {1, 2} :
                 work' = [work EXCEPT ![p].head = n] /\ Goto(p, "check")
      <4>1. \A q \in Proc \ {p} : work'[q] = work[q]
        BY <3>2 DEF FilesInv, ProcsTyped
      <4> QED BY <3>2, <4>1, GotoFree DEF Goto, StepName
    <3> QED BY <2>2, <3>1, <3>2 DEF PickName, Fail
  <2>3. CASE CheckArtifact(p)
    <3>1. CASE Ready(p)
      BY <3>1, LeaveFree DEF Ready
    <3>2. CASE Goto(p, "write") /\ UNCHANGED work
      BY <3>2, GotoFree DEF Goto, StepName
    <3> QED BY <2>3, <3>1, <3>2 DEF CheckArtifact, Fail
  <2>4. CASE Continue(p)
    <3>1. CASE todo[p] = <<>>
      BY <2>4, <3>1, LeaveFree DEF Continue
    <3>2. CASE todo[p] # <<>>
      <4>1. Head(todo[p]) \in FitCall
        <5>1. todo[p] \in Seq(FitCall)
          BY DEF FilesInv, ProcsTyped
        <5> QED BY <3>2, <5>1
      <4> QED BY <2>4, <3>2, <4>1, BeginFree DEF Continue
    <3> QED BY <3>1, <3>2
  <2>5. CASE StageCall(p)
    <3>1. PICK c \in FitCall : Begin(p, c)
      BY <2>5, StageCallFits DEF StageCall
    <3> QED BY <3>1, BeginFree
  <2>6. CASE LeaveStage(p) \/ HandRequest(p) \/ EnterStage(p)
    BY <2>6, LeaveFree DEF LeaveStage, HandRequest, EnterStage, Ready
  <2> QED BY <2>1, <2>2, <2>3, <2>4, <2>5, <2>6
<1> QED BY <1>1, <1>2, <1>3, FreeStep

(***************************************************************************)
(* Steps of a process that may hold something.                             *)
(***************************************************************************)

(* As long as no line is cut, what was read once can be read again.        *)
LEMMA StillReadable ==
  ASSUME FilesInv, AloneInv, DamageInv, NEW p \in Proc,
         pc[p] \notin {"idle", "dead", "patch", "first"}
  PROVE  /\ manifest # NoManifest
         /\ tail # "cut" => Readable /\ Loadable
<1>1. manifest # NoManifest
  BY DEF DamageInv, NothingYet
<1>2. \A k \in DOMAIN journal : journal[k].seq = k
  BY DEF AloneInv, JournalIsChained
<1>3. manifest.count <= Len(journal)
  BY DEF FilesInv, ManifestFits
<1> QED BY <1>1, <1>2, <1>3 DEF Readable, Loadable

LEMMA ReadStepDamage ==
  ASSUME FilesInv, AloneInv, DamageInv, NEW p \in Proc, Load(p) \/ ReadHead(p)
  PROVE  DamageInv'
<1>1. /\ UNCHANGED quiet /\ deaths' = deaths
      /\ pc[p] = IF Load(p) THEN "load" ELSE "head"
      /\ pc[p] \in {"load", "head"}
  BY DEF Load, ReadHead, quiet, fileVars, rest
<1>2. manifest # NoManifest /\ (tail # "cut" => Readable /\ Loadable)
  BY <1>1, StillReadable
<1>3. HoldsTruth(p) /\ manifest' = manifest /\ snapFile' = snapFile
  BY <1>1 DEF DamageInv, quiet
<1>4. /\ pc \in [Proc -> StepName] /\ work \in [Proc -> WorkType]
      /\ work[p] \in WorkType
  BY DEF FilesInv, ProcsTyped
<1>5. CASE Fail(p) /\ tail = "cut"
  <2>1. LandsFree(p)
    BY <1>5, LeaveFree DEF Fail, Ready
  <2>2. OnlyStep(p) /\ HoldsTruth(p)'
    BY <2>1 DEF LandsFree, HoldsTruth
  <2> QED BY <1>1, <1>2, <1>5, <2>2, QuietStep
<1>6. CASE Load(p) /\ work' = [work EXCEPT ![p].held = Loaded] /\ Goto(p, "save")
  <2>1. /\ pc[p] = "load" /\ pc'[p] = "save" /\ OnlyStep(p)
        /\ work'[p].call = work[p].call /\ work'[p].head = work[p].head
    BY <1>1, <1>4, <1>6 DEF Goto, OnlyStep, WorkType
  <2>2. Arg(p)' = Arg(p) /\ FileOf(p)' = FileOf(p)
    BY <2>1 DEF Arg, FileOf
  <2>3. StillHolds(p)
    BY <2>1, <2>2 DEF StillHolds, HoldsSnapshot, HoldsFile, HoldsState, AtRecord
  <2>4. HoldsTruth(p)'
    BY <1>3, <2>1, <2>2 DEF HoldsTruth, HoldsSnapshot, HoldsState, AtRecord
  <2> QED BY <1>1, <1>2, <2>1, <2>3, <2>4, QuietStep
<1>7. CASE ReadHead(p) /\ work' = [work EXCEPT ![p].head = Len(journal) + 1]
           /\ Goto(p, "append")
  <2>1. /\ pc[p] = "head" /\ pc'[p] = "append" /\ OnlyStep(p)
        /\ work'[p].call = work[p].call
    BY <1>4, <1>7 DEF ReadHead, Goto, OnlyStep, WorkType
  <2>2. Arg(p)' = Arg(p)
    BY <2>1 DEF Arg
  <2>3. StillHolds(p)
    BY <2>1, <2>2 DEF StillHolds, HoldsSnapshot, HoldsFile, HoldsState, AtRecord
  <2>4. HoldsTruth(p)'
    BY <1>3, <2>1, <2>2 DEF HoldsTruth, HoldsSnapshot, HoldsState, AtRecord
  <2> QED BY <1>1, <1>2, <2>1, <2>3, <2>4, QuietStep
<1>8. CASE Load(p) /\ ~Loadable /\ Fail(p)
  BY <1>2, <1>5, <1>8
<1>9. CASE ReadHead(p) /\ ~Readable /\ Fail(p)
  BY <1>2, <1>5, <1>9
<1> QED BY <1>6, <1>7, <1>8, <1>9 DEF Load, ReadHead

(* What is to be shown of a step of the process at work.                   *)
LEMMA WorkStep ==
  ASSUME FilesInv, AloneInv, DamageInv, NEW p \in Proc, ~AtRest(p), OnlyStep(p),
         NothingYet', HoldsTruth(p)', LastStateIsThere',
         tail' # "cut" => LeftByTheDead'
  PROVE  DamageInv'
<1>1. ASSUME NEW q \in Proc \ {p} PROVE HoldsTruth(q)'
  <2>1. AtRest(q) /\ pc'[q] = pc[q]
    BY OneHand DEF OnlyStep
  <2> QED BY <2>1 DEF HoldsTruth, HoldsSnapshot, HoldsState, AtRecord, AtRest
<1> QED BY <1>1 DEF DamageInv

LEMMA FirstManifestDamage ==
  ASSUME FilesInv, AloneInv, DamageInv, NEW p \in Proc, FirstManifest(p)
  PROVE  DamageInv'
<1>1. /\ pc[p] = "first" /\ ~AtRest(p) /\ manifest = NoManifest
      /\ manifest' = NewManifest /\ Ready(p)
      /\ UNCHANGED <<snapFile, artFile, journal, tail, deaths>>
  BY DEF FirstManifest, rest, AtRest, FilesInv, ProcFits
<1>2. /\ journal = <<>> /\ artFile = {} /\ \A l \in Labels : snapFile[l] = 0
  BY <1>1 DEF DamageInv, NothingYet
<1>3. LandsFree(p)
  BY <1>1, LeaveFree DEF Ready
<1>4. /\ manifest'.st = "PLANNED" /\ manifest' # NoManifest
      /\ \A l \in Labels : manifest'.snaps[l] = 0
  BY <1>1 DEF NewManifest, NoManifest
<1>5. NothingYet'
  BY <1>4 DEF NothingYet
<1>6. StateEvents' = {}
  BY <1>1, <1>2 DEF StateEvents
<1>7. LastStateIsThere' /\ ~StateUntold'
  BY <1>4, <1>6 DEF LastStateIsThere, StateUntold, StateOfJournal
<1>8. ASSUME tail' # "cut" PROVE LeftByTheDead'
  <2>1. LeftByTheDead
    BY <1>1, <1>8 DEF DamageInv
  <2>2. NewerSnapshots' = {} /\ UnrecordedFiles' = {}
    BY <1>1, <1>2, <1>4 DEF NewerSnapshots, UnrecordedFiles
  <2>3. LeftSnapshots' \subseteq LeftSnapshots /\ LeftFiles' \subseteq LeftFiles
    BY <2>2 DEF LeftSnapshots, LeftFiles
  <2>4. LeftTail' <= LeftTail
    BY <1>1, <1>7 DEF LeftTail
  <2> QED BY <1>1, <2>1, <2>3, <2>4, FewerLeft
<1> QED BY <1>1, <1>3, <1>5, <1>7, <1>8, WorkStep DEF LandsFree, HoldsTruth

LEMMA ReplaceSnapshotDamage ==
  ASSUME FilesInv, AloneInv, DamageInv, NEW p \in Proc, ReplaceSnapshot(p)
  PROVE  DamageInv'
<1>1. /\ pc[p] = "replace" /\ ~AtRest(p)
      /\ snapFile' = [snapFile EXCEPT ![Arg(p)] = @ + 1]
      /\ work' = [work EXCEPT ![p].head = snapFile[Arg(p)] + 1]
      /\ pc' = [pc EXCEPT ![p] = "load"]
      /\ UNCHANGED <<manifest, artFile, journal, tail, deaths>>
  BY DEF ReplaceSnapshot, Goto, rest, AtRest
<1>2. work[p].call.do = "snap" /\ work[p] \in WorkType /\ work[p].call \in FitCall
  BY <1>1 DEF FilesInv, ProcFits, ProcsTyped, WorkType
<1>3. Arg(p) \in Labels /\ snapFile \in [Labels -> Nat]
  BY <1>2 DEF Arg, FitCall, FilesInv, TypeOK
<1>4. /\ pc'[p] = "load" /\ OnlyStep(p) /\ work'[p].call = work[p].call
      /\ work'[p].head = snapFile[Arg(p)] + 1
  BY <1>1, <1>2 DEF FilesInv, ProcsTyped, OnlyStep, WorkType
<1>5. /\ HoldsSnapshot(p)' /\ ~HoldsState(p)' /\ Arg(p)' = Arg(p)
      /\ HoldsTruth(p)'
  BY <1>1, <1>2, <1>3, <1>4 DEF HoldsTruth, HoldsSnapshot, HoldsState, AtRecord, Arg
<1>6. /\ SnapshotsInHand = {} /\ FilesInHand = {} /\ ~StateInHand
  BY <1>1, OneHand DEF HoldsSnapshot, HoldsFile, HoldsState, AtRecord
<1>7. manifest # NoManifest
  BY <1>1, StillReadable
<1>8. LastStateIsThere' /\ StateUntold' = StateUntold
  BY <1>1 DEF DamageInv, LastStateIsThere, StateEvents, StateUntold, StateOfJournal
<1>9. ASSUME tail' # "cut" PROVE LeftByTheDead'
  <2>1. LeftByTheDead
    BY <1>1, <1>9 DEF DamageInv
  <2>2. NewerSnapshots' \subseteq NewerSnapshots \cup {Arg(p)}
    BY <1>1, <1>3 DEF NewerSnapshots
  <2>3. Arg(p) \in SnapshotsInHand'
    BY <1>3, <1>5 DEF SnapshotsInHand
  <2>4. LeftSnapshots' \subseteq LeftSnapshots
    BY <1>6, <2>2, <2>3 DEF LeftSnapshots
  <2>5. LeftFiles' \subseteq LeftFiles
    BY <1>1, <1>6 DEF LeftFiles, UnrecordedFiles
  <2>6. LeftTail' <= LeftTail
    BY <1>1, <1>6, <1>8 DEF LeftTail
  <2> QED BY <1>1, <2>1, <2>4, <2>5, <2>6, FewerLeft
<1> QED BY <1>1, <1>4, <1>5, <1>7, <1>8, <1>9, WorkStep DEF NothingYet

LEMMA WriteArtifactDamage ==
  ASSUME FilesInv, AloneInv, DamageInv, NEW p \in Proc, WriteArtifact(p)
  PROVE  DamageInv'
<1>1. /\ pc[p] = "write" /\ ~AtRest(p) /\ artFile' = artFile \cup {FileOf(p)}
      /\ pc' = [pc EXCEPT ![p] = "load"]
      /\ UNCHANGED <<manifest, snapFile, journal, tail, work, deaths>>
  BY DEF WriteArtifact, Goto, rest, AtRest
<1>2. work[p].call.do \in {"art", "once"} /\ FileOf(p) \in Name
  BY <1>1 DEF FilesInv, ProcFits
<1>3. pc'[p] = "load" /\ OnlyStep(p)
  BY <1>1 DEF FilesInv, ProcsTyped, OnlyStep
<1>4. /\ HoldsFile(p)' /\ FileOf(p)' = FileOf(p) /\ HoldsTruth(p)'
  BY <1>1, <1>2, <1>3
     DEF HoldsTruth, HoldsSnapshot, HoldsFile, HoldsState, AtRecord, FileOf, Arg
<1>5. SnapshotsInHand = {} /\ FilesInHand = {} /\ ~StateInHand
  BY <1>1, OneHand DEF HoldsSnapshot, HoldsFile, HoldsState, AtRecord
<1>6. manifest # NoManifest
  BY <1>1, StillReadable
<1>7. LastStateIsThere' /\ StateUntold' = StateUntold
  BY <1>1 DEF DamageInv, LastStateIsThere, StateEvents, StateUntold, StateOfJournal
<1>8. ASSUME tail' # "cut" PROVE LeftByTheDead'
  <2>1. LeftByTheDead
    BY <1>1, <1>8 DEF DamageInv
  <2>2. UnrecordedFiles' \subseteq UnrecordedFiles \cup {FileOf(p)}
    BY <1>1 DEF UnrecordedFiles
  <2>3. FileOf(p) \in FilesInHand'
    BY <1>2, <1>4 DEF FilesInHand
  <2>4. LeftFiles' \subseteq LeftFiles
    BY <1>5, <2>2, <2>3 DEF LeftFiles
  <2>5. LeftSnapshots' \subseteq LeftSnapshots
    BY <1>1, <1>5 DEF LeftSnapshots, NewerSnapshots
  <2>6. LeftTail' <= LeftTail
    BY <1>1, <1>5, <1>7 DEF LeftTail
  <2> QED BY <1>1, <2>1, <2>4, <2>5, <2>6, FewerLeft
<1> QED BY <1>1, <1>3, <1>4, <1>6, <1>7, <1>8, WorkStep DEF NothingYet

(* What a call makes of the hashes it has read.                            *)
LEMMA ChangedSnapshots ==
  ASSUME FilesInv, NEW p \in Proc, pc[p] = "save"
  PROVE  Changed(p).snaps =
           IF work[p].call.do = "snap"
           THEN [work[p].held.snaps EXCEPT ![Arg(p)] = work[p].head]
           ELSE work[p].held.snaps
<1> DEFINE m == work[p].held
           do == work[p].call.do
           n == work[p].head
<1>1. m \in ManifestType
  BY DEF FilesInv, ProcsTyped, WorkType
<1>2. do \in {"state", "note", "snap", "art", "once"}
  BY DEF FilesInv, ProcFits
<1> HIDE DEF m, do, n
<1>3. CASE do = "snap"
  BY <1>1, <1>3 DEF Changed, m, do, n, ManifestType
<1>4. CASE do # "snap"
  <2>1. Changed(p) \in {[m EXCEPT !.st = Arg(p)],
                        [m EXCEPT !.arts = m.arts \cup {ArtifactOf(p)}], m}
    BY <1>1, <1>4 DEF Changed, m, do, n, ManifestType
  <2> QED BY <1>1, <1>4, <2>1 DEF ManifestType, m, do
<1> QED BY <1>3, <1>4 DEF m, do, n

(* A record takes off what the process at work holds.                      *)
LEMMA SaveDamage ==
  ASSUME FilesInv, AloneInv, DamageInv, NEW p \in Proc, Save(p)
  PROVE  DamageInv'
<1> DEFINE do == work[p].call.do
<1>1. /\ pc[p] = "save" /\ ~AtRest(p)
      /\ UNCHANGED <<snapFile, artFile, journal, tail, deaths>>
  BY DEF Save, rest, AtRest
<1>2. work[p].held = Loaded /\ manifest # NoManifest
  BY <1>1, StillReadable DEF AloneInv, ReadIsCurrent
<1>3. /\ Loaded.st = manifest.st /\ Loaded.arts = manifest.arts
      /\ Loaded.snaps = manifest.snaps /\ manifest.snaps \in [Labels -> Nat]
  BY DEF Loaded, FilesInv, TypeOK
<1>4. do \in {"state", "note", "snap", "art", "once"} /\ work[p].call \in FitCall
  BY <1>1 DEF FilesInv, ProcFits, ProcsTyped, WorkType
<1>5. CASE do = "state" /\ Fail(p) /\ UNCHANGED manifest
  <2>1. UNCHANGED quiet /\ LandsFree(p)
    BY <1>1, <1>5, LeaveFree DEF quiet, Fail, Ready
  <2>2. StillHolds(p) /\ HoldsTruth(p)' /\ OnlyStep(p)
    BY <1>1, <1>5, <2>1
       DEF StillHolds, HoldsSnapshot, HoldsFile, HoldsState, AtRecord, LandsFree,
           HoldsTruth
  <2> QED BY <1>1, <1>2, <2>1, <2>2, QuietStep
<1>6. CASE /\ manifest' = Changed(p)
           /\ IF do = "state" THEN Goto(p, "head") /\ UNCHANGED work ELSE Ready(p)
  <2>1. /\ manifest'.st = (IF do = "state" THEN Arg(p) ELSE manifest.st)
        /\ manifest'.arts = manifest.arts
             \cup (IF do \in {"art", "once"} THEN {ArtifactOf(p)} ELSE {})
        /\ manifest'.snaps = (IF do = "snap"
                              THEN [manifest.snaps EXCEPT ![Arg(p)] = work[p].head]
                              ELSE manifest.snaps)
        /\ manifest'.st \in SessionState
    BY <1>1, <1>2, <1>3, <1>6, ChangedManifest, ChangedSnapshots
  <2>2. manifest' # NoManifest
    BY <2>1 DEF NoManifest, SessionState
  <2>3. OnlyStep(p) /\ ~HoldsSnapshot(p)' /\ (HoldsState(p)' <=> do = "state")
    <3>1. CASE do = "state"
      <4>1. pc'[p] = "head" /\ work' = work /\ OnlyStep(p)
        BY <1>6, <3>1 DEF Goto, FilesInv, ProcsTyped, OnlyStep
      <4> QED BY <3>1, <4>1 DEF HoldsSnapshot, HoldsState, AtRecord
    <3>2. CASE do # "state"
      BY <1>6, <3>2, LeaveFree DEF Ready, LandsFree
    <3> QED BY <3>1, <3>2
  <2>4. HoldsTruth(p)'
    <3>1. do = "state" => Arg(p)' = Arg(p)
      BY <1>6 DEF Arg
    <3> QED BY <2>1, <2>3, <3>1 DEF HoldsTruth
  <2>5. LastStateIsThere' /\ StateOfJournal' = StateOfJournal
    <3>1. StateEvents' = StateEvents
      BY <1>1 DEF StateEvents
    <3>2. LastStateIsThere'
      BY <3>1 DEF DamageInv, LastStateIsThere
    <3>3. StateOfJournal' = StateOfJournal
      BY <1>1, <3>1 DEF StateOfJournal
    <3> QED BY <3>2, <3>3
  <2>6. ~StateInHand
    BY <1>1, OneHand DEF HoldsState
  <2>7. LeftSnapshots' \subseteq LeftSnapshots
    <3>1. CASE do = "snap"
      <4>1. work[p].head = snapFile[Arg(p)]
        BY <1>1, <3>1 DEF DamageInv, HoldsTruth, HoldsSnapshot, AtRecord
      <4>2. NewerSnapshots' \subseteq NewerSnapshots \ {Arg(p)}
        BY <1>1, <1>3, <2>1, <3>1, <4>1 DEF NewerSnapshots
      <4>3. SnapshotsInHand \subseteq {Arg(p)}
        BY <1>1, OneHand
      <4> QED BY <4>2, <4>3 DEF LeftSnapshots
    <3>2. CASE do # "snap"
      <4>1. SnapshotsInHand = {}
        BY <1>1, <3>2, OneHand DEF HoldsSnapshot
      <4>2. NewerSnapshots' = NewerSnapshots
        BY <1>1, <2>1, <3>2 DEF NewerSnapshots
      <4> QED BY <4>1, <4>2 DEF LeftSnapshots
    <3> QED BY <3>1, <3>2
  <2>8. LeftFiles' \subseteq LeftFiles
    <3>1. CASE do \in {"art", "once"}
      <4>1. ArtifactOf(p).file = FileOf(p) /\ ArtifactOf(p) \in manifest'.arts
            /\ manifest.arts \subseteq manifest'.arts
        BY <2>1, <3>1 DEF ArtifactOf
      <4>2. UnrecordedFiles' \subseteq UnrecordedFiles \ {FileOf(p)}
        BY <1>1, <4>1 DEF UnrecordedFiles
      <4>3. FilesInHand \subseteq {FileOf(p)}
        BY <1>1, OneHand
      <4> QED BY <4>2, <4>3 DEF LeftFiles
    <3>2. CASE do \notin {"art", "once"}
      <4>1. FilesInHand = {}
        BY <1>1, <3>2, OneHand DEF HoldsFile
      <4>2. UnrecordedFiles' = UnrecordedFiles
        BY <1>1, <2>1, <3>2 DEF UnrecordedFiles
      <4> QED BY <4>1, <4>2 DEF LeftFiles
    <3> QED BY <3>1, <3>2
  <2>9. LeftTail' <= LeftTail
    <3>1. CASE do = "state"
      <4>1. StateInHand'
        BY <2>3, <3>1 DEF StateInHand
      <4> QED BY <1>1, <4>1 DEF LeftTail
    <3>2. CASE do # "state"
      <4>1. StateUntold' = StateUntold
        BY <1>2, <2>1, <2>2, <2>5, <3>2 DEF StateUntold
      <4> QED BY <1>1, <2>6, <4>1 DEF LeftTail
    <3> QED BY <3>1, <3>2
  <2>10. ASSUME tail' # "cut" PROVE LeftByTheDead'
    <3>1. LeftByTheDead
      BY <1>1, <2>10 DEF DamageInv
    <3> QED BY <1>1, <2>7, <2>8, <2>9, <3>1, FewerLeft
  <2>11. NothingYet'
    BY <2>2 DEF NothingYet
  <2> QED BY <1>1, <2>3, <2>4, <2>5, <2>10, <2>11, WorkStep
<1> QED BY <1>4, <1>5, <1>6 DEF Save

(* An event takes off the state that was not told.                         *)
LEMMA AppendEventDamage ==
  ASSUME FilesInv, AloneInv, DamageInv, NEW p \in Proc, AppendEvent(p)
  PROVE  DamageInv'
<1>1. /\ pc[p] = "append" /\ ~AtRest(p) /\ Ready(p)
      /\ UNCHANGED <<manifest, snapFile, artFile, deaths>>
  BY DEF AppendEvent, rest, AtRest
<1>2. LandsFree(p) /\ manifest # NoManifest
  BY <1>1, LeaveFree, StillReadable DEF Ready
<1>3. HoldsTruth(p)' /\ NothingYet'
  BY <1>1, <1>2 DEF LandsFree, HoldsTruth, NothingYet
<1>4. /\ SnapshotsInHand = {} /\ FilesInHand = {}
      /\ StateInHand <=> work[p].call.do = "state"
  BY <1>1, OneHand DEF HoldsSnapshot, HoldsFile, HoldsState, AtRecord
<1>5. CASE tail # "whole"
  <2>1. tail' = "cut" /\ journal' = journal
    BY <1>5 DEF AppendEvent
  <2>2. LastStateIsThere'
    BY <2>1 DEF DamageInv, LastStateIsThere, StateEvents
  <2> QED BY <1>1, <1>2, <1>3, <2>1, <2>2, WorkStep DEF LandsFree
<1>6. CASE tail = "whole"
  <2>1. /\ tail' = "whole" /\ journal' = Append(journal, Event(p))
        /\ Event(p) \in EventType
    BY <1>6, EventFits DEF AppendEvent
  <2>2. /\ LastStateIsThere'
        /\ StateOfJournal' = IF Event(p).st # "" THEN Event(p).st ELSE StateOfJournal
    BY <2>1, TellingIsLast DEF DamageInv
  <2>3. ASSUME work[p].call.do = "state" PROVE LeftTail' <= LeftTail
    <3>1. Arg(p) = manifest.st
      BY <1>1, <2>3 DEF DamageInv, HoldsTruth, HoldsState
    <3>2. manifest.st \in SessionState
      BY <1>2 DEF FilesInv, ManifestFits
    <3>3. Event(p).st = manifest.st /\ manifest.st # ""
      BY <2>3, <3>1, <3>2 DEF Event, SessionState
    <3>4. ~StateUntold'
      BY <1>1, <2>2, <3>3 DEF StateUntold
    <3>5. LeftTail' = 0 /\ LeftTail \in 0..1
      BY <2>1, <3>4 DEF LeftTail
    <3> QED BY <3>5
  <2>4. ASSUME work[p].call.do # "state" PROVE LeftTail' <= LeftTail
    <3>1. Event(p).st = ""
      BY <2>4 DEF Event
    <3>2. StateUntold' = StateUntold
      BY <1>1, <2>2, <3>1 DEF StateUntold
    <3>3. ~StateInHand
      BY <1>4, <2>4
    <3> QED BY <1>6, <2>1, <3>2, <3>3 DEF LeftTail
  <2>5. LeftTail' <= LeftTail
    BY <2>3, <2>4
  <2>6. LeftSnapshots' \subseteq LeftSnapshots /\ LeftFiles' \subseteq LeftFiles
    BY <1>1, <1>4 DEF LeftSnapshots, LeftFiles, NewerSnapshots, UnrecordedFiles
  <2>7. LeftByTheDead'
    BY <1>1, <1>6, <2>5, <2>6, FewerLeft DEF DamageInv
  <2> QED BY <1>1, <1>2, <1>3, <2>2, <2>7, WorkStep DEF LandsFree
<1> QED BY <1>5, <1>6

(* What is left and what is in hand together are one more at most.         *)
DamageTail == IF StateUntold \/ tail # "whole" THEN 1 ELSE 0

LEMMA OneMoreInHand ==
  ASSUME FilesInv, AloneInv, LeftByTheDead, NEW p \in Proc, ~AtRest(p)
  PROVE  /\ IsFiniteSet(NewerSnapshots) /\ IsFiniteSet(UnrecordedFiles)
         /\ Damage \in Nat /\ Left \in Nat /\ Damage <= Left + 1
<1> DEFINE S == LeftSnapshots
           F == LeftFiles
           s == Cardinality(S)
           f == Cardinality(F)
<1>1. IsFiniteSet(S) /\ IsFiniteSet(F) /\ s \in Nat /\ f \in Nat
  BY FS_CardinalityType DEF LeftByTheDead
<1>2. /\ LeftTail \in 0..1 /\ DamageTail \in 0..1
      /\ ~HoldsState(p) => DamageTail = LeftTail
  BY OneHand DEF LeftTail, DamageTail
<1>3. /\ Damage = Cardinality(NewerSnapshots) + Cardinality(UnrecordedFiles) + DamageTail
      /\ Left = s + f + LeftTail
  BY DEF Damage, Left, DamageTail
<1>4. ~HoldsSnapshot(p) => NewerSnapshots = S
  BY OneHand DEF LeftSnapshots
<1>5. ~HoldsFile(p) => UnrecordedFiles = F
  BY OneHand DEF LeftFiles
<1>6. CASE HoldsSnapshot(p)
  <2>1. ~HoldsFile(p) /\ ~HoldsState(p)
    BY <1>6 DEF HoldsSnapshot, HoldsFile, HoldsState, AtRecord
  <2>2. NewerSnapshots \in SUBSET (S \cup {Arg(p)})
    BY <1>6, OneHand DEF LeftSnapshots
  <2>3. IsFiniteSet(S \cup {Arg(p)}) /\ Cardinality(S \cup {Arg(p)}) \in {s, s + 1}
    BY <1>1, FS_AddElement
  <2>4. /\ IsFiniteSet(NewerSnapshots) /\ Cardinality(NewerSnapshots) \in Nat
        /\ Cardinality(NewerSnapshots) <= Cardinality(S \cup {Arg(p)})
    BY <2>2, <2>3, FS_Subset, FS_CardinalityType
  <2>5. Cardinality(NewerSnapshots) <= s + 1
    BY <1>1, <2>3, <2>4
  <2> HIDE DEF S, F, s, f
  <2>6. Cardinality(UnrecordedFiles) = f
    BY <1>5, <2>1 DEF f
  <2> QED BY <1>1, <1>2, <1>3, <1>5, <2>1, <2>4, <2>5, <2>6
<1>7. CASE HoldsFile(p)
  <2>1. ~HoldsSnapshot(p) /\ ~HoldsState(p)
    BY <1>7 DEF HoldsSnapshot, HoldsFile, HoldsState, AtRecord
  <2>2. UnrecordedFiles \in SUBSET (F \cup {FileOf(p)})
    BY <1>7, OneHand DEF LeftFiles
  <2>3. IsFiniteSet(F \cup {FileOf(p)}) /\ Cardinality(F \cup {FileOf(p)}) \in {f, f + 1}
    BY <1>1, FS_AddElement
  <2>4. /\ IsFiniteSet(UnrecordedFiles) /\ Cardinality(UnrecordedFiles) \in Nat
        /\ Cardinality(UnrecordedFiles) <= Cardinality(F \cup {FileOf(p)})
    BY <2>2, <2>3, FS_Subset, FS_CardinalityType
  <2>5. Cardinality(UnrecordedFiles) <= f + 1
    BY <1>1, <2>3, <2>4
  <2> HIDE DEF S, F, s, f
  <2>6. Cardinality(NewerSnapshots) = s
    BY <1>4, <2>1 DEF s
  <2> QED BY <1>1, <1>2, <1>3, <1>4, <2>1, <2>4, <2>5, <2>6
<1>8. CASE ~HoldsSnapshot(p) /\ ~HoldsFile(p)
  <2> HIDE DEF S, F, s, f
  <2>1. Cardinality(NewerSnapshots) = s /\ Cardinality(UnrecordedFiles) = f
    BY <1>4, <1>5, <1>8 DEF s, f
  <2> QED BY <1>1, <1>2, <1>3, <1>4, <1>5, <1>8, <2>1
<1> QED BY <1>6, <1>7, <1>8

(* What a death leaves is what was in hand, or a line without its end.     *)
LEMMA DieDamage ==
  ASSUME FilesInv, AloneInv, DamageInv, NEW p \in Proc, Die(p)
  PROVE  DamageInv'
<1>1. /\ ~AtRest(p) /\ deaths' = deaths + 1 /\ Leave(p, "dead")
      /\ UNCHANGED <<manifest, snapFile, artFile>>
  BY DEF Die
<1>2. LandsFree(p) /\ pc'[p] = "dead"
  BY <1>1, LeaveFree
<1>3. HoldsTruth(p)' /\ OnlyStep(p)
  BY <1>2 DEF LandsFree, HoldsTruth
<1>4. deaths \in Nat
  BY DeathsAreCounted
<1>5. /\ NewerSnapshots' = NewerSnapshots /\ UnrecordedFiles' = UnrecordedFiles
      /\ LeftSnapshots' \subseteq NewerSnapshots /\ LeftFiles' \subseteq UnrecordedFiles
  BY <1>1 DEF NewerSnapshots, UnrecordedFiles, LeftSnapshots, LeftFiles
<1>6. ASSUME tail # "cut",
             LeftTail' <= DamageTail \/ (pc[p] = "append" /\ tail = "whole")
      PROVE  LeftByTheDead'
  <2>1. LeftByTheDead
    BY <1>6 DEF DamageInv
  <2>2. /\ IsFiniteSet(NewerSnapshots) /\ IsFiniteSet(UnrecordedFiles)
        /\ Damage \in Nat /\ Left \in Nat /\ Damage <= Left + 1
    BY <1>1, <2>1, OneMoreInHand
  <2>3. /\ IsFiniteSet(LeftSnapshots') /\ Cardinality(LeftSnapshots') \in Nat
        /\ Cardinality(LeftSnapshots') <= Cardinality(NewerSnapshots)
        /\ Cardinality(NewerSnapshots) \in Nat
    BY <1>5, <2>2, FS_Subset, FS_CardinalityType
  <2>4. /\ IsFiniteSet(LeftFiles') /\ Cardinality(LeftFiles') \in Nat
        /\ Cardinality(LeftFiles') <= Cardinality(UnrecordedFiles)
        /\ Cardinality(UnrecordedFiles) \in Nat
    BY <1>5, <2>2, FS_Subset, FS_CardinalityType
  <2>5. LeftTail' \in 0..1 /\ DamageTail \in 0..1 /\ LeftTail \in 0..1
    BY DEF LeftTail, DamageTail
  <2>6. Damage = Cardinality(NewerSnapshots) + Cardinality(UnrecordedFiles) + DamageTail
    BY DEF Damage, DamageTail
  <2>7. Left' = Cardinality(LeftSnapshots') + Cardinality(LeftFiles') + LeftTail'
    BY DEF Left
  <2>8. Left <= deaths
    BY <2>1 DEF LeftByTheDead
  <2>9. CASE LeftTail' <= DamageTail
    BY <1>1, <1>4, <2>2, <2>3, <2>4, <2>5, <2>6, <2>7, <2>8, <2>9 DEF LeftByTheDead
  <2>10. CASE pc[p] = "append" /\ tail = "whole"
    <3>1. SnapshotsInHand = {} /\ FilesInHand = {}
      BY <1>1, <2>10, OneHand DEF HoldsSnapshot, HoldsFile, AtRecord
    <3>2. NewerSnapshots = LeftSnapshots /\ UnrecordedFiles = LeftFiles
      BY <3>1 DEF LeftSnapshots, LeftFiles
    <3>3. Left = Cardinality(NewerSnapshots) + Cardinality(UnrecordedFiles) + LeftTail
      BY <3>2 DEF Left
    <3> QED BY <1>1, <1>4, <2>3, <2>4, <2>5, <2>7, <2>8, <3>3 DEF LeftByTheDead
  <2> QED BY <1>6, <2>9, <2>10
<1>7. CASE UNCHANGED <<journal, tail>>
  <2>1. UNCHANGED quiet
    BY <1>1, <1>7 DEF quiet
  <2>2. LastStateIsThere' /\ StateUntold' = StateUntold
    BY <2>1, QuietTell DEF DamageInv
  <2>3. LeftTail' <= DamageTail
    BY <1>7, <2>2 DEF LeftTail, DamageTail
  <2>4. NothingYet'
    BY <1>2, <1>3, <2>1 DEF DamageInv, NothingYet, quiet, OnlyStep
  <2>5. ASSUME tail' # "cut" PROVE LeftByTheDead'
    <3>1. tail # "cut"
      BY <1>7, <2>5
    <3> QED BY <1>6, <2>3, <3>1
  <2> QED BY <1>1, <1>3, <2>2, <2>4, <2>5, WorkStep
<1>8. CASE pc[p] = "append"
  <2>1. NothingYet'
    BY <1>1, <1>8, StillReadable DEF NothingYet
  <2>2. CASE tail' = "cut" /\ UNCHANGED journal
    <3>1. LastStateIsThere'
      BY <2>2 DEF DamageInv, LastStateIsThere, StateEvents
    <3> QED BY <1>1, <1>3, <2>1, <2>2, <3>1, WorkStep
  <2>3. CASE tail = "whole" /\ tail' = "noEol" /\ journal' = Append(journal, Event(p))
    <3>1. LastStateIsThere'
      BY <2>3, EventFits, TellingIsLast DEF DamageInv
    <3> QED BY <1>1, <1>3, <1>6, <1>8, <2>1, <2>3, <3>1, WorkStep
  <2>4. CASE UNCHANGED <<journal, tail>>
    BY <1>7, <2>4
  <2>5. \/ UNCHANGED <<journal, tail>>
        \/ tail' = "cut" /\ UNCHANGED journal
        \/ tail = "whole" /\ tail' = "noEol" /\ journal' = Append(journal, Event(p))
    BY DEF Die
  <2> QED BY <2>2, <2>3, <2>4, <2>5
<1>9. UNCHANGED <<journal, tail>> \/ pc[p] = "append"
  BY DEF Die
<1> QED BY <1>7, <1>8, <1>9

LEMMA StillDamage ==
  ASSUME FilesInv, DamageInv, UNCHANGED <<quiet, pc, work, deaths>>
  PROVE  DamageInv'
<1>1. UNCHANGED quiet /\ pc' = pc /\ work' = work /\ deaths' = deaths
  OBVIOUS
<1>2. NothingYet'
  BY <1>1 DEF DamageInv, NothingYet, quiet
<1>3. ASSUME NEW q \in Proc PROVE StillHolds(q) /\ HoldsTruth(q)'
  BY <1>1 DEF DamageInv, StillHolds, HoldsTruth, HoldsSnapshot, HoldsFile,
              HoldsState, AtRecord, FileOf, Arg, quiet
<1>4. LastStateIsThere'
  BY QuietTell DEF DamageInv
<1>5. ASSUME tail' # "cut" PROVE LeftByTheDead'
  BY <1>1, <1>3, <1>5, QuietHands DEF quiet, DamageInv
<1> QED BY <1>2, <1>3, <1>4, <1>5 DEF DamageInv

LEMMA NextDamage ==
  ASSUME FilesInv, AloneInv, DamageInv, [Next]_vars
  PROVE  DamageInv'
<1>1. ASSUME NEW p \in Proc, Step(p) PROVE DamageInv'
  BY <1>1, FreeStepDamage, FirstManifestDamage, ReadStepDamage, SaveDamage,
     ReplaceSnapshotDamage, WriteArtifactDamage, AppendEventDamage DEF Step
<1>2. ASSUME NEW p \in Proc,
             \/ Continue(p) \/ HandRequest(p) \/ EnterStage(p) \/ StageCall(p)
             \/ LeaveStage(p) \/ Die(p)
      PROVE  DamageInv'
  BY <1>2, FreeStepDamage, DieDamage
<1>3. CASE ClearLock \/ UNCHANGED vars
  <2>1. UNCHANGED <<quiet, pc, work, deaths>>
    BY <1>3 DEF ClearLock, vars, fileVars, procVars, quiet
  <2> QED BY <2>1, StillDamage
<1> QED BY <1>1, <1>2, <1>3 DEF Next

LEMMA InitDamage == Init => DamageInv
<1> SUFFICES ASSUME Init PROVE DamageInv
  OBVIOUS
<1>1. /\ journal = <<>> /\ artFile = {} /\ tail = "whole" /\ deaths = 0
      /\ \A l \in Labels : snapFile[l] = 0 /\ manifest.snaps[l] = 0
      /\ manifest = NoManifest
      /\ \A p \in Proc : pc[p] \in {"idle", "patch"}
  BY DEF Init, NoManifest
<1>2. NothingYet /\ \A p \in Proc : HoldsTruth(p)
  BY <1>1 DEF NothingYet, HoldsTruth, HoldsSnapshot, HoldsState, AtRecord
<1>3. LastStateIsThere
  BY <1>1 DEF LastStateIsThere, StateEvents
<1>4. LeftSnapshots = {} /\ LeftFiles = {} /\ LeftTail = 0
  BY <1>1 DEF LeftSnapshots, LeftFiles, LeftTail, NewerSnapshots, UnrecordedFiles,
              StateUntold
<1>5. LeftByTheDead
  BY <1>1, <1>4, FS_EmptySet DEF LeftByTheDead, Left
<1> QED BY <1>2, <1>3, <1>5 DEF DamageInv

LEMMA DamageAccounted == ~Overlap => (Spec => []DamageInv)
<1> SUFFICES ASSUME ~Overlap PROVE Spec => []DamageInv
  OBVIOUS
<1>1. FilesInv /\ AloneInv /\ DamageInv /\ [Next]_vars => DamageInv'
  BY NextDamage
<1> QED BY <1>1, InitDamage, FilesFitAlways, AloneAlways, PTL DEF Spec

(* Where requests do not overlap and the journal can be read, the things   *)
(* that do not agree in a session are no more than the processes that died *)
(* and the one that is at work: a death costs one thing at most, and no    *)
(* later call makes it more.                                               *)
THEOREM DamageStaysLocal == ~Overlap => (Spec => []DamageIsLocal)
<1> SUFFICES ASSUME ~Overlap PROVE Spec => []DamageIsLocal
  OBVIOUS
<1>1. FilesInv /\ AloneInv /\ DamageInv => DamageIsLocal
  <2> SUFFICES ASSUME FilesInv, AloneInv, DamageInv, tail # "cut"
               PROVE  Damage <= deaths + Cardinality(Running)
    BY DEF DamageIsLocal
  <2>1. LeftByTheDead /\ deaths \in Nat
    BY DeathsAreCounted DEF DamageInv
  <2>2. CASE Running = {}
    <3>1. \A p \in Proc : ~HoldsSnapshot(p) /\ ~HoldsFile(p) /\ ~HoldsState(p)
      BY <2>2 DEF Running, HoldsSnapshot, HoldsFile, HoldsState, AtRecord
    <3>2. SnapshotsInHand = {} /\ FilesInHand = {} /\ ~StateInHand
      BY <3>1 DEF SnapshotsInHand, FilesInHand, StateInHand
    <3>3. /\ LeftSnapshots = NewerSnapshots /\ LeftFiles = UnrecordedFiles
          /\ LeftTail = DamageTail
      BY <3>2 DEF LeftSnapshots, LeftFiles, LeftTail, DamageTail
    <3>4. Damage = Left
      BY <3>3 DEF Damage, Left, DamageTail
    <3>5. Cardinality(Running) = 0
      BY <2>2, FS_EmptySet
    <3> QED BY <2>1, <3>4, <3>5 DEF LeftByTheDead
  <2>3. CASE Running # {}
    <3>1. PICK p \in Proc : p \in Running
      BY <2>3 DEF Running
    <3>2. ~AtRest(p) /\ \A q \in Proc \ {p} : AtRest(q)
      BY <3>1, OneHand DEF Running, AtRest
    <3>3. Running = {p}
      BY <3>1, <3>2 DEF Running, AtRest
    <3>4. Cardinality(Running) = 1
      BY <3>3, FS_Singleton
    <3>5. Damage \in Nat /\ Left \in Nat /\ Damage <= Left + 1
      BY <2>1, <3>2, OneMoreInHand
    <3> QED BY <2>1, <3>4, <3>5 DEF LeftByTheDead
  <2> QED BY <2>2, <2>3
<1> QED BY <1>1, FilesFitAlways, AloneAlways, DamageAccounted, PTL

=============================================================================
