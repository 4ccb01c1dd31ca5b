------------------------------ MODULE WebProofs ------------------------------
(***************************************************************************)
(* What the server's threads keep, for any number of connections, sessions,*)
(* jobs, edits by others and faults.  The argument: JobFits says of a job  *)
(* at each of its steps what its record, its connection and what it has    *)
(* read and done are by then.  What other threads and administrators do    *)
(* can only move Panorama forward, close connections and use up faults, so *)
(* that it never takes this from a job.                                    *)
(***************************************************************************)
EXTENDS WebBackend, TLAPS

Version == Nat \cup {None}
PairType == Version \X Version
CacheType == [running : Version, candidate : Version]
JobType ==
  [kind : Kinds \cup {"none"}, owner : Conn \cup {""}, sess : Session \cup {""},
   state : {"none", "queued", "running", "success", "failed"}]
WorkType ==
  [before : PairType, running : Version, candidate : Version, tries : {0, 1},
   since : SUBSET PairType, written : 0..Writes,
   outcome : {"", "failed", "cached", "proved", "unproved", "refused", "done",
              "undone", "unknown"}]

(* The steps of a thread, by the kinds of jobs that take them.             *)
ReadStep ==
  {"summary", "hit", "takeRunning", "takeCandidate", "readRunning",
   "storeRunning", "readCandidate", "storeCandidate", "after", "oldRunning",
   "fetchOld1", "storeOld1", "oldCandidate", "fetchOld2", "storeOld2",
   "unproved"}
LockStep == {"lock", "write", "undo", "unlock"}
JobStep == {"dispatch", "poll", "strand"}
StepName == ReadStep \cup LockStep \cup JobStep \cup {"finish", "off", "over"}

Typed ==
  /\ host \in [running : Nat, candidate : Nat, newest : Nat]
  /\ cfgLock \in Job \cup {Nobody}
  /\ conn \in [Conn -> {"new", "open", "old", "gone"}]
  /\ key \in [Conn -> BOOLEAN]
  /\ cache \in [Conn -> CacheType]
  /\ proof \in [Conn -> PairType]
  /\ job \in [Job -> JobType]
  /\ pc \in [Job -> StepName]
  /\ work \in [Job -> WorkType]
  /\ lease \in [Job -> BOOLEAN]
  /\ jobLock \in Job \cup {Nobody}
  /\ faults \in Nat

(* Panorama only moves forward, and running is a former candidate.         *)
HostOrder == host.running <= host.candidate /\ host.candidate <= host.newest

(* A client has its key as long as its connection is known.                *)
KeyFits == \A t \in Conn : key[t] <=> conn[t] \in {"open", "old"}

(* What an analysis has read is not newer than Panorama, nor older than    *)
(* the summary it began with.                                              *)
ReadFits(i) ==
  /\ pc[i] \in {"hit", "readRunning", "storeRunning", "readCandidate",
                "storeCandidate", "after"} =>
       work[i].before[1] <= host.running /\ work[i].before[2] <= host.candidate
  /\ pc[i] \in {"storeRunning", "readCandidate", "storeCandidate", "after"} =>
       work[i].before[1] <= work[i].running /\ work[i].running <= host.running
  /\ pc[i] \in {"storeCandidate", "after"} =>
       work[i].before[2] <= work[i].candidate /\ work[i].candidate <= host.candidate
  /\ i \in Running /\ Kind(i) = "analysis" => Pair \in work[i].since
  /\ work[i].outcome = "proved" =>
       <<work[i].running, work[i].candidate>> \in work[i].since

(* A job that leaves something open has lost an answer or its client.      *)
Excused(i) == faults > 0 \/ conn[Owner(i)] = "gone"

RecordFits(i) ==
  /\ pc[i] = "off" => job[i] = NoJob /\ work[i] = NoWork
  /\ pc[i] = "over" => job[i].state \in {"success", "failed"}
  /\ i \in Running => job[i].state \in {"queued", "running"}
  /\ pc[i] # "off" => Owner(i) \in Conn /\ conn[Owner(i)] # "new"
  /\ pc[i] \in ReadStep => Kind(i) \in {"analysis", "diff"}
  /\ pc[i] = "after" => Kind(i) = "analysis"
  /\ pc[i] \in LockStep => Kind(i) \in {"candidate", "commit"}
  /\ pc[i] \in JobStep => Kind(i) \in {"commit", "push"}
  /\ pc[i] = "finish" => Kind(i) = "push"

DeedFits(i) ==
  /\ cfgLock = i => Kind(i) \in {"candidate", "commit"} /\ pc[i] # "lock"
  /\ work[i].outcome \in {"unknown", "proved"} => pc[i] = "over"
  /\ pc[i] = "strand" => Excused(i)
  /\ pc[i] = "over" /\ (work[i].outcome = "unknown" \/ cfgLock = i) => Excused(i)

JobFits(i) == ReadFits(i) /\ RecordFits(i) /\ DeedFits(i)

WebInv ==
  /\ Typed
  /\ HostOrder
  /\ KeyFits
  /\ \A i \in Job : JobFits(i)
  /\ JobLockIsAccountedFor
  /\ OneStagePerSession


(***************************************************************************)
(* Values.                                                                 *)
(***************************************************************************)
LEMMA EmptyValues ==
  /\ Empty \in CacheType /\ NoSummary \in PairType
  /\ NoWork \in WorkType /\ NoJob \in JobType
  /\ NoWork.outcome = "" /\ NoWork.before = <<None, None>>
  /\ NoWork.before[1] = -1 /\ NoWork.before[2] = -1
  /\ NoJob.kind = "none" /\ NoJob.state = "none"
  BY WebBackendConstants
  DEF Empty, CacheType, NoSummary, PairType, Version, None, NoWork, WorkType,
      NoJob, JobType

LEMMA PairParts ==
  ASSUME NEW q \in PairType
  PROVE  q[1] \in Int /\ q[2] \in Int
<1>1. \A v \in Version : v \in Int
  BY DEF Version, None
<1>2. q \in Version \X Version
  BY DEF PairType
<1> QED BY <1>1, <1>2

(* What a job has after it has dropped what it read.                       *)
LEMMA DropValue ==
  ASSUME NEW o \in {"failed", "unproved", "refused", "done", "undone", "unknown"}
  PROVE  [NoWork EXCEPT !.outcome = o] \in WorkType
         /\ [NoWork EXCEPT !.outcome = o].outcome = o
<1>1. NoWork \in WorkType
  BY EmptyValues
<1> QED BY <1>1 DEF WorkType

LEMMA KeptValue ==
  ASSUME Typed, NEW j \in Job
  PROVE  /\ work[j] \in WorkType /\ job[j] \in JobType
         /\ work = [work EXCEPT ![j] = work[j]]
         /\ job = [job EXCEPT ![j].state = job[j].state]
  BY DEF Typed, JobType

LEMMA FieldValue ==
  ASSUME Typed, NEW j \in Job, NEW v \in Version
  PROVE  /\ [work[j] EXCEPT !.running = v] \in WorkType
         /\ [work[j] EXCEPT !.candidate = v] \in WorkType
         /\ Keep(j, "running", v) =>
              work' = [work EXCEPT ![j] = [work[j] EXCEPT !.running = v]]
         /\ Keep(j, "candidate", v) =>
              work' = [work EXCEPT ![j] = [work[j] EXCEPT !.candidate = v]]
<1>1. work[j] \in WorkType
  BY DEF Typed
<1>2. /\ [work[j] EXCEPT !.running = v] \in WorkType
      /\ [work[j] EXCEPT !.candidate = v] \in WorkType
  BY <1>1 DEF WorkType
<1>3. ASSUME Keep(j, "running", v)
      PROVE  work' = [work EXCEPT ![j] = [work[j] EXCEPT !.running = v]]
  BY <1>3 DEF Keep
<1>4. ASSUME Keep(j, "candidate", v)
      PROVE  work' = [work EXCEPT ![j] = [work[j] EXCEPT !.candidate = v]]
  BY <1>4 DEF Keep
<1> QED BY <1>2, <1>3, <1>4

(***************************************************************************)
(* What a job sees of a step that is not its own.                          *)
(***************************************************************************)
Reads(i) == i \in Running /\ Kind(i) = "analysis"

Untouched(i) ==
  /\ pc'[i] = pc[i] /\ job'[i] = job[i]
  /\ \/ ~Reads(i) /\ work'[i] = work[i]
     \/ Reads(i) /\ host' = host /\ work'[i] = work[i]
     \/ Reads(i) /\ work'[i] = [work[i] EXCEPT !.since = @ \cup {Pair'}]

(* Panorama, connections and faults do not go back.                        *)
WorldMoves ==
  /\ host.running <= host'.running /\ host.candidate <= host'.candidate
  /\ \A t \in Conn : /\ conn[t] # "new" => conn'[t] # "new"
                     /\ conn[t] = "gone" => conn'[t] = "gone"
  /\ faults <= faults'

LEMMA OtherFits ==
  ASSUME Typed, Typed', WorldMoves, NEW i \in Job, JobFits(i), Untouched(i),
         cfgLock' = i => cfgLock = i
  PROVE  JobFits(i)'
<1>1. /\ work[i] \in WorkType /\ work'[i] \in WorkType
      /\ job[i] \in JobType /\ job'[i] = job[i] /\ pc'[i] = pc[i]
  BY DEF Typed, Untouched
<1>2. /\ work'[i].before = work[i].before /\ work'[i].running = work[i].running
      /\ work'[i].candidate = work[i].candidate
      /\ work'[i].outcome = work[i].outcome
      /\ work[i].since \subseteq work'[i].since
      /\ Reads(i) => Pair' \in work'[i].since
  <2>1. CASE work'[i] = work[i]
    <3>1. CASE Reads(i) /\ host' = host
      BY <2>1, <3>1 DEF JobFits, ReadFits, Reads, Pair
    <3>2. CASE ~Reads(i)
      BY <2>1, <3>2
    <3>3. CASE Reads(i) /\ work'[i] = [work[i] EXCEPT !.since = @ \cup {Pair'}]
      BY <1>1, <2>1, <3>3 DEF WorkType
    <3> QED BY <3>1, <3>2, <3>3 DEF Untouched
  <2>2. CASE work'[i] = [work[i] EXCEPT !.since = @ \cup {Pair'}]
    BY <1>1, <2>2 DEF WorkType
  <2> QED BY <2>1, <2>2 DEF Untouched
<1>3. /\ host.running \in Nat /\ host.candidate \in Nat
      /\ host'.running \in Nat /\ host'.candidate \in Nat
  BY DEF Typed
<1>4. /\ work[i].before[1] \in Int /\ work[i].before[2] \in Int
      /\ work[i].running \in Int /\ work[i].candidate \in Int
  <2>1. /\ work[i].before \in PairType
        /\ work[i].running \in Version /\ work[i].candidate \in Version
    BY <1>1 DEF WorkType
  <2> QED BY <2>1, PairParts DEF Version, None
<1>5. i \in Running' <=> i \in Running
  BY <1>1 DEF Running
<1>6. ReadFits(i)'
  <2>1. ReadFits(i)
    BY DEF JobFits
  <2>2. /\ host.running <= host'.running /\ host.candidate <= host'.candidate
    BY DEF WorldMoves
  <2>3. Kind(i)' = Kind(i)
    BY <1>1 DEF Kind
  <2>4. Pair' \in work'[i].since \/ ~(i \in Running /\ Kind(i) = "analysis")
    BY <1>2 DEF Reads
  <2> QED BY <1>1, <1>2, <1>3, <1>4, <1>5, <2>1, <2>2, <2>3, <2>4 DEF ReadFits
<1>7. RecordFits(i)'
  <2>1. RecordFits(i)
    BY DEF JobFits
  <2>2. pc[i] = "off" => work'[i] = work[i]
    BY DEF Untouched, Reads, Running
  <2>3. Kind(i)' = Kind(i) /\ Owner(i)' = Owner(i)
    BY <1>1 DEF Kind, Owner
  <2>4. pc[i] # "off" => conn'[Owner(i)] # "new"
    BY <2>1 DEF RecordFits, WorldMoves
  <2> QED BY <1>1, <1>5, <2>1, <2>2, <2>3, <2>4 DEF RecordFits
<1>8. DeedFits(i)'
  <2>1. DeedFits(i) /\ RecordFits(i)
    BY DEF JobFits
  <2>2. Kind(i)' = Kind(i) /\ Owner(i)' = Owner(i)
    BY <1>1 DEF Kind, Owner
  <2>3. pc[i] # "off" /\ Excused(i) => Excused(i)'
    <3>1. faults \in Nat /\ faults' \in Nat
      BY DEF Typed
    <3>2. pc[i] # "off" => Owner(i) \in Conn
      BY <2>1 DEF RecordFits
    <3> QED BY <2>2, <3>1, <3>2 DEF Excused, WorldMoves
  <2> QED BY <1>1, <1>2, <2>1, <2>2, <2>3 DEF DeedFits
<1> QED BY <1>6, <1>7, <1>8 DEF JobFits

(***************************************************************************)
(* A step of job j's thread: it comes to step l, its record says s, and    *)
(* what it has read and done is w.                                         *)
(***************************************************************************)
JobState == {"queued", "running", "success", "failed"}

Does(j, w) ==
  \/ host' = host /\ work' = [work EXCEPT ![j] = w]
  \/ /\ host' \in {Edited, Committed} /\ Kind(j) # "analysis"
     /\ HostBecomes(host', [work EXCEPT ![j] = w])

Thread(j, l, s, w) ==
  /\ pc' = [pc EXCEPT ![j] = l]
  /\ job' = [job EXCEPT ![j].state = s]
  /\ Does(j, w)
  /\ UNCHANGED <<connVars, lease, edits, ages>>

LEMMA NextHost ==
  ASSUME Typed
  PROVE  \A h \in {Edited, Committed} :
           /\ h \in [running : Nat, candidate : Nat, newest : Nat]
           /\ \/ /\ h.running = host.running /\ h.candidate = host.newest + 1
                 /\ h.newest = host.newest + 1
              \/ /\ h.running = host.candidate /\ h.candidate = host.candidate
                 /\ h.newest = host.newest
<1>1. host \in [running : Nat, candidate : Nat, newest : Nat]
  BY DEF Typed
<1>2. /\ Edited \in [running : Nat, candidate : Nat, newest : Nat]
      /\ Edited.running = host.running /\ Edited.candidate = host.newest + 1
      /\ Edited.newest = host.newest + 1
  <2> DEFINE n == host.newest + 1
  <2>1. n \in Nat
    BY <1>1
  <2>2. Edited = [host EXCEPT !.candidate = n, !.newest = n]
    BY <1>1 DEF Edited
  <2> HIDE DEF n
  <2>3. /\ Edited \in [running : Nat, candidate : Nat, newest : Nat]
        /\ Edited.running = host.running /\ Edited.candidate = n
        /\ Edited.newest = n
    BY <1>1, <2>1, <2>2
  <2> QED BY <2>3 DEF n
<1>3. /\ Committed \in [running : Nat, candidate : Nat, newest : Nat]
      /\ Committed.running = host.candidate /\ Committed.candidate = host.candidate
      /\ Committed.newest = host.newest
  BY <1>1 DEF Committed
<1> QED BY <1>2, <1>3

(* A new state of Panorama is a later one.                                 *)
LEMMA HostMoves ==
  ASSUME Typed, HostOrder, host' \in {host, Edited, Committed}
  PROVE  /\ host' \in [running : Nat, candidate : Nat, newest : Nat]
         /\ HostOrder'
         /\ host.running <= host'.running /\ host.candidate <= host'.candidate
<1>1. host \in [running : Nat, candidate : Nat, newest : Nat]
  BY DEF Typed
<1>2. CASE host' = host
  BY <1>1, <1>2 DEF HostOrder
<1>3. CASE host' \in {Edited, Committed}
  <2>1. /\ host' \in [running : Nat, candidate : Nat, newest : Nat]
        /\ \/ /\ host'.running = host.running /\ host'.candidate = host.newest + 1
              /\ host'.newest = host.newest + 1
           \/ /\ host'.running = host.candidate /\ host'.candidate = host.candidate
              /\ host'.newest = host.newest
    BY <1>3, NextHost
  <2> QED BY <1>1, <2>1 DEF HostOrder
<1> QED BY <1>2, <1>3

(* What HostBecomes makes of what jobs have read and done.                 *)
LEMMA HostSeen ==
  ASSUME Typed, HostOrder, NEW h \in {Edited, Committed}, NEW w \in [Job -> WorkType],
         HostBecomes(h, w)
  PROVE  /\ work' \in [Job -> WorkType]
         /\ \A i \in Job : work'[i] = IF Reads(i)
                                      THEN [w[i] EXCEPT !.since = @ \cup {Pair'}]
                                      ELSE w[i]
<1>1. h.running \in Nat /\ h.candidate \in Nat
  BY NextHost
<1>2. Pair' = <<h.running, h.candidate>> /\ Pair' \in PairType
  BY <1>1 DEF HostBecomes, Pair, PairType, Version
<1>3. ASSUME NEW i \in Job PROVE [w[i] EXCEPT !.since = @ \cup {Pair'}] \in WorkType
  <2>1. w[i] \in WorkType
    OBVIOUS
  <2> QED BY <1>2, <2>1 DEF WorkType
<1>4. \A i \in Job : work'[i] = IF Reads(i)
                                THEN [w[i] EXCEPT !.since = @ \cup {Pair'}]
                                ELSE w[i]
  BY <1>2 DEF HostBecomes, Reads, Kind
<1>5. work' = [i \in Job |-> work'[i]]
  BY DEF HostBecomes
<1>6. \A i \in Job : work'[i] \in WorkType
  BY <1>3, <1>4
<1> HIDE DEF HostBecomes
<1> QED BY <1>4, <1>5, <1>6

LEMMA ThreadTypes ==
  ASSUME Typed, HostOrder, NEW j \in Job, NEW l \in StepName, NEW s \in JobState,
         NEW w \in WorkType, Thread(j, l, s, w)
  PROVE  /\ pc' \in [Job -> StepName] /\ job' \in [Job -> JobType]
         /\ work' \in [Job -> WorkType]
         /\ host' \in [running : Nat, candidate : Nat, newest : Nat] /\ HostOrder'
         /\ host.running <= host'.running /\ host.candidate <= host'.candidate
         /\ pc'[j] = l /\ work'[j] = w
         /\ job'[j] = [job[j] EXCEPT !.state = s] /\ job'[j] \in JobType
         /\ \A i \in Job \ {j} : Untouched(i)
<1>1. /\ pc' \in [Job -> StepName] /\ pc'[j] = l
      /\ \A i \in Job \ {j} : pc'[i] = pc[i]
  BY DEF Typed, Thread
<1>2. job[j] \in JobType /\ job \in [Job -> JobType]
  BY DEF Typed
<1>3. [job[j] EXCEPT !.state = s] \in JobType
  BY <1>2 DEF JobType, JobState
<1>4. job' = [job EXCEPT ![j] = [job[j] EXCEPT !.state = s]]
  BY DEF Thread
<1>5. /\ job' \in [Job -> JobType] /\ job'[j] = [job[j] EXCEPT !.state = s]
      /\ \A i \in Job \ {j} : job'[i] = job[i]
  BY <1>2, <1>3, <1>4
<1>6. host' \in {host, Edited, Committed}
  BY DEF Thread, Does
<1>7. /\ work' \in [Job -> WorkType] /\ work'[j] = w
      /\ \A i \in Job \ {j} : Untouched(i)
  <2>1. work \in [Job -> WorkType] /\ [work EXCEPT ![j] = w] \in [Job -> WorkType]
    BY DEF Typed
  <2>2. CASE host' = host /\ work' = [work EXCEPT ![j] = w]
    BY <1>1, <1>5, <2>1, <2>2 DEF Untouched
  <2>3. CASE /\ host' \in {Edited, Committed} /\ Kind(j) # "analysis"
             /\ HostBecomes(host', [work EXCEPT ![j] = w])
    <3>1. /\ work' \in [Job -> WorkType]
          /\ \A i \in Job : work'[i] = IF Reads(i)
               THEN [[work EXCEPT ![j] = w][i] EXCEPT !.since = @ \cup {Pair'}]
               ELSE [work EXCEPT ![j] = w][i]
      BY <2>1, <2>3, HostSeen
    <3>2. work'[j] = w
      BY <2>1, <2>3, <3>1 DEF Reads
    <3>3. ASSUME NEW i \in Job \ {j} PROVE Untouched(i)
      <4>1. [work EXCEPT ![j] = w][i] = work[i]
        BY <2>1
      <4> QED BY <1>1, <1>5, <3>1, <4>1 DEF Untouched
    <3> QED BY <3>1, <3>2, <3>3
  <2> QED BY <2>2, <2>3 DEF Thread, Does
<1> QED BY <1>1, <1>3, <1>5, <1>6, <1>7, HostMoves

(* What is to be shown of a step of job j's thread.                        *)
LEMMA ThreadKeeps ==
  ASSUME WebInv, NEW j \in Running, NEW l \in StepName \ {"off"}, NEW s \in JobState,
         NEW w \in WorkType, Thread(j, l, s, w),
         cache' \in [Conn -> CacheType], proof' \in [Conn -> PairType],
         cfgLock' \in {cfgLock, Nobody, j}, faults' \in {faults, faults + 1},
         \/ jobLock' \in {jobLock, Nobody} /\ jobLock' # j
         \/ jobLock' = j /\ (l \in {"poll", "strand"} \/ w.outcome = "unknown"),
         JobFits(j)'
  PROVE  WebInv'
<1>1. Typed /\ HostOrder /\ KeyFits /\ j \in Job /\ pc[j] \notin {"off", "over"}
  BY DEF WebInv, Running
<1>2. /\ pc' \in [Job -> StepName] /\ job' \in [Job -> JobType]
      /\ work' \in [Job -> WorkType]
      /\ host' \in [running : Nat, candidate : Nat, newest : Nat] /\ HostOrder'
      /\ host.running <= host'.running /\ host.candidate <= host'.candidate
      /\ pc'[j] = l /\ work'[j] = w
      /\ job'[j] = [job[j] EXCEPT !.state = s]
      /\ \A i \in Job \ {j} : Untouched(i)
  BY <1>1, ThreadTypes
<1>3. /\ cfgLock' \in Job \cup {Nobody} /\ jobLock' \in Job \cup {Nobody}
      /\ lease' \in [Job -> BOOLEAN]
      /\ conn' = conn /\ key' = key /\ faults' \in Nat /\ faults <= faults'
  BY <1>1 DEF Typed, Thread, connVars
<1>4. Typed'
  BY <1>1, <1>2, <1>3 DEF Typed
<1>5. WorldMoves
  BY <1>2, <1>3 DEF WorldMoves
<1>6. ASSUME NEW i \in Job \ {j} PROVE JobFits(i)'
  <2>1. cfgLock' = i => cfgLock = i
    BY DEF Nobody, Job
  <2> QED BY <1>1, <1>2, <1>4, <1>5, <2>1, OtherFits DEF WebInv
<1>7. JobLockIsAccountedFor'
  <2>1. CASE jobLock' = j
    BY <1>2, <2>1 DEF JobLockIsAccountedFor
  <2>2. CASE jobLock' = jobLock /\ jobLock # j /\ jobLock # Nobody
    <3>1. jobLock \in Job \ {j}
      BY <1>1, <2>2 DEF Typed
    <3>2. pc'[jobLock] = pc[jobLock] /\ work'[jobLock].outcome = work[jobLock].outcome
      <4>1. Untouched(jobLock) /\ work[jobLock] \in WorkType
        BY <1>1, <1>2, <3>1 DEF Typed
      <4> QED BY <4>1 DEF Untouched, WorkType
    <3> QED BY <2>2, <3>2 DEF WebInv, JobLockIsAccountedFor
  <2>3. CASE jobLock' = Nobody
    BY <2>3 DEF JobLockIsAccountedFor
  <2> QED BY <2>1, <2>2, <2>3
<1>8. OneStagePerSession'
  <2>1. \A i \in Job : /\ i \in Running' => i \in Running
                       /\ Kind(i)' = Kind(i) /\ job'[i].sess = job[i].sess
    <3>1. job'[j].kind = job[j].kind /\ job'[j].sess = job[j].sess
      <4>1. job[j] \in JobType
        BY <1>1, KeptValue
      <4> QED BY <1>2, <4>1 DEF JobType
    <3> QED BY <1>2, <3>1 DEF Running, Kind, Untouched
  <2> QED BY <2>1 DEF WebInv, OneStagePerSession, Running
<1>9. KeyFits'
  BY <1>1, <1>3 DEF KeyFits
<1> QED BY <1>2, <1>4, <1>6, <1>7, <1>8, <1>9 DEF WebInv

(* The record of a job fits the step its thread comes to.                  *)
LEMMA RecordFollows ==
  ASSUME WebInv, NEW j \in Running, NEW l \in StepName \ {"off"}, NEW s \in JobState,
         NEW w \in WorkType, Thread(j, l, s, w),
         l = "over" => s \in {"success", "failed"},
         l # "over" => s \in {"queued", "running"},
         l \in ReadStep => Kind(j) \in {"analysis", "diff"},
         l = "after" => Kind(j) = "analysis",
         l \in LockStep => Kind(j) \in {"candidate", "commit"},
         l \in JobStep => Kind(j) \in {"commit", "push"},
         l = "finish" => Kind(j) = "push"
  PROVE  /\ RecordFits(j)' /\ pc'[j] = l /\ work'[j] = w
         /\ Kind(j)' = Kind(j) /\ Owner(j)' = Owner(j) /\ conn' = conn
         /\ j \in Running' => l # "over"
<1>1. Typed /\ HostOrder /\ j \in Job /\ pc[j] # "off" /\ RecordFits(j)
  BY DEF WebInv, JobFits, Running
<1>2. /\ pc'[j] = l /\ work'[j] = w
      /\ job'[j] = [job[j] EXCEPT !.state = s]
  BY <1>1, ThreadTypes
<1>3. job'[j].kind = job[j].kind /\ job'[j].owner = job[j].owner /\ job'[j].state = s
  <2>1. job[j] \in JobType
    BY <1>1, KeptValue
  <2> QED BY <1>2, <2>1 DEF JobType
<1>4. Kind(j)' = Kind(j) /\ Owner(j)' = Owner(j) /\ conn' = conn
  BY <1>3 DEF Kind, Owner, Thread, connVars
<1>5. RecordFits(j)'
  BY <1>1, <1>2, <1>3, <1>4 DEF RecordFits, Running
<1> QED BY <1>2, <1>4, <1>5 DEF Running

(* ReadFits, for a job of kind k that comes to step l with w.              *)
Coherent(l, w, k) ==
  /\ l \in {"hit", "readRunning", "storeRunning", "readCandidate",
            "storeCandidate", "after"} =>
       w.before[1] <= host.running /\ w.before[2] <= host.candidate
  /\ l \in {"storeRunning", "readCandidate", "storeCandidate", "after"} =>
       w.before[1] <= w.running /\ w.running <= host.running
  /\ l \in {"storeCandidate", "after"} =>
       w.before[2] <= w.candidate /\ w.candidate <= host.candidate
  /\ l # "over" /\ k = "analysis" => Pair \in w.since
  /\ w.outcome = "proved" => <<w.running, w.candidate>> \in w.since

LEMMA IsCoherent ==
  ASSUME WebInv, NEW j \in Job, pc[j] \in ReadStep
  PROVE  /\ Coherent(pc[j], work[j], Kind(j))
         /\ work[j].outcome \notin {"proved", "unknown"}
         /\ Kind(j) \in {"analysis", "diff"} /\ Owner(j) \in Conn
         /\ job[j].state \in {"queued", "running"}
<1>1. j \in Running /\ pc[j] # "over" /\ pc[j] # "off"
  BY DEF Running, ReadStep
<1>2. ReadFits(j) /\ RecordFits(j) /\ DeedFits(j)
  BY DEF WebInv, JobFits
<1> QED BY <1>1, <1>2 DEF ReadFits, RecordFits, DeedFits, Coherent

(* A step of a thread that reads configurations.                           *)
LEMMA ReadKeeps ==
  ASSUME WebInv, NEW j \in Job, pc[j] \in ReadStep,
         NEW l \in ReadStep \cup {"over"}, NEW s \in JobState,
         NEW w \in WorkType, Thread(j, l, s, w), UNCHANGED reading,
         cache' \in [Conn -> CacheType], proof' \in [Conn -> PairType],
         faults' \in {faults, faults + 1},
         l = "over" => s \in {"success", "failed"},
         l # "over" => s \in {"queued", "running"},
         l = "after" => Kind(j) = "analysis",
         w.outcome # "unknown", w.outcome = "proved" => l = "over",
         Coherent(l, w, Kind(j))
  PROVE  WebInv'
<1>1. j \in Running
  BY DEF Running, ReadStep
<1>2. Typed /\ RecordFits(j) /\ DeedFits(j)
  BY DEF WebInv, JobFits
<1>3. Kind(j) \in {"analysis", "diff"} /\ cfgLock # j
  BY <1>2 DEF RecordFits, DeedFits
<1>4. l \in StepName \ {"off"}
      /\ l \notin LockStep \cup JobStep \cup {"finish"}
  BY DEF StepName, ReadStep, LockStep, JobStep
<1>5. /\ RecordFits(j)' /\ pc'[j] = l /\ work'[j] = w
      /\ Kind(j)' = Kind(j) /\ Owner(j)' = Owner(j) /\ conn' = conn
      /\ j \in Running' => l # "over"
  BY <1>1, <1>3, <1>4, RecordFollows
<1>6. cfgLock' = cfgLock /\ jobLock' = jobLock
  BY DEF reading, hostVars
<1>7. DeedFits(j)'
  BY <1>3, <1>4, <1>5, <1>6 DEF DeedFits, JobStep
<1>8. jobLock # j
  <2>1. j # Nobody /\ pc[j] \notin {"poll", "strand"} /\ work[j].outcome # "unknown"
    BY <1>1, <1>2 DEF ReadStep, Job, Nobody, DeedFits, Running
  <2> QED BY <2>1 DEF WebInv, JobLockIsAccountedFor
<1>9. ReadFits(j)'
  <2>1. host' = host /\ Pair' = Pair
    BY DEF reading, hostVars, Pair
  <2> QED BY <1>5, <2>1 DEF ReadFits, Coherent
<1> QED BY <1>1, <1>4, <1>5, <1>6, <1>7, <1>8, <1>9, ThreadKeeps DEF JobFits

(* A step of a thread that runs a stage.                                   *)
LEMMA StageKeeps ==
  ASSUME WebInv, NEW j \in Job, pc[j] \in LockStep \cup JobStep \cup {"finish"},
         NEW l \in LockStep \cup JobStep \cup {"finish", "over"}, NEW s \in JobState,
         NEW w \in WorkType, Thread(j, l, s, w),
         cache' \in [Conn -> CacheType], proof' \in [Conn -> PairType],
         cfgLock' \in {cfgLock, Nobody, j}, faults' \in {faults, faults + 1},
         \/ jobLock' \in {jobLock, Nobody} /\ jobLock' # j
         \/ jobLock' = j /\ (l \in {"poll", "strand"} \/ w.outcome = "unknown"),
         l = "over" => s \in {"success", "failed"},
         l # "over" => s \in {"queued", "running"},
         l \in LockStep => Kind(j) \in {"candidate", "commit"},
         l \in JobStep => Kind(j) \in {"commit", "push"},
         l = "finish" => Kind(j) = "push",
         w.outcome # "proved", w.outcome = "unknown" => l = "over",
         l # "lock", cfgLock' = j => Kind(j) \in {"candidate", "commit"},
         l = "strand" => Excused(j)',
         l = "over" /\ (w.outcome = "unknown" \/ cfgLock' = j) => Excused(j)'
  PROVE  WebInv'
<1>1. j \in Running /\ pc[j] \notin ReadStep
  BY DEF Running, ReadStep, LockStep, JobStep
<1>2. l \in StepName \ {"off"} /\ l \notin ReadStep
  BY DEF StepName, ReadStep, LockStep, JobStep
<1>3. /\ RecordFits(j)' /\ pc'[j] = l /\ work'[j] = w
      /\ Kind(j)' = Kind(j)
      /\ j \in Running' => l # "over"
  BY <1>1, <1>2, RecordFollows DEF ReadStep
<1>4. DeedFits(j)'
  BY <1>3 DEF DeedFits
<1>5. ReadFits(j)'
  <2>1. j \in Running' => Kind(j)' # "analysis"
    BY <1>3 DEF LockStep, JobStep
  <2> QED BY <1>2, <1>3, <2>1 DEF ReadFits, ReadStep
<1> QED BY <1>1, <1>2, <1>3, <1>4, <1>5, ThreadKeeps DEF JobFits

(***************************************************************************)
(* Reading configurations.                                                 *)
(***************************************************************************)
LEMMA FaultCount == Fault \/ NoFault => faults' \in {faults, faults + 1}
  BY DEF Fault, NoFault

(* A read that goes on to step l.                                          *)
LEMMA ReadGoesOn ==
  ASSUME WebInv, NEW j \in Job, pc[j] \in ReadStep, NEW l \in ReadStep,
         NEW w \in WorkType, Goto(j, l), work' = [work EXCEPT ![j] = w],
         Report(j) \/ UNCHANGED job, Fault \/ NoFault, UNCHANGED reading,
         cache' \in [Conn -> CacheType], proof' \in [Conn -> PairType],
         l = "after" => Kind(j) = "analysis",
         w.outcome = work[j].outcome, w.since = work[j].since,
         Coherent(l, w, "diff")
  PROVE  WebInv'
<1>1. Typed
  BY DEF WebInv
<1>2. PICK s \in {"queued", "running"} : job' = [job EXCEPT ![j].state = s]
  BY <1>1, IsCoherent, KeptValue DEF Report
<1>3. Thread(j, l, s, w)
  BY <1>2 DEF Thread, Does, Goto, reading, hostVars
<1>4. l # "over"
  BY DEF ReadStep
<1>5. pc[j] # "over" /\ work[j].outcome \notin {"proved", "unknown"}
  BY IsCoherent DEF ReadStep
<1>6. Coherent(l, w, Kind(j))
  BY <1>5, IsCoherent DEF Coherent
<1> QED BY <1>2, <1>3, <1>4, <1>5, <1>6, FaultCount, ReadKeeps DEF JobState

(* A read that ends, with nothing to show for it or unproved.              *)
LEMMA ReadEnds ==
  ASSUME WebInv, NEW j \in Job, pc[j] \in ReadStep, NEW w \in WorkType,
         NEW how, End(j, how), work' = [work EXCEPT ![j] = w],
         Fault \/ NoFault, UNCHANGED reading,
         cache' \in [Conn -> CacheType], proof' \in [Conn -> PairType],
         w.outcome # "unknown",
         w.outcome = "proved" => <<w.running, w.candidate>> \in w.since
  PROVE  WebInv'
<1>1. PICK s \in {"success", "failed"} : job' = [job EXCEPT ![j].state = s]
  BY DEF End
<1>2. Thread(j, "over", s, w)
  BY <1>1 DEF Thread, Does, End, Goto, reading, hostVars
<1>3. Coherent("over", w, Kind(j))
  BY DEF Coherent
<1>4. "over" \notin ReadStep
  BY DEF ReadStep
<1> QED BY <1>1, <1>2, <1>3, <1>4, FaultCount, ReadKeeps DEF JobState

LEMMA ReadDrops ==
  ASSUME WebInv, NEW j \in Job, pc[j] \in ReadStep,
         NEW how, End(j, how), NEW o \in {"failed", "unproved"}, Drop(j, o),
         Fault \/ NoFault, UNCHANGED reading,
         cache' \in [Conn -> CacheType], proof' \in [Conn -> PairType]
  PROVE  WebInv'
<1>1. /\ [NoWork EXCEPT !.outcome = o] \in WorkType
      /\ [NoWork EXCEPT !.outcome = o].outcome = o
  BY DropValue
<1>2. work' = [work EXCEPT ![j] = [NoWork EXCEPT !.outcome = o]]
  BY DEF Drop
<1> QED BY <1>1, <1>2, ReadEnds

LEMMA CachesKept ==
  ASSUME WebInv, UNCHANGED cacheVars
  PROVE  cache' \in [Conn -> CacheType] /\ proof' \in [Conn -> PairType]
  BY DEF WebInv, Typed, cacheVars

LEMMA ReadSummaryKeeps ==
  ASSUME WebInv, NEW j \in Job, ReadSummary(j)
  PROVE  WebInv'
<1>1. /\ Typed /\ pc[j] = "summary" /\ pc[j] \in ReadStep /\ Report(j)
      /\ UNCHANGED reading
      /\ cache' \in [Conn -> CacheType] /\ proof' \in [Conn -> PairType]
  BY CachesKept DEF WebInv, ReadSummary, At, ReadStep
<1>2. work[j] \in WorkType
  BY <1>1, KeptValue
<1>3. /\ Summary \in PairType /\ NoSummary \in PairType
      /\ Summary[1] = host.running /\ Summary[2] = host.candidate
      /\ host.running \in Nat /\ host.candidate \in Nat
  BY <1>1, EmptyValues DEF Summary, PairType, Version, Typed
<1>4. ASSUME NEW v \in PairType
      PROVE  /\ [work[j] EXCEPT !.before = v] \in WorkType
             /\ [work[j] EXCEPT !.before = v].before = v
             /\ [work[j] EXCEPT !.before = v].outcome = work[j].outcome
             /\ [work[j] EXCEPT !.before = v].since = work[j].since
  BY <1>2 DEF WorkType
<1>5. work[j].outcome # "proved"
  BY <1>1, IsCoherent
<1>6. CASE Keep(j, "before", Summary) /\ Goto(j, "hit") /\ NoFault
  <2> DEFINE w == [work[j] EXCEPT !.before = Summary]
  <2>1. work' = [work EXCEPT ![j] = w]
    BY <1>6 DEF Keep
  <2>2. /\ w \in WorkType /\ w.before = Summary
        /\ w.outcome = work[j].outcome /\ w.since = work[j].since
    BY <1>3, <1>4
  <2> HIDE DEF w
  <2>3. Coherent("hit", w, "diff")
    BY <1>3, <1>5, <2>2 DEF Coherent
  <2> QED BY <1>1, <1>6, <2>1, <2>2, <2>3, ReadGoesOn DEF ReadStep
<1>7. CASE Keep(j, "before", NoSummary) /\ Goto(j, "oldRunning") /\ (Fault \/ NoFault)
  <2> DEFINE w == [work[j] EXCEPT !.before = NoSummary]
  <2>1. work' = [work EXCEPT ![j] = w]
    BY <1>7 DEF Keep
  <2>2. /\ w \in WorkType
        /\ w.outcome = work[j].outcome /\ w.since = work[j].since
    BY <1>3, <1>4
  <2> HIDE DEF w
  <2>3. Coherent("oldRunning", w, "diff")
    BY <1>5, <2>2 DEF Coherent
  <2> QED BY <1>1, <1>7, <2>1, <2>2, <2>3, ReadGoesOn DEF ReadStep
<1> QED BY <1>6, <1>7 DEF ReadSummary

(* A step of reading that keeps what was read.                             *)
LEMMA SameWorkGoesOn ==
  ASSUME WebInv, NEW j \in Job, pc[j] \in ReadStep, NEW l \in ReadStep,
         Goto(j, l), UNCHANGED work, Report(j) \/ UNCHANGED job,
         Fault \/ NoFault, UNCHANGED reading,
         cache' \in [Conn -> CacheType], proof' \in [Conn -> PairType],
         l = "after" => Kind(j) = "analysis",
         Coherent(l, work[j], "diff")
  PROVE  WebInv'
<1>1. work[j] \in WorkType /\ work' = [work EXCEPT ![j] = work[j]]
  BY KeptValue DEF WebInv
<1> QED BY <1>1, ReadGoesOn

LEMMA TryCacheKeeps ==
  ASSUME WebInv, NEW j \in Job, TryCache(j)
  PROVE  WebInv'
<1>1. /\ pc[j] = "hit" /\ pc[j] \in ReadStep /\ UNCHANGED reading
      /\ cache' \in [Conn -> CacheType] /\ proof' \in [Conn -> PairType]
      /\ UNCHANGED <<job, work>> /\ NoFault
  BY CachesKept DEF TryCache, At, ReadStep
<1>2. Coherent("hit", work[j], Kind(j)) /\ work[j].outcome # "proved"
  BY <1>1, IsCoherent
<1>3. \E l \in {"takeRunning", "readRunning"} : Goto(j, l)
  BY DEF TryCache
<1>4. \A l \in {"takeRunning", "readRunning"} :
        Coherent(l, work[j], "diff") /\ l \in ReadStep
  BY <1>2 DEF Coherent, ReadStep
<1> QED BY <1>1, <1>3, <1>4, SameWorkGoesOn

LEMMA CachedValue ==
  ASSUME WebInv, NEW j \in Job, pc[j] \in ReadStep
  PROVE  Cached(j).running \in Version /\ Cached(j).candidate \in Version
  BY IsCoherent DEF WebInv, Typed, Cached, CacheType

(* One field that is read or taken from the cache.                         *)
LEMMA OneFieldRead ==
  ASSUME WebInv, NEW j \in Job, pc[j] \in ReadStep, NEW v \in Version,
         NEW l \in ReadStep, Goto(j, l), UNCHANGED reading, Fault \/ NoFault,
         cache' \in [Conn -> CacheType], proof' \in [Conn -> PairType],
         l # "after", UNCHANGED job,
         \/ Keep(j, "running", v) /\ Coherent(l, [work[j] EXCEPT !.running = v], "diff")
         \/ Keep(j, "candidate", v) /\ Coherent(l, [work[j] EXCEPT !.candidate = v], "diff")
  PROVE  WebInv'
<1>1. work[j] \in WorkType /\ Typed
  BY KeptValue DEF WebInv
<1>2. CASE Keep(j, "running", v) /\ Coherent(l, [work[j] EXCEPT !.running = v], "diff")
  <2> DEFINE w == [work[j] EXCEPT !.running = v]
  <2>1. w \in WorkType /\ work' = [work EXCEPT ![j] = w]
    BY <1>1, <1>2, FieldValue
  <2>2. w.outcome = work[j].outcome /\ w.since = work[j].since
    BY <1>1 DEF WorkType
  <2>3. Coherent(l, w, "diff")
    BY <1>2
  <2> HIDE DEF w
  <2> QED BY <2>1, <2>2, <2>3, ReadGoesOn
<1>3. CASE Keep(j, "candidate", v) /\ Coherent(l, [work[j] EXCEPT !.candidate = v], "diff")
  <2> DEFINE w == [work[j] EXCEPT !.candidate = v]
  <2>1. w \in WorkType /\ work' = [work EXCEPT ![j] = w]
    BY <1>1, <1>3, FieldValue
  <2>2. w.outcome = work[j].outcome /\ w.since = work[j].since
    BY <1>1 DEF WorkType
  <2>3. Coherent(l, w, "diff")
    BY <1>3
  <2> HIDE DEF w
  <2> QED BY <2>1, <2>2, <2>3, ReadGoesOn
<1> QED BY <1>2, <1>3

(* A step to which nothing has to have been read coherently.               *)
FreeStep == {"takeCandidate", "oldCandidate", "storeOld1", "storeOld2", "unproved",
             "fetchOld1", "fetchOld2", "takeRunning", "oldRunning"}

LEMMA FreeIsCoherent ==
  ASSUME NEW l \in FreeStep, NEW w, w.outcome # "proved"
  PROVE  Coherent(l, w, "diff") /\ l \in ReadStep /\ l # "after"
  BY DEF FreeStep, Coherent, ReadStep

LEMMA FieldOutcome ==
  ASSUME WebInv, NEW j \in Job, pc[j] \in ReadStep, NEW v
  PROVE  /\ [work[j] EXCEPT !.running = v].outcome # "proved"
         /\ [work[j] EXCEPT !.candidate = v].outcome # "proved"
<1>1. work[j] \in WorkType /\ work[j].outcome # "proved"
  BY KeptValue, IsCoherent DEF WebInv
<1> QED BY <1>1 DEF WorkType

LEMMA TakesKeep ==
  ASSUME WebInv, NEW j \in Job, TakeRunning(j) \/ TakeCandidate(j)
  PROVE  WebInv'
<1>1. /\ Typed /\ pc[j] \in ReadStep /\ UNCHANGED reading /\ NoFault
      /\ cache' \in [Conn -> CacheType] /\ proof' \in [Conn -> PairType]
  BY CachesKept DEF WebInv, TakeRunning, TakeCandidate, At, ReadStep
<1>2. CASE End(j, "exception") /\ Drop(j, "failed")
  BY <1>1, <1>2, ReadDrops
<1>3. CASE /\ Keep(j, "running", Cached(j).running)
           /\ Goto(j, "takeCandidate") /\ UNCHANGED job
  <2>1. "takeCandidate" \in FreeStep
    BY DEF FreeStep
  <2> QED BY <1>1, <1>3, <2>1, CachedValue, FieldOutcome, FreeIsCoherent, OneFieldRead
<1>4. CASE /\ work' = [work EXCEPT ![j].candidate = Cached(j).candidate,
                                   ![j].outcome = "cached"]
           /\ End(j, "ok")
  <2> DEFINE v == Cached(j).candidate
             w == [work[j] EXCEPT !.candidate = v, !.outcome = "cached"]
  <2>1. v \in Version /\ work[j] \in WorkType
    BY <1>1, CachedValue, KeptValue
  <2>2. work' = [work EXCEPT ![j] = w]
    BY <1>1, <1>4 DEF Typed
  <2> HIDE DEF v
  <2>3. w \in WorkType /\ w.outcome = "cached"
    BY <2>1 DEF WorkType
  <2> HIDE DEF w
  <2> QED BY <1>1, <1>4, <2>2, <2>3, ReadEnds
<1> QED BY <1>2, <1>3, <1>4 DEF TakeRunning, TakeCandidate

(* Downloading a configuration, or failing to.                             *)
LEMMA FetchKeeps ==
  ASSUME WebInv, NEW j \in Job, NEW l \in ReadStep, NEW m \in ReadStep, m # "after",
         \/ /\ Fetch(j, l, "running", m)
            /\ Coherent(m, [work[j] EXCEPT !.running = host.running], "diff")
         \/ /\ Fetch(j, l, "candidate", m)
            /\ Coherent(m, [work[j] EXCEPT !.candidate = host.candidate], "diff")
  PROVE  WebInv'
<1>1. /\ Typed /\ pc[j] \in ReadStep /\ UNCHANGED reading /\ (Fault \/ NoFault)
      /\ cache' \in [Conn -> CacheType] /\ proof' \in [Conn -> PairType]
  BY CachesKept DEF WebInv, Fetch, At
<1>2. host.running \in Version /\ host.candidate \in Version
  BY <1>1 DEF Typed, Version
<1>3. CASE End(j, "error") /\ Drop(j, "failed")
  BY <1>1, <1>3, ReadDrops
<1>4. CASE /\ Goto(j, m) /\ UNCHANGED job
           /\ \/ /\ Keep(j, "running", host.running)
                 /\ Coherent(m, [work[j] EXCEPT !.running = host.running], "diff")
              \/ /\ Keep(j, "candidate", host.candidate)
                 /\ Coherent(m, [work[j] EXCEPT !.candidate = host.candidate], "diff")
  BY <1>1, <1>2, <1>4, OneFieldRead
<1> QED BY <1>3, <1>4 DEF Fetch

LEMMA FetchesKeep ==
  ASSUME WebInv, NEW j \in Job,
         \/ Fetch(j, "readRunning", "running", "storeRunning")
         \/ Fetch(j, "readCandidate", "candidate", "storeCandidate")
         \/ Fetch(j, "fetchOld1", "running", "storeOld1")
         \/ Fetch(j, "fetchOld2", "candidate", "storeOld2")
  PROVE  WebInv'
<1>1. /\ Typed /\ pc[j] \in ReadStep
      /\ work[j] \in WorkType /\ Coherent(pc[j], work[j], Kind(j))
      /\ work[j].outcome # "proved"
      /\ host.running \in Nat /\ host.candidate \in Nat
  <2>1. Typed /\ pc[j] \in ReadStep
    BY DEF WebInv, Fetch, At, ReadStep
  <2> QED BY <2>1, KeptValue, IsCoherent DEF Typed
<1>2. /\ [work[j] EXCEPT !.running = host.running].running = host.running
      /\ [work[j] EXCEPT !.running = host.running].before = work[j].before
      /\ [work[j] EXCEPT !.candidate = host.candidate].candidate = host.candidate
      /\ [work[j] EXCEPT !.candidate = host.candidate].before = work[j].before
      /\ [work[j] EXCEPT !.candidate = host.candidate].running = work[j].running
  BY <1>1 DEF WorkType
<1>3. /\ [work[j] EXCEPT !.running = host.running].outcome # "proved"
      /\ [work[j] EXCEPT !.candidate = host.candidate].outcome # "proved"
  BY <1>1, FieldOutcome
<1>4. {"readRunning", "storeRunning", "readCandidate", "storeCandidate",
       "fetchOld1", "storeOld1", "fetchOld2", "storeOld2"} \subseteq ReadStep
  BY DEF ReadStep
<1>5. CASE Fetch(j, "readRunning", "running", "storeRunning")
  <2>1. Coherent("storeRunning", [work[j] EXCEPT !.running = host.running], "diff")
    BY <1>1, <1>2, <1>3, <1>5 DEF Fetch, At, Coherent
  <2> QED BY <1>4, <1>5, <2>1, FetchKeeps
<1>6. CASE Fetch(j, "readCandidate", "candidate", "storeCandidate")
  <2>1. Coherent("storeCandidate", [work[j] EXCEPT !.candidate = host.candidate], "diff")
    BY <1>1, <1>2, <1>3, <1>6 DEF Fetch, At, Coherent
  <2> QED BY <1>4, <1>6, <2>1, FetchKeeps
<1>7. CASE Fetch(j, "fetchOld1", "running", "storeOld1")
  <2>1. "storeOld1" \in FreeStep
    BY DEF FreeStep
  <2> QED BY <1>3, <1>4, <1>7, <2>1, FreeIsCoherent, FetchKeeps
<1>8. CASE Fetch(j, "fetchOld2", "candidate", "storeOld2")
  <2>1. "storeOld2" \in FreeStep
    BY DEF FreeStep
  <2> QED BY <1>3, <1>4, <1>8, <2>1, FreeIsCoherent, FetchKeeps
<1> QED BY <1>5, <1>6, <1>7, <1>8

(* Keeping in the cache what was downloaded.                               *)
LEMMA StoreKeeps ==
  ASSUME WebInv, NEW j \in Job, NEW l \in ReadStep, NEW m \in ReadStep,
         Store(j, l, "running", m) \/ Store(j, l, "candidate", m),
         m = "after" => Kind(j) = "analysis",
         Coherent(m, work[j], "diff")
  PROVE  WebInv'
<1>1. /\ Typed /\ pc[j] \in ReadStep /\ UNCHANGED <<reading, proof, job, work>>
      /\ NoFault /\ Goto(j, m)
  BY DEF WebInv, Store, At
<1>2. work[j].running \in Version /\ work[j].candidate \in Version
  BY <1>1, KeptValue DEF WorkType
<1>3. cache \in [Conn -> CacheType] /\ Owner(j) \in Conn
  BY <1>1, IsCoherent DEF Typed
<1>4. cache' \in [Conn -> CacheType]
  <2> DEFINE c == cache[Owner(j)]
  <2>1. /\ c \in CacheType
        /\ [c EXCEPT !.running = work[j].running] \in CacheType
        /\ [c EXCEPT !.candidate = work[j].candidate] \in CacheType
    BY <1>2, <1>3 DEF CacheType
  <2>2. \/ cache' = [cache EXCEPT ![Owner(j)] = [c EXCEPT !.running = work[j].running]]
        \/ cache' = [cache EXCEPT ![Owner(j)] = [c EXCEPT !.candidate = work[j].candidate]]
    BY DEF Store
  <2> HIDE DEF c
  <2> QED BY <1>3, <2>1, <2>2
<1>5. proof' \in [Conn -> PairType]
  BY <1>1 DEF Typed
<1> QED BY <1>1, <1>4, <1>5, SameWorkGoesOn

LEMMA StoresKeep ==
  ASSUME WebInv, NEW j \in Job,
         \/ Store(j, "storeRunning", "running", "readCandidate")
         \/ Store(j, "storeCandidate", "candidate",
                  IF job[j].kind = "diff" THEN "unproved" ELSE "after")
         \/ Store(j, "storeOld1", "running", "oldCandidate")
         \/ Store(j, "storeOld2", "candidate", "unproved")
  PROVE  WebInv'
<1>1. /\ pc[j] \in ReadStep
      /\ Coherent(pc[j], work[j], Kind(j)) /\ work[j].outcome # "proved"
      /\ Kind(j) \in {"analysis", "diff"}
  <2>1. pc[j] \in ReadStep
    BY DEF Store, At, ReadStep
  <2> QED BY <2>1, IsCoherent
<1>2. {"storeRunning", "readCandidate", "storeCandidate", "after", "storeOld1",
       "oldCandidate", "storeOld2", "unproved"} \subseteq ReadStep
  BY DEF ReadStep
<1>3. CASE Store(j, "storeRunning", "running", "readCandidate")
  <2>1. Coherent("readCandidate", work[j], "diff")
    BY <1>1, <1>3 DEF Store, At, Coherent
  <2> QED BY <1>2, <1>3, <2>1, StoreKeeps
<1>4. CASE Store(j, "storeCandidate", "candidate",
                 IF job[j].kind = "diff" THEN "unproved" ELSE "after")
  <2> DEFINE m == IF job[j].kind = "diff" THEN "unproved" ELSE "after"
  <2>1. Coherent(m, work[j], "diff") /\ m \in ReadStep
    BY <1>1, <1>2, <1>4 DEF Store, At, Coherent
  <2>2. m = "after" => Kind(j) = "analysis"
    BY <1>1 DEF Kind
  <2> QED BY <1>2, <1>4, <2>1, <2>2, StoreKeeps
<1>5. CASE Store(j, "storeOld1", "running", "oldCandidate")
  <2>1. Coherent("oldCandidate", work[j], "diff")
    BY <1>1 DEF Coherent
  <2> QED BY <1>2, <1>5, <2>1, StoreKeeps
<1>6. CASE Store(j, "storeOld2", "candidate", "unproved")
  <2>1. Coherent("unproved", work[j], "diff")
    BY <1>1 DEF Coherent
  <2> QED BY <1>2, <1>6, <2>1, StoreKeeps
<1> QED BY <1>3, <1>4, <1>5, <1>6

(* The second summary: where it is the first, nothing has moved in between,*)
(* and the pair that was read is what Panorama holds.                      *)
LEMMA CompareSummaryKeeps ==
  ASSUME WebInv, NEW j \in Job, CompareSummary(j)
  PROVE  WebInv'
<1>1. /\ Typed /\ pc[j] = "after" /\ pc[j] \in ReadStep /\ UNCHANGED reading
      /\ (Fault \/ NoFault)
  BY DEF WebInv, CompareSummary, At, ReadStep
<1>2. /\ Coherent("after", work[j], Kind(j)) /\ Kind(j) = "analysis"
      /\ work[j].outcome # "proved" /\ Owner(j) \in Conn
  <2>1. Kind(j) = "analysis"
    BY <1>1 DEF WebInv, JobFits, RecordFits
  <2> QED BY <1>1, <2>1, IsCoherent
<1>3. work[j] \in WorkType
  BY <1>1, KeptValue
<1>4. /\ Summary \in PairType /\ NoSummary \in PairType /\ Empty \in CacheType
      /\ Summary[1] = host.running /\ Summary[2] = host.candidate
      /\ host.running \in Nat /\ host.candidate \in Nat
  BY <1>1, EmptyValues DEF Summary, PairType, Version, Typed
<1>5. UNCHANGED cacheVars => cache' \in [Conn -> CacheType] /\ proof' \in [Conn -> PairType]
  BY CachesKept
<1>6. CASE /\ StillSame(j) /\ proof' = [proof EXCEPT ![Owner(j)] = Summary]
           /\ Keep(j, "outcome", "proved") /\ End(j, "ok") /\ UNCHANGED cache
  <2> DEFINE w == [work[j] EXCEPT !.outcome = "proved"]
  <2>1. work' = [work EXCEPT ![j] = w]
    BY <1>6 DEF Keep
  <2>2. /\ w \in WorkType /\ w.outcome = "proved" /\ w.since = work[j].since
        /\ w.running = work[j].running /\ w.candidate = work[j].candidate
    BY <1>3 DEF WorkType
  <2> HIDE DEF w
  <2>3. work[j].running = host.running /\ work[j].candidate = host.candidate
    <3>1. work[j].before[1] = host.running /\ work[j].before[2] = host.candidate
      BY <1>4, <1>6 DEF StillSame
    <3>2. work[j].running \in Int /\ work[j].candidate \in Int
      <4>1. work[j].running \in Version /\ work[j].candidate \in Version
        BY <1>3 DEF WorkType
      <4> QED BY <4>1 DEF Version, None
    <3> QED BY <1>2, <1>4, <3>1, <3>2 DEF Coherent
  <2>4. <<w.running, w.candidate>> \in w.since
    BY <1>2, <2>2, <2>3 DEF Coherent, Pair
  <2>5. proof' \in [Conn -> PairType] /\ cache' \in [Conn -> CacheType]
    BY <1>1, <1>4, <1>6 DEF Typed
  <2> QED BY <1>1, <1>6, <2>1, <2>2, <2>4, <2>5, ReadEnds
<1>7. CASE /\ work' = [work EXCEPT ![j].tries = 1, ![j].before = Summary]
           /\ Goto(j, "readRunning") /\ UNCHANGED <<cacheVars, job>>
  <2> DEFINE w == [work[j] EXCEPT !.tries = 1, !.before = Summary]
  <2>1. work' = [work EXCEPT ![j] = w]
    BY <1>1, <1>7 DEF Typed
  <2>2. /\ w \in WorkType /\ w.before = Summary
        /\ w.outcome = work[j].outcome /\ w.since = work[j].since
    BY <1>3, <1>4 DEF WorkType
  <2> HIDE DEF w
  <2>3. Coherent("readRunning", w, "diff") /\ "readRunning" \in ReadStep
    BY <1>2, <1>4, <2>2 DEF Coherent, ReadStep
  <2> QED BY <1>1, <1>5, <1>7, <2>1, <2>2, <2>3, ReadGoesOn
<1>8. CASE /\ cache' = [cache EXCEPT ![Owner(j)] = Empty]
           /\ proof' = [proof EXCEPT ![Owner(j)] = NoSummary]
           /\ End(j, "error") /\ Drop(j, "failed")
  <2>1. proof' \in [Conn -> PairType] /\ cache' \in [Conn -> CacheType]
    BY <1>1, <1>4, <1>8 DEF Typed
  <2> QED BY <1>1, <1>8, <2>1, ReadDrops
<1>9. CASE End(j, "error") /\ Drop(j, "failed") /\ UNCHANGED cacheVars
  BY <1>1, <1>5, <1>9, ReadDrops
<1> QED BY <1>6, <1>7, <1>8, <1>9 DEF CompareSummary

LEMMA TakeOldKeeps ==
  ASSUME WebInv, NEW j \in Job,
         \/ TakeOld(j, "oldRunning", "running", "oldCandidate", "fetchOld1")
         \/ TakeOld(j, "oldCandidate", "candidate", "unproved", "fetchOld2")
         \/ EndUnproved(j)
  PROVE  WebInv'
<1>1. /\ pc[j] \in ReadStep /\ UNCHANGED reading /\ NoFault
      /\ cache' \in [Conn -> CacheType] /\ proof' \in [Conn -> PairType]
  BY CachesKept DEF TakeOld, EndUnproved, At, ReadStep
<1>2. {"oldCandidate", "unproved", "fetchOld1", "fetchOld2"} \subseteq FreeStep
  BY DEF FreeStep
<1>3. CASE Drop(j, "unproved") /\ End(j, "ok")
  BY <1>1, <1>3, ReadDrops
<1>4. CASE \E l \in {"oldCandidate", "unproved"} :
             /\ Goto(j, l) /\ UNCHANGED job
             /\ \/ Keep(j, "running", Cached(j).running)
                \/ Keep(j, "candidate", Cached(j).candidate)
  BY <1>1, <1>2, <1>4, CachedValue, FieldOutcome, FreeIsCoherent, OneFieldRead
<1>5. CASE \E l \in {"fetchOld1", "fetchOld2"} : Goto(j, l) /\ UNCHANGED <<job, work>>
  <2>1. work[j].outcome # "proved"
    BY <1>1, IsCoherent
  <2> QED BY <1>1, <1>2, <1>5, <2>1, FreeIsCoherent, SameWorkGoesOn
<1> QED BY <1>3, <1>4, <1>5 DEF TakeOld, EndUnproved

LEMMA ReadStepKeeps ==
  ASSUME WebInv, NEW j \in Job, Read(j)
  PROVE  WebInv'
  BY ReadSummaryKeeps, TryCacheKeeps, TakesKeep, FetchesKeep, StoresKeep,
     CompareSummaryKeeps, TakeOldKeeps DEF Read

(***************************************************************************)
(* Stages.                                                                 *)
(***************************************************************************)
StageStep == LockStep \cup JobStep \cup {"finish"}

LEMMA StageFacts ==
  ASSUME WebInv, NEW j \in Job, pc[j] \in StageStep
  PROVE  /\ Typed /\ j \in Running /\ work[j] \in WorkType
         /\ work[j].outcome \notin {"proved", "unknown"}
         /\ job[j].state \in {"queued", "running"}
         /\ Owner(j) \in Conn /\ (~HasKey(j) => conn[Owner(j)] = "gone")
         /\ pc[j] \in LockStep => Kind(j) \in {"candidate", "commit"}
         /\ pc[j] \in JobStep => Kind(j) \in {"commit", "push"}
         /\ pc[j] = "finish" => Kind(j) = "push"
         /\ pc[j] = "strand" => Excused(j)
         /\ cfgLock = j => Kind(j) \in {"candidate", "commit"} /\ pc[j] # "lock"
         /\ jobLock = j => pc[j] \in {"poll", "strand"}
<1>1. Typed /\ KeyFits /\ RecordFits(j) /\ DeedFits(j) /\ JobLockIsAccountedFor
  BY DEF WebInv, JobFits
<1>2. j \in Running /\ pc[j] \notin {"off", "over"}
  BY DEF StageStep, LockStep, JobStep, Running
<1>3. work[j] \in WorkType
  BY <1>1, KeptValue
<1>4. work[j].outcome \notin {"proved", "unknown"}
  BY <1>1, <1>2 DEF DeedFits
<1>5. job[j].state \in {"queued", "running"} /\ Owner(j) \in Conn /\ conn[Owner(j)] # "new"
  BY <1>1, <1>2 DEF RecordFits
<1>6. ~HasKey(j) => conn[Owner(j)] = "gone"
  BY <1>1, <1>5 DEF KeyFits, HasKey, Typed
<1>7. jobLock = j => pc[j] \in {"poll", "strand"}
  BY <1>1, <1>4 DEF JobLockIsAccountedFor, Job, Nobody
<1> QED BY <1>1, <1>2, <1>3, <1>4, <1>5, <1>6, <1>7 DEF RecordFits, DeedFits

(* A fault, or a client that was closed, excuses what a job leaves open.   *)
LEMMA FaultExcuses ==
  ASSUME WebInv, NEW j \in Job, pc[j] \in StageStep,
         UNCHANGED connVars, NEW s, job' = job \/ job' = [job EXCEPT ![j].state = s],
         Fault \/ (~HasKey(j) /\ NoFault)
  PROVE  Excused(j)'
<1>1. job[j] \in JobType /\ job \in [Job -> JobType] /\ faults \in Nat
  BY KeptValue DEF WebInv, Typed
<1>2. job'[j].owner = job[j].owner
  <2>1. CASE job' = job
    BY <2>1
  <2>2. CASE job' = [job EXCEPT ![j].state = s]
    <3>1. job'[j] = [job[j] EXCEPT !.state = s]
      BY <1>1, <2>2
    <3> QED BY <1>1, <3>1 DEF JobType
  <2> QED BY <2>1, <2>2
<1>3. CASE Fault
  BY <1>1, <1>3 DEF Fault, Excused
<1>4. CASE ~HasKey(j)
  BY <1>2, <1>4, StageFacts DEF Excused, Owner, connVars
<1> QED BY <1>3, <1>4

LEMMA InvalidateTypes ==
  ASSUME WebInv, NEW j \in Job, pc[j] \in StageStep,
         \/ \E fields : Invalidate(j, fields)
         \/ UNCHANGED cacheVars
  PROVE  cache' \in [Conn -> CacheType] /\ proof' \in [Conn -> PairType]
<1>1. CASE UNCHANGED cacheVars
  BY <1>1, CachesKept
<1>2. CASE \E fields : Invalidate(j, fields)
  <2>1. PICK fields : Invalidate(j, fields)
    BY <1>2
  <2>2. /\ Owner(j) \in Conn /\ cache \in [Conn -> CacheType]
        /\ proof \in [Conn -> PairType] /\ NoSummary \in PairType
    BY StageFacts, EmptyValues DEF Typed
  <2> DEFINE c == [f \in DOMAIN Empty |->
                     IF f \in fields THEN None ELSE cache[Owner(j)][f]]
  <2>3. c \in CacheType
    <3>1. DOMAIN Empty = {"running", "candidate"}
      BY DEF Empty
    <3>2. cache[Owner(j)].running \in Version /\ cache[Owner(j)].candidate \in Version
          /\ None \in Version
      BY <2>2 DEF CacheType, Version
    <3>3. c["running"] \in Version /\ c["candidate"] \in Version
      BY <3>1, <3>2
    <3>4. c = [running |-> c["running"], candidate |-> c["candidate"]]
      BY <3>1
    <3> HIDE DEF c
    <3> QED BY <3>3, <3>4 DEF CacheType
  <2>4. cache' = [cache EXCEPT ![Owner(j)] = c] /\ proof' = [proof EXCEPT ![Owner(j)] = NoSummary]
    BY <2>1 DEF Invalidate
  <2> HIDE DEF c
  <2> QED BY <2>2, <2>3, <2>4
<1> QED BY <1>1, <1>2

LEMMA StageGoesOn ==
  ASSUME WebInv, NEW j \in Job, pc[j] \in StageStep, NEW l \in StageStep \ {"lock"},
         NEW w \in WorkType, Does(j, w), Goto(j, l), Report(j) \/ UNCHANGED job,
         UNCHANGED <<connVars, lease, edits, ages>>,
         cache' \in [Conn -> CacheType], proof' \in [Conn -> PairType],
         cfgLock' \in {cfgLock, Nobody, j}, Fault \/ NoFault,
         \/ jobLock' \in {jobLock, Nobody} /\ jobLock' # j
         \/ jobLock' = j /\ l \in {"poll", "strand"},
         l \in LockStep => Kind(j) \in {"candidate", "commit"},
         l \in JobStep => Kind(j) \in {"commit", "push"},
         l = "finish" => Kind(j) = "push",
         w.outcome \notin {"proved", "unknown"},
         cfgLock' = j => Kind(j) \in {"candidate", "commit"},
         l = "strand" => Excused(j)'
  PROVE  WebInv'
<1>1. PICK s \in {"queued", "running"} : job' = [job EXCEPT ![j].state = s]
  BY StageFacts, KeptValue DEF Report
<1>2. Thread(j, l, s, w)
  BY <1>1 DEF Thread, Goto
<1>3. l # "over"
  BY DEF StageStep, LockStep, JobStep
<1> QED BY <1>1, <1>2, <1>3, FaultCount, StageKeeps DEF JobState, StageStep

LEMMA StageEnds ==
  ASSUME WebInv, NEW j \in Job, pc[j] \in StageStep, NEW how, End(j, how),
         NEW w \in WorkType, Does(j, w),
         UNCHANGED <<connVars, lease, edits, ages>>,
         cache' \in [Conn -> CacheType], proof' \in [Conn -> PairType],
         cfgLock' \in {cfgLock, Nobody}, Fault \/ NoFault, jobLock' = jobLock,
         w.outcome # "proved", jobLock = j => w.outcome = "unknown",
         w.outcome = "unknown" \/ cfgLock' = j => Excused(j)'
  PROVE  WebInv'
<1>1. PICK s \in {"success", "failed"} : job' = [job EXCEPT ![j].state = s]
  BY DEF End
<1>2. Thread(j, "over", s, w)
  BY <1>1 DEF Thread, End, Goto
<1>3. "over" \notin LockStep \cup JobStep
  BY DEF LockStep, JobStep
<1>4. cfgLock' = j => Kind(j) \in {"candidate", "commit"}
  BY StageFacts DEF Job, Nobody
<1>5. \/ jobLock' \in {jobLock, Nobody} /\ jobLock' # j
      \/ jobLock' = j /\ w.outcome = "unknown"
  OBVIOUS
<1> QED BY <1>1, <1>2, <1>3, <1>4, <1>5, FaultCount, StageKeeps DEF JobState, StageStep

(* What a stage makes of Panorama.                                         *)
LEMMA StageDoes ==
  ASSUME WebInv, NEW j \in Job, pc[j] \in StageStep, NEW w
  PROVE  /\ HostBecomes(Edited, [work EXCEPT ![j] = w]) => Does(j, w)
         /\ HostBecomes(Committed, [work EXCEPT ![j] = w]) => Does(j, w)
         /\ UNCHANGED host /\ work' = [work EXCEPT ![j] = w] => Does(j, w)
<1>1. Kind(j) # "analysis"
  BY StageFacts DEF StageStep
<1> QED BY <1>1 DEF HostBecomes, Does

LEMMA StageIdles ==
  ASSUME WebInv, NEW j \in Job, pc[j] \in StageStep
  PROVE  /\ UNCHANGED <<host, work>> => Does(j, work[j])
         /\ HostBecomes(Committed, work) => Does(j, work[j])
         /\ work[j] \in WorkType
<1>1. work = [work EXCEPT ![j] = work[j]] /\ work[j] \in WorkType
  BY KeptValue DEF WebInv
<1>2. UNCHANGED <<host, work>> => Does(j, work[j])
  BY <1>1, StageDoes
<1>3. HostBecomes(Committed, work) => Does(j, work[j])
  BY <1>1, StageDoes
<1> QED BY <1>1, <1>2, <1>3

LEMMA StageDrops ==
  ASSUME WebInv, NEW j \in Job, pc[j] \in StageStep,
         NEW o \in {"refused", "done", "undone", "unknown"}
  PROVE  /\ [NoWork EXCEPT !.outcome = o] \in WorkType
         /\ [NoWork EXCEPT !.outcome = o].outcome = o
         /\ UNCHANGED host /\ Drop(j, o) => Does(j, [NoWork EXCEPT !.outcome = o])
  BY DropValue, StageDoes DEF Drop

LEMMA TakeConfigLockKeeps ==
  ASSUME WebInv, NEW j \in Job, TakeConfigLock(j)
  PROVE  WebInv'
<1>1. /\ pc[j] = "lock" /\ pc[j] \in LockStep /\ pc[j] \in StageStep
      /\ UNCHANGED <<connVars, lease, edits, ages>> /\ jobLock' = jobLock /\ host' = host
      /\ cache' \in [Conn -> CacheType] /\ proof' \in [Conn -> PairType]
      /\ (Fault \/ NoFault)
  BY CachesKept DEF TakeConfigLock, At, quiet, LockStep, StageStep
<1>2. /\ Kind(j) \in {"candidate", "commit"} /\ cfgLock # j /\ jobLock # j
      /\ work[j].outcome \notin {"proved", "unknown"}
  BY <1>1, StageFacts
<1>3. CASE /\ cfgLock' = j /\ UNCHANGED work /\ Report(j)
           /\ Goto(j, IF Kind(j) = "commit" THEN "dispatch" ELSE "write")
  <2> DEFINE l == IF Kind(j) = "commit" THEN "dispatch" ELSE "write"
  <2>1. /\ l \in StageStep \ {"lock", "finish", "strand"}
        /\ l \in JobStep => Kind(j) \in {"commit", "push"}
    BY DEF StageStep, LockStep, JobStep
  <2>2. Does(j, work[j]) /\ work[j] \in WorkType
    BY <1>1, <1>3, StageIdles
  <2> HIDE DEF l
  <2>3. Goto(j, l)
    BY <1>3 DEF l
  <2> QED BY <1>1, <1>2, <1>3, <2>1, <2>2, <2>3, StageGoesOn
<1>4. CASE Drop(j, "refused") /\ End(j, "error") /\ UNCHANGED cfgLock
  BY <1>1, <1>2, <1>4, StageDrops, StageEnds
<1> QED BY <1>3, <1>4 DEF TakeConfigLock

(* One write more, or one less.                                            *)
LEMMA WrittenValue ==
  ASSUME WebInv, NEW j \in Job, NEW n \in 0..Writes
  PROVE  /\ [work[j] EXCEPT !.written = n] \in WorkType
         /\ [work[j] EXCEPT !.written = n].outcome = work[j].outcome
<1>1. work[j] \in WorkType
  BY KeptValue DEF WebInv
<1> QED BY <1>1 DEF WorkType

LEMMA WrittenCount ==
  ASSUME WebInv, NEW j \in Job
  PROVE  work[j].written \in 0..Writes /\ Writes \in Nat
<1>1. work[j] \in WorkType
  BY KeptValue DEF WebInv
<1> QED BY <1>1, WebBackendConstants DEF WorkType

LEMMA WritesKeep ==
  ASSUME WebInv, NEW j \in Job, pc[j] \in {"write", "undo"}, NEW n \in 0..Writes,
         HostBecomes(Edited, [work EXCEPT ![j].written = n]),
         UNCHANGED <<cfgLock, connVars, lease, jobLock, edits, ages, job, pc>>,
         \E fields : Invalidate(j, fields), NoFault
  PROVE  WebInv'
<1>1. pc[j] \in LockStep /\ pc[j] \in StageStep /\ pc[j] \notin {"lock", "finish", "strand"}
  BY DEF LockStep, StageStep
<1>2. cache' \in [Conn -> CacheType] /\ proof' \in [Conn -> PairType]
  BY <1>1, InvalidateTypes
<1>3. /\ Kind(j) \in {"candidate", "commit"} /\ jobLock # j
      /\ work[j].outcome \notin {"proved", "unknown"}
  BY <1>1, StageFacts DEF JobStep
<1> DEFINE w == [work[j] EXCEPT !.written = n]
<1>4. w \in WorkType /\ w.outcome = work[j].outcome
  BY WrittenValue
<1>5. Does(j, w)
  BY <1>1, StageDoes
<1>6. Goto(j, pc[j])
  BY <1>1 DEF Goto, WebInv, Typed
<1>7. pc[j] \notin JobStep
  BY DEF JobStep
<1> HIDE DEF w
<1> QED BY <1>1, <1>2, <1>3, <1>4, <1>5, <1>6, <1>7, StageGoesOn

LEMMA WriteCandidateKeeps ==
  ASSUME WebInv, NEW j \in Job, WriteCandidate(j)
  PROVE  WebInv'
<1>1. /\ pc[j] = "write" /\ pc[j] \in LockStep /\ pc[j] \in StageStep
      /\ work[j].written < Writes
      /\ UNCHANGED <<cfgLock, connVars, lease, jobLock, edits, ages>>
  BY DEF WriteCandidate, At, LockStep, StageStep
<1>2. /\ Kind(j) \in {"candidate", "commit"} /\ jobLock # j
      /\ work[j].outcome \notin {"proved", "unknown"}
  BY <1>1, StageFacts
<1>3. CASE /\ HostBecomes(Edited, [work EXCEPT ![j].written = @ + 1])
           /\ Invalidate(j, {"candidate"}) /\ NoFault /\ UNCHANGED <<job, pc>>
  <2> DEFINE n == work[j].written + 1
  <2>1. n \in 0..Writes
    <3>1. work[j].written \in 0..Writes /\ Writes \in Nat
      BY WrittenCount
    <3> QED BY <1>1, <3>1
  <2>2. HostBecomes(Edited, [work EXCEPT ![j].written = n])
    BY <1>3
  <2> HIDE DEF n
  <2> QED BY <1>1, <1>3, <2>1, <2>2, WritesKeep
<1>4. CASE /\ Fault /\ Invalidate(j, {"candidate"}) /\ End(j, "error")
           /\ \/ HostBecomes(Edited, [work EXCEPT ![j] = [NoWork EXCEPT !.outcome = "unknown"]])
              \/ Drop(j, "unknown") /\ UNCHANGED host
  <2> DEFINE w == [NoWork EXCEPT !.outcome = "unknown"]
  <2>1. w \in WorkType /\ w.outcome = "unknown" /\ Does(j, w)
    BY <1>1, <1>4, StageDoes, StageDrops
  <2> HIDE DEF w
  <2>2. cache' \in [Conn -> CacheType] /\ proof' \in [Conn -> PairType]
    BY <1>1, <1>4, InvalidateTypes
  <2>3. Excused(j)'
    BY <1>1, <1>4, FaultExcuses DEF End
  <2> QED BY <1>1, <1>4, <2>1, <2>2, <2>3, StageEnds
<1>5. CASE /\ (Fault \/ NoFault)
           /\ \/ Invalidate(j, {"candidate"})
              \/ UNCHANGED cacheVars
           /\ Goto(j, "undo") /\ UNCHANGED <<host, job, work>>
  <2>1. cache' \in [Conn -> CacheType] /\ proof' \in [Conn -> PairType]
    BY <1>1, <1>5, InvalidateTypes
  <2>2. Does(j, work[j]) /\ work[j] \in WorkType
    BY <1>1, <1>5, StageIdles
  <2>3. "undo" \in StageStep \ {"lock", "finish", "strand"} /\ "undo" \notin JobStep
    BY DEF StageStep, LockStep, JobStep
  <2> QED BY <1>1, <1>2, <1>5, <2>1, <2>2, <2>3, StageGoesOn
<1> QED BY <1>3, <1>4, <1>5 DEF WriteCandidate

LEMMA CheckCandidateKeeps ==
  ASSUME WebInv, NEW j \in Job, CheckCandidate(j)
  PROVE  WebInv'
<1>1. /\ pc[j] = "write" /\ pc[j] \in LockStep /\ pc[j] \in StageStep
      /\ UNCHANGED <<connVars, lease, edits, ages, cfgLock, jobLock, host, job>>
      /\ cache' \in [Conn -> CacheType] /\ proof' \in [Conn -> PairType]
      /\ (Fault \/ NoFault)
  BY CachesKept DEF CheckCandidate, At, quiet, hostVars, LockStep, StageStep
<1>2. /\ Kind(j) \in {"candidate", "commit"} /\ jobLock # j
      /\ work[j].outcome \notin {"proved", "unknown"}
  BY <1>1, StageFacts
<1>3. /\ {"unlock", "undo"} \subseteq StageStep \ {"lock", "finish", "strand"}
      /\ {"unlock", "undo"} \cap JobStep = {}
  BY DEF StageStep, LockStep, JobStep
<1>4. CASE Drop(j, "done") /\ Goto(j, "unlock")
  BY <1>1, <1>2, <1>3, <1>4, StageDrops, StageGoesOn
<1>5. CASE Goto(j, "undo") /\ UNCHANGED work
  BY <1>1, <1>2, <1>3, <1>5, StageIdles, StageGoesOn
<1> QED BY <1>4, <1>5 DEF CheckCandidate

LEMMA TakeBackKeeps ==
  ASSUME WebInv, NEW j \in Job, TakeBack(j)
  PROVE  WebInv'
<1>1. /\ pc[j] = "undo" /\ pc[j] \in LockStep /\ pc[j] \in StageStep
      /\ UNCHANGED <<cfgLock, connVars, lease, jobLock, edits, ages>>
  BY DEF TakeBack, At, LockStep, StageStep
<1>2. /\ Kind(j) \in {"candidate", "commit"} /\ jobLock # j
      /\ work[j].outcome \notin {"proved", "unknown"}
  BY <1>1, StageFacts
<1>3. CASE /\ LeftToUndo(j)
           /\ HostBecomes(Edited, [work EXCEPT ![j].written = @ - 1])
           /\ Invalidate(j, {"candidate"}) /\ NoFault /\ UNCHANGED <<job, pc>>
  <2> DEFINE n == work[j].written - 1
  <2>1. n \in 0..Writes
    <3>1. work[j].written \in 0..Writes /\ Writes \in Nat
      BY WrittenCount
    <3> QED BY <1>3, <3>1 DEF LeftToUndo
  <2>2. HostBecomes(Edited, [work EXCEPT ![j].written = n])
    BY <1>3
  <2> HIDE DEF n
  <2> QED BY <1>1, <1>3, <2>1, <2>2, WritesKeep
<1>4. CASE /\ Drop(j, "undone") /\ Goto(j, "unlock") /\ NoFault
           /\ UNCHANGED <<host, cacheVars, job>>
  <2>1. "unlock" \in StageStep \ {"lock", "finish", "strand"} /\ "unlock" \notin JobStep
    BY DEF StageStep, LockStep, JobStep
  <2> QED BY <1>1, <1>2, <1>4, <2>1, CachesKept, StageDrops, StageGoesOn
<1>5. CASE /\ IF MayRecover(j) THEN Fault ELSE NoFault
           /\ Invalidate(j, {"candidate"}) /\ Drop(j, "unknown")
           /\ End(j, "error") /\ UNCHANGED host
  <2>1. cache' \in [Conn -> CacheType] /\ proof' \in [Conn -> PairType]
    BY <1>1, <1>5, InvalidateTypes
  <2>2. Excused(j)'
    BY <1>1, <1>5, FaultExcuses DEF End, MayRecover
  <2>3. Fault \/ NoFault
    BY <1>5
  <2> QED BY <1>1, <1>5, <2>1, <2>2, <2>3, StageDrops, StageEnds
<1> QED BY <1>3, <1>4, <1>5 DEF TakeBack

LEMMA UnlockKeeps ==
  ASSUME WebInv, NEW j \in Job, Unlock(j)
  PROVE  WebInv'
<1>1. /\ pc[j] = "unlock" /\ pc[j] \in LockStep /\ pc[j] \in StageStep
      /\ UNCHANGED <<connVars, lease, edits, ages, host, work, jobLock>>
      /\ cache' \in [Conn -> CacheType] /\ proof' \in [Conn -> PairType]
      /\ (Fault \/ NoFault)
      /\ End(j, IF work[j].outcome = "done" THEN "ok" ELSE "error")
      /\ cfgLock' \in {cfgLock, Nobody}
  BY CachesKept DEF Unlock, At, quiet, LockStep, StageStep
<1>2. jobLock # j /\ work[j].outcome \notin {"proved", "unknown"}
  BY <1>1, StageFacts
<1>3. cfgLock' = j => Excused(j)'
  <2>1. j # Nobody
    BY DEF Job, Nobody
  <2>2. cfgLock' = j => Fault \/ (~HasKey(j) /\ NoFault)
    BY <2>1 DEF Unlock, MayRecover
  <2> QED BY <1>1, <2>2, FaultExcuses DEF End
<1> QED BY <1>1, <1>2, <1>3, StageIdles, StageEnds

(* Where a commit or push goes when its job is over.                       *)
LEMMA AfterJobStep ==
  ASSUME WebInv, NEW j \in Job, pc[j] \in {"dispatch", "poll"}
  PROVE  /\ AfterJob(j) \in StageStep \ {"lock", "strand"}
         /\ AfterJob(j) \in LockStep => Kind(j) \in {"candidate", "commit"}
         /\ AfterJob(j) \notin JobStep
         /\ AfterJob(j) = "finish" => Kind(j) = "push"
<1>1. pc[j] \in JobStep /\ pc[j] \in StageStep
  BY DEF JobStep, StageStep
<1>2. Kind(j) \in {"commit", "push"}
  BY <1>1, StageFacts
<1> QED BY <1>2 DEF AfterJob, StageStep, LockStep, JobStep

LEMMA DispatchKeeps ==
  ASSUME WebInv, NEW j \in Job, Dispatch(j)
  PROVE  WebInv'
<1>1. /\ pc[j] = "dispatch" /\ pc[j] \in JobStep /\ pc[j] \in StageStep /\ Report(j)
      /\ UNCHANGED <<cfgLock, connVars, lease, edits, ages>>
  BY DEF Dispatch, At, JobStep, StageStep
<1>2. cache' \in [Conn -> CacheType] /\ proof' \in [Conn -> PairType]
  BY <1>1, InvalidateTypes DEF Dispatch
<1>3. /\ Kind(j) \in {"commit", "push"} /\ jobLock # j
      /\ work[j].outcome \notin {"proved", "unknown"}
      /\ cfgLock' = j => Kind(j) \in {"candidate", "commit"}
  BY <1>1, StageFacts
<1>4. {"poll", "strand"} \subseteq StageStep \ {"lock", "finish"}
      /\ {"poll", "strand"} \cap LockStep = {}
  BY DEF StageStep, LockStep, JobStep
<1>5. CASE jobLock' = j /\ Goto(j, "poll") /\ NoFault /\ UNCHANGED <<host, work>>
  BY <1>1, <1>2, <1>3, <1>4, <1>5, StageIdles, StageGoesOn
<1>6. CASE /\ Fault /\ jobLock' = j /\ Goto(j, "strand")
           /\ HostBecomes(Committed, work) \/ UNCHANGED <<host, work>>
  <2>1. Excused(j)'
    BY <1>1, <1>6, FaultExcuses DEF Report
  <2> QED BY <1>1, <1>2, <1>3, <1>4, <1>6, <2>1, StageIdles, StageGoesOn
<1>7. CASE /\ (Fault \/ NoFault) /\ jobLock' = jobLock
           /\ Drop(j, "refused") /\ Goto(j, AfterJob(j)) /\ UNCHANGED host
  BY <1>1, <1>2, <1>3, <1>7, AfterJobStep, StageDrops, StageGoesOn
<1> QED BY <1>5, <1>6, <1>7 DEF Dispatch, LockGivenBack

LEMMA PollKeeps ==
  ASSUME WebInv, NEW j \in Job, Poll(j)
  PROVE  WebInv'
<1>1. /\ pc[j] = "poll" /\ pc[j] \in JobStep /\ pc[j] \in StageStep
      /\ UNCHANGED <<cfgLock, connVars, lease, edits, ages, job>>
      /\ cache' \in [Conn -> CacheType] /\ proof' \in [Conn -> PairType]
  BY CachesKept DEF Poll, At, quiet, JobStep, StageStep
<1>2. /\ Kind(j) \in {"commit", "push"} /\ j # Nobody
      /\ work[j].outcome \notin {"proved", "unknown"}
      /\ cfgLock' = j => Kind(j) \in {"candidate", "commit"}
  BY <1>1, StageFacts DEF Job, Nobody
<1>3. CASE /\ jobLock' = Nobody /\ Goto(j, AfterJob(j)) /\ (Fault \/ NoFault)
           /\ \/ HostBecomes(Committed, [work EXCEPT ![j] = [NoWork EXCEPT !.outcome = "done"]])
              \/ \E o \in {"done", "refused"} : Drop(j, o) /\ UNCHANGED host
  <2>1. \E o \in {"done", "refused"} : Does(j, [NoWork EXCEPT !.outcome = o])
    BY <1>1, <1>3, StageDoes, StageDrops
  <2>2. PICK o \in {"done", "refused"} : Does(j, [NoWork EXCEPT !.outcome = o])
    BY <2>1
  <2> DEFINE w == [NoWork EXCEPT !.outcome = o]
  <2>3. w \in WorkType /\ w.outcome = o /\ Does(j, w)
    BY <2>2, DropValue
  <2> HIDE DEF w
  <2> QED BY <1>1, <1>2, <1>3, <2>3, AfterJobStep, StageGoesOn
<1>4. CASE /\ IF HasKey(j) THEN Fault ELSE NoFault
           /\ Goto(j, "strand") /\ UNCHANGED <<host, work, jobLock>>
  <2>1. Excused(j)'
    BY <1>1, <1>4, FaultExcuses
  <2>2. "strand" \in StageStep \ {"lock", "finish"} /\ "strand" \notin LockStep
    BY DEF StageStep, LockStep, JobStep
  <2>3. Fault \/ NoFault
    BY <1>4
  <2> QED BY <1>1, <1>2, <1>4, <2>1, <2>2, <2>3, StageIdles, StageGoesOn
<1> QED BY <1>3, <1>4 DEF Poll

LEMMA LastStepsKeep ==
  ASSUME WebInv, NEW j \in Job, Strand(j) \/ FinishPush(j)
  PROVE  WebInv'
<1>1. /\ pc[j] \in {"strand", "finish"} /\ pc[j] \in StageStep /\ NoFault
      /\ UNCHANGED <<connVars, lease, edits, ages, host, jobLock, cfgLock>>
      /\ cache' \in [Conn -> CacheType] /\ proof' \in [Conn -> PairType]
  BY CachesKept DEF Strand, FinishPush, At, quiet, hostVars, JobStep, StageStep
<1>2. CASE Strand(j)
  <2>1. pc[j] = "strand" /\ Drop(j, "unknown") /\ End(j, "error")
    BY <1>2 DEF Strand, At
  <2>2. Excused(j)'
    <3>1. Excused(j)
      BY <1>1, <2>1, StageFacts
    <3>2. job[j] \in JobType /\ job \in [Job -> JobType]
      BY KeptValue DEF WebInv, Typed
    <3>3. job'[j].owner = job[j].owner
      <4>1. job'[j] = [job[j] EXCEPT !.state = "failed"]
        BY <2>1, <3>2 DEF End
      <4> QED BY <3>2, <4>1 DEF JobType
    <3> QED BY <1>1, <3>1, <3>3 DEF Excused, Owner, NoFault, connVars
  <2> QED BY <1>1, <2>1, <2>2, StageDrops, StageEnds
<1>3. CASE FinishPush(j)
  <2>1. /\ pc[j] = "finish" /\ UNCHANGED work
        /\ End(j, IF work[j].outcome = "done" THEN "ok" ELSE "error")
    BY <1>3 DEF FinishPush, At
  <2>2. cfgLock # j /\ jobLock # j /\ work[j].outcome \notin {"proved", "unknown"}
    BY <1>1, <2>1, StageFacts
  <2> QED BY <1>1, <2>1, <2>2, StageIdles, StageEnds
<1> QED BY <1>2, <1>3

LEMMA ExecuteKeeps ==
  ASSUME WebInv, NEW j \in Job, Execute(j)
  PROVE  WebInv'
  BY TakeConfigLockKeeps, WriteCandidateKeeps, CheckCandidateKeeps, TakeBackKeeps,
     UnlockKeeps, DispatchKeeps, PollKeeps, LastStepsKeep DEF Execute

(***************************************************************************)
(* What is not a job's doing.                                              *)
(***************************************************************************)
LEMMA WorldKeeps ==
  ASSUME WebInv, Typed', HostOrder', KeyFits', WorldMoves,
         \A i \in Job : Untouched(i), UNCHANGED <<cfgLock, jobLock>>
  PROVE  WebInv'
<1>1. ASSUME NEW i \in Job PROVE JobFits(i)'
  BY OtherFits DEF WebInv
<1>2. \A i \in Job : /\ pc'[i] = pc[i] /\ job'[i] = job[i]
                     /\ work'[i].outcome = work[i].outcome
  <2>1. ASSUME NEW i \in Job PROVE work'[i].outcome = work[i].outcome
    <3>1. work[i] \in WorkType /\ Untouched(i)
      BY KeptValue DEF WebInv
    <3> QED BY <3>1 DEF Untouched, WorkType
  <2> QED BY <2>1 DEF Untouched
<1>3. JobLockIsAccountedFor'
  <2>1. jobLock # Nobody => jobLock \in Job
    BY DEF WebInv, Typed
  <2> QED BY <1>2, <2>1 DEF WebInv, JobLockIsAccountedFor
<1>4. OneStagePerSession'
  BY <1>2 DEF WebInv, OneStagePerSession, Running, Kind
<1> QED BY <1>1, <1>3, <1>4 DEF WebInv

(* An edit or a commit by somebody else.                                   *)
LEMMA ForeignKeeps ==
  ASSUME WebInv, ForeignEdit \/ ForeignCommit
  PROVE  WebInv'
<1>1. /\ Typed /\ HostOrder /\ KeyFits
      /\ UNCHANGED <<cfgLock, conn, key, cache, proof, job, pc, lease, jobLock, faults>>
      /\ host' \in {Edited, Committed} /\ HostBecomes(host', work)
  BY DEF WebInv, ForeignEdit, ForeignCommit, HostBecomes, connVars, cacheVars
<1>2. /\ host' \in [running : Nat, candidate : Nat, newest : Nat] /\ HostOrder'
      /\ host.running <= host'.running /\ host.candidate <= host'.candidate
  BY <1>1, HostMoves
<1>3. /\ work' \in [Job -> WorkType]
      /\ \A i \in Job : work'[i] = IF Reads(i)
                                   THEN [work[i] EXCEPT !.since = @ \cup {Pair'}]
                                   ELSE work[i]
  BY <1>1, HostSeen DEF Typed
<1>4. Typed'
  BY <1>1, <1>2, <1>3 DEF Typed
<1>5. \A i \in Job : Untouched(i)
  BY <1>1, <1>3 DEF Untouched
<1>6. WorldMoves
  BY <1>1, <1>2 DEF WorldMoves, Typed
<1>7. KeyFits'
  BY <1>1 DEF KeyFits
<1> QED BY <1>1, <1>2, <1>4, <1>5, <1>6, <1>7, WorldKeeps

(* A connection that is made, grows old or is closed.                      *)
LEMMA ConnectionKeeps ==
  ASSUME WebInv, NEW t \in Conn,
         Connect(t) \/ ConnectionAges(t) \/ ExpireOnUse(t) \/ Disconnect(t)
  PROVE  WebInv'
<1>1. /\ Typed /\ HostOrder /\ KeyFits
      /\ UNCHANGED <<host, cfgLock, job, pc, work, lease, jobLock, faults>>
  BY DEF WebInv, Connect, ConnectionAges, ExpireOnUse, Disconnect, hostVars, bounds
<1>2. cache' \in [Conn -> CacheType] /\ proof' \in [Conn -> PairType]
  <2>1. cache \in [Conn -> CacheType] /\ proof \in [Conn -> PairType]
    BY <1>1 DEF Typed
  <2>2. CASE Connect(t) \/ ConnectionAges(t)
    BY <2>1, <2>2 DEF Connect, ConnectionAges, cacheVars
  <2>3. CASE ExpireOnUse(t) \/ Disconnect(t)
    BY <2>1, <2>3, EmptyValues DEF ExpireOnUse, Disconnect, Close
  <2> QED BY <2>2, <2>3
<1>3. /\ conn' \in [Conn -> {"new", "open", "old", "gone"}]
      /\ key' \in [Conn -> BOOLEAN] /\ KeyFits'
      /\ \A u \in Conn : /\ conn[u] # "new" => conn'[u] # "new"
                         /\ conn[u] = "gone" => conn'[u] = "gone"
  <2>1. /\ conn \in [Conn -> {"new", "open", "old", "gone"}]
        /\ key \in [Conn -> BOOLEAN]
    BY <1>1 DEF Typed
  <2>2. CASE Connect(t)
    BY <1>1, <2>1, <2>2 DEF Connect, KeyFits
  <2>3. CASE ConnectionAges(t)
    BY <1>1, <2>1, <2>3 DEF ConnectionAges, KeyFits
  <2>4. CASE ExpireOnUse(t) \/ Disconnect(t)
    BY <1>1, <2>1, <2>4 DEF ExpireOnUse, Disconnect, Close, KeyFits
  <2> QED BY <2>2, <2>3, <2>4
<1>4. Typed'
  BY <1>1, <1>2, <1>3 DEF Typed
<1>5. \A i \in Job : Untouched(i)
  BY <1>1 DEF Untouched
<1>6. WorldMoves
  BY <1>1, <1>3 DEF WorldMoves, Typed
<1>7. HostOrder'
  BY <1>1 DEF HostOrder
<1> QED BY <1>1, <1>3, <1>4, <1>5, <1>6, <1>7, WorldKeeps

LEMMA LeaseKeeps ==
  ASSUME WebInv, NEW j \in Job, LeaseExpires(j)
  PROVE  WebInv'
<1>1. /\ Typed /\ HostOrder /\ KeyFits
      /\ UNCHANGED <<host, cfgLock, conn, key, cache, proof, job, pc, work, jobLock,
                     faults>>
      /\ lease' = [lease EXCEPT ![j] = FALSE]
  BY DEF WebInv, LeaseExpires, hostVars, connVars, cacheVars
<1>2. Typed'
  BY <1>1 DEF Typed
<1>3. \A i \in Job : Untouched(i)
  BY <1>1 DEF Untouched
<1>4. WorldMoves /\ KeyFits' /\ HostOrder'
  BY <1>1 DEF WorldMoves, Typed, KeyFits, HostOrder
<1> QED BY <1>1, <1>2, <1>3, <1>4, WorldKeeps

LEMMA StutterKeeps ==
  ASSUME WebInv, UNCHANGED vars
  PROVE  WebInv'
<1>1. /\ UNCHANGED <<host, cfgLock, conn, key, cache, proof, job, pc, work, lease,
                     jobLock, faults>>
      /\ Typed /\ HostOrder /\ KeyFits
  BY DEF WebInv, vars, hostVars, connVars, cacheVars, bounds
<1>2. Typed'
  BY <1>1 DEF Typed
<1>3. \A i \in Job : Untouched(i)
  BY <1>1 DEF Untouched
<1>4. WorldMoves /\ KeyFits' /\ HostOrder'
  BY <1>1 DEF WorldMoves, Typed, KeyFits, HostOrder
<1> QED BY <1>1, <1>2, <1>3, <1>4, WorldKeeps

(***************************************************************************)
(* A job that is started: none of its session is under way.                *)
(***************************************************************************)
LEMMA StartTypes ==
  ASSUME WebInv, NEW j \in Job, NEW t \in Conn, NEW k \in Kinds, NEW s \in Session,
         Start(j, t, k, s)
  PROVE  /\ Typed' /\ pc'[j] = FirstStep[k]
         /\ FirstStep[k] \in {"summary", "readRunning", "lock", "dispatch"}
         /\ k = "analysis" => FirstStep[k] = "summary"
         /\ k = "diff" => FirstStep[k] = "readRunning"
         /\ k \in {"candidate", "commit"} => FirstStep[k] = "lock"
         /\ k = "push" => FirstStep[k] = "dispatch"
         /\ k \in {"analysis", "diff", "candidate", "commit", "push"}
         /\ job'[j] = [kind |-> k, owner |-> t,
                       sess |-> IF k \in Stages THEN s ELSE "", state |-> "queued"]
         /\ work'[j] = [NoWork EXCEPT !.since = IF k = "analysis" THEN {Pair} ELSE {}]
         /\ \A i \in Job \ {j} : Untouched(i)
<1>1. /\ Typed /\ pc[j] = "off" /\ work[j] = NoWork
      /\ UNCHANGED <<host, cfgLock, conn, key, cache, proof, jobLock, faults>>
  BY DEF WebInv, JobFits, RecordFits, Start, hostVars, connVars, cacheVars, bounds
<1>2. k \in {"analysis", "diff", "candidate", "commit", "push"}
  BY WebBackendConstants DEF Stages
<1>3. /\ FirstStep[k] \in {"summary", "readRunning", "lock", "dispatch"}
      /\ k = "analysis" => FirstStep[k] = "summary"
      /\ k = "diff" => FirstStep[k] = "readRunning"
      /\ k \in {"candidate", "commit"} => FirstStep[k] = "lock"
      /\ k = "push" => FirstStep[k] = "dispatch"
  BY <1>2 DEF FirstStep
<1> DEFINE r == [kind |-> k, owner |-> t, sess |-> IF k \in Stages THEN s ELSE "",
                 state |-> "queued"]
           S == IF k = "analysis" THEN {Pair} ELSE {}
           w == [NoWork EXCEPT !.since = S]
<1>4. r \in JobType
  BY DEF JobType
<1>5. w \in WorkType
  <2>1. Pair \in PairType
    BY <1>1 DEF Pair, PairType, Version, Typed
  <2>2. S \in SUBSET PairType /\ NoWork \in WorkType
    BY <2>1, EmptyValues
  <2> HIDE DEF S
  <2> QED BY <2>2 DEF WorkType
<1>6. FirstStep[k] \in StepName
  BY <1>3 DEF StepName, ReadStep, LockStep, JobStep
<1>7. /\ job' = [job EXCEPT ![j] = r] /\ pc' = [pc EXCEPT ![j] = FirstStep[k]]
      /\ work' = [work EXCEPT ![j] = w]
      /\ lease' = [lease EXCEPT ![j] = k \in Stages]
  <2>1. work' = [work EXCEPT ![j].since = S]
    BY DEF Start
  <2>2. work' = [work EXCEPT ![j] = w]
    BY <1>1, <2>1 DEF Typed
  <2> QED BY <2>2 DEF Start
<1> HIDE DEF r, w, S
<1>8. /\ job' \in [Job -> JobType] /\ job'[j] = r
      /\ pc' \in [Job -> StepName] /\ pc'[j] = FirstStep[k]
      /\ work' \in [Job -> WorkType] /\ work'[j] = w
      /\ \A i \in Job \ {j} : job'[i] = job[i] /\ pc'[i] = pc[i] /\ work'[i] = work[i]
  BY <1>1, <1>4, <1>5, <1>6, <1>7 DEF Typed
<1>9. lease' \in [Job -> BOOLEAN]
  BY <1>1, <1>7 DEF Typed
<1>10. Typed'
  BY <1>1, <1>8, <1>9 DEF Typed
<1>11. \A i \in Job \ {j} : Untouched(i)
  BY <1>1, <1>8 DEF Untouched
<1> QED BY <1>2, <1>3, <1>8, <1>10, <1>11 DEF r, w, S

LEMMA StartKeeps ==
  ASSUME WebInv, NEW j \in Job, NEW t \in Conn, NEW k \in Kinds, NEW s \in Session,
         Start(j, t, k, s)
  PROVE  WebInv'
<1>1. /\ Typed /\ HostOrder /\ KeyFits /\ pc[j] = "off" /\ conn[t] = "open"
      /\ k \in Stages => ~ActiveOn(s)
      /\ UNCHANGED <<host, cfgLock, conn, key, cache, proof, jobLock, faults>>
  BY DEF WebInv, Start, hostVars, connVars, cacheVars, bounds
<1>2. /\ Typed' /\ pc'[j] = FirstStep[k]
      /\ FirstStep[k] \in {"summary", "readRunning", "lock", "dispatch"}
      /\ k = "analysis" => FirstStep[k] = "summary"
      /\ k = "diff" => FirstStep[k] = "readRunning"
      /\ k \in {"candidate", "commit"} => FirstStep[k] = "lock"
      /\ k = "push" => FirstStep[k] = "dispatch"
      /\ k \in {"analysis", "diff", "candidate", "commit", "push"}
      /\ job'[j] = [kind |-> k, owner |-> t,
                    sess |-> IF k \in Stages THEN s ELSE "", state |-> "queued"]
      /\ work'[j] = [NoWork EXCEPT !.since = IF k = "analysis" THEN {Pair} ELSE {}]
      /\ \A i \in Job \ {j} : Untouched(i)
  BY StartTypes
<1>3. /\ Kind(j)' = k /\ Owner(j)' = t /\ job'[j].state = "queued"
      /\ k \in Stages => job'[j].sess = s
  <2>1. /\ job'[j].kind = k /\ job'[j].owner = t /\ job'[j].state = "queued"
        /\ job'[j].sess = IF k \in Stages THEN s ELSE ""
    <3> DEFINE x == IF k \in Stages THEN s ELSE ""
    <3>1. job'[j] = [kind |-> k, owner |-> t, sess |-> x, state |-> "queued"]
      BY <1>2
    <3> HIDE DEF x
    <3>2. /\ job'[j].kind = k /\ job'[j].owner = t /\ job'[j].state = "queued"
          /\ job'[j].sess = x
      BY <3>1
    <3> QED BY <3>2 DEF x
  <2> QED BY <2>1 DEF Kind, Owner
<1>4. /\ work'[j].outcome = "" /\ work'[j].before = NoWork.before
      /\ k = "analysis" => Pair \in work'[j].since
  <2>1. NoWork \in WorkType /\ NoWork.outcome = ""
    BY EmptyValues
  <2> QED BY <1>2, <2>1 DEF WorkType
<1>5. cfgLock # j
  <2>1. RecordFits(j) /\ DeedFits(j)
    BY DEF WebInv, JobFits
  <2>2. Kind(j) = "none"
    <3>1. job[j] = NoJob
      BY <1>1, <2>1 DEF RecordFits
    <3> QED BY <3>1, EmptyValues DEF Kind
  <2> QED BY <2>1, <2>2 DEF DeedFits
<1>6. WorldMoves /\ KeyFits' /\ HostOrder'
  BY <1>1 DEF WorldMoves, Typed, KeyFits, HostOrder
<1>7. ASSUME NEW i \in Job \ {j} PROVE JobFits(i)'
  BY <1>1, <1>2, <1>6, OtherFits DEF WebInv
<1>8. JobFits(j)'
  <2>1. ReadFits(j)'
    <3>1. /\ host.running \in Nat /\ host.candidate \in Nat /\ host' = host /\ Pair' = Pair
      BY <1>1 DEF Typed, Pair
    <3>2. work'[j].before[1] <= host'.running /\ work'[j].before[2] <= host'.candidate
      <4>1. work'[j].before[1] = -1 /\ work'[j].before[2] = -1
        BY <1>4, EmptyValues
      <4> QED BY <3>1, <4>1
    <3> QED BY <1>2, <1>3, <1>4, <3>1, <3>2 DEF ReadFits
  <2>2. RecordFits(j)'
    BY <1>1, <1>2, <1>3 DEF RecordFits, ReadStep, LockStep, JobStep
  <2>3. DeedFits(j)'
    BY <1>1, <1>2, <1>4, <1>5 DEF DeedFits
  <2> QED BY <2>1, <2>2, <2>3 DEF JobFits
<1>9. JobLockIsAccountedFor'
  <2>1. jobLock # j
    <3>1. work[j].outcome # "unknown" /\ j # Nobody
      BY <1>1 DEF WebInv, JobFits, DeedFits, Job, Nobody
    <3> QED BY <1>1, <3>1 DEF WebInv, JobLockIsAccountedFor
  <2>2. CASE jobLock # Nobody
    <3>1. jobLock \in Job \ {j}
      BY <1>1, <2>1, <2>2 DEF Typed
    <3>2. work[jobLock] \in WorkType /\ Untouched(jobLock)
      BY <1>1, <1>2, <3>1 DEF Typed
    <3>3. pc'[jobLock] = pc[jobLock] /\ work'[jobLock].outcome = work[jobLock].outcome
      BY <3>2 DEF Untouched, WorkType
    <3> QED BY <1>1, <3>3 DEF WebInv, JobLockIsAccountedFor
  <2>3. CASE jobLock = Nobody
    BY <1>1, <2>3 DEF JobLockIsAccountedFor
  <2> QED BY <2>2, <2>3
<1>10. OneStagePerSession'
  <2>1. \A i \in Job \ {j} : /\ i \in Running' => i \in Running
                             /\ Kind(i)' = Kind(i) /\ job'[i].sess = job[i].sess
    BY <1>2 DEF Untouched, Running, Kind
  <2>2. ASSUME NEW i \in Job \ {j}, i \in Running, Kind(i) \in Stages, k \in Stages
        PROVE  job[i].sess # s
    <3>1. job[i].state \in {"queued", "running"}
      BY <2>2 DEF WebInv, JobFits, RecordFits
    <3> QED BY <1>1, <2>2, <3>1 DEF ActiveOn
  <2> SUFFICES ASSUME NEW a \in Running', NEW b \in Running', a # b,
                      Kind(a)' \in Stages, Kind(b)' \in Stages
               PROVE  job'[a].sess # job'[b].sess
    BY DEF OneStagePerSession
  <2>3. a \in Job /\ b \in Job
    BY DEF Running
  <2>4. CASE a = j
    BY <1>3, <2>1, <2>2, <2>3, <2>4
  <2>5. CASE b = j
    BY <1>3, <2>1, <2>2, <2>3, <2>5
  <2>6. CASE a # j /\ b # j
    BY <2>1, <2>3, <2>6 DEF WebInv, OneStagePerSession
  <2> QED BY <2>4, <2>5, <2>6
<1> QED BY <1>2, <1>6, <1>7, <1>8, <1>9, <1>10 DEF WebInv

(***************************************************************************)
(* All steps.                                                              *)
(***************************************************************************)
LEMMA NextKeeps ==
  ASSUME WebInv, [Next]_vars
  PROVE  WebInv'
<1>1. ASSUME NEW j \in Job, Work(j) PROVE WebInv'
  BY <1>1, ReadStepKeeps, ExecuteKeeps DEF Work
<1> QED BY <1>1, ForeignKeeps, ConnectionKeeps, StartKeeps, LeaseKeeps, StutterKeeps
        DEF Next

LEMMA InitKeeps == Init => WebInv
<1> SUFFICES ASSUME Init PROVE WebInv
  OBVIOUS
<1>1. Typed
  <2>1. host \in [running : Nat, candidate : Nat, newest : Nat]
    BY DEF Init
  <2>2. job \in [Job -> JobType] /\ work \in [Job -> WorkType]
        /\ cache \in [Conn -> CacheType] /\ proof \in [Conn -> PairType]
    BY EmptyValues DEF Init
  <2>3. pc \in [Job -> StepName]
    BY DEF Init, StepName
  <2> QED BY <2>1, <2>2, <2>3 DEF Init, Typed
<1>2. HostOrder /\ KeyFits
  BY DEF Init, HostOrder, KeyFits
<1>3. ASSUME NEW i \in Job PROVE JobFits(i)
  <2>1. pc[i] = "off" /\ job[i] = NoJob /\ work[i] = NoWork
    BY DEF Init
  <2>2. cfgLock # i
    BY DEF Init, Job, Nobody
  <2>3. NoWork.outcome = ""
    BY EmptyValues
  <2>4. "off" \notin ReadStep \cup LockStep \cup JobStep
    BY DEF ReadStep, LockStep, JobStep
  <2> QED BY <2>1, <2>2, <2>3, <2>4 DEF JobFits, ReadFits, RecordFits, DeedFits, Running
<1>4. JobLockIsAccountedFor /\ OneStagePerSession
  BY DEF Init, JobLockIsAccountedFor, OneStagePerSession, Running
<1> QED BY <1>1, <1>2, <1>3, <1>4 DEF WebInv

LEMMA WebInvAlways == Spec => []WebInv
  BY InitKeeps, NextKeeps, PTL DEF Spec

(* Every variable keeps its type, and a job has a record once it runs.     *)
THEOREM WebTyped == Spec => []TypeOK
<1>1. WebInv => TypeOK
  <2> SUFFICES ASSUME WebInv PROVE TypeOK
    OBVIOUS
  <2>1. Typed
    BY DEF WebInv
  <2>2. ASSUME NEW j \in Job
        PROVE  /\ job[j].kind \in Kinds \cup {"none"}
               /\ job[j].state \in {"none", "queued", "running", "success", "failed"}
               /\ work[j].written \in 0..Writes
               /\ (job[j].state = "none") = (pc[j] = "off")
    <3>1. job[j] \in JobType /\ work[j] \in WorkType
      BY <2>1, KeptValue
    <3>2. RecordFits(j)
      BY DEF WebInv, JobFits
    <3>3. (job[j].state = "none") <=> (pc[j] = "off")
      <4>1. NoJob.state = "none"
        BY EmptyValues
      <4>2. pc[j] = "off" => job[j].state = "none"
        BY <3>2, <4>1 DEF RecordFits
      <4>3. pc[j] # "off" => job[j].state # "none"
        BY <3>2 DEF RecordFits, Running
      <4> QED BY <4>2, <4>3
    <3> QED BY <3>1, <3>3 DEF JobType, WorkType
  <2> QED BY <2>1, <2>2 DEF Typed, TypeOK, CacheType, Version
<1> QED BY <1>1, WebInvAlways, PTL

(* A pair that an analysis has downloaded and proved was live on Panorama, *)
(* both at once, while the analysis ran.                                   *)
THEOREM ProvedPairsWereLive == Spec => []ProvedPairWasLive
<1>1. WebInv => ProvedPairWasLive
  BY DEF WebInv, JobFits, ReadFits, ProvedPairWasLive
<1> QED BY <1>1, WebInvAlways, PTL

(* A lease that expires strands nothing by itself: what is left open, or   *)
(* locked, has lost an answer or its client.                               *)
THEOREM LeaseStrandsNothing == Spec => []ExpiryStrandsNothing
<1>1. WebInv => ExpiryStrandsNothing
  BY DEF WebInv, JobFits, DeedFits, Excused, ExpiryStrandsNothing, Stranded
<1> QED BY <1>1, WebInvAlways, PTL

(* The job lock of the process is held for a job that is polled or whose   *)
(* outcome is open, and for nothing else.                                  *)
THEOREM JobLockAccounted == Spec => []JobLockIsAccountedFor
<1>1. WebInv => JobLockIsAccountedFor
  BY DEF WebInv
<1> QED BY <1>1, WebInvAlways, PTL

(* Two background stages of one session never run at a time.               *)
THEOREM StagesApart == Spec => []OneStagePerSession
<1>1. WebInv => OneStagePerSession
  BY DEF WebInv
<1> QED BY <1>1, WebInvAlways, PTL

=============================================================================
