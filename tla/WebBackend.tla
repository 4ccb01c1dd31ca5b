---------------------------- MODULE WebBackend ----------------------------
(***************************************************************************)
(* The server behind the page: connections to a Panorama, the client each  *)
(* of them shares between the server's threads with its cache of whole     *)
(* configurations, and the background jobs that use it.  A stage is seen   *)
(* here as the requests it makes of the client; what it does with the      *)
(* answers is in CandidateApply and JobStages.                             *)
(*                                                                         *)
(*   analysis   reads a coherent pair of configurations                    *)
(*   diff       reads running, then candidate; a plain request, no job     *)
(*   candidate  config lock, writes, unlock; on failure takes writes back  *)
(*   commit     config lock, dispatch, poll, unlock                        *)
(*   push       dispatch, poll                                             *)
(***************************************************************************)
EXTENDS Integers, FiniteSets

CONSTANTS
  Conn,       \* connection tokens, each with a client of its own
  Session,    \* sessions that stages are run on
  MaxJobs,    \* bound: jobs that are started
  Kinds,      \* kinds of jobs that are asked for
  Writes,     \* writes of a candidate stage
  MaxEdits,   \* bound: edits and commits by somebody else
  MaxAges,    \* bound: connections and leases that expire
  MaxFaults   \* bound: answers lost, requests refused, polls without an end

Stages == {"candidate", "commit", "push"}

ASSUME WebBackendConstants ==
  /\ Kinds \subseteq Stages \cup {"analysis", "diff"}
  /\ Writes \in Nat \ {0}
  /\ MaxJobs \in Nat /\ MaxEdits \in Nat
  /\ MaxAges \in Nat /\ MaxFaults \in Nat

None == -1   \* no configuration
NoSummary == <<None, None>>
Nobody == 0
Job == 1..MaxJobs

VARIABLES
  host,     \* Panorama: versions of running and candidate, the newest version
  cfgLock,  \* the job whose config lock is held
  conn,     \* what the registry knows of each token
  key,      \* whether the client of a token has its API key
  cache,    \* the configurations a client keeps
  proof,    \* the change summary under which they were read
  job,      \* the record the page polls: kind, connection, session, state
  pc, work, \* of each job's thread: next step, what it has read and done
  lease,    \* whether the job's permission to write is still valid
  jobLock,  \* the process's lock on commits and pushes: the job holding it
  edits, ages, faults

hostVars == <<host, cfgLock>>
connVars == <<conn, key>>
cacheVars == <<cache, proof>>
bounds == <<edits, ages, faults>>
vars == <<hostVars, connVars, cacheVars, job, pc, work, lease, jobLock, bounds>>

NoJob == [kind |-> "none", owner |-> "", sess |-> "", state |-> "none"]
NoWork == [before |-> NoSummary, running |-> None, candidate |-> None,
           tries |-> 0, since |-> {}, written |-> 0, outcome |-> ""]
Empty == [running |-> None, candidate |-> None]

(* The change summary tells any two states of the host apart, as the tests' *)
(* double of it does.  A summary that only lists what waits for a commit   *)
(* would be the same before and after a commit by somebody else.           *)
Summary == <<host.running, host.candidate>>

Pair == <<host.running, host.candidate>>

Init ==
  /\ host = [running |-> 1, candidate |-> 1, newest |-> 1]
  /\ cfgLock = Nobody
  /\ conn = [t \in Conn |-> "new"]
  /\ key = [t \in Conn |-> FALSE]
  /\ cache = [t \in Conn |-> Empty]
  /\ proof = [t \in Conn |-> NoSummary]
  /\ job = [j \in Job |-> NoJob]
  /\ pc = [j \in Job |-> "off"]
  /\ work = [j \in Job |-> NoWork]
  /\ lease = [j \in Job |-> FALSE]
  /\ jobLock = Nobody
  /\ edits = 0 /\ ages = 0 /\ faults = 0

Running == {j \in Job : pc[j] \notin {"off", "over"}}

(* Panorama takes a new state, and every analysis under way lives to see   *)
(* it; w is what the jobs have done by then.                               *)
HostBecomes(h, w) ==
  /\ host' = h
  /\ work' = [j \in Job |->
       IF job[j].kind = "analysis" /\ j \in Running
       THEN [w[j] EXCEPT !.since = @ \cup {<<h.running, h.candidate>>}]
       ELSE w[j]]

Edited == [host EXCEPT !.candidate = host.newest + 1, !.newest = @ + 1]
Committed == [host EXCEPT !.running = host.candidate]

-----------------------------------------------------------------------------
(***************************************************************************)
(* Panorama's other administrators.                                        *)
(***************************************************************************)
ForeignEdit ==
  /\ edits < MaxEdits
  /\ edits' = edits + 1
  /\ HostBecomes(Edited, work)
  /\ UNCHANGED <<cfgLock, connVars, cacheVars, job, pc, lease, jobLock,
                 ages, faults>>

ForeignCommit ==
  /\ edits < MaxEdits
  /\ host.running # host.candidate
  /\ edits' = edits + 1
  /\ HostBecomes(Committed, work)
  /\ UNCHANGED <<cfgLock, connVars, cacheVars, job, pc, lease, jobLock,
                 ages, faults>>

-----------------------------------------------------------------------------
(***************************************************************************)
(* Connections.                                                            *)
(***************************************************************************)
Connect(t) ==
  /\ conn[t] = "new"
  /\ conn' = [conn EXCEPT ![t] = "open"]
  /\ key' = [key EXCEPT ![t] = TRUE]
  /\ UNCHANGED <<hostVars, cacheVars, job, pc, work, lease, jobLock, bounds>>

(* Eight hours have passed; nothing happens until somebody uses the token. *)
ConnectionAges(t) ==
  /\ conn[t] = "open"
  /\ ages < MaxAges
  /\ ages' = ages + 1
  /\ conn' = [conn EXCEPT ![t] = "old"]
  /\ UNCHANGED <<hostVars, key, cacheVars, job, pc, work, lease, jobLock,
                 edits, faults>>

(* PanoramaReadClient.close.                                               *)
Close(t) ==
  /\ conn' = [conn EXCEPT ![t] = "gone"]
  /\ key' = [key EXCEPT ![t] = FALSE]
  /\ cache' = [cache EXCEPT ![t] = Empty]
  /\ proof' = [proof EXCEPT ![t] = NoSummary]

(* Any request with an old token, the polling of a job among them, closes  *)
(* the client, whoever is using it.                                        *)
ExpireOnUse(t) ==
  /\ conn[t] = "old"
  /\ Close(t)
  /\ UNCHANGED <<hostVars, job, pc, work, lease, jobLock, bounds>>

Disconnect(t) ==
  /\ conn[t] \in {"open", "old"}
  /\ Close(t)
  /\ UNCHANGED <<hostVars, job, pc, work, lease, jobLock, bounds>>

-----------------------------------------------------------------------------
(***************************************************************************)
(* Jobs: the request that starts one, and its thread.                      *)
(***************************************************************************)

(* Wrong on purpose: a job that waits for its thread does not count.       *)
ActiveWhenRunning(s) ==
  \E j \in Job : job[j].sess = s /\ job[j].state = "running"

ActiveOn(s) ==
  \E j \in Job : job[j].sess = s /\ job[j].state \in {"queued", "running"}

FirstStep ==
  [analysis |-> "summary", diff |-> "readRunning", candidate |-> "lock",
   commit |-> "lock", push |-> "dispatch"]

Start(j, t, k, s) ==
  /\ pc[j] = "off" /\ \A i \in 1..j - 1 : pc[i] # "off"
  /\ conn[t] = "open"
  /\ k \in Stages => ~ActiveOn(s)
  /\ job' = [job EXCEPT ![j] =
               [kind |-> k, owner |-> t, sess |-> IF k \in Stages THEN s ELSE "",
                state |-> "queued"]]
  /\ pc' = [pc EXCEPT ![j] = FirstStep[k]]
  /\ work' = [work EXCEPT ![j].since = IF k = "analysis" THEN {Pair} ELSE {}]
  /\ lease' = [lease EXCEPT ![j] = k \in Stages]
  /\ UNCHANGED <<hostVars, connVars, cacheVars, jobLock, bounds>>

LeaseExpires(j) ==
  /\ lease[j]
  /\ j \in Running
  /\ ages < MaxAges
  /\ ages' = ages + 1
  /\ lease' = [lease EXCEPT ![j] = FALSE]
  /\ UNCHANGED <<hostVars, connVars, cacheVars, job, pc, work, jobLock, edits,
                 faults>>

Fault == faults < MaxFaults /\ faults' = faults + 1
NoFault == UNCHANGED faults

Owner(j) == job[j].owner
HasKey(j) == key[Owner(j)]
At(j, label) == pc[j] = label
Goto(j, label) == pc' = [pc EXCEPT ![j] = label]

(* Progress is reported before each request.                               *)
Report(j) == job' = [job EXCEPT ![j].state = "running"]

(* Wrong on purpose: an error that is not expected leaves the job as it is.*)
EndExpected(j, how) ==
  /\ Goto(j, "over")
  /\ job' = [job EXCEPT ![j].state =
       CASE how = "ok" -> "success" [] how = "error" -> "failed" [] OTHER -> @]

(* The handlers of a worker: it has ended well, with an error the engine   *)
(* knows, or with any other exception.                                     *)
End(j, how) ==
  /\ Goto(j, "over")
  /\ job' = [job EXCEPT ![j].state = IF how = "ok" THEN "success" ELSE "failed"]

-----------------------------------------------------------------------------
(***************************************************************************)
(* Reading configurations.                                                 *)
(***************************************************************************)
Keep(j, field, value) == work' = [work EXCEPT ![j][field] = value]
Cached(j) == cache[Owner(j)]
Both(j) == Cached(j).running # None /\ Cached(j).candidate # None
Drop(j, o) == work' = [work EXCEPT ![j] = [NoWork EXCEPT !.outcome = o]]
reading == <<hostVars, connVars, lease, jobLock, edits, ages>>

(* The change summary, or none: then a cache of any proof will do.         *)
ReadSummary(j) ==
  /\ At(j, "summary")
  /\ Report(j)
  /\ \/ /\ HasKey(j)
        /\ Keep(j, "before", Summary)
        /\ Goto(j, "hit")
        /\ NoFault
     \/ /\ IF HasKey(j) THEN Fault ELSE NoFault
        /\ Keep(j, "before", NoSummary)
        /\ Goto(j, "oldRunning")
  /\ UNCHANGED <<reading, cacheVars>>

(* Whether the cache answers: it is complete, not older than half an hour, *)
(* and was read under the summary just read.                               *)
CacheAnswers(j) == Both(j) /\ proof[Owner(j)] = work[j].before

TryCache(j) ==
  /\ At(j, "hit")
  /\ \/ CacheAnswers(j) /\ Goto(j, "takeRunning")
     \/ Goto(j, "readRunning")   \* no answer, or too old
  /\ NoFault
  /\ UNCHANGED <<reading, cacheVars, job, work>>

(* Two looks into the cache; another thread may have emptied it.           *)
TakeRunning(j) ==
  /\ At(j, "takeRunning")
  /\ IF Cached(j).running = None
     THEN End(j, "exception") /\ Drop(j, "failed")
     ELSE /\ Keep(j, "running", Cached(j).running)
          /\ Goto(j, "takeCandidate")
          /\ UNCHANGED job
  /\ NoFault
  /\ UNCHANGED <<reading, cacheVars>>

TakeCandidate(j) ==
  /\ At(j, "takeCandidate")
  /\ IF Cached(j).candidate = None
     THEN End(j, "exception") /\ Drop(j, "failed")
     ELSE /\ work' = [work EXCEPT ![j].candidate = Cached(j).candidate,
                                  ![j].outcome = "cached"]
          /\ End(j, "ok")
  /\ NoFault
  /\ UNCHANGED <<reading, cacheVars>>

(* fetch_config: the answer is kept in the cache once it has arrived.      *)
Fetch(j, step, field, next) ==
  /\ At(j, step)
  /\ \/ /\ HasKey(j)
        /\ Keep(j, field, host[field])
        /\ Goto(j, next)
        /\ NoFault
        /\ UNCHANGED job
     \/ /\ IF HasKey(j) THEN Fault ELSE NoFault
        /\ End(j, "error")
        /\ Drop(j, "failed")
  /\ UNCHANGED <<reading, cacheVars>>

Store(j, step, field, next) ==
  /\ At(j, step)
  /\ cache' = [cache EXCEPT ![Owner(j)][field] = work[j][field]]
  /\ Goto(j, next)
  /\ NoFault
  /\ UNCHANGED <<reading, proof, job, work>>

(* Wrong on purpose: the second summary is not compared with the first.    *)
SameSummary(j) == TRUE
StillSame(j) == Summary = work[j].before

(* The summary once more: the same, and the pair is proved; another, and   *)
(* both are read again, once.                                              *)
CompareSummary(j) ==
  /\ At(j, "after")
  /\ \/ /\ HasKey(j) /\ StillSame(j)
        /\ proof' = [proof EXCEPT ![Owner(j)] = Summary]
        /\ Keep(j, "outcome", "proved")
        /\ End(j, "ok")
        /\ NoFault
        /\ UNCHANGED cache
     \/ /\ HasKey(j) /\ ~StillSame(j) /\ work[j].tries = 0
        /\ work' = [work EXCEPT ![j].tries = 1, ![j].before = Summary]
        /\ Goto(j, "readRunning")
        /\ NoFault
        /\ UNCHANGED <<cacheVars, job>>
     \/ /\ HasKey(j) /\ ~StillSame(j) /\ work[j].tries = 1
        /\ cache' = [cache EXCEPT ![Owner(j)] = Empty]
        /\ proof' = [proof EXCEPT ![Owner(j)] = NoSummary]
        /\ End(j, "error")
        /\ NoFault
        /\ Drop(j, "failed")
     \/ /\ IF HasKey(j) THEN Fault ELSE NoFault
        /\ End(j, "error")
        /\ Drop(j, "failed")
        /\ UNCHANGED cacheVars
  /\ UNCHANGED reading

(* fetch_config_cached, when there is no summary.                          *)
TakeOld(j, step, field, next, fetch) ==
  /\ At(j, step)
  /\ \/ /\ Cached(j)[field] # None
        /\ Keep(j, field, Cached(j)[field])
        /\ Goto(j, next)
     \/ Goto(j, fetch) /\ UNCHANGED work
  /\ NoFault
  /\ UNCHANGED <<reading, cacheVars, job>>

EndUnproved(j) ==
  /\ At(j, "unproved")
  /\ Drop(j, "unproved")
  /\ End(j, "ok")
  /\ NoFault
  /\ UNCHANGED <<reading, cacheVars>>

Read(j) ==
  \/ ReadSummary(j) \/ TryCache(j) \/ TakeRunning(j) \/ TakeCandidate(j)
  \/ Fetch(j, "readRunning", "running", "storeRunning")
  \/ Store(j, "storeRunning", "running", "readCandidate")
  \/ Fetch(j, "readCandidate", "candidate", "storeCandidate")
  \/ Store(j, "storeCandidate", "candidate",
           IF job[j].kind = "diff" THEN "unproved" ELSE "after")
  \/ CompareSummary(j)
  \/ TakeOld(j, "oldRunning", "running", "oldCandidate", "fetchOld1")
  \/ Fetch(j, "fetchOld1", "running", "storeOld1")
  \/ Store(j, "storeOld1", "running", "oldCandidate")
  \/ TakeOld(j, "oldCandidate", "candidate", "unproved", "fetchOld2")
  \/ Fetch(j, "fetchOld2", "candidate", "storeOld2")
  \/ Store(j, "storeOld2", "candidate", "unproved")
  \/ EndUnproved(j)

-----------------------------------------------------------------------------
(***************************************************************************)
(* Stages.                                                                 *)
(***************************************************************************)
Kind(j) == job[j].kind
Invalidate(j, fields) ==
  /\ cache' = [cache EXCEPT ![Owner(j)] =
                 [f \in DOMAIN Empty |-> IF f \in fields THEN None ELSE @[f]]]
  /\ proof' = [proof EXCEPT ![Owner(j)] = NoSummary]
MayWrite(j) == lease[j] /\ HasKey(j)
quiet == <<cacheVars, connVars, lease, edits, ages>>

(* Without a config lock a stage stops before it has done anything.        *)
TakeConfigLock(j) ==
  /\ At(j, "lock")
  /\ \/ /\ MayWrite(j) /\ cfgLock = Nobody
        /\ cfgLock' = j
        /\ Goto(j, IF Kind(j) = "commit" THEN "dispatch" ELSE "write")
        /\ Report(j)
        /\ NoFault
        /\ UNCHANGED work
     \/ /\ IF MayWrite(j) /\ cfgLock = Nobody THEN Fault ELSE NoFault
        /\ Drop(j, "refused")
        /\ End(j, "error")
        /\ UNCHANGED cfgLock
  /\ UNCHANGED <<quiet, host, jobLock>>

(* A write is made, refused, or its answer is lost.  The cached candidate  *)
(* is dropped in each case.                                                *)
WriteCandidate(j) ==
  /\ At(j, "write")
  /\ work[j].written < Writes
  /\ \/ /\ MayWrite(j)
        /\ HostBecomes(Edited, [work EXCEPT ![j].written = @ + 1])
        /\ Invalidate(j, {"candidate"})
        /\ NoFault
        /\ UNCHANGED <<job, pc>>
     \/ /\ MayWrite(j) /\ Fault   \* lost: both outcomes are possible
        /\ \/ HostBecomes(Edited, [work EXCEPT ![j] = [NoWork EXCEPT !.outcome = "unknown"]])
           \/ Drop(j, "unknown") /\ UNCHANGED host
        /\ Invalidate(j, {"candidate"})
        /\ End(j, "error")
     \/ /\ IF MayWrite(j) THEN Fault ELSE NoFault
        /\ IF lease[j] THEN Invalidate(j, {"candidate"}) ELSE UNCHANGED cacheVars
        /\ Goto(j, "undo")
        /\ UNCHANGED <<host, job, work>>
  /\ UNCHANGED <<cfgLock, connVars, lease, jobLock, edits, ages>>

(* Validation and the check of the candidate: both can fail.               *)
CheckCandidate(j) ==
  /\ At(j, "write")
  /\ work[j].written = Writes
  /\ \/ /\ MayWrite(j)
        /\ Drop(j, "done") /\ Goto(j, "unlock")
        /\ NoFault
     \/ /\ IF MayWrite(j) THEN Fault ELSE NoFault
        /\ Goto(j, "undo")
        /\ UNCHANGED work
  /\ UNCHANGED <<quiet, hostVars, job, jobLock>>

(* Wrong on purpose: what a stage has begun it may not take back once its  *)
(* permission has expired.                                                 *)
MayRecoverLeased(j) == lease[j] /\ HasKey(j)
MayRecover(j) == HasKey(j)

(* Wrong on purpose: one step too many is taken back.                      *)
LeftToUndoAndOne(j) == work[j].written >= 0
LeftToUndo(j) == work[j].written > 0

(* _rollback: an error here leaves the outcome open and the lock held.     *)
TakeBack(j) ==
  /\ At(j, "undo")
  /\ \/ /\ MayRecover(j) /\ LeftToUndo(j)
        /\ HostBecomes(Edited, [work EXCEPT ![j].written = @ - 1])
        /\ Invalidate(j, {"candidate"})
        /\ NoFault
        /\ UNCHANGED <<job, pc>>
     \/ /\ HasKey(j) /\ ~LeftToUndo(j)
        /\ Drop(j, "undone")
        /\ Goto(j, "unlock")
        /\ NoFault
        /\ UNCHANGED <<host, cacheVars, job>>
     \/ /\ IF MayRecover(j) THEN Fault ELSE NoFault
        /\ Invalidate(j, {"candidate"})
        /\ Drop(j, "unknown")
        /\ End(j, "error")
        /\ UNCHANGED host
  /\ UNCHANGED <<cfgLock, connVars, lease, jobLock, edits, ages>>

(* A lock that cannot be released is a warning.                            *)
Unlock(j) ==
  /\ At(j, "unlock")
  /\ \/ MayRecover(j) /\ cfgLock' = Nobody /\ NoFault
     \/ (IF MayRecover(j) THEN Fault ELSE NoFault) /\ UNCHANGED cfgLock
  /\ End(j, IF work[j].outcome = "done" THEN "ok" ELSE "error")
  /\ UNCHANGED <<quiet, host, work, jobLock>>

AfterJob(j) == IF Kind(j) = "commit" THEN "unlock" ELSE "finish"

(* Wrong on purpose: a request that was refused keeps the lock.            *)
LockKept(j) == jobLock' = j
LockGivenBack(j) == UNCHANGED jobLock

(* commit and push: the job lock is not waited for; it is kept when the    *)
(* answer is lost.                                                         *)
Dispatch(j) ==
  /\ At(j, "dispatch")
  /\ Report(j)
  /\ \/ /\ MayWrite(j) /\ jobLock = Nobody
        /\ jobLock' = j
        /\ Goto(j, "poll")
        /\ NoFault
        /\ UNCHANGED <<host, work>>
     \/ /\ MayWrite(j) /\ jobLock = Nobody /\ Fault
        /\ jobLock' = j
        /\ Goto(j, "strand")
        /\ \/ Kind(j) = "commit" /\ HostBecomes(Committed, work)
           \/ UNCHANGED <<host, work>>
     \/ /\ IF MayWrite(j) /\ jobLock = Nobody THEN Fault ELSE NoFault
        /\ IF jobLock = Nobody /\ lease[j] THEN LockGivenBack(j)
           ELSE UNCHANGED jobLock
        /\ Drop(j, "refused")
        /\ Goto(j, AfterJob(j))
        /\ UNCHANGED host
  /\ IF Kind(j) = "commit" /\ lease[j] /\ jobLock = Nobody
     THEN Invalidate(j, {"running", "candidate"})
     ELSE UNCHANGED cacheVars
  /\ UNCHANGED <<cfgLock, connVars, lease, edits, ages>>

(* The job ends well or badly; or the polling fails, or its time is over,  *)
(* and the job lock stays.                                                 *)
Poll(j) ==
  /\ At(j, "poll")
  /\ \/ /\ HasKey(j)
        /\ IF Kind(j) = "commit"
           THEN HostBecomes(Committed, [work EXCEPT ![j] = [NoWork EXCEPT !.outcome = "done"]])
           ELSE Drop(j, "done") /\ UNCHANGED host
        /\ jobLock' = Nobody
        /\ Goto(j, AfterJob(j))
        /\ NoFault
     \/ /\ HasKey(j) /\ Fault
        /\ Drop(j, "refused")
        /\ jobLock' = Nobody
        /\ Goto(j, AfterJob(j))
        /\ UNCHANGED host
     \/ /\ IF HasKey(j) THEN Fault ELSE NoFault
        /\ Goto(j, "strand")
        /\ UNCHANGED <<host, work, jobLock>>
  /\ UNCHANGED <<quiet, cfgLock, job>>

(* OUTCOME_UNKNOWN: every lock stays.                                      *)
Strand(j) ==
  /\ At(j, "strand")
  /\ Drop(j, "unknown")
  /\ End(j, "error")
  /\ NoFault
  /\ UNCHANGED <<quiet, hostVars, jobLock>>

FinishPush(j) ==
  /\ At(j, "finish")
  /\ End(j, IF work[j].outcome = "done" THEN "ok" ELSE "error")
  /\ NoFault
  /\ UNCHANGED <<quiet, hostVars, work, jobLock>>

Execute(j) ==
  \/ TakeConfigLock(j) \/ WriteCandidate(j) \/ CheckCandidate(j) \/ TakeBack(j)
  \/ Unlock(j) \/ Dispatch(j) \/ Poll(j) \/ Strand(j) \/ FinishPush(j)

-----------------------------------------------------------------------------
Work(j) == Read(j) \/ Execute(j)

Next ==
  \/ ForeignEdit \/ ForeignCommit
  \/ \E t \in Conn :
       Connect(t) \/ ConnectionAges(t) \/ ExpireOnUse(t) \/ Disconnect(t)
  \/ \E j \in Job :
       \/ \E t \in Conn, k \in Kinds, s \in Session : Start(j, t, k, s)
       \/ LeaseExpires(j) \/ Work(j)

(* The server's threads run as long as the server does; a person, another  *)
(* administrator or a clock owes nothing.                                  *)
Fairness == \A j \in Job : WF_vars(Work(j))
Spec == Init /\ [][Next]_vars /\ Fairness

-----------------------------------------------------------------------------
TypeOK ==
  /\ host \in [running : Nat, candidate : Nat, newest : Nat]
  /\ cfgLock \in Job \cup {Nobody}
  /\ conn \in [Conn -> {"new", "open", "old", "gone"}]
  /\ key \in [Conn -> BOOLEAN]
  /\ cache \in [Conn -> [running : Nat \cup {None}, candidate : Nat \cup {None}]]
  /\ \A j \in Job : /\ job[j].kind \in Kinds \cup {"none"}
                    /\ job[j].state \in {"none", "queued", "running", "success", "failed"}
                    /\ work[j].written \in 0..Writes
                    /\ (job[j].state = "none") = (pc[j] = "off")
  /\ lease \in [Job -> BOOLEAN]
  /\ jobLock \in Job \cup {Nobody}

(* A pair that an analysis has downloaded and proved was live on the host, *)
(* both at once, while the analysis ran: whatever other threads and other  *)
(* administrators did between its four requests.                           *)
ProvedPairWasLive ==
  \A j \in Job : work[j].outcome = "proved" =>
    <<work[j].running, work[j].candidate>> \in work[j].since

(* A permission that expires stops new writes and strands nothing: a stage *)
(* whose outcome is open, or that left its config lock, has lost an answer *)
(* or its client was closed under it.                                      *)
Stranded == {j \in Job : pc[j] = "over" /\ (work[j].outcome = "unknown" \/ cfgLock = j)}
ExpiryStrandsNothing ==
  Stranded # {} => faults > 0 \/ \E j \in Stranded : conn[Owner(j)] = "gone"

(* The process's job lock is held for a job that is polled, or whose       *)
(* outcome is open; a stage that knows how its job ended leaves it free.   *)
JobLockIsAccountedFor ==
  jobLock # Nobody =>
    pc[jobLock] \in {"poll", "strand"} \/ work[jobLock].outcome = "unknown"

(* Two stages of one session never run at a time in the background.        *)
OneStagePerSession ==
  \A i, j \in Running :
    i # j /\ Kind(i) \in Stages /\ Kind(j) \in Stages => job[i].sess # job[j].sess

(* A background job comes to its end, and says so to whoever polls it.     *)
JobsEnd == \A j \in Job : job[j].state = "queued" ~> job[j].state \in {"success", "failed"}
=============================================================================
