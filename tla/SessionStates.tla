--------------------------- MODULE SessionStates ---------------------------
(***************************************************************************)
(* The states of a Toolbox session manifest and the moves its store        *)
(* admits.  sessions.py keeps the state of every session in manifest.json  *)
(* and changes it in four ways only: transition (checked against a table), *)
(* force_terminal_state (unchecked), record_recoverable_stage_failure and  *)
(* record_external_execution.                                              *)
(***************************************************************************)

SessionState ==
  { "PLANNED", "WRITING_CANDIDATE", "CANDIDATE_APPLIED", "PARTIAL",
    "RESTORING", "RESTORED", "COMMITTING", "COMMITTED", "PUSHING", "PUSHED",
    "CONFLICT", "FAILED", "OUTCOME_UNKNOWN" }

(* States of a manifest while a mutating stage is between its first and    *)
(* its last Panorama request.                                              *)
InFlight == {"WRITING_CANDIDATE", "RESTORING", "COMMITTING", "PUSHING"}

(* States in which panorama_job_lock leaves the host marker behind.        *)
Unresolved == InFlight \cup {"OUTCOME_UNKNOWN"}

(* States in which a candidate has been written and not yet committed.     *)
Reviewable == {"CANDIDATE_APPLIED", "PARTIAL", "RESTORED"}

(* States that put a cleanup into the history a restore may start from.    *)
Applied == {"CANDIDATE_APPLIED", "PARTIAL", "COMMITTED", "PUSHED"}

(* The table of the method transition.                                     *)
Transitions ==
  [ PLANNED           |-> {"WRITING_CANDIDATE", "RESTORING", "RESTORED",
                           "CONFLICT", "FAILED", "OUTCOME_UNKNOWN"},
    WRITING_CANDIDATE |-> {"CANDIDATE_APPLIED", "PARTIAL", "FAILED",
                           "OUTCOME_UNKNOWN"},
    CANDIDATE_APPLIED |-> {"COMMITTING", "CONFLICT", "FAILED",
                           "OUTCOME_UNKNOWN"},
    PARTIAL           |-> {"COMMITTING", "CONFLICT", "FAILED",
                           "OUTCOME_UNKNOWN"},
    RESTORING         |-> {"RESTORED", "PARTIAL", "CONFLICT", "FAILED",
                           "OUTCOME_UNKNOWN"},
    RESTORED          |-> {"COMMITTING", "CONFLICT", "FAILED",
                           "OUTCOME_UNKNOWN"},
    COMMITTING        |-> {"COMMITTED", "FAILED", "OUTCOME_UNKNOWN"},
    COMMITTED         |-> {"PUSHING", "RESTORING", "CONFLICT", "FAILED",
                           "OUTCOME_UNKNOWN"},
    PUSHING           |-> {"PUSHED", "FAILED", "OUTCOME_UNKNOWN"},
    PUSHED            |-> {"RESTORING", "FAILED"},
    CONFLICT          |-> {},
    FAILED            |-> {},
    OUTCOME_UNKNOWN   |-> {} ]

(* The way back after a job that is known to have failed.                  *)
Recoverable(from, to) ==
  \/ from = "COMMITTING" /\ to \in Reviewable
  \/ from = "PUSHING" /\ to = "COMMITTED"

(* Work done outside the Toolbox, admitted after a live comparison.        *)
External(from, to) ==
  /\ from \in {"PLANNED", "FAILED"}
  /\ to \in {"CANDIDATE_APPLIED", "COMMITTED"}
=============================================================================
