--------------------------- MODULE MCSessionFiles ---------------------------
(***************************************************************************)
(* Values of the constants for TLC: two kinds of hand-mode files, one      *)
(* snapshot a stage rewrites, one report, and a short way through the      *)
(* states.                                                                 *)
(***************************************************************************)
EXTENDS SessionFiles

MCHandKind == <<"commands", "rollback">>
MCUsed == {"WRITING_CANDIDATE", "CANDIDATE_APPLIED", "COMMITTING", "FAILED"}
=============================================================================
