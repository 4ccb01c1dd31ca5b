-------------------------- MODULE SessionRegister --------------------------
(***************************************************************************)
(* What one session promises those who use it, whatever its files look     *)
(* like in between: there is one state, it moves along the table of the    *)
(* store, a record once made is never lost, and the journal only grows by  *)
(* one whole event at a time.                                              *)
(***************************************************************************)
EXTENDS SessionStates, Naturals

CONSTANT Artifact   \* what can be recorded

VARIABLES
  st,         \* the state, "NONE" before the session exists
  recorded,   \* artifacts the session answers for
  events      \* how many events its journal holds

registerVars == <<st, recorded, events>>

(* force_terminal_state looks at no table.                                 *)
Forced == {"FAILED", "OUTCOME_UNKNOWN", "CONFLICT"}

LegalMove(from, to) ==
  \/ from = "NONE" /\ to = "PLANNED"
  \/ from \in SessionState /\ to \in Transitions[from] \cup Forced
  \/ Recoverable(from, to)
  \/ External(from, to)

RegisterInit == st = "NONE" /\ recorded = {} /\ events = 0

Move ==
  /\ LegalMove(st, st')
  /\ UNCHANGED <<recorded, events>>

Record ==
  /\ \E a \in Artifact \ recorded : recorded' = recorded \cup {a}
  /\ UNCHANGED <<st, events>>

Note ==
  /\ events' = events + 1
  /\ UNCHANGED <<st, recorded>>

RegisterSpec == RegisterInit /\ [][Move \/ Record \/ Note]_registerVars
=============================================================================
