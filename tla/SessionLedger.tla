--------------------------- MODULE SessionLedger ---------------------------
(***************************************************************************)
(* What the session store promises of its manifests, whatever the stages   *)
(* do in between: one session at a time holds the host marker; only the    *)
(* holder's state moves, and only along the table, back from a job that    *)
(* failed, or by reconciliation with work done elsewhere; the marker of a  *)
(* session whose outcome is open stays until an operator takes it away.    *)
(***************************************************************************)
EXTENDS SessionStates

CONSTANTS Session, NoSession, InitState

VARIABLES state, marker, cleared
ledgerVars == <<state, marker, cleared>>

LedgerInit ==
  /\ state = InitState
  /\ marker = NoSession
  /\ cleared = {}

Begin(s) ==
  /\ marker = NoSession
  /\ marker' = s
  /\ UNCHANGED <<state, cleared>>

Move(s) ==
  /\ marker = s
  /\ \E new \in SessionState :
       /\ \/ new \in Transitions[state[s]]
          \/ Recoverable(state[s], new)
          \/ External(state[s], new)
       /\ state' = [state EXCEPT ![s] = new]
  /\ UNCHANGED <<marker, cleared>>

End(s) ==
  /\ marker = s
  /\ state[s] \notin Unresolved
  /\ marker' = NoSession
  /\ UNCHANGED <<state, cleared>>

Reconcile ==
  /\ marker' = NoSession
  /\ cleared' = cleared \cup {s \in Session : state[s] \in Unresolved}
  /\ UNCHANGED state

LedgerNext == (\E s \in Session : Begin(s) \/ Move(s) \/ End(s)) \/ Reconcile

LedgerSpec == LedgerInit /\ [][LedgerNext]_ledgerVars
=============================================================================
