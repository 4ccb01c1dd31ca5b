----------------------------- MODULE MCToolbox -----------------------------
(***************************************************************************)
(* Values of the constants for TLC.  Three XPaths in two device groups: an *)
(* address, a rule that takes two operations to remove, and a policy of    *)
(* another device group that may gain a reference to the address.          *)
(*                                                                         *)
(*   c1  cleanup: deletes the address (component a) and the rule (b)       *)
(*   c2  cleanup: deletes the policy (component p)                         *)
(*   r1  restore: undoes c1                                                *)
(***************************************************************************)
EXTENDS Toolbox

MCPath == {"addr", "rule", "pol"}
MCValue == {"orig", "half", "gone", "ref"}
MCScope == {"dg1", "dg2", "shared"}
MCScopeOf == [addr |-> "dg1", rule |-> "dg1", pol |-> "dg2"]

(* Other people write a reference into the policy or change the rule.      *)
MCEditValue == [addr |-> {}, rule |-> {"ref"}, pol |-> {"ref"}]
(* They also carry the plan of c2 out by hand, or undo that.               *)
MCEditPolicy ==
  [addr |-> {}, rule |-> {"ref"}, pol |-> {"ref", "gone", "orig"}]

Op(q, v) == [path |-> q, value |-> v]

MCKind == [s \in Session |-> IF s = "r1" THEN "restore" ELSE "cleanup"]
MCComponent == {"a", "b", "p"}

MCForward ==
  LET ops == [c1 |-> <<Op("addr", "gone"), Op("rule", "half"),
                       Op("rule", "gone")>>,
              c2 |-> <<Op("pol", "gone")>>,
              r1 |-> <<Op("rule", "orig"), Op("addr", "orig")>>]
  IN  [s \in Session |-> ops[s]]

MCInverse ==
  LET ops == [c1 |-> <<Op("rule", "half"), Op("rule", "orig"),
                       Op("addr", "orig")>>,
              c2 |-> <<Op("pol", "orig")>>,
              r1 |-> <<Op("addr", "gone"), Op("rule", "gone")>>]
  IN  [s \in Session |-> ops[s]]

TargetSet == [c1 |-> {"addr", "rule"}, c2 |-> {"pol"}, r1 |-> {"addr", "rule"}]

MCBefore == [s \in Session |->
  [q \in TargetSet[s] |-> IF s = "r1" THEN "gone" ELSE "orig"]]
MCAfter == [s \in Session |->
  [q \in TargetSet[s] |-> IF s = "r1" THEN "orig" ELSE "gone"]]
MCCompOf == [s \in Session |->
  [q \in TargetSet[s] |-> [addr |-> "a", rule |-> "b", pol |-> "p"][q]]]
MCContext == [s \in Session |->
  [c \in Component |-> IF s = "c1" /\ c = "a" THEN {"pol"} ELSE {}]]
MCRefValue == {"ref"}
MCPlanSkipped == [s \in Session |-> {}]
MCSource == [s \in Session |-> IF s = "r1" THEN {"c1"} ELSE {}]
MCBaseline == [s \in Session |-> IF s = "r1" THEN {"c1"} ELSE {}]
MCRelated == [s \in Session |-> IF s = "r1" THEN {"c1", "c2"} ELSE {}]

MCPlanned == [s \in Session |-> "PLANNED"]
MCPlannedTree == [q \in Path |-> "orig"]
MCRestore == [s \in Session |-> IF s = "c1" THEN "COMMITTED" ELSE "PLANNED"]
MCRestoreTree == [addr |-> "gone", rule |-> "gone", pol |-> "orig"]

(* Of these plans nobody but c1 writes "half": a theorem assumes the like. *)
ASSUME MCHalfValues == HalfValuesAreOwn
=============================================================================
