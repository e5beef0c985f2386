---------------------------- MODULE CycleVerdict ---------------------------
(***************************************************************************)
(* What Interpreter::hasCycles promises its caller: one decision, taken    *)
(* once, and right for the depends lists as they are.                      *)
(***************************************************************************)
CONSTANTS Targets, DependLists

VARIABLES depends, verdict

INSTANCE TargetGraph

Init ==
  /\ depends \in [Targets -> DependLists]
  /\ verdict = "pending"

Decide ==
  /\ verdict = "pending"
  /\ verdict' = IF Cyclic(depends) THEN "cyclic" ELSE "acyclic"
  /\ UNCHANGED depends

Spec == Init /\ [][Decide]_<<depends, verdict>> /\ WF_<<depends, verdict>>(Decide)
=============================================================================
