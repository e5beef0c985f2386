---------------------------- MODULE MCCycleCheck ---------------------------
(* CycleCheck on three targets whose depends lists hold up to two elements *)
(* each, targets or a value that is no target.                             *)
EXTENDS CycleCheck

CONSTANTS a, b, c, text

MCTargets == {a, b, c}
MCValues == MCTargets \cup {text}
MCMapOrder == <<a, b, c>>
MCDependLists == UNION {[1..n -> MCValues] : n \in 0..2}
=============================================================================
