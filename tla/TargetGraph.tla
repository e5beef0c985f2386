---------------------------- MODULE TargetGraph ----------------------------
(***************************************************************************)
(* The dependency graph of a YACS project.  Every Target keeps a ValueList *)
(* `depends`; an element that holds a Target is an edge of the graph, any  *)
(* other Value (a string, a number) is carried along and ignored.          *)
(*                                                                         *)
(* The operators are written without recursion, so that both TLC and TLAPS *)
(* can work with them: reachability is membership in every set that is     *)
(* closed under the edges.                                                 *)
(***************************************************************************)
LOCAL INSTANCE Naturals
LOCAL INSTANCE Sequences

CONSTANT Targets   \* the shared_ptr<Target> objects the project knows

(* What buildExecutionPlans queues for a target with this depends list:    *)
(* the elements that hold a Target, in order, repeated ones repeated.      *)
TargetDeps(list) ==
  LET deps[n \in 0..Len(list)] ==
        IF n = 0 THEN <<>>
        ELSE IF list[n] \in Targets THEN Append(deps[n - 1], list[n]) ELSE deps[n - 1]
  IN deps[Len(list)]

(* The targets that t lists in its depends.                                *)
DependsOn(depends, t) ==
  {u \in Targets : \E i \in DOMAIN depends[t] : depends[t][i] = u}

(* A set with every dependency of each of its members.                     *)
ClosedUnderDepends(depends, S) == \A v \in S : DependsOn(depends, v) \subseteq S

(* u can be reached from t over one edge or more.                          *)
Reaches(depends, t, u) ==
  \A S \in SUBSET Targets :
    DependsOn(depends, t) \subseteq S /\ ClosedUnderDepends(depends, S) => u \in S

(* Some target depends on itself, directly or through others.              *)
Cyclic(depends) == \E t \in Targets : Reaches(depends, t, t)
=============================================================================
