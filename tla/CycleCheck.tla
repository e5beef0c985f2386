----------------------------- MODULE CycleCheck ----------------------------
(***************************************************************************)
(* Interpreter::hasCycles, step by step: a depth-first search over the     *)
(* shared map of targets that colours each one (not visited, on the        *)
(* current path, fully checked) and stops at the first edge that leads     *)
(* back into the current path.  The call stack of the recursive lambda is  *)
(* `path`, which the code keeps for the error message, together with       *)
(* `iter`, the position of each frame's loop over `depends`.               *)
(***************************************************************************)
EXTENDS Naturals, Sequences

CONSTANTS
  Targets,      \* the Target objects in project_data->targets
  MapOrder,     \* the order in which std::map<name, Target> is iterated
  Values,       \* what an element of a depends list can hold, Targets included
  DependLists   \* the depends lists a target may have

INSTANCE TargetGraph

ASSUME OrderAssumption ==
  /\ MapOrder \in Seq(Targets)
  /\ \A t \in Targets : \E i \in 1..Len(MapOrder) : MapOrder[i] = t

ASSUME ListsAssumption == Targets \subseteq Values /\ DependLists \subseteq Seq(Values)

VARIABLES
  depends,   \* depends of each target; hasCycles() is const and only reads it
  state,     \* the colour of each target
  path,      \* the targets being processed, outermost first
  iter,      \* for each call in progress, the next element of its depends
  root,      \* position of the outer loop over the map
  verdict    \* what the function has returned

vars == <<depends, state, path, iter, root, verdict>>

NotVisited == 0
InProgress == 1
Checked == 2

Init ==
  /\ depends \in [Targets -> DependLists]
  /\ state = [t \in Targets |-> NotVisited]
  /\ path = <<>>
  /\ iter = <<>>
  /\ root = 1
  /\ verdict = "pending"

---------------------------------------------------------------------------
(* The call in progress, and the element of its depends it looks at.       *)
Node == path[Len(path)]
Position == iter[Len(iter)]
InCall == verdict = "pending" /\ iter # <<>>
AtElement == InCall /\ Position <= Len(depends[Node])
Element == depends[Node][Position]

(* The iterators after the current call moves to its next element.         *)
StayHere == iter
Step == [iter EXCEPT ![Len(iter)] = @ + 1]

(* Entering the lambda for t, with the callers' iterators as given.        *)
EnterAtZero(t, callers) ==
  /\ state' = [state EXCEPT ![t] = InProgress]
  /\ path' = Append(path, t)
  /\ iter' = Append(callers, 0)
Enter(t, callers) ==
  /\ state' = [state EXCEPT ![t] = InProgress]
  /\ path' = Append(path, t)
  /\ iter' = Append(callers, 1)

(* The outer loop starts a search at a target not visited yet ...          *)
EnterRoot ==
  /\ verdict = "pending" /\ iter = <<>>
  /\ root <= Len(MapOrder)
  /\ state[MapOrder[root]] = NotVisited
  /\ Enter(MapOrder[root], <<>>)
  /\ root' = root + 1
  /\ UNCHANGED <<depends, verdict>>

(* ... and passes over one that an earlier search has covered.             *)
SkipRoot ==
  /\ verdict = "pending" /\ iter = <<>>
  /\ root <= Len(MapOrder)
  /\ state[MapOrder[root]] # NotVisited
  /\ root' = root + 1
  /\ UNCHANGED <<depends, state, path, iter, verdict>>

(* A Value that holds no Target is no edge.                                *)
SkipValue ==
  /\ AtElement /\ Element \notin Targets
  /\ iter' = Step
  /\ UNCHANGED <<depends, state, path, root, verdict>>

(* An edge back into the current path: report the path and return true,    *)
(* through every caller, without restoring anything.                       *)
FoundCycleUnclosed ==
  /\ AtElement /\ Element \in Targets
  /\ state[Element] = InProgress
  /\ path' = path
  /\ verdict' = "cyclic"
  /\ UNCHANGED <<depends, state, iter, root>>
FoundCycle ==
  /\ AtElement /\ Element \in Targets
  /\ state[Element] = InProgress
  /\ path' = Append(path, Element)
  /\ verdict' = "cyclic"
  /\ UNCHANGED <<depends, state, iter, root>>

Descend ==
  /\ AtElement /\ Element \in Targets
  /\ state[Element] = NotVisited
  /\ Enter(Element, Step)
  /\ UNCHANGED <<depends, root, verdict>>

SkipChecked ==
  /\ AtElement /\ Element \in Targets
  /\ state[Element] = Checked
  /\ iter' = Step
  /\ UNCHANGED <<depends, state, path, root, verdict>>

(* The loop over depends is over: the target is checked, the call returns. *)
FinishUnmarked ==
  /\ InCall /\ Position > Len(depends[Node])
  /\ path' = SubSeq(path, 1, Len(path) - 1)
  /\ iter' = SubSeq(iter, 1, Len(iter) - 1)
  /\ UNCHANGED <<depends, state, root, verdict>>
FinishForgotten ==
  /\ InCall /\ Position > Len(depends[Node])
  /\ state' = [state EXCEPT ![Node] = NotVisited]
  /\ path' = SubSeq(path, 1, Len(path) - 1)
  /\ iter' = SubSeq(iter, 1, Len(iter) - 1)
  /\ UNCHANGED <<depends, root, verdict>>
Finish ==
  /\ InCall /\ Position > Len(depends[Node])
  /\ state' = [state EXCEPT ![Node] = Checked]
  /\ path' = SubSeq(path, 1, Len(path) - 1)
  /\ iter' = SubSeq(iter, 1, Len(iter) - 1)
  /\ UNCHANGED <<depends, root, verdict>>

ReturnFalse ==
  /\ verdict = "pending" /\ iter = <<>>
  /\ root > Len(MapOrder)
  /\ verdict' = "acyclic"
  /\ UNCHANGED <<depends, state, path, iter, root>>

Next ==
  \/ EnterRoot \/ SkipRoot
  \/ SkipValue \/ FoundCycle \/ Descend \/ SkipChecked
  \/ Finish
  \/ ReturnFalse

(* One sequential function: it runs until it returns.                      *)
Spec == Init /\ [][Next]_vars /\ WF_vars(Next)

---------------------------------------------------------------------------
(* The variables keep their types; a loop never looks at position 0, and   *)
(* no call's position passes the end of its list by more than one.         *)
TypeOK ==
  /\ depends \in [Targets -> DependLists]
  /\ state \in [Targets -> {NotVisited, InProgress, Checked}]
  /\ path \in Seq(Targets)
  /\ iter \in Seq(Nat \ {0})
  /\ root \in Nat \ {0}
  /\ verdict \in {"pending", "cyclic", "acyclic"}

(* The trace printed with a circular dependency ("Trace: a -> b -> a       *)
(* [RECURSION!]") is real: each target lists the next one, and the last    *)
(* one stands in the trace before.                                         *)
Chain == \A k \in 1..(Len(path) - 1) : path[k + 1] \in DependsOn(depends, path[k])
TraceIsCycle ==
  verdict = "cyclic" =>
    /\ Chain
    /\ \E k \in 1..(Len(path) - 1) : path[k] = path[Len(path)]

---------------------------------------------------------------------------
(* Why the search is right: the inductive invariant.                       *)

CheckedTargets == {t \in Targets : state[t] = Checked}

(* Targets InProgress are exactly those on the path, each there once.      *)
InProgressIsPath ==
  /\ \A t \in Targets : state[t] = InProgress <=> \E k \in 1..Len(path) : path[k] = t
  /\ \A j, k \in 1..Len(path) : path[j] = path[k] => j = k

PathReaches ==
  \A k \in 1..Len(path) : \A j \in 1..(k - 1) : Reaches(depends, path[j], path[k])

(* What a call has passed over is no edge, a checked target, or (the       *)
(* element it is in the middle of) the next target of the path.            *)
ScannedSoFar ==
  \A k \in 1..Len(path) : \A i \in 1..(iter[k] - 1) :
    /\ i <= Len(depends[path[k]])
    /\ \/ depends[path[k]][i] \notin Targets
       \/ depends[path[k]][i] \in CheckedTargets
       \/ k < Len(path) /\ depends[path[k]][i] = path[k + 1]

RootsSeen ==
  \A i \in 1..Len(MapOrder) : i < root => state[MapOrder[i]] # NotVisited

(* No edge leaves the checked targets, and no set of them is circular.     *)
CheckedClosed == \A t \in CheckedTargets : DependsOn(depends, t) \subseteq CheckedTargets
CheckedAcyclic ==
  \A S \in SUBSET CheckedTargets :
    S # {} => \E t \in S : DependsOn(depends, t) \cap S = {}

VerdictRight ==
  /\ verdict = "cyclic" => Cyclic(depends)
  /\ verdict = "acyclic" => ~Cyclic(depends)

(* While hasCycles runs, the colours, the path and the loop positions tell *)
(* one story, and once it has returned its answer is right.                *)
IInv ==
  /\ TypeOK
  /\ verdict = "pending" => /\ Len(iter) = Len(path)
                            /\ Chain /\ PathReaches /\ InProgressIsPath
                            /\ ScannedSoFar /\ RootsSeen
                            /\ CheckedClosed /\ CheckedAcyclic
  /\ VerdictRight
  /\ TraceIsCycle

---------------------------------------------------------------------------
(* The search is one decision, made once and right (CycleVerdict): a       *)
(* target reached twice without a cycle, as in a diamond, is not reported. *)
Abstract == INSTANCE CycleVerdict
DecidesRight == Abstract!Spec

(* hasCycles returns, on circular graphs too.                              *)
Terminates == <>(verdict # "pending")
=============================================================================
