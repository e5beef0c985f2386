-------------------------- MODULE CycleCheckProofs -------------------------
(***************************************************************************)
(* What is proved about Interpreter::hasCycles, for any project: any       *)
(* number of targets, any depends lists, any order of the map.             *)
(***************************************************************************)
EXTENDS CycleCheck, TLAPS

(* A direct dependency is reached.                                         *)
LEMMA EdgeReaches ==
  ASSUME NEW t \in Targets, NEW u \in DependsOn(depends, t)
  PROVE  Reaches(depends, t, u)
BY DEF Reaches

(* What is reached lists only what is reached.                             *)
LEMMA ReachesEdge ==
  ASSUME NEW t \in Targets, NEW u \in Targets, Reaches(depends, t, u),
         NEW v \in DependsOn(depends, u)
  PROVE  Reaches(depends, t, v)
BY DEF Reaches, ClosedUnderDepends

(* Who reaches t lists t, or a target that reaches t.                      *)
LEMMA ReachesThrough ==
  ASSUME NEW u \in Targets, NEW t \in Targets, Reaches(depends, u, t)
  PROVE  \E v \in DependsOn(depends, u) : v = t \/ Reaches(depends, v, t)
<1> DEFINE W == {w \in Targets : \E v \in DependsOn(depends, u) : v = w \/ Reaches(depends, v, w)}
<1>1. \A x \in Targets : DependsOn(depends, x) \subseteq Targets
  BY DEF DependsOn
<1>2. DependsOn(depends, u) \subseteq W
  BY <1>1
<1>3. ClosedUnderDepends(depends, W)
  <2> SUFFICES ASSUME NEW w \in W, NEW x \in DependsOn(depends, w)
               PROVE  x \in W
    BY DEF ClosedUnderDepends
  <2>1. PICK v \in DependsOn(depends, u) : v = w \/ Reaches(depends, v, w)
    OBVIOUS
  <2>2. v \in Targets /\ x \in Targets
    BY <1>1
  <2>3. Reaches(depends, v, x)
    <3>1. CASE v = w
      BY <3>1, <2>2, EdgeReaches
    <3>2. CASE Reaches(depends, v, w)
      BY <3>2, <2>2, ReachesEdge
    <3> QED BY <2>1, <3>1, <3>2
  <2> QED BY <2>2, <2>3
<1>4. t \in W
  BY <1>2, <1>3 DEF Reaches
<1> QED BY <1>4

(* If every set of targets has a member that lists none of the set, no     *)
(* target depends on itself.                                               *)
LEMMA NoCircularSet ==
  ASSUME \A S \in SUBSET Targets :
           S # {} => \E t \in S : DependsOn(depends, t) \cap S = {}
  PROVE  ~Cyclic(depends)
<1> SUFFICES ASSUME NEW t \in Targets, Reaches(depends, t, t)
             PROVE  FALSE
  BY DEF Cyclic
<1> DEFINE S == {u \in Targets : Reaches(depends, t, u) /\ Reaches(depends, u, t)}
<1>1. PICK u \in S : DependsOn(depends, u) \cap S = {}
  OBVIOUS
<1>2. PICK v \in DependsOn(depends, u) : v = t \/ Reaches(depends, v, t)
  BY ReachesThrough
<1>3. v \in Targets
  BY DEF DependsOn
<1>4. Reaches(depends, t, v)
  BY ReachesEdge
<1>5. v \in S
  BY <1>2, <1>3, <1>4
<1> QED BY <1>1, <1>2, <1>5

---------------------------------------------------------------------------
(* The search starts in order.                                             *)
LEMMA InitIInv == Init => IInv
<1> SUFFICES ASSUME Init PROVE IInv
  OBVIOUS
<1> USE DEF Init
<1>1. TypeOK
  BY DEF TypeOK, NotVisited, InProgress, Checked
<1>2. InProgressIsPath
  BY DEF InProgressIsPath, NotVisited, InProgress
<1>3. CheckedTargets = {}
  BY DEF CheckedTargets, NotVisited, Checked
<1>4. CheckedClosed /\ CheckedAcyclic
  BY <1>3 DEF CheckedClosed, CheckedAcyclic
<1>5. RootsSeen
  BY OrderAssumption DEF RootsSeen
<1>6. Chain /\ PathReaches /\ ScannedSoFar
  BY DEF Chain, PathReaches, ScannedSoFar
<1> QED BY <1>1, <1>2, <1>4, <1>5, <1>6 DEF IInv, VerdictRight, TraceIsCycle

(* The element a call looks at is a dependency of the target it is for.    *)
LEMMA ElementIsEdge ==
  ASSUME TypeOK, AtElement, Len(iter) = Len(path)
  PROVE  /\ Len(path) \in Nat \ {0} /\ Node \in Targets
         /\ Position \in 1..Len(depends[Node])
         /\ Element \in Values
         /\ Element \in Targets => Element \in DependsOn(depends, Node)
<1>1. Len(path) \in Nat \ {0} /\ Node \in Targets /\ Position \in Nat \ {0}
  BY DEF AtElement, InCall, Node, Position, TypeOK
<1>2. depends[Node] \in Seq(Values)
  BY <1>1, ListsAssumption DEF TypeOK
<1>3. Position \in 1..Len(depends[Node]) /\ Position \in DOMAIN depends[Node]
  BY <1>1, <1>2 DEF AtElement
<1> QED BY <1>1, <1>2, <1>3 DEF Element, DependsOn

(* Entering the lambda for a target not visited yet, at the end of an edge *)
(* out of the current call if there is one, keeps the search in order.     *)
LEMMA EnterKeeps ==
  ASSUME IInv, verdict = "pending", NEW t \in Targets, state[t] = NotVisited,
         NEW callers \in Seq(Nat \ {0}), Len(callers) = Len(path),
         Enter(t, callers), UNCHANGED <<depends, verdict>>,
         root' \in Nat \ {0},
         path # <<>> => t \in DependsOn(depends, Node)
  PROVE  /\ TypeOK' /\ Len(iter') = Len(path')
         /\ Chain' /\ PathReaches' /\ InProgressIsPath'
         /\ CheckedTargets' = CheckedTargets
         /\ CheckedClosed' /\ CheckedAcyclic'
         /\ \A k \in 1..Len(path) : path'[k] = path[k] /\ iter'[k] = callers[k]
         /\ path'[Len(path) + 1] = t /\ iter'[Len(path) + 1] = 1
         /\ Len(path') = Len(path) + 1 /\ Len(path) \in Nat
<1> USE DEF IInv
<1>1. path \in Seq(Targets) /\ state \in [Targets -> {0, 1, 2}]
  BY DEF TypeOK, NotVisited, InProgress, Checked
<1>2. /\ path' = Append(path, t) /\ iter' = Append(callers, 1)
      /\ state' = [state EXCEPT ![t] = 1]
  BY DEF Enter, InProgress
<1>3. /\ \A k \in 1..Len(path) : path'[k] = path[k] /\ iter'[k] = callers[k]
      /\ path'[Len(path) + 1] = t /\ iter'[Len(path) + 1] = 1
      /\ Len(path') = Len(path) + 1 /\ Len(iter') = Len(path) + 1 /\ Len(path) \in Nat
  BY <1>1, <1>2
<1>4. TypeOK'
  BY <1>1, <1>2 DEF TypeOK, NotVisited, InProgress, Checked
<1>5. \A k \in 1..Len(path) : path[k] \in Targets /\ path[k] # t
  BY <1>1 DEF InProgressIsPath, NotVisited, InProgress
<1>6. InProgressIsPath'
  <2>1. ASSUME NEW u \in Targets
        PROVE  state'[u] = 1 <=> \E k \in 1..Len(path') : path'[k] = u
    BY <1>1, <1>2, <1>3 DEF InProgressIsPath, InProgress
  <2>2. ASSUME NEW j \in 1..Len(path'), NEW k \in 1..Len(path'), path'[j] = path'[k]
        PROVE  j = k
    BY <1>3, <1>5, <2>2, SMTT(30) DEF InProgressIsPath
  <2> QED BY <2>1, <2>2 DEF InProgressIsPath, InProgress
<1>7. CheckedTargets' = CheckedTargets
  BY <1>1, <1>2 DEF CheckedTargets, Checked, NotVisited
<1>8. CheckedClosed' /\ CheckedAcyclic'
  BY <1>7 DEF CheckedClosed, CheckedAcyclic
<1>9. Len(path) # 0 => t \in DependsOn(depends, path[Len(path)])
  BY <1>1 DEF Node
<1>10. Chain'
  <2> SUFFICES ASSUME NEW k \in 1..(Len(path') - 1)
               PROVE  path'[k + 1] \in DependsOn(depends, path'[k])
    BY DEF Chain
  <2>1. CASE k = Len(path)
    BY <1>3, <1>9, <2>1
  <2>2. CASE k # Len(path)
    <3>1. k \in 1..(Len(path) - 1) /\ k \in 1..Len(path) /\ k + 1 \in 1..Len(path)
      BY <1>3, <2>2
    <3>2. path'[k] = path[k] /\ path'[k + 1] = path[k + 1]
      BY <1>3, <3>1
    <3> QED BY <3>1, <3>2 DEF Chain
  <2> QED BY <2>1, <2>2
<1>11. PathReaches'
  <2> SUFFICES ASSUME NEW k \in 1..Len(path'), NEW j \in 1..(k - 1)
               PROVE  Reaches(depends, path'[j], path'[k])
    BY DEF PathReaches
  <2>1. CASE k \in 1..Len(path)
    BY <1>3, <2>1 DEF PathReaches
  <2>2. CASE k = Len(path) + 1 /\ j = Len(path)
    <3>1. path[j] \in Targets /\ t \in DependsOn(depends, path[j])
      BY <1>5, <1>9, <2>2
    <3>2. Reaches(depends, path[j], t)
      BY <3>1, EdgeReaches
    <3> QED BY <1>3, <2>2, <3>2
  <2>3. CASE k = Len(path) + 1 /\ j # Len(path)
    <3>1. j \in 1..(Len(path) - 1) /\ Len(path) \in 1..Len(path)
      BY <1>3, <2>3
    <3>2. Reaches(depends, path[j], path[Len(path)])
      BY <3>1 DEF PathReaches
    <3>3. path[j] \in Targets /\ path[Len(path)] \in Targets /\ t \in DependsOn(depends, path[Len(path)])
      BY <1>3, <1>5, <1>9, <3>1
    <3>4. Reaches(depends, path[j], t)
      BY <3>2, <3>3, ReachesEdge
    <3> QED BY <1>3, <2>3, <3>1, <3>4
  <2> QED BY <1>3, <2>1, <2>2, <2>3
<1> QED BY <1>3, <1>4, <1>6, <1>7, <1>8, <1>10, <1>11

(* Moving past an element that is no edge or leads to a checked target.    *)
LEMMA StepKeeps ==
  ASSUME IInv, AtElement, iter' = Step,
         UNCHANGED <<depends, state, path, root, verdict>>,
         Element \in Targets => Element \in CheckedTargets
  PROVE  IInv'
<1> USE DEF IInv
<1>0. verdict = "pending" /\ Len(iter) = Len(path) /\ iter # <<>> /\ iter \in Seq(Nat \ {0})
  BY DEF AtElement, InCall, TypeOK
<1> DEFINE n == Len(path)
<1>1. /\ n \in Nat \ {0} /\ n = Len(iter)
      /\ Position = iter[n] /\ Node = path[n]
      /\ Position \in 1..Len(depends[Node]) /\ Position \in Nat
  BY <1>0, ElementIsEdge DEF Position, Node
<1>2. /\ iter' \in Seq(Nat \ {0}) /\ Len(iter') = n
      /\ iter'[n] = Position + 1
      /\ \A k \in 1..(n - 1) : iter'[k] = iter[k]
  BY <1>0, <1>1 DEF Step
<1>3. TypeOK'
  BY <1>2 DEF TypeOK
<1>4. ScannedSoFar'
  <2> SUFFICES ASSUME NEW k \in 1..n, NEW i \in 1..(iter'[k] - 1)
               PROVE  /\ i <= Len(depends[path[k]])
                      /\ \/ depends[path[k]][i] \notin Targets
                         \/ depends[path[k]][i] \in CheckedTargets
                         \/ k < n /\ depends[path[k]][i] = path[k + 1]
    BY DEF ScannedSoFar, CheckedTargets
  <2>1. CASE i \in 1..(iter[k] - 1)
    BY <1>0, <2>1 DEF ScannedSoFar
  <2>2. CASE i \notin 1..(iter[k] - 1)
    <3>1. CASE k = n
      <4>1. iter'[n] = Position + 1 /\ iter[n] = Position /\ Position \in Nat
        BY <1>1, <1>2
      <4>2. i = Position
        BY <2>2, <3>1, <4>1
      <4>3. depends[path[k]][i] = Element /\ i <= Len(depends[path[k]])
        BY <1>1, <3>1, <4>2 DEF Element
      <4> QED BY <4>3
    <3>2. ASSUME k # n PROVE FALSE
      <4>1. k \in 1..(n - 1)
        BY <1>1, <3>2
      <4>2. iter'[k] = iter[k]
        BY <1>2, <4>1
      <4> QED BY <2>2, <4>2
    <3> QED BY <3>1, <3>2
  <2> QED BY <2>1, <2>2
<1>5. /\ Chain' /\ PathReaches' /\ InProgressIsPath' /\ RootsSeen'
      /\ CheckedClosed' /\ CheckedAcyclic'
  BY <1>0 DEF Chain, PathReaches, InProgressIsPath, RootsSeen, CheckedClosed, CheckedAcyclic, CheckedTargets
<1> QED BY <1>0, <1>1, <1>2, <1>3, <1>4, <1>5 DEF VerdictRight, TraceIsCycle

LEMMA EnterRootKeeps == IInv /\ EnterRoot => IInv'
<1> SUFFICES ASSUME IInv, EnterRoot PROVE IInv'
  OBVIOUS
<1> USE DEF IInv
<1> DEFINE t == MapOrder[root]
<1>1. /\ verdict = "pending" /\ verdict' = "pending" /\ depends' = depends
      /\ t \in Targets /\ state[t] = NotVisited /\ Enter(t, <<>>)
      /\ root \in 1..Len(MapOrder) /\ root' = root + 1
      /\ Len(path) = 0 /\ path = <<>>
  BY OrderAssumption DEF EnterRoot, TypeOK
<1>2. /\ TypeOK' /\ Len(iter') = Len(path')
      /\ Chain' /\ PathReaches' /\ InProgressIsPath'
      /\ CheckedClosed' /\ CheckedAcyclic'
      /\ Len(path') = 1 /\ iter'[1] = 1
  <2>1. <<>> \in Seq(Nat \ {0}) /\ Len(<<>>) = 0 /\ root' \in Nat \ {0}
    BY <1>1
  <2>2. UNCHANGED <<depends, verdict>>
    BY <1>1
  <2>3. /\ TypeOK' /\ Len(iter') = Len(path')
        /\ Chain' /\ PathReaches' /\ InProgressIsPath'
        /\ CheckedClosed' /\ CheckedAcyclic'
        /\ Len(path') = Len(path) + 1 /\ iter'[Len(path) + 1] = 1
    <3> HIDE DEF t, IInv
    <3> QED BY <1>1, <2>1, <2>2, EnterKeeps
  <2> QED BY <1>1, <2>3
<1>3. ScannedSoFar'
  BY <1>2 DEF ScannedSoFar
<1>4. RootsSeen'
  <2>1. state' = [state EXCEPT ![t] = 1] /\ state \in [Targets -> {0, 1, 2}]
    BY <1>1 DEF Enter, TypeOK, NotVisited, InProgress, Checked
  <2>2. \A i \in 1..Len(MapOrder) : MapOrder[i] \in Targets
    BY OrderAssumption
  <2>3. \A i \in 1..Len(MapOrder) : i < root + 1 => i < root \/ i = root
    BY <1>1
  <2> QED BY <1>1, <2>1, <2>2, <2>3 DEF RootsSeen, NotVisited
<1> QED BY <1>1, <1>2, <1>3, <1>4 DEF VerdictRight, TraceIsCycle

LEMMA DescendKeeps == IInv /\ Descend => IInv'
<1> SUFFICES ASSUME IInv, Descend PROVE IInv'
  OBVIOUS
<1> USE DEF IInv
<1>1. /\ AtElement /\ verdict = "pending" /\ verdict' = "pending" /\ depends' = depends
      /\ root' = root /\ Len(iter) = Len(path) /\ iter # <<>>
      /\ Element \in Targets /\ state[Element] = NotVisited /\ Enter(Element, Step)
      /\ iter \in Seq(Nat \ {0}) /\ path \in Seq(Targets) /\ root \in Nat \ {0}
  BY DEF Descend, AtElement, InCall, TypeOK
<1> DEFINE n == Len(path)
<1>2. /\ n \in Nat \ {0} /\ n = Len(iter)
      /\ Position = iter[n] /\ Node = path[n]
      /\ Position \in 1..Len(depends[Node]) /\ Position \in Nat
      /\ Element \in DependsOn(depends, Node)
  BY <1>1, ElementIsEdge DEF Position, Node
<1>3. /\ Step \in Seq(Nat \ {0}) /\ Len(Step) = n
      /\ Step[n] = Position + 1
      /\ \A k \in 1..(n - 1) : Step[k] = iter[k]
  BY <1>1, <1>2 DEF Step
<1>4. /\ TypeOK' /\ Len(iter') = Len(path')
      /\ Chain' /\ PathReaches' /\ InProgressIsPath'
      /\ CheckedTargets' = CheckedTargets
      /\ CheckedClosed' /\ CheckedAcyclic'
      /\ \A k \in 1..n : path'[k] = path[k] /\ iter'[k] = Step[k]
      /\ path'[n + 1] = Element /\ iter'[n + 1] = 1 /\ Len(path') = n + 1
  BY <1>1, <1>2, <1>3, EnterKeeps
<1>5. ScannedSoFar'
  <2> SUFFICES ASSUME NEW k \in 1..(n + 1), NEW i \in 1..(iter'[k] - 1)
               PROVE  /\ i <= Len(depends[path'[k]])
                      /\ \/ depends[path'[k]][i] \notin Targets
                         \/ depends[path'[k]][i] \in CheckedTargets
                         \/ k < n + 1 /\ depends[path'[k]][i] = path'[k + 1]
    BY <1>1, <1>4 DEF ScannedSoFar
  <2>1. k \in 1..n /\ path'[k] = path[k] /\ iter'[k] = Step[k]
    BY <1>2, <1>4
  <2>2. CASE k = n /\ i = Position
    BY <1>2, <1>4, <2>1, <2>2 DEF Element
  <2>3. CASE ~(k = n /\ i = Position)
    <3>1. i \in 1..(iter[k] - 1)
      <4>1. CASE k = n
        BY <1>2, <1>3, <2>1, <2>3, <4>1
      <4>2. CASE k # n
        <5>1. Step[k] = iter[k]
          BY <1>2, <1>3, <2>1, <4>2
        <5> QED BY <2>1, <5>1
      <4> QED BY <4>1, <4>2
    <3>2. k < n => k + 1 \in 1..n /\ path'[k + 1] = path[k + 1]
      BY <1>2, <1>4, <2>1
    <3> QED BY <1>1, <1>2, <2>1, <3>1, <3>2, SMTT(30) DEF ScannedSoFar
  <2> QED BY <2>2, <2>3
<1>6. RootsSeen'
  <2>1. state' = [state EXCEPT ![Element] = 1] /\ state \in [Targets -> {0, 1, 2}]
    BY <1>1 DEF Enter, TypeOK, NotVisited, InProgress, Checked
  <2>2. \A i \in 1..Len(MapOrder) : MapOrder[i] \in Targets
    BY OrderAssumption
  <2> QED BY <1>1, <2>1, <2>2 DEF RootsSeen, NotVisited
<1> QED BY <1>1, <1>4, <1>5, <1>6 DEF VerdictRight, TraceIsCycle

(* An edge back into the path: the answer "cyclic" is right, and the trace *)
(* is a cycle.                                                             *)
LEMMA FoundCycleKeeps == IInv /\ FoundCycle => IInv'
<1> SUFFICES ASSUME IInv, FoundCycle PROVE IInv'
  OBVIOUS
<1> USE DEF IInv
<1>1. /\ AtElement /\ verdict = "pending" /\ verdict' = "cyclic" /\ depends' = depends
      /\ Len(iter) = Len(path) /\ path \in Seq(Targets)
      /\ Element \in Targets /\ state[Element] = InProgress
      /\ path' = Append(path, Element)
  BY DEF FoundCycle, AtElement, InCall, TypeOK
<1> DEFINE n == Len(path)
<1>2. n \in Nat \ {0} /\ Node = path[n] /\ Element \in DependsOn(depends, Node)
  BY <1>1, ElementIsEdge DEF Node
<1>3. /\ \A k \in 1..n : path'[k] = path[k] /\ path[k] \in Targets
      /\ path'[n + 1] = Element /\ Len(path') = n + 1
  BY <1>1
<1>4. TypeOK'
  BY <1>1 DEF FoundCycle, TypeOK
<1>5. PICK j \in 1..n : path[j] = Element
  BY <1>1 DEF InProgressIsPath
<1>6. Reaches(depends, Element, Element)
  <2>1. CASE j = n
    BY <1>1, <1>2, <1>5, <2>1, EdgeReaches
  <2>2. CASE j # n
    <3>1. n \in 1..n /\ j \in 1..(n - 1)
      BY <1>2, <2>2
    <3>2. Reaches(depends, path[j], path[n])
      BY <1>1, <3>1 DEF PathReaches
    <3> QED BY <1>1, <1>2, <1>3, <1>5, <3>1, <3>2, ReachesEdge
  <2> QED BY <2>1, <2>2
<1>7. VerdictRight'
  BY <1>1, <1>6 DEF VerdictRight, Cyclic
<1>8. TraceIsCycle'
  <2>1. Chain'
    <3> SUFFICES ASSUME NEW k \in 1..n
                 PROVE  path'[k + 1] \in DependsOn(depends, path'[k])
      BY <1>1, <1>2, <1>3 DEF Chain
    <3>1. CASE k = n
      BY <1>2, <1>3, <3>1
    <3>2. CASE k # n
      <4>1. k \in 1..(n - 1) /\ k + 1 \in 1..n
        BY <1>2, <3>2
      <4>2. path'[k] = path[k] /\ path'[k + 1] = path[k + 1]
        BY <1>3, <4>1
      <4> QED BY <1>1, <4>1, <4>2 DEF Chain
    <3> QED BY <3>1, <3>2
  <2>2. j \in 1..(Len(path') - 1) /\ path'[j] = path'[Len(path')]
    BY <1>2, <1>3, <1>5
  <2> QED BY <2>1, <2>2 DEF TraceIsCycle
<1> QED BY <1>1, <1>4, <1>7, <1>8

(* A target whose loop is over joins the checked ones: all it lists is     *)
(* checked already, so no circular set arises with it.                     *)
LEMMA FinishKeeps == IInv /\ Finish => IInv'
<1> SUFFICES ASSUME IInv, Finish PROVE IInv'
  OBVIOUS
<1> USE DEF IInv
<1> DEFINE n == Len(path)
<1>1. /\ verdict = "pending" /\ verdict' = "pending" /\ depends' = depends /\ root' = root
      /\ Len(iter) = n /\ path \in Seq(Targets) /\ iter \in Seq(Nat \ {0})
      /\ n \in Nat \ {0} /\ Node = path[n] /\ Node \in Targets /\ Position = iter[n]
      /\ Position > Len(depends[Node])
      /\ path' = SubSeq(path, 1, n - 1) /\ iter' = SubSeq(iter, 1, n - 1)
  BY DEF Finish, InCall, TypeOK, Node, Position
<1>2. /\ state' = [state EXCEPT ![Node] = 2] /\ state \in [Targets -> {0, 1, 2}]
  BY DEF Finish, TypeOK, NotVisited, InProgress, Checked
<1>3. /\ Len(path') = n - 1 /\ Len(iter') = n - 1 /\ n - 1 \in Nat
      /\ path' \in Seq(Targets) /\ iter' \in Seq(Nat \ {0})
      /\ \A k \in 1..(n - 1) : path'[k] = path[k] /\ iter'[k] = iter[k]
  BY <1>1
<1>4. TypeOK'
  BY <1>1, <1>2, <1>3 DEF TypeOK, NotVisited, InProgress, Checked
<1>5. state[Node] = 1 /\ Node \notin CheckedTargets
  BY <1>1, <1>2 DEF InProgressIsPath, InProgress, CheckedTargets, Checked
<1>6. CheckedTargets' = CheckedTargets \cup {Node}
  BY <1>1, <1>2 DEF CheckedTargets, Checked
<1>7. DependsOn(depends, Node) \subseteq CheckedTargets
  <2> SUFFICES ASSUME NEW u \in Targets, NEW i \in DOMAIN depends[Node], depends[Node][i] = u
               PROVE  u \in CheckedTargets
    BY DEF DependsOn
  <2>1. depends[Node] \in Seq(Values)
    BY <1>1, ListsAssumption DEF TypeOK
  <2>2. i \in 1..(iter[n] - 1) /\ n \in 1..n /\ ~(n < n)
    BY <1>1, <2>1
  <2> QED BY <1>1, <2>2 DEF ScannedSoFar
<1>8. CheckedClosed'
  BY <1>1, <1>6, <1>7 DEF CheckedClosed
<1>9. CheckedAcyclic'
  <2> SUFFICES ASSUME NEW S \in SUBSET (CheckedTargets \cup {Node}), S # {}
               PROVE  \E t \in S : DependsOn(depends, t) \cap S = {}
    BY <1>1, <1>6 DEF CheckedAcyclic
  <2>1. CASE Node \notin S
    BY <1>1, <2>1 DEF CheckedAcyclic
  <2>2. CASE S = {Node}
    BY <1>5, <1>7, <2>2
  <2>3. CASE Node \in S /\ S # {Node}
    <3> DEFINE R == S \ {Node}
    <3>1. R # {} /\ R \in SUBSET CheckedTargets
      BY <2>3
    <3>2. PICK t \in R : DependsOn(depends, t) \cap R = {}
      BY <1>1, <3>1 DEF CheckedAcyclic
    <3>3. Node \notin DependsOn(depends, t)
      BY <1>1, <1>5, <3>1 DEF CheckedClosed
    <3> QED BY <3>2, <3>3
  <2> QED BY <2>1, <2>2, <2>3
<1>10. Chain' /\ PathReaches'
  <2>1. \A k \in 1..(n - 1) : k \in 1..n
    BY <1>3
  <2>2. ASSUME NEW k \in 1..(n - 2)
        PROVE  path'[k + 1] \in DependsOn(depends, path'[k])
    <3>1. k \in 1..(n - 1) /\ k + 1 \in 1..(n - 1)
      BY <1>3
    <3> QED BY <1>1, <1>3, <3>1 DEF Chain
  <2>3. Chain'
    BY <1>1, <1>3, <2>2 DEF Chain
  <2>4. ASSUME NEW k \in 1..(n - 1), NEW j \in 1..(k - 1)
        PROVE  Reaches(depends, path'[j], path'[k])
    <3>1. j \in 1..(n - 1) /\ k \in 1..n
      BY <1>3
    <3> QED BY <1>1, <1>3, <3>1 DEF PathReaches
  <2> QED BY <1>1, <1>3, <2>3, <2>4 DEF PathReaches
<1>11. InProgressIsPath'
  <2>1. \A k \in 1..(n - 1) : k \in 1..n /\ path[k] # Node
    BY <1>1, <1>3 DEF InProgressIsPath
  <2>2. ASSUME NEW t \in Targets
        PROVE  state'[t] = 1 <=> \E k \in 1..(n - 1) : path'[k] = t
    <3>1. CASE t = Node
      BY <1>2, <1>3, <2>1, <3>1
    <3>2. CASE t # Node
      <4>1. state'[t] = 1 <=> \E k \in 1..n : path[k] = t
        BY <1>1, <1>2, <3>2 DEF InProgressIsPath, InProgress
      <4>2. \A k \in 1..n : path[k] = t => k \in 1..(n - 1)
        BY <1>1, <3>2
      <4> QED BY <1>3, <2>1, <4>1, <4>2
    <3> QED BY <3>1, <3>2
  <2>3. ASSUME NEW j \in 1..(n - 1), NEW k \in 1..(n - 1), path'[j] = path'[k]
        PROVE  j = k
    <3>1. path[j] = path[k] /\ j \in 1..n /\ k \in 1..n
      BY <1>3, <2>1, <2>3
    <3> QED BY <1>1, <3>1 DEF InProgressIsPath
  <2> QED BY <1>3, <2>2, <2>3 DEF InProgressIsPath, InProgress
<1>12. ScannedSoFar'
  <2> SUFFICES ASSUME NEW k \in 1..Len(path'), NEW i \in 1..(iter'[k] - 1)
               PROVE  /\ i <= Len(depends[path'[k]])
                      /\ \/ depends[path'[k]][i] \notin Targets
                         \/ depends[path'[k]][i] \in CheckedTargets'
                         \/ k < Len(path') /\ depends[path'[k]][i] = path'[k + 1]
    BY <1>1 DEF ScannedSoFar
  <2>1. k \in 1..n /\ k \in 1..(n - 1) /\ path'[k] = path[k] /\ i \in 1..(iter[k] - 1)
    BY <1>3
  <2>2. CASE k = n - 1
    <3>1. path[k + 1] = Node
      BY <1>1, <1>3, <2>2
    <3> QED BY <1>1, <1>6, <2>1, <3>1 DEF ScannedSoFar
  <2>3. CASE k # n - 1
    <3>1. k + 1 \in 1..(n - 1) /\ k < n - 1
      BY <1>3, <2>1, <2>3
    <3>2. path'[k + 1] = path[k + 1]
      BY <1>3, <3>1
    <3> QED BY <1>1, <1>3, <1>6, <2>1, <3>1, <3>2 DEF ScannedSoFar
  <2> QED BY <2>2, <2>3
<1>13. RootsSeen'
  <2>1. \A i \in 1..Len(MapOrder) : MapOrder[i] \in Targets
    BY OrderAssumption
  <2> QED BY <1>1, <1>2, <2>1 DEF RootsSeen, NotVisited
<1> QED BY <1>1, <1>3, <1>4, <1>8, <1>9, <1>10, <1>11, <1>12, <1>13 DEF VerdictRight, TraceIsCycle

LEMMA ReturnFalseKeeps == IInv /\ ReturnFalse => IInv'
<1> SUFFICES ASSUME IInv, ReturnFalse PROVE IInv'
  OBVIOUS
<1> USE DEF IInv
<1>1. /\ verdict = "pending" /\ verdict' = "acyclic" /\ depends' = depends
      /\ Len(path) = 0 /\ root > Len(MapOrder) /\ root \in Nat
      /\ state \in [Targets -> {0, 1, 2}]
  BY DEF ReturnFalse, TypeOK, NotVisited, InProgress, Checked
<1>2. CheckedTargets = Targets
  <2> SUFFICES ASSUME NEW t \in Targets PROVE state[t] = 2
    BY DEF CheckedTargets, Checked
  <2>1. PICK i \in 1..Len(MapOrder) : MapOrder[i] = t
    BY OrderAssumption
  <2>2. i < root
    BY <1>1, <2>1, OrderAssumption
  <2>3. state[t] # 0
    BY <1>1, <2>1, <2>2 DEF RootsSeen, NotVisited
  <2>4. state[t] # 1
    BY <1>1 DEF InProgressIsPath, InProgress
  <2> QED BY <1>1, <2>3, <2>4
<1>3. ~Cyclic(depends)
  BY <1>1, <1>2, NoCircularSet DEF CheckedAcyclic
<1>4. TypeOK'
  BY <1>1 DEF ReturnFalse, TypeOK
<1> QED BY <1>1, <1>3, <1>4 DEF VerdictRight, TraceIsCycle

LEMMA SkipRootKeeps == IInv /\ SkipRoot => IInv'
<1> SUFFICES ASSUME IInv, SkipRoot PROVE IInv'
  OBVIOUS
<1> USE DEF IInv
<1>1. /\ verdict = "pending" /\ UNCHANGED <<depends, state, path, iter, verdict>>
      /\ root' = root + 1 /\ root \in Nat \ {0} /\ state[MapOrder[root]] # NotVisited
  BY DEF SkipRoot, TypeOK
<1>2. TypeOK'
  BY <1>1 DEF TypeOK
<1>3. RootsSeen'
  <2> SUFFICES ASSUME NEW i \in 1..Len(MapOrder), i < root + 1
               PROVE  state[MapOrder[i]] # NotVisited
    BY <1>1 DEF RootsSeen
  <2>1. i < root \/ i = root
    BY <1>1
  <2> QED BY <1>1, <2>1 DEF RootsSeen
<1>4. /\ Chain' /\ PathReaches' /\ InProgressIsPath' /\ ScannedSoFar'
      /\ CheckedClosed' /\ CheckedAcyclic' /\ VerdictRight' /\ TraceIsCycle'
  BY <1>1 DEF Chain, PathReaches, InProgressIsPath, ScannedSoFar, CheckedClosed,
              CheckedAcyclic, CheckedTargets, VerdictRight, TraceIsCycle
<1> QED BY <1>1, <1>2, <1>3, <1>4

---------------------------------------------------------------------------
(* Every step of hasCycles keeps the search in order.                      *)
LEMMA NextIInv == IInv /\ [Next]_vars => IInv'
<1> SUFFICES ASSUME IInv, [Next]_vars PROVE IInv'
  OBVIOUS
<1>1. CASE EnterRoot
  BY <1>1, EnterRootKeeps
<1>2. CASE SkipRoot
  BY <1>2, SkipRootKeeps
<1>3. CASE SkipValue
  BY <1>3, StepKeeps DEF SkipValue
<1>4. CASE FoundCycle
  BY <1>4, FoundCycleKeeps
<1>5. CASE Descend
  BY <1>5, DescendKeeps
<1>6. CASE SkipChecked
  BY <1>6, StepKeeps DEF SkipChecked, CheckedTargets
<1>7. CASE Finish
  BY <1>7, FinishKeeps
<1>8. CASE ReturnFalse
  BY <1>8, ReturnFalseKeeps
<1>9. CASE UNCHANGED vars
  BY <1>9, SMTT(30) DEF vars, IInv, TypeOK, Chain, PathReaches, InProgressIsPath, ScannedSoFar,
              RootsSeen, CheckedClosed, CheckedAcyclic, CheckedTargets, VerdictRight, TraceIsCycle
<1> QED BY <1>1, <1>2, <1>3, <1>4, <1>5, <1>6, <1>7, <1>8, <1>9 DEF Next

(* While hasCycles runs its bookkeeping is in order, and its answer is     *)
(* right.                                                                  *)
THEOREM SearchInOrder == Spec => []IInv
BY InitIInv, NextIInv, PTL DEF Spec

(* The variables keep their types.                                         *)
THEOREM TypesHold == Spec => []TypeOK
<1>1. IInv => TypeOK
  BY DEF IInv
<1> QED BY <1>1, SearchInOrder, PTL

(* The trace hasCycles prints is a cycle of the graph.                     *)
THEOREM TraceHolds == Spec => []TraceIsCycle
<1>1. IInv => TraceIsCycle
  BY DEF IInv
<1> QED BY <1>1, SearchInOrder, PTL

(* hasCycles answers true on a graph with a cycle and false on one with    *)
(* none, whatever the graph.                                               *)
THEOREM AnswerIsRight == Spec => []VerdictRight
<1>1. IInv => VerdictRight
  BY DEF IInv
<1> QED BY <1>1, SearchInOrder, PTL

(* Seen from outside, hasCycles is the one decision of CycleVerdict: every *)
(* step but the last changes nothing its caller sees.                      *)
THEOREM ImplementsVerdict ==
  Spec => Abstract!Init /\ [][Abstract!Decide]_<<depends, verdict>>
<1>1. Init => Abstract!Init
  BY DEF Init, Abstract!Init
<1>2. IInv /\ IInv' /\ [Next]_vars => [Abstract!Decide]_<<depends, verdict>>
  <2> SUFFICES ASSUME IInv, IInv', [Next]_vars
               PROVE  [Abstract!Decide]_<<depends, verdict>>
    OBVIOUS
  <2>0. Abstract!Cyclic(depends) <=> Cyclic(depends)
    BY DEF Cyclic, Reaches, ClosedUnderDepends, DependsOn,
           Abstract!Cyclic, Abstract!Reaches, Abstract!ClosedUnderDepends, Abstract!DependsOn
  <2>1. CASE FoundCycle
    <3>1. verdict = "pending" /\ verdict' = "cyclic" /\ depends' = depends
      BY <2>1 DEF FoundCycle, AtElement, InCall
    <3>2. Cyclic(depends)
      BY <3>1 DEF IInv, VerdictRight
    <3> QED BY <2>0, <3>1, <3>2 DEF Abstract!Decide
  <2>2. CASE ReturnFalse
    <3>1. verdict = "pending" /\ verdict' = "acyclic" /\ depends' = depends
      BY <2>2 DEF ReturnFalse
    <3>2. ~Cyclic(depends)
      BY <3>1 DEF IInv, VerdictRight
    <3> QED BY <2>0, <3>1, <3>2 DEF Abstract!Decide
  <2>3. CASE ~FoundCycle /\ ~ReturnFalse
    BY <2>3 DEF Next, vars, EnterRoot, SkipRoot, SkipValue, Descend, SkipChecked, Finish
  <2> QED BY <2>1, <2>2, <2>3
<1> QED BY <1>1, <1>2, SearchInOrder, PTL DEF Spec
=============================================================================
