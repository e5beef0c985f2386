---------------------------- MODULE ScopesProofs ---------------------------
(***************************************************************************)
(* What is proved about one interpreter, for any names, targets, contexts  *)
(* and values, any nesting of blocks, calls and loops, and loops of any    *)
(* length.                                                                 *)
(***************************************************************************)
EXTENDS Scopes, FiniteSetTheorems, SequenceTheorems, WellFoundedInduction, TLAPS

---------------------------------------------------------------------------
(* The inductive invariant.  Each block has saved the place that the       *)
(* blocks below it determine, so leaving any of them, and a return leaves  *)
(* many at once, brings the interpreter back where it was.  Namespace and  *)
(* target blocks stand at the top level of a file only, so a call neither  *)
(* leaves a target nor a scope that belongs to no block.                   *)
Opened == NamespaceNames \cup Targets \cup [ctx : Contexts, name : FunctionNames]
          \cup SimpleNames
Block == [kind : {"namespace", "target", "call", "for"}, what : Opened, left : Int,
          ns : {<<>>} \cup NamespaceNames, ctx : Contexts, target : Targets \cup {NoTarget}]

PlaceIs(s, k, name, c, t) ==
  NamespaceIs(s, k, name) /\ ContextIs(s, k, c) /\ TargetIs(s, k, t)
SavedRight ==
  \A k \in DOMAIN stack :
    PlaceIs(stack, k - 1, stack[k].ns, stack[k].ctx, stack[k].target)
WhatIsOpen ==
  \A k \in DOMAIN stack : /\ stack[k].kind = "namespace" => stack[k].what \in NamespaceNames
                          /\ stack[k].kind = "for" => stack[k].what \in SimpleNames
TopLevelOnly ==
  \A k \in DOMAIN stack : stack[k].kind \in {"namespace", "target"} => k = 1
Scopeless == IF stack # <<>> /\ stack[1].kind = "namespace" THEN 1 ELSE 0

BlocksInOrder == stack \in Seq(Block) /\ SavedRight /\ WhatIsOpen /\ TopLevelOnly
PlaceInOrder ==
  /\ BlocksInOrder
  /\ PlaceIs(stack, Len(stack), ns, ctx, target)
  /\ Len(scopes) = 1 + Len(stack) - Scopeless
IInv == TypeOK /\ PlaceInOrder

---------------------------------------------------------------------------
(* The latest block of some kinds.                                         *)
LEMMA LatestIsNew ==
  ASSUME NEW s, NEW k \in Nat \ {0}, NEW kinds, s[k].kind \in kinds
  PROVE  Latest(s, k, kinds) = {k}
BY DEF Latest

LEMMA LatestIsOld ==
  ASSUME NEW s, NEW k \in Nat \ {0}, NEW kinds, s[k].kind \notin kinds
  PROVE  Latest(s, k, kinds) = Latest(s, k - 1, kinds)
BY DEF Latest

LEMMA LatestIsSame ==
  ASSUME NEW s, NEW r, NEW k \in Nat, NEW kinds, \A j \in 1..k : s[j].kind = r[j].kind
  PROVE  Latest(s, k, kinds) = Latest(r, k, kinds)
BY DEF Latest

LEMMA LatestIsIn ==
  ASSUME NEW s, NEW k \in Nat, NEW kinds
  PROVE  \A j \in Latest(s, k, kinds) : j \in 1..k /\ s[j].kind \in kinds
BY DEF Latest

(* What the first k blocks determine depends on nothing else.              *)
LEMMA PlaceIsSame ==
  ASSUME NEW s, NEW r, NEW k \in Nat, NEW name, NEW c, NEW t,
         \A j \in 1..k : s[j].kind = r[j].kind /\ s[j].what = r[j].what,
         PlaceIs(s, k, name, c, t)
  PROVE  PlaceIs(r, k, name, c, t)
<1>1. \A kinds : Latest(s, k, kinds) = Latest(r, k, kinds)
  BY LatestIsSame
<1>2. \A kinds : \A j \in Latest(s, k, kinds) : j \in 1..k
  BY LatestIsIn
<1>3. \A j \in 1..k : NamespaceIn(s[j]) = NamespaceIn(r[j])
  BY DEF NamespaceIn
<1>4. NamespaceIs(r, k, name)
  BY <1>1, <1>2, <1>3 DEF PlaceIs, NamespaceIs
<1>5. ContextIs(r, k, c)
  BY <1>1, <1>2 DEF PlaceIs, ContextIs
<1>6. TargetIs(r, k, t)
  BY <1>1, <1>2 DEF PlaceIs, TargetIs
<1> QED BY <1>4, <1>5, <1>6 DEF PlaceIs

(* A loop changes nothing about the place.                                 *)
LEMMA LoopIsNoPlace ==
  ASSUME NEW s, NEW k \in Nat \ {0}, s[k].kind = "for", NEW name, NEW c, NEW t
  PROVE  PlaceIs(s, k, name, c, t) <=> PlaceIs(s, k - 1, name, c, t)
<1>1. \A kinds : "for" \notin kinds => Latest(s, k, kinds) = Latest(s, k - 1, kinds)
  BY LatestIsOld
<1>2. /\ Latest(s, k, {"namespace", "call"}) = Latest(s, k - 1, {"namespace", "call"})
      /\ Latest(s, k, {"call"}) = Latest(s, k - 1, {"call"})
      /\ Latest(s, k, {"target"}) = Latest(s, k - 1, {"target"})
  BY <1>1
<1> QED BY <1>2 DEF PlaceIs, NamespaceIs, ContextIs, TargetIs

---------------------------------------------------------------------------
(* Opening and closing blocks.                                             *)
LEMMA Pushed ==
  ASSUME BlocksInOrder, TypeOK, PlaceIs(stack, Len(stack), ns, ctx, target),
         NEW kind \in {"namespace", "target", "call", "for"}, NEW what \in Opened,
         NEW left \in Int, Push(kind, what, left),
         kind = "namespace" => what \in NamespaceNames,
         kind = "for" => what \in SimpleNames,
         kind \in {"namespace", "target"} => stack = <<>>
  PROVE  /\ BlocksInOrder' /\ Len(stack') = Len(stack) + 1 /\ Len(stack') <= MaxStack
         /\ stack'[Len(stack')].kind = kind /\ stack'[Len(stack')].what = what
         /\ \A j \in DOMAIN stack : stack'[j] = stack[j]
         /\ Len(stack) \in Nat /\ DOMAIN stack = 1..Len(stack)
         /\ PlaceIs(stack', Len(stack), ns, ctx, target)
<1> DEFINE n == Len(stack)
           new == [kind |-> kind, what |-> what, left |-> left,
                   ns |-> ns, ctx |-> ctx, target |-> target]
<1>1. stack \in Seq(Block) /\ stack' = Append(stack, new) /\ n < MaxStack /\ MaxStack \in Nat
  BY BoundsAssumption DEF Push, BlocksInOrder
<1>2. new \in Block
  BY DEF TypeOK, Block
<1>3. n \in Nat /\ DOMAIN stack = 1..n /\ DOMAIN stack' = 1..(n + 1) /\ Len(stack') = n + 1
      /\ stack' \in Seq(Block) /\ stack'[n + 1] = new /\ \A j \in 1..n : stack'[j] = stack[j]
  BY <1>1, <1>2
<1> HIDE DEF new
<1>4. new.kind = kind /\ new.what = what /\ new.ns = ns /\ new.ctx = ctx /\ new.target = target
  BY DEF new
<1>5. PlaceIs(stack', n, ns, ctx, target)
  BY <1>3, PlaceIsSame
<1>6. SavedRight'
  <2> SUFFICES ASSUME NEW k \in DOMAIN stack'
               PROVE  PlaceIs(stack', k - 1, stack'[k].ns, stack'[k].ctx, stack'[k].target)
    BY DEF SavedRight
  <2>1. CASE k = n + 1
    BY <2>1, <1>3, <1>4, <1>5
  <2>2. CASE k \in 1..n
    <3>1. PlaceIs(stack, k - 1, stack[k].ns, stack[k].ctx, stack[k].target)
      BY <2>2, <1>3 DEF BlocksInOrder, SavedRight
    <3>2. k - 1 \in Nat /\ \A j \in 1..(k - 1) : stack'[j] = stack[j]
      BY <2>2, <1>3
    <3>3. PlaceIs(stack', k - 1, stack[k].ns, stack[k].ctx, stack[k].target)
      BY <3>1, <3>2, PlaceIsSame
    <3> QED BY <3>3, <2>2, <1>3
  <2> QED BY <2>1, <2>2, <1>3
<1>7. WhatIsOpen'
  BY <1>3, <1>4 DEF BlocksInOrder, WhatIsOpen
<1>8. TopLevelOnly'
  <2>1. stack = <<>> => n = 0
    OBVIOUS
  <2> QED BY <2>1, <1>3, <1>4 DEF BlocksInOrder, TopLevelOnly
<1> QED BY <1>1, <1>3, <1>4, <1>5, <1>6, <1>7, <1>8 DEF BlocksInOrder

LEMMA Cut ==
  ASSUME BlocksInOrder, NEW m \in 0..Len(stack), stack' = SubSeq(stack, 1, m),
         NEW name, NEW c, NEW t, PlaceIs(stack, m, name, c, t)
  PROVE  /\ BlocksInOrder' /\ Len(stack') = m
         /\ PlaceIs(stack', Len(stack'), name, c, t)
         /\ \A j \in 1..m : stack'[j] = stack[j]
<1>1. stack \in Seq(Block) /\ Len(stack) \in Nat /\ m \in Nat /\ DOMAIN stack = 1..Len(stack)
  BY DEF BlocksInOrder
<1>2. stack' \in Seq(Block) /\ Len(stack') = m /\ DOMAIN stack' = 1..m
      /\ \A j \in 1..m : stack'[j] = stack[j] /\ j \in DOMAIN stack
  BY <1>1
<1>3. PlaceIs(stack', m, name, c, t)
  BY <1>1, <1>2, PlaceIsSame
<1>4. SavedRight'
  <2> SUFFICES ASSUME NEW k \in DOMAIN stack'
               PROVE  PlaceIs(stack', k - 1, stack'[k].ns, stack'[k].ctx, stack'[k].target)
    BY DEF SavedRight
  <2>1. PlaceIs(stack, k - 1, stack[k].ns, stack[k].ctx, stack[k].target)
    BY <1>2 DEF BlocksInOrder, SavedRight
  <2>2. k - 1 \in Nat /\ \A j \in 1..(k - 1) : stack'[j] = stack[j]
    BY <1>2
  <2>3. PlaceIs(stack', k - 1, stack[k].ns, stack[k].ctx, stack[k].target)
    BY <2>1, <2>2, PlaceIsSame
  <2> QED BY <2>3, <1>2
<1>5. WhatIsOpen' /\ TopLevelOnly'
  BY <1>2 DEF BlocksInOrder, WhatIsOpen, TopLevelOnly
<1> QED BY <1>2, <1>3, <1>4, <1>5 DEF BlocksInOrder

---------------------------------------------------------------------------
(* Tables, and the scope a name is found in.                               *)
LEMMA LargestExists ==
  ASSUME NEW n \in Nat, NEW S \in SUBSET (1..n), S # {}
  PROVE  \E k \in S : \A j \in S : j <= k
<1> DEFINE above(k) == {j \in S : j > k}
           R == StrictSubsetOrdering(1..n)
           T == {above(k) : k \in S}
<1>1. \A U \in SUBSET (1..n) : IsFiniteSet(U)
  <2>1. IsFiniteSet(1..n)
    BY FS_Interval
  <2> QED BY <2>1, FS_Subset
<1>2. T \subseteq FiniteSubsetsOf(1..n) /\ T # {}
  BY <1>1 DEF FiniteSubsetsOf
<1>3. IsWellFoundedOn(R, FiniteSubsetsOf(1..n))
  BY FS_StrictSubsetOrderingWellFounded
<1>4. PICK x \in T : \A y \in T : ~ (<<y, x>> \in R)
  <2> HIDE DEF T, R
  <2> QED BY <1>2, <1>3, WFMin
<1>5. PICK k \in S : x = above(k)
  BY <1>4
<1>6. \A j \in S : j <= k
  <2> SUFFICES ASSUME NEW j \in S, j > k PROVE FALSE
    BY <1>5
  <2>0. S \subseteq Int /\ j \in Int /\ k \in Int
    OBVIOUS
  <2>1. above(j) \subseteq above(k) /\ j \in above(k) /\ j \notin above(j)
    <3>1. \A i \in S : i > j => i > k
      BY <2>0
    <3>2. ~(j > j)
      BY <2>0
    <3> QED BY <3>1, <3>2, Zenon
  <2>2. above(j) \in SUBSET (1..n) /\ above(k) \in SUBSET (1..n) /\ above(j) # above(k)
    BY <2>1
  <2>3. <<above(j), above(k)>> \in R
    BY <2>1, <2>2 DEF StrictSubsetOrdering
  <2> QED BY <2>3, <1>4, <1>5
<1> QED BY <1>5, <1>6

LEMMA PutIsTable ==
  ASSUME NEW table \in Tables, NEW name \in VariableNames, NEW v \in Values
  PROVE  Put(table, name, v) \in Tables
<1>1. PICK names \in SUBSET VariableNames : table \in [names -> Values]
  BY DEF Tables
<1>2. names \cup {name} \in SUBSET VariableNames
  BY <1>1
<1>3. Put(table, name, v) \in [names \cup {name} -> Values]
  BY <1>1 DEF Put
<1> QED BY <1>2, <1>3 DEF Tables

LEMMA PutIn ==
  ASSUME NEW table, NEW name, NEW v
  PROVE  /\ DOMAIN Put(table, name, v) = DOMAIN table \cup {name}
         /\ Put(table, name, v)[name] = v
BY DEF Put

LEMMA EmptyIsTable == Empty \in Tables /\ DOMAIN Empty = {}
<1>1. DOMAIN Empty = {} /\ Empty \in [{} -> Values]
  BY DEF Empty
<1>2. {} \in SUBSET VariableNames
  OBVIOUS
<1> QED BY <1>1, <1>2 DEF Tables

LEMMA TableHasNames ==
  ASSUME NEW table \in Tables
  PROVE  DOMAIN table \subseteq VariableNames /\ \A name \in DOMAIN table : table[name] \in Values
BY DEF Tables

LEMMA ScopeIsTable ==
  ASSUME TypeOK
  PROVE  /\ DOMAIN scopes = 1..Len(scopes) /\ Len(scopes) \in Nat
         /\ \A i \in DOMAIN scopes : scopes[i] \in Tables
BY DEF TypeOK

(* The nearest scope with one of the names, if there is any.               *)
LEMMA NearestHolds ==
  ASSUME TypeOK, NEW names, Holding(names) # {}
  PROVE  /\ Nearest(names) \in DOMAIN scopes /\ Has(scopes[Nearest(names)], names)
         /\ \A j \in Holding(names) : j <= Nearest(names)
<1>1. Holding(names) \in SUBSET (1..Len(scopes)) /\ Len(scopes) \in Nat
  BY ScopeIsTable DEF Holding
<1>2. \E k \in Holding(names) : \A j \in Holding(names) : j <= k
  BY <1>1, LargestExists
<1>3. Nearest(names) \in Holding(names) /\ \A j \in Holding(names) : j <= Nearest(names)
  BY <1>2 DEF Nearest
<1> QED BY <1>3 DEF Holding

(* Of one or two names, the first one the table has.                       *)
LEMMA FirstIsIn ==
  ASSUME NEW table, NEW a, NEW b, NEW names \in {<<a>>, <<a, b>>}, Has(table, names)
  PROVE  FirstIn(table, names) \in DOMAIN table
<1> DEFINE first(k) == /\ names[k] \in DOMAIN table
                       /\ \A j \in 1..(k - 1) : names[j] \notin DOMAIN table
<1>1. \E k \in DOMAIN names : first(k)
  <2>1. CASE names = <<a>>
    BY <2>1 DEF Has
  <2>2. CASE names = <<a, b>>
    <3>1. DOMAIN names = {1, 2}
      BY <2>2
    <3>2. 1..(1 - 1) = {} /\ 1..(2 - 1) = {1}
      OBVIOUS
    <3>3. CASE names[1] \in DOMAIN table
      BY <3>1, <3>2, <3>3
    <3>4. CASE names[1] \notin DOMAIN table
      <4>1. names[2] \in DOMAIN table
        BY <3>1, <3>4 DEF Has
      <4> QED BY <4>1, <3>1, <3>2, <3>4
    <3> QED BY <3>3, <3>4
  <2> QED BY <2>1, <2>2
<1>2. first(CHOOSE k \in DOMAIN names : first(k))
  BY <1>1
<1> QED BY <1>2 DEF FirstIn

LEMMA CandidatesAre ==
  ASSUME NEW name
  PROVE  \E a, b : Candidates(name) \in {<<a>>, <<a, b>>}
BY DEF Candidates

LEMMA PairOfNames ==
  ASSUME NEW a, NEW b
  PROVE  <<a>> \o <<b>> = <<a, b>>
<1>1. <<a>> \in Seq({a, b}) /\ <<b>> \in Seq({a, b}) /\ <<a, b>> \in Seq({a, b})
  OBVIOUS
<1>2. <<a>> \o <<b>> \in Seq({a, b}) /\ Len(<<a>> \o <<b>>) = 2
      /\ (<<a>> \o <<b>>)[1] = a /\ (<<a>> \o <<b>>)[2] = b
  BY <1>1, ConcatProperties
<1>3. Len(<<a, b>>) = 2 /\ <<a, b>>[1] = a /\ <<a, b>>[2] = b
  OBVIOUS
<1>4. \A i \in 1..2 : (<<a>> \o <<b>>)[i] = <<a, b>>[i]
  <2>1. \A i \in 1..2 : i = 1 \/ i = 2
    OBVIOUS
  <2> QED BY <2>1, <1>2, <1>3
<1> DEFINE joined == <<a>> \o <<b>>
           pair == <<a, b>>
<1>5. joined \in Seq({a, b}) /\ pair \in Seq({a, b}) /\ Len(joined) = 2 /\ Len(pair) = 2
  BY <1>1, <1>2, <1>3
<1> QED
  <2>1. \A i \in 1..Len(joined) : joined[i] = pair[i]
    BY <1>4, <1>5
  <2> HIDE DEF joined, pair
  <2>2. joined = pair
    BY <1>5, <2>1, SeqEqual
  <2> QED BY <2>2 DEF joined, pair

(* A name a script writes, with the prefix of the namespace or without.    *)
LEMMA PrefixedIsName ==
  ASSUME TypeOK, NEW name \in VariableNames
  PROVE  Prefixed(name) \in VariableNames
<1>1. CASE Prefixed(name) = name
  BY <1>1
<1>2. CASE Prefixed(name) # name
  <2>1. ns # <<>> /\ Len(name) = 1 /\ Prefixed(name) = ns \o name
    BY <1>2 DEF Prefixed
  <2>2. PICK n \in Namespaces : ns = <<n>>
    BY <2>1 DEF TypeOK, NamespaceNames
  <2>3. PICK x \in Ids : name = <<x>>
    BY <2>1 DEF VariableNames, SimpleNames, QualifiedNames
  <2>4. Prefixed(name) = <<n, x>>
    <3>1. <<n>> \o <<x>> = <<n, x>>
      BY PairOfNames
    <3> QED BY <3>1, <2>1, <2>2, <2>3
  <2> QED BY <2>4 DEF VariableNames, QualifiedNames
<1> QED BY <1>1, <1>2

LEMMA PutAtKeepsTables ==
  ASSUME TypeOK, NEW i, NEW name, NEW v \in Values,
         i \in DOMAIN scopes => name \in VariableNames
  PROVE  /\ PutAt(i, name, v) \in Seq(Tables) /\ Len(PutAt(i, name, v)) = Len(scopes)
         /\ \A j \in DOMAIN scopes :
              PutAt(i, name, v)[j] = IF j = i THEN Put(scopes[i], name, v) ELSE scopes[j]
<1>1. \A j \in DOMAIN scopes : scopes[j] \in Tables
  BY ScopeIsTable
<1>2. i \in DOMAIN scopes => Put(scopes[i], name, v) \in Tables
  BY <1>1, PutIsTable
<1>3. scopes \in Seq(Tables)
  BY DEF TypeOK
<1> DEFINE new == Put(scopes[i], name, v)
<1>4. PutAt(i, name, v) = [scopes EXCEPT ![i] = new]
  BY DEF PutAt
<1>5. i \in DOMAIN scopes => new \in Tables
  BY <1>2
<1> HIDE DEF new
<1>6. /\ [scopes EXCEPT ![i] = new] \in Seq(Tables)
      /\ Len([scopes EXCEPT ![i] = new]) = Len(scopes)
  <2>1. CASE i \in DOMAIN scopes
    <3>1. i \in 1..Len(scopes) /\ new \in Tables
      BY <2>1, <1>3, <1>5
    <3> QED BY <3>1, <1>3, ExceptSeq
  <2>2. CASE i \notin DOMAIN scopes
    <3>1. [scopes EXCEPT ![i] = new] = scopes
      BY <2>2, <1>3
    <3> QED BY <3>1, <1>3
  <2> QED BY <2>1, <2>2
<1>7. \A j \in DOMAIN scopes :
        [scopes EXCEPT ![i] = new][j] = IF j = i THEN new ELSE scopes[j]
  BY <1>3
<1> QED BY <1>4, <1>6, <1>7 DEF new

---------------------------------------------------------------------------
(* The place, one block further in, and one further out.                   *)
LEMMA PlaceInside ==
  ASSUME NEW s, NEW k \in Nat \ {0}, NEW name, NEW c, NEW t, PlaceIs(s, k - 1, name, c, t),
         NEW name1, NEW c1, NEW t1,
         name1 = IF s[k].kind \in {"namespace", "call"} THEN NamespaceIn(s[k]) ELSE name,
         c1 = IF s[k].kind = "call" THEN s[k].what.ctx ELSE c,
         t1 = IF s[k].kind = "target" THEN s[k].what ELSE t
  PROVE  PlaceIs(s, k, name1, c1, t1)
<1>1. \A kinds : IF s[k].kind \in kinds THEN Latest(s, k, kinds) = {k}
                 ELSE Latest(s, k, kinds) = Latest(s, k - 1, kinds)
  BY LatestIsNew, LatestIsOld
<1>2. NamespaceIs(s, k, name1)
  <2>1. CASE s[k].kind \in {"namespace", "call"}
    BY <2>1, <1>1 DEF NamespaceIs
  <2>2. CASE s[k].kind \notin {"namespace", "call"}
    BY <2>2, <1>1 DEF NamespaceIs, PlaceIs
  <2> QED BY <2>1, <2>2
<1>3. ContextIs(s, k, c1)
  <2>1. CASE s[k].kind = "call"
    BY <2>1, <1>1 DEF ContextIs
  <2>2. CASE s[k].kind # "call"
    BY <2>2, <1>1 DEF ContextIs, PlaceIs
  <2> QED BY <2>1, <2>2
<1>4. TargetIs(s, k, t1)
  <2>1. CASE s[k].kind = "target"
    BY <2>1, <1>1 DEF TargetIs
  <2>2. CASE s[k].kind # "target"
    BY <2>2, <1>1 DEF TargetIs, PlaceIs
  <2> QED BY <2>1, <2>2
<1> QED BY <1>2, <1>3, <1>4 DEF PlaceIs

LEMMA PlaceOutside ==
  ASSUME NEW s, NEW k \in Nat \ {0}, NEW name, NEW c, NEW t, PlaceIs(s, k, name, c, t),
         NEW name0, NEW c0, NEW t0, PlaceIs(s, k - 1, name0, c0, t0)
  PROVE  /\ s[k].kind \notin {"namespace", "call"} => NamespaceIs(s, k - 1, name)
         /\ s[k].kind # "call" => ContextIs(s, k - 1, c)
         /\ s[k].kind # "target" => TargetIs(s, k - 1, t)
         /\ NamespaceIs(s, k - 1, name0) /\ ContextIs(s, k - 1, c0) /\ TargetIs(s, k - 1, t0)
<1>1. \A kinds : s[k].kind \notin kinds => Latest(s, k, kinds) = Latest(s, k - 1, kinds)
  BY LatestIsOld
<1> QED BY <1>1 DEF PlaceIs, NamespaceIs, ContextIs, TargetIs

(* A function is defined in a namespace block only.                        *)
LEMMA InsideIsNamespace ==
  ASSUME IInv, InNamespace
  PROVE  ns \in NamespaceNames
<1> DEFINE n == Len(stack)
<1>1. n \in Nat \ {0} /\ n \in DOMAIN stack /\ stack[n].kind = "namespace"
  BY DEF InNamespace, IInv, PlaceInOrder, BlocksInOrder
<1>2. Latest(stack, n, {"namespace", "call"}) = {n}
  BY <1>1, LatestIsNew
<1>3. ns = stack[n].what
  BY <1>1, <1>2 DEF IInv, PlaceInOrder, PlaceIs, NamespaceIs, NamespaceIn
<1> QED BY <1>1, <1>3 DEF IInv, PlaceInOrder, BlocksInOrder, WhatIsOpen

LEMMA FunctionNameIs ==
  ASSUME NEW name \in FunctionNames
  PROVE  SubSeq(name, 1, Len(name) - 1) \in NamespaceNames
<1>1. PICK n \in Namespaces, f \in Functions : name = <<n, f>>
  BY DEF FunctionNames
<1>2. name \in Seq({n, f}) /\ Len(name) = 2 /\ name[1] = n
  BY <1>1
<1> DEFINE first == SubSeq(name, 1, 1)
<1>3. first \in Seq({n, f}) /\ Len(first) = 1 /\ first[1] = n
  BY <1>2
<1> HIDE DEF first
<1>4. <<n>> \in Seq({n, f}) /\ Len(<<n>>) = 1 /\ <<n>>[1] = n
  OBVIOUS
<1>5. \A i \in 1..Len(first) : first[i] = <<n>>[i]
  BY <1>3, <1>4
<1>6. first = <<n>>
  BY <1>3, <1>4, <1>5, SeqEqual
<1> QED BY <1>2, <1>6 DEF first, NamespaceNames

---------------------------------------------------------------------------
(* Statements leave the place alone.                                       *)
LEMMA StillPlaced ==
  ASSUME PlaceInOrder, UNCHANGED <<place, stack>>, Len(scopes') = Len(scopes)
  PROVE  PlaceInOrder'
<1>1. ns' = ns /\ ctx' = ctx /\ target' = target /\ stack' = stack
  BY DEF place
<1>2. BlocksInOrder'
  BY <1>1 DEF PlaceInOrder, BlocksInOrder, SavedRight, WhatIsOpen, TopLevelOnly
<1>3. Scopeless' = Scopeless
  BY <1>1 DEF Scopeless
<1> QED BY <1>1, <1>2, <1>3 DEF PlaceInOrder

LEMMA ImportKeeps ==
  ASSUME IInv, NEW x \in Ids, NEW c \in Contexts, Import(x, c)
  PROVE  IInv'
<1>1. PlaceInOrder'
  BY StillPlaced DEF IInv, Import
<1>2. <<x>> \in SimpleNames /\ \A table : DOMAIN Put(table, <<x>>, c) = DOMAIN table \cup {<<x>>}
  BY PutIn DEF SimpleNames
<1>3. DOMAIN globals' = Contexts
      /\ \A k \in Contexts : DOMAIN globals'[k] \subseteq SimpleNames \cup DOMAIN Predefined
  <2>1. DOMAIN globals' = Contexts
        /\ \A k \in Contexts :
             globals'[k] = IF k = ctx THEN Put(globals[ctx], <<x>>, c) ELSE globals[k]
    BY DEF IInv, TypeOK, Import
  <2>2. \A k \in Contexts : DOMAIN globals[k] \subseteq SimpleNames \cup DOMAIN Predefined
    BY DEF IInv, TypeOK
  <2> QED BY <1>2, <2>1, <2>2, ZenonT(30)
<1>4. TypeOK'
  BY <1>3 DEF IInv, TypeOK, Import, place
<1> QED BY <1>1, <1>4 DEF IInv

LEMMA DefineFunctionKeeps ==
  ASSUME IInv, NEW f \in Functions, DefineFunction(f)
  PROVE  IInv'
<1>1. PlaceInOrder'
  BY StillPlaced DEF IInv, DefineFunction
<1>2. PICK n \in Namespaces : ns = <<n>>
  BY InsideIsNamespace DEF DefineFunction, NamespaceNames
<1>3. ns \o <<f>> \in FunctionNames
  BY <1>2, PairOfNames DEF FunctionNames
<1>4. functions' \in [Contexts -> SUBSET FunctionNames]
  BY <1>3 DEF IInv, TypeOK, DefineFunction
<1>5. TypeOK'
  BY <1>4 DEF IInv, TypeOK, DefineFunction, place
<1> QED BY <1>1, <1>5 DEF IInv

(* One table of a target is put into, and the scopes at one place.         *)
LEMMA PropertyKeeps ==
  ASSUME TypeOK, target # NoTarget, NEW name \in VariableNames, NEW v \in Values,
         props' = [props EXCEPT ![target] = Put(@, name, v)]
  PROVE  props' \in [Targets -> Tables]
BY PutIsTable DEF TypeOK

LEMMA DeclareKeeps ==
  ASSUME IInv, NEW x \in Ids, NEW v \in Assigned, Declare(x, v)
  PROVE  IInv'
<1>1. v \in Values /\ Prefixed(<<x>>) \in VariableNames
  BY AssignedAssumption, PrefixedIsName DEF IInv, Values, VariableNames, SimpleNames
<1>2. scopes' \in Seq(Tables) /\ Len(scopes') = Len(scopes)
  BY <1>1, PutAtKeepsTables DEF IInv, Declare, PutTop
<1>3. props' \in [Targets -> Tables]
  BY <1>1, PropertyKeeps DEF IInv, Declare, TypeOK
<1>4. PlaceInOrder'
  BY <1>2, StillPlaced DEF IInv, Declare
<1> QED BY <1>2, <1>3, <1>4 DEF IInv, TypeOK, Declare, place

LEMMA AssignPropertyKeeps ==
  ASSUME IInv, NEW name \in QualifiedNames, NEW v \in Plain, AssignProperty(name, v)
  PROVE  IInv'
<1>1. v \in Values /\ name \in VariableNames
  BY DEF Values, VariableNames
<1>2. props' \in [Targets -> Tables]
  BY <1>1, PropertyKeeps DEF IInv, AssignProperty
<1>3. PlaceInOrder'
  BY StillPlaced DEF IInv, AssignProperty
<1> QED BY <1>2, <1>3 DEF IInv, TypeOK, AssignProperty, place

LEMMA AddToPropertyKeeps ==
  ASSUME IInv, NEW name \in VariableNames, NEW v \in Plain, AddToProperty(name, v)
  PROVE  IInv'
<1>1. v \in Values /\ Prefixed(name) \in VariableNames
  BY PrefixedIsName DEF IInv, Values
<1>2. props' \in [Targets -> Tables]
  BY <1>1, PropertyKeeps DEF IInv, AddToProperty
<1>3. PlaceInOrder'
  BY StillPlaced DEF IInv, AddToProperty
<1> QED BY <1>2, <1>3 DEF IInv, TypeOK, AddToProperty, place

LEMMA AssignVariableKeeps ==
  ASSUME IInv, NEW name \in QualifiedNames, NEW v \in Plain, AssignVariable(name, v)
  PROVE  IInv'
<1>1. v \in Values /\ name \in VariableNames
  BY DEF Values, VariableNames
<1>2. scopes' \in Seq(Tables) /\ Len(scopes') = Len(scopes)
  BY <1>1, PutAtKeepsTables DEF IInv, AssignVariable, PutTop
<1>3. PlaceInOrder'
  BY <1>2, StillPlaced DEF IInv, AssignVariable
<1> QED BY <1>2, <1>3 DEF IInv, TypeOK, AssignVariable, place

(* += finds a variable that is there.                                      *)
LEMMA AddedIsThere ==
  ASSUME TypeOK, NEW name, Holding(Candidates(name)) # {}
  PROVE  LET i == Nearest(Candidates(name))
         IN i \in DOMAIN scopes /\ FirstIn(scopes[i], Candidates(name)) \in DOMAIN scopes[i]
BY NearestHolds, CandidatesAre, FirstIsIn

LEMMA AddToVariableKeeps ==
  ASSUME IInv, NEW name \in VariableNames, NEW v \in Plain, AddToVariable(name, v)
  PROVE  IInv'
<1> DEFINE names == Candidates(Prefixed(name))
           i == Nearest(names)
           key == FirstIn(scopes[i], names)
<1>1. v \in Values /\ Holding(names) # {} /\ scopes' = PutAt(i, key, v)
  BY DEF Values, AddToVariable
<1>2. i \in DOMAIN scopes /\ key \in DOMAIN scopes[i]
  BY <1>1, AddedIsThere DEF IInv
<1>3. key \in VariableNames
  BY <1>2, ScopeIsTable, TableHasNames DEF IInv
<1> HIDE DEF names, i, key
<1>4. scopes' \in Seq(Tables) /\ Len(scopes') = Len(scopes)
  BY <1>1, <1>3, PutAtKeepsTables DEF IInv
<1>5. PlaceInOrder'
  BY <1>4, StillPlaced DEF IInv, AddToVariable
<1> QED BY <1>4, <1>5 DEF IInv, TypeOK, AddToVariable, place

---------------------------------------------------------------------------
(* Blocks, calls and loops: what they open ...                             *)
LEMMA ScopelessStays ==
  ASSUME stack \in Seq(Block), stack' \in Seq(Block), stack' # <<>>,
         stack = <<>> => stack'[1].kind # "namespace",
         stack # <<>> => stack'[1].kind = stack[1].kind
  PROVE  Scopeless' = Scopeless
BY DEF Scopeless

LEMMA EnterNamespaceKeeps ==
  ASSUME IInv, NEW n \in Namespaces, EnterNamespace(n)
  PROVE  IInv'
<1>1. /\ <<n>> \in NamespaceNames /\ <<n>> \in Opened /\ Push("namespace", <<n>>, 0)
      /\ stack = <<>> /\ Len(stack) = 0 /\ scopes' = scopes
  BY DEF NamespaceNames, Opened, EnterNamespace, AtTop
<1>2. /\ BlocksInOrder' /\ Len(stack') = 1 /\ Len(stack') <= MaxStack
      /\ stack'[1].kind = "namespace" /\ stack'[1].what = <<n>>
      /\ PlaceIs(stack', 0, ns, ctx, target)
  BY <1>1, Pushed DEF IInv, PlaceInOrder
<1>3. ns' = <<n>>
  <2>1. Latest(stack, 0, {"namespace", "call"}) = {}
    BY DEF Latest
  <2>2. ns = <<>>
    BY <1>1, <2>1 DEF IInv, PlaceInOrder, PlaceIs, NamespaceIs
  <2>3. <<>> \o <<n>> = <<n>>
    OBVIOUS
  <2> QED BY <2>2, <2>3 DEF EnterNamespace
<1>4. PlaceIs(stack', 1, ns', ctx', target')
  <2>1. ns' = NamespaceIn(stack'[1])
    BY <1>2, <1>3 DEF NamespaceIn
  <2>2. ctx' = ctx /\ target' = target
    BY DEF EnterNamespace
  <2> QED BY <1>2, <2>1, <2>2, PlaceInside
<1>5. stack' # <<>> /\ Scopeless' = 1 /\ Scopeless = 0
  <2>1. stack' \in Seq(Block)
    BY <1>2 DEF BlocksInOrder
  <2>2. stack' # <<>>
    BY <1>2, <2>1, SMTT(30)
  <2> QED BY <1>1, <1>2, <2>2 DEF Scopeless
<1>6. PlaceInOrder'
  BY <1>1, <1>2, <1>4, <1>5 DEF PlaceInOrder, IInv
<1> QED BY <1>1, <1>2, <1>3, <1>6 DEF IInv, TypeOK, EnterNamespace

(* ... one scope each, except a namespace.                                 *)
LEMMA ScopeOpened ==
  ASSUME IInv, NEW kind \in {"target", "call", "for"}, NEW what \in Opened, NEW left \in Int,
         Push(kind, what, left), kind = "for" => what \in SimpleNames,
         kind = "target" => stack = <<>>,
         NEW table \in Tables, scopes' = Append(scopes, table),
         ns' = IF kind = "call" THEN SubSeq(what.name, 1, Len(what.name) - 1) ELSE ns,
         ctx' = IF kind = "call" THEN what.ctx ELSE ctx,
         target' = IF kind = "target" THEN what ELSE target
  PROVE  PlaceInOrder' /\ scopes' \in Seq(Tables) /\ Len(stack') <= MaxStack
<1> DEFINE k == Len(stack) + 1
<1>1. /\ BlocksInOrder' /\ Len(stack') = k /\ Len(stack') <= MaxStack
      /\ stack'[k].kind = kind /\ stack'[k].what = what
      /\ \A j \in DOMAIN stack : stack'[j] = stack[j]
      /\ Len(stack) \in Nat /\ DOMAIN stack = 1..Len(stack)
      /\ PlaceIs(stack', k - 1, ns, ctx, target)
  BY Pushed DEF IInv, PlaceInOrder
<1>2. k \in Nat \ {0}
  BY <1>1
<1>3. PlaceIs(stack', k, ns', ctx', target')
  <2> HIDE DEF k
  <2>1. kind = "call" => NamespaceIn(stack'[k]) = SubSeq(what.name, 1, Len(what.name) - 1)
    BY <1>1 DEF NamespaceIn
  <2>2. /\ ns' = IF stack'[k].kind \in {"namespace", "call"} THEN NamespaceIn(stack'[k]) ELSE ns
        /\ ctx' = IF stack'[k].kind = "call" THEN stack'[k].what.ctx ELSE ctx
        /\ target' = IF stack'[k].kind = "target" THEN stack'[k].what ELSE target
    BY <1>1, <2>1
  <2> QED BY <1>1, <1>2, <2>2, PlaceInside
<1>4. Scopeless' = Scopeless
  <2>1. stack \in Seq(Block) /\ stack' \in Seq(Block)
    BY <1>1 DEF BlocksInOrder, IInv, PlaceInOrder
  <2>2. stack' # <<>>
    BY <1>1, <2>1
  <2>3. stack = <<>> => stack'[1].kind # "namespace"
    BY <1>1, <2>1
  <2>4. stack # <<>> => stack'[1].kind = stack[1].kind
    BY <1>1, <2>1, SMTT(30)
  <2> QED BY <2>1, <2>2, <2>3, <2>4, ScopelessStays
<1>5. scopes' \in Seq(Tables) /\ Len(scopes') = Len(scopes) + 1 /\ Len(scopes) \in Nat
  BY DEF IInv, TypeOK
<1>6. Scopeless \in {0, 1}
  BY DEF Scopeless
<1> QED BY <1>1, <1>3, <1>4, <1>5, <1>6 DEF PlaceInOrder, IInv

LEMMA EnterTargetKeeps ==
  ASSUME IInv, NEW t \in Targets, EnterTarget(t)
  PROVE  IInv'
<1>1. /\ t \in Opened /\ Push("target", t, 0) /\ stack = <<>>
      /\ scopes' = Append(scopes, Empty) /\ Empty \in Tables
      /\ ns' = ns /\ ctx' = ctx /\ target' = t
  BY EmptyIsTable DEF Opened, EnterTarget, AtTop
<1>2. PlaceInOrder' /\ scopes' \in Seq(Tables) /\ Len(stack') <= MaxStack
  BY <1>1, ScopeOpened
<1> QED BY <1>1, <1>2 DEF IInv, TypeOK, EnterTarget

LEMMA ParamsAreTables ==
  ASSUME NEW params \in Params
  PROVE  params \in Tables /\ DOMAIN params \subseteq SimpleNames
<1>1. CASE params = Empty
  BY <1>1, EmptyIsTable
<1>2. ASSUME NEW name \in SimpleNames, NEW v \in Plain, params = Put(Empty, name, v)
      PROVE  params \in Tables /\ DOMAIN params \subseteq SimpleNames
  <2>1. name \in VariableNames /\ v \in Values /\ Empty \in Tables /\ DOMAIN Empty = {}
    BY EmptyIsTable DEF VariableNames, Values
  <2>2. params \in Tables
    BY <1>2, <2>1, PutIsTable
  <2>3. DOMAIN params = {} \cup {name}
    BY <1>2, <2>1, PutIn
  <2> QED BY <2>2, <2>3
<1> QED BY <1>1, <1>2 DEF Params

LEMMA CalleeIs ==
  ASSUME TypeOK, NEW q, NEW f \in Callee(q)
  PROVE  f \in [ctx : Contexts, name : FunctionNames]
<1> DEFINE base == Resolve(<<Head(q)>>)
<1>1. ctx \in Contexts /\ \A c \in Contexts : functions[c] \subseteq FunctionNames
  BY DEF TypeOK
<1>2. CASE Len(q) > 1 /\ base \in Contexts /\ Tail(q) \in functions[base]
  <2>1. f = [ctx |-> base, name |-> Tail(q)]
    BY <1>2 DEF Callee
  <2> QED BY <2>1, <1>1, <1>2
<1>3. CASE ~ (Len(q) > 1 /\ base \in Contexts /\ Tail(q) \in functions[base])
  <2>1. f \in [ctx : {ctx}, name : functions[ctx]]
    BY <1>3 DEF Callee
  <2> QED BY <2>1, <1>1
<1> QED BY <1>2, <1>3

LEMMA CallKeeps ==
  ASSUME IInv, NEW q \in CallNames, NEW params \in Params, Call(q, params)
  PROVE  IInv'
<1>1. PICK f \in Callee(q) : /\ Push("call", f, 0) /\ ctx' = f.ctx
                            /\ ns' = SubSeq(f.name, 1, Len(f.name) - 1)
  BY DEF Call
<1>2. f \in [ctx : Contexts, name : FunctionNames] /\ f \in Opened
  BY CalleeIs DEF Opened, IInv
<1>3. scopes' = Append(scopes, params) /\ params \in Tables /\ target' = target
  BY ParamsAreTables DEF Call
<1>4. PlaceInOrder' /\ scopes' \in Seq(Tables) /\ Len(stack') <= MaxStack
  BY <1>1, <1>2, <1>3, ScopeOpened
<1>5. ns' \in NamespaceNames /\ ctx' \in Contexts
  BY <1>1, <1>2, FunctionNameIs
<1> QED BY <1>3, <1>4, <1>5 DEF IInv, TypeOK, Call

LEMMA OneName ==
  ASSUME NEW name \in SimpleNames, NEW v \in Plain
  PROVE  Put(Empty, name, v) \in Tables
BY EmptyIsTable, PutIsTable DEF VariableNames, Values

LEMMA EnterLoopKeeps ==
  ASSUME IInv, NEW n \in 1..MaxLoop, NEW x \in Ids, NEW v \in Plain, EnterLoop(n, x, v)
  PROVE  IInv'
<1>1. /\ <<x>> \in SimpleNames /\ <<x>> \in Opened /\ n - 1 \in Int
      /\ Push("for", <<x>>, n - 1)
  BY DEF SimpleNames, Opened, EnterLoop
<1>2. Put(Empty, <<x>>, v) \in Tables /\ scopes' = Append(scopes, Put(Empty, <<x>>, v))
  BY <1>1, OneName DEF EnterLoop
<1>3. ns' = ns /\ ctx' = ctx /\ target' = target
  BY DEF EnterLoop, place
<1>4. PlaceInOrder' /\ scopes' \in Seq(Tables) /\ Len(stack') <= MaxStack
  BY <1>1, <1>2, <1>3, ScopeOpened
<1> QED BY <1>3, <1>4 DEF IInv, TypeOK, EnterLoop

LEMMA NextElementKeeps ==
  ASSUME IInv, NEW v \in Plain, NextElement(v)
  PROVE  IInv'
<1> DEFINE n == Len(stack)
           table == Put(Empty, Top.what, v)
<1>1. stack \in Seq(Block) /\ n \in Nat \ {0} /\ n \in DOMAIN stack /\ stack[n].kind = "for"
  BY DEF IInv, PlaceInOrder, BlocksInOrder, NextElement, Leaving, Top
<1>2. table \in Tables
  BY <1>1, OneName DEF Top, IInv, PlaceInOrder, BlocksInOrder, WhatIsOpen
<1>3. Len(scopes) \in Nat \ {0} /\ scopes \in Seq(Tables)
  BY <1>1 DEF IInv, TypeOK, PlaceInOrder, Scopeless
<1>4. scopes' \in Seq(Tables) /\ Len(scopes') = Len(scopes)
  <2> HIDE DEF table
  <2>1. /\ Popped(scopes) \in Seq(Tables) /\ Len(Popped(scopes)) = Len(scopes) - 1
    <3> DEFINE m == Len(scopes) - 1
    <3>1. Popped(scopes) = SubSeq(scopes, 1, m) /\ m \in 0..Len(scopes)
      BY <1>3 DEF Popped
    <3> HIDE DEF m
    <3>2. SubSeq(scopes, 1, m) \in Seq(Tables) /\ Len(SubSeq(scopes, 1, m)) = m
      BY <1>3, <3>1
    <3> QED BY <3>1, <3>2 DEF m
  <2>2. scopes' = Append(Popped(scopes), table)
    BY DEF NextElement, table
  <2> QED BY <1>2, <1>3, <2>1, <2>2
<1>5. stack[n] \in Block /\ stack[n].left - 1 \in Int
  <2>1. stack[n] \in Block
    BY <1>1
  <2> QED BY <2>1 DEF Block
<1> DEFINE later == [stack[n] EXCEPT !.left = stack[n].left - 1]
<1>6. later \in Block /\ \A k \in {"kind", "what", "ns", "ctx", "target"} : later[k] = stack[n][k]
  BY <1>5 DEF Block
<1>7. stack' = [stack EXCEPT ![n] = later]
  BY DEF NextElement
<1> HIDE DEF later, n, table
<1>8. /\ stack' \in Seq(Block) /\ Len(stack') = n /\ DOMAIN stack' = DOMAIN stack
      /\ DOMAIN stack = 1..n
      /\ \A k \in DOMAIN stack : stack'[k] = IF k = n THEN later ELSE stack[k]
  BY <1>1, <1>6, <1>7, ExceptSeq DEF n
<1>9. \A k \in DOMAIN stack :
        /\ stack'[k].kind = stack[k].kind /\ stack'[k].what = stack[k].what
        /\ stack'[k].ns = stack[k].ns /\ stack'[k].ctx = stack[k].ctx
        /\ stack'[k].target = stack[k].target
  BY <1>6, <1>8
<1>10. \A k \in 0..n : \A name, c, t : PlaceIs(stack, k, name, c, t) => PlaceIs(stack', k, name, c, t)
  <2>1. \A k \in 0..n : k \in Nat /\ \A j \in 1..k : j \in DOMAIN stack
    BY <1>1, <1>8
  <2> QED BY <2>1, <1>9, PlaceIsSame
<1>11. SavedRight'
  BY <1>1, <1>8, <1>9, <1>10 DEF IInv, PlaceInOrder, BlocksInOrder, SavedRight
<1>12. WhatIsOpen' /\ TopLevelOnly'
  BY <1>8, <1>9 DEF IInv, PlaceInOrder, BlocksInOrder, WhatIsOpen, TopLevelOnly
<1>13. PlaceIs(stack', Len(stack'), ns', ctx', target')
  <2>1. ns' = ns /\ ctx' = ctx /\ target' = target
    BY DEF NextElement, place
  <2>2. PlaceIs(stack, n, ns, ctx, target)
    BY DEF IInv, PlaceInOrder, n
  <2>3. n \in 0..n
    BY <1>1
  <2>4. PlaceIs(stack', n, ns, ctx, target)
    BY <1>10, <2>2, <2>3
  <2> QED BY <1>8, <2>1, <2>4
<1>14. Scopeless' = Scopeless
  <2>1. stack # <<>> /\ stack' # <<>> /\ 1 \in DOMAIN stack
    BY <1>1, <1>8
  <2> QED BY <2>1, <1>9, <1>1, <1>8, ScopelessStays
<1>15. PlaceInOrder'
  BY <1>4, <1>8, <1>11, <1>12, <1>13, <1>14 DEF PlaceInOrder, BlocksInOrder, IInv, n
<1> QED BY <1>4, <1>8, <1>15 DEF IInv, TypeOK, NextElement, place, n

---------------------------------------------------------------------------
(* ... and what they close.                                                *)
LEMMA TopBlock ==
  ASSUME IInv, stack # <<>>
  PROVE  /\ Len(stack) \in Nat \ {0} /\ Len(stack) \in DOMAIN stack
         /\ Len(stack) - 1 \in 0..Len(stack) /\ DOMAIN stack = 1..Len(stack)
         /\ Top = stack[Len(stack)] /\ Top \in Block
         /\ Popped(stack) = SubSeq(stack, 1, Len(stack) - 1)
         /\ Len(stack) <= MaxStack /\ MaxStack \in Nat
         /\ PlaceIs(stack, Len(stack), ns, ctx, target)
         /\ PlaceIs(stack, Len(stack) - 1, Top.ns, Top.ctx, Top.target)
<1>1. /\ stack \in Seq(Block) /\ SavedRight /\ Len(stack) <= MaxStack /\ MaxStack \in Nat
      /\ PlaceIs(stack, Len(stack), ns, ctx, target)
  BY BoundsAssumption DEF IInv, TypeOK, PlaceInOrder, BlocksInOrder
<1>2. /\ Len(stack) \in Nat \ {0} /\ Len(stack) \in DOMAIN stack /\ stack[Len(stack)] \in Block
      /\ DOMAIN stack = 1..Len(stack)
  BY <1>1
<1> QED BY <1>1, <1>2 DEF Top, Popped, SavedRight

LEMMA LeaveNamespaceKeeps ==
  ASSUME IInv, LeaveNamespace
  PROVE  IInv'
<1>1. stack # <<>> /\ Top.kind = "namespace" /\ stack' = Popped(stack) /\ ns' = Top.ns
      /\ ctx' = ctx /\ target' = target /\ scopes' = scopes
  BY DEF LeaveNamespace, Leaving
<1>2. Len(stack) = 1
  BY <1>1, TopBlock DEF IInv, PlaceInOrder, BlocksInOrder, TopLevelOnly
<1>3. PlaceIs(stack, 0, ns', ctx', target')
  BY <1>1, <1>2, TopBlock, PlaceOutside DEF PlaceIs
<1>4. BlocksInOrder' /\ Len(stack') = 0 /\ PlaceIs(stack', 0, ns', ctx', target')
  <2>1. stack' = SubSeq(stack, 1, 0) /\ 0 \in 0..Len(stack)
    BY <1>1, <1>2, TopBlock
  <2> QED BY <1>3, <2>1, Cut DEF IInv, PlaceInOrder
<1>5. Scopeless' = 0 /\ Scopeless = 1
  <2>1. stack' = <<>>
    BY <1>4 DEF BlocksInOrder
  <2> QED BY <1>1, <1>2, <2>1, TopBlock DEF Scopeless
<1>6. PlaceInOrder'
  BY <1>1, <1>2, <1>4, <1>5 DEF PlaceInOrder, IInv
<1>7. ns' \in {<<>>} \cup NamespaceNames
  BY <1>1, TopBlock DEF Block
<1> QED BY <1>1, <1>2, <1>4, <1>6, <1>7, TopBlock DEF IInv, TypeOK, LeaveNamespace

(* As many scopes go as blocks with a scope.                               *)
LEMMA ScopesClosed ==
  ASSUME IInv, NEW m \in 1..Len(stack), stack[m].kind # "namespace",
         stack' = SubSeq(stack, 1, m - 1),
         scopes' = SubSeq(scopes, 1, Len(scopes) - (Len(stack) - m + 1)),
         PlaceIs(stack, m - 1, ns', ctx', target')
  PROVE  PlaceInOrder' /\ scopes' \in Seq(Tables) /\ Len(stack') <= MaxStack
<1>1. /\ stack \in Seq(Block) /\ Len(stack) \in Nat /\ m \in Nat \ {0} /\ DOMAIN stack = 1..Len(stack)
      /\ Len(stack) <= MaxStack /\ MaxStack \in Nat
      /\ scopes \in Seq(Tables) /\ Len(scopes) = 1 + Len(stack) - Scopeless
  BY BoundsAssumption DEF IInv, TypeOK, PlaceInOrder, BlocksInOrder
<1>2. /\ BlocksInOrder' /\ Len(stack') = m - 1 /\ \A j \in 1..(m - 1) : stack'[j] = stack[j]
      /\ PlaceIs(stack', Len(stack'), ns', ctx', target')
  <2>1. m - 1 \in 0..Len(stack)
    BY <1>1
  <2> QED BY <2>1, Cut DEF IInv, PlaceInOrder
<1>3. Scopeless' = Scopeless /\ Scopeless \in {0, 1}
  <2>1. stack' \in Seq(Block) /\ stack # <<>>
    BY <1>1, <1>2 DEF BlocksInOrder
  <2>2. CASE m = 1
    <3>1. stack' = <<>>
      BY <2>1, <2>2, <1>2
    <3> QED BY <2>2, <3>1 DEF Scopeless
  <2>3. CASE m # 1
    <3>1. stack' # <<>> /\ stack'[1] = stack[1]
      <4>1. 1 \in 1..(m - 1) /\ Len(stack') # 0
        BY <2>3, <1>1, <1>2
      <4> QED BY <4>1, <1>2
    <3>2. Scopeless' = Scopeless
      BY <3>1, <2>1, <1>1, <1>2, ScopelessStays
    <3> QED BY <3>2 DEF Scopeless
  <2> QED BY <2>2, <2>3
<1>4. Len(scopes) - (Len(stack) - m + 1) = m - Scopeless /\ m - Scopeless \in 0..Len(scopes)
  BY <1>1, <1>3
<1>5. scopes' \in Seq(Tables) /\ Len(scopes') = m - Scopeless
  BY <1>1, <1>4
<1> QED BY <1>1, <1>2, <1>3, <1>5 DEF PlaceInOrder

(* A scope of the top block goes with it.                                  *)
LEMMA TopClosed ==
  ASSUME IInv, stack # <<>>, Top.kind # "namespace", stack' = Popped(stack),
         scopes' = Popped(scopes), PlaceIs(stack, Len(stack) - 1, ns', ctx', target')
  PROVE  PlaceInOrder' /\ scopes' \in Seq(Tables) /\ Len(stack') <= MaxStack
<1>1. /\ Len(stack) \in 1..Len(stack) /\ stack[Len(stack)].kind # "namespace"
      /\ stack' = SubSeq(stack, 1, Len(stack) - 1)
  BY TopBlock
<1>2. Len(scopes) - (Len(stack) - Len(stack) + 1) = Len(scopes) - 1
  BY TopBlock DEF IInv, TypeOK
<1>3. scopes' = SubSeq(scopes, 1, Len(scopes) - (Len(stack) - Len(stack) + 1))
  BY <1>2 DEF Popped
<1> QED BY <1>1, <1>3, ScopesClosed

LEMMA LeaveTargetKeeps ==
  ASSUME IInv, LeaveTarget
  PROVE  IInv'
<1>1. /\ stack # <<>> /\ Top.kind = "target" /\ stack' = Popped(stack)
      /\ scopes' = Popped(scopes) /\ ns' = ns /\ ctx' = ctx /\ target' = Top.target
  BY DEF LeaveTarget, Leaving
<1>2. PlaceIs(stack, Len(stack) - 1, ns', ctx', target')
  BY <1>1, TopBlock, PlaceOutside DEF PlaceIs
<1>3. PlaceInOrder' /\ scopes' \in Seq(Tables) /\ Len(stack') <= MaxStack
  BY <1>1, <1>2, TopClosed
<1>4. target' \in Targets \cup {NoTarget}
  BY <1>1, TopBlock DEF Block
<1> QED BY <1>1, <1>3, <1>4 DEF IInv, TypeOK, LeaveTarget

LEMMA LeaveLoopKeeps ==
  ASSUME IInv, LeaveLoop
  PROVE  IInv'
<1>1. /\ stack # <<>> /\ Top.kind = "for" /\ stack' = Popped(stack)
      /\ scopes' = Popped(scopes) /\ ns' = ns /\ ctx' = ctx /\ target' = target
  BY DEF LeaveLoop, Leaving, place
<1>2. PlaceIs(stack, Len(stack) - 1, ns', ctx', target')
  BY <1>1, TopBlock, LoopIsNoPlace
<1>3. PlaceInOrder' /\ scopes' \in Seq(Tables) /\ Len(stack') <= MaxStack
  BY <1>1, <1>2, TopClosed
<1> QED BY <1>1, <1>3 DEF IInv, TypeOK, LeaveLoop

LEMMA LeaveCallKeeps ==
  ASSUME IInv, LeaveCall
  PROVE  IInv'
<1>1. PICK k \in Calls :
        /\ ns' = stack[k].ns /\ ctx' = stack[k].ctx /\ stack' = SubSeq(stack, 1, k - 1)
        /\ scopes' = SubSeq(scopes, 1, Len(scopes) - (Len(stack) - k + 1))
  BY DEF LeaveCall
<1>2. /\ k \in 1..Len(stack) /\ k \in DOMAIN stack /\ DOMAIN stack = 1..Len(stack)
      /\ stack[k].kind = "call" /\ stack[k] \in Block /\ Len(stack) \in Nat
  BY DEF Calls, IInv, PlaceInOrder, BlocksInOrder
<1>3. PlaceIs(stack, k - 1, stack[k].ns, stack[k].ctx, stack[k].target)
  BY <1>2 DEF IInv, PlaceInOrder, BlocksInOrder, SavedRight
<1>4. Latest(stack, k - 1, {"target"}) = Latest(stack, Len(stack), {"target"})
  <2>1. \A j \in 1..Len(stack) : stack[j].kind = "target" => j = 1 /\ j # k
    BY <1>2 DEF IInv, PlaceInOrder, BlocksInOrder, TopLevelOnly
  <2> QED BY <1>2, <2>1 DEF Latest
<1>5. target' = target /\ TargetIs(stack, k - 1, target)
  BY <1>4 DEF LeaveCall, IInv, PlaceInOrder, PlaceIs, TargetIs
<1>6. PlaceIs(stack, k - 1, ns', ctx', target')
  BY <1>1, <1>3, <1>5 DEF PlaceIs
<1>7. PlaceInOrder' /\ scopes' \in Seq(Tables) /\ Len(stack') <= MaxStack
  BY <1>1, <1>2, <1>6, ScopesClosed
<1>8. ns' \in {<<>>} \cup NamespaceNames /\ ctx' \in Contexts
  BY <1>1, <1>2 DEF Block
<1> QED BY <1>5, <1>7, <1>8 DEF IInv, TypeOK, LeaveCall

---------------------------------------------------------------------------
LEMMA StartsInOrder == Init => IInv
<1> SUFFICES ASSUME Init PROVE IInv
  OBVIOUS
<1>1. stack = <<>> /\ stack \in Seq(Block) /\ Len(stack) = 0 /\ DOMAIN stack = {}
  BY DEF Init
<1>2. BlocksInOrder
  BY <1>1 DEF BlocksInOrder, SavedRight, WhatIsOpen, TopLevelOnly
<1>3. PlaceIs(stack, 0, ns, ctx, target)
  <2>1. \A kinds : Latest(stack, 0, kinds) = {}
    BY DEF Latest
  <2> QED BY <2>1 DEF Init, PlaceIs, NamespaceIs, ContextIs, TargetIs
<1>4. scopes \in Seq(Tables) /\ Len(scopes) = 1
  BY EmptyIsTable DEF Init
<1>5. PlaceInOrder
  BY <1>1, <1>2, <1>3, <1>4 DEF PlaceInOrder, Scopeless
<1>6. DOMAIN globals = Contexts
      /\ \A c \in Contexts : DOMAIN globals[c] \subseteq SimpleNames \cup DOMAIN Predefined
  BY EmptyIsTable DEF Init
<1>7. functions \in [Contexts -> SUBSET FunctionNames]
  BY HomeAssumption DEF Init, FunctionNames
<1>8. props \in [Targets -> Tables]
  BY EmptyIsTable DEF Init
<1> QED
  BY <1>1, <1>4, <1>5, <1>6, <1>7, <1>8, HomeAssumption, BoundsAssumption DEF IInv, TypeOK, Init

LEMMA StepsKeep == IInv /\ [Next]_vars => IInv'
<1> SUFFICES ASSUME IInv, [Next]_vars PROVE IInv'
  OBVIOUS
<1>1. ASSUME NEW x \in Ids, NEW c \in Contexts \ {Home}, Import(x, c) PROVE IInv'
  BY <1>1, ImportKeeps
<1>2. ASSUME NEW n \in Namespaces, EnterNamespace(n) PROVE IInv'
  BY <1>2, EnterNamespaceKeeps
<1>3. ASSUME NEW f \in Functions, DefineFunction(f) PROVE IInv'
  BY <1>3, DefineFunctionKeeps
<1>4. CASE LeaveNamespace
  BY <1>4, LeaveNamespaceKeeps
<1>5. ASSUME NEW t \in Targets, EnterTarget(t) PROVE IInv'
  BY <1>5, EnterTargetKeeps
<1>6. CASE LeaveTarget
  BY <1>6, LeaveTargetKeeps
<1>7. ASSUME NEW x \in Ids, NEW v \in Assigned, Declare(x, v) PROVE IInv'
  BY <1>7, DeclareKeeps
<1>8. ASSUME NEW name \in QualifiedNames, NEW v \in Plain,
             AssignProperty(name, v) \/ AssignVariable(name, v)
      PROVE  IInv'
  BY <1>8, AssignPropertyKeeps, AssignVariableKeeps
<1>9. ASSUME NEW name \in SimpleNames \cup QualifiedNames, NEW v \in Plain,
             AddToProperty(name, v) \/ AddToVariable(name, v)
      PROVE  IInv'
  BY <1>9, AddToPropertyKeeps, AddToVariableKeeps DEF VariableNames
<1>10. ASSUME NEW q \in CallNames, NEW params \in Params, Call(q, params) PROVE IInv'
  BY <1>10, CallKeeps
<1>11. CASE LeaveCall
  BY <1>11, LeaveCallKeeps
<1>12. ASSUME NEW n \in 1..MaxLoop, NEW x \in Ids, NEW v \in Plain, EnterLoop(n, x, v)
       PROVE  IInv'
  BY <1>12, EnterLoopKeeps
<1>13. ASSUME NEW v \in Plain, NextElement(v) PROVE IInv'
  BY <1>13, NextElementKeeps
<1>14. CASE LeaveLoop
  BY <1>14, LeaveLoopKeeps
<1>15. CASE UNCHANGED vars
  <2>1. UNCHANGED <<place, stack>> /\ Len(scopes') = Len(scopes)
    BY <1>15 DEF vars
  <2>2. PlaceInOrder'
    BY <2>1, StillPlaced DEF IInv
  <2> QED BY <1>15, <2>2 DEF IInv, TypeOK, vars, place
<1> QED
  BY <1>1, <1>2, <1>3, <1>4, <1>5, <1>6, <1>7, <1>8, <1>9, <1>10, <1>11, <1>12, <1>13, <1>14,
     <1>15 DEF Next

(* The inductive invariant, in every state of every script.                *)
THEOREM ScopesInOrder == Spec => []IInv
BY StartsInOrder, StepsKeep, PTL DEF Spec

(* Tables hold values under names a script can write, the namespace is at  *)
(* most one identifier, and only qualified functions are defined, in       *)
(* whatever order blocks are entered and left (visitNamespace_block and    *)
(* visitFunctionCall set currentNamespace from different sources).         *)
THEOREM TypesHold == Spec => []TypeOK
<1>1. IInv => TypeOK
  BY DEF IInv
<1> QED BY <1>1, ScopesInOrder, PTL

(* Namespace, context, target and number of scopes are those of the open   *)
(* blocks: what visitFunctionCall, visitNamespace_block and                *)
(* visitTarget_block save is what a return out of any loops brings back.   *)
THEOREM PlaceIsRight == Spec => []PlaceRight
<1>1. ASSUME IInv PROVE PlaceRight
  <2> DEFINE n == Len(stack)
             with == {k \in DOMAIN stack : stack[k].kind # "namespace"}
  <2>1. stack \in Seq(Block) /\ n \in Nat /\ DOMAIN stack = 1..n
    BY <1>1 DEF IInv, PlaceInOrder, BlocksInOrder
  <2>2. Scopeless \in {0, 1} /\ (n = 0 => Scopeless = 0)
    BY <2>1 DEF Scopeless
  <2>3. with = (1 + Scopeless)..n
    <3>1. CASE Scopeless = 1
      BY <3>1, <2>1, <1>1 DEF Scopeless, IInv, PlaceInOrder, BlocksInOrder, TopLevelOnly
    <3>2. CASE Scopeless = 0
      BY <3>2, <2>1, <1>1 DEF Scopeless, IInv, PlaceInOrder, BlocksInOrder, TopLevelOnly
    <3> QED BY <3>1, <3>2, <2>2
  <2>4. Cardinality(with) = n - Scopeless
    <3> DEFINE a == 1 + Scopeless
    <3>1. a \in Int /\ n \in Int
      BY <2>1, <2>2
    <3>2. with = a..n
      BY <2>3
    <3>3. n - a + 1 = n - Scopeless /\ (a > n => n - Scopeless = 0)
      <4>1. n \in Nat /\ Scopeless \in {0, 1} /\ (n = 0 => Scopeless = 0)
        BY <2>1, <2>2
      <4> HIDE DEF n
      <4> QED BY <4>1
    <3> HIDE DEF a, n, with
    <3>4. Cardinality(a..n) = IF a > n THEN 0 ELSE n - a + 1
      BY <3>1, FS_Interval
    <3> QED BY <3>2, <3>3, <3>4
  <2> QED BY <1>1, <2>1, <2>2, <2>4 DEF IInv, PlaceInOrder, PlaceIs, PlaceRight
<1> QED BY <1>1, ScopesInOrder, PTL

---------------------------------------------------------------------------
(* What a step does to scopes that are not on top, and to properties.      *)
OuterSame ==
  \A i \in 1..(Len(scopes) - 1) : i <= Len(scopes') => scopes'[i] = scopes[i]

LEMMA Shortened ==
  ASSUME TypeOK, NEW m \in Int, m <= Len(scopes), scopes' = SubSeq(scopes, 1, m)
  PROVE  \A i \in 1..Len(scopes) : i <= Len(scopes') => scopes'[i] = scopes[i]
<1>1. scopes \in Seq(Tables) /\ \A i \in 1..m : scopes[i] \in Tables
  BY DEF TypeOK
<1>2. /\ Len(scopes') = IF 1 <= m THEN m - 1 + 1 ELSE 0
      /\ \A i \in 1..(m - 1 + 1) : scopes'[i] = scopes[1 + i - 1]
  BY <1>1, SubSeqProperties
<1>3. \A i \in 1..Len(scopes) : 1 + i - 1 = i /\ (i <= Len(scopes') => i \in 1..(m - 1 + 1))
  BY <1>1, <1>2
<1> QED BY <1>2, <1>3

LEMMA TopPut ==
  ASSUME TypeOK, NEW name \in VariableNames, NEW v \in Values, scopes' = PutTop(name, v)
  PROVE  OuterSame
<1>1. Len(scopes) \in Nat /\ DOMAIN scopes = 1..Len(scopes)
  BY ScopeIsTable
<1>2. \A j \in DOMAIN scopes : j # Len(scopes) => scopes'[j] = scopes[j]
  BY PutAtKeepsTables DEF PutTop
<1> QED BY <1>1, <1>2 DEF OuterSame

LEMMA Appended ==
  ASSUME TypeOK, NEW table, scopes' = Append(scopes, table)
  PROVE  OuterSame
BY DEF OuterSame, TypeOK

LEMMA OuterStays ==
  ASSUME IInv, Next,
         ~ \E name, v : AssignVariable(name, v) \/ AddToVariable(name, v)
  PROVE  OuterSame
<1>0. /\ TypeOK /\ Len(scopes) \in Nat /\ DOMAIN scopes = 1..Len(scopes)
      /\ stack \in Seq(Block) /\ Len(stack) \in Nat /\ DOMAIN stack = 1..Len(stack)
  BY ScopeIsTable DEF IInv, PlaceInOrder, BlocksInOrder
<1>1. CASE scopes' = scopes
  BY <1>1 DEF OuterSame
<1>2. ASSUME NEW x \in Ids, NEW v \in Assigned, Declare(x, v) PROVE OuterSame
  <2>1. Prefixed(<<x>>) \in VariableNames /\ v \in Values
    BY <1>0, AssignedAssumption, PrefixedIsName DEF Values, VariableNames, SimpleNames
  <2> QED BY <1>0, <1>2, <2>1, TopPut DEF Declare
<1>3. ASSUME NEW table, scopes' = Append(scopes, table) PROVE OuterSame
  BY <1>0, <1>3, Appended
<1>4. CASE scopes' = Popped(scopes)
  <2>1. Len(scopes) - 1 \in Int /\ Len(scopes) - 1 <= Len(scopes)
    BY <1>0
  <2>2. \A i \in 1..Len(scopes) : i <= Len(scopes') => scopes'[i] = scopes[i]
    BY <1>0, <1>4, <2>1, Shortened DEF Popped
  <2> QED BY <1>0, <2>2 DEF OuterSame
<1>5. CASE LeaveCall
  <2>1. PICK k \in Calls : scopes' = SubSeq(scopes, 1, Len(scopes) - (Len(stack) - k + 1))
    BY <1>5 DEF LeaveCall
  <2>2. k \in 1..Len(stack)
    BY <1>0 DEF Calls
  <2>3. /\ Len(scopes) - (Len(stack) - k + 1) \in Int
        /\ Len(scopes) - (Len(stack) - k + 1) <= Len(scopes)
    BY <1>0, <2>2
  <2>4. \A i \in 1..Len(scopes) : i <= Len(scopes') => scopes'[i] = scopes[i]
    BY <1>0, <2>1, <2>3, Shortened
  <2> QED BY <1>0, <2>4 DEF OuterSame
<1>6. ASSUME NEW v \in Plain, NextElement(v) PROVE OuterSame
  <2> DEFINE table == Put(Empty, Top.what, v)
             m == Len(scopes) - 1
  <2>1. scopes' = Append(SubSeq(scopes, 1, m), table) /\ m \in Int
    BY <1>0, <1>6 DEF NextElement, Popped
  <2>2. scopes \in Seq(Tables) /\ Len(scopes) # 0
    BY <1>0, <1>6 DEF TypeOK, IInv, PlaceInOrder, Scopeless, NextElement, Leaving
  <2>3. m \in 0..Len(scopes)
    BY <1>0, <2>2
  <2> HIDE DEF m, table
  <2>4. /\ SubSeq(scopes, 1, m) \in Seq(Tables) /\ Len(SubSeq(scopes, 1, m)) = m
        /\ \A i \in 1..m : SubSeq(scopes, 1, m)[i] = scopes[i]
    BY <2>2, <2>3
  <2>5. \A i \in 1..m : scopes'[i] = scopes[i]
    BY <2>1, <2>4
  <2> QED BY <2>5 DEF OuterSame, m
<1>7. CASE \E x \in Ids, c \in Contexts \ {Home} : Import(x, c)
  BY <1>1, <1>7 DEF Import
<1>8. CASE \/ \E n \in Namespaces : EnterNamespace(n)
           \/ \E f \in Functions : DefineFunction(f)
           \/ LeaveNamespace
  BY <1>1, <1>8 DEF EnterNamespace, DefineFunction, LeaveNamespace
<1>9. CASE \E t \in Targets : EnterTarget(t)
  BY <1>3, <1>9 DEF EnterTarget
<1>10. CASE LeaveTarget \/ LeaveLoop
  BY <1>4, <1>10 DEF LeaveTarget, LeaveLoop
<1>11. CASE \E name \in VariableNames, v \in Plain : AssignProperty(name, v) \/ AddToProperty(name, v)
  BY <1>1, <1>11 DEF AssignProperty, AddToProperty
<1>12. CASE \E q \in CallNames, params \in Params : Call(q, params)
  BY <1>3, <1>12 DEF Call
<1>13. CASE \E n \in 1..MaxLoop, x \in Ids, v \in Plain : EnterLoop(n, x, v)
  BY <1>3, <1>13 DEF EnterLoop
<1> QED
  BY <1>2, <1>5, <1>6, <1>7, <1>8, <1>9, <1>10, <1>11, <1>12, <1>13 DEF Next, VariableNames

(* setVar and += write where they have found the name: no name is new.     *)
LEMMA WrittenIsThere ==
  ASSUME IInv, NEW name, NEW v, AssignVariable(name, v) \/ AddToVariable(name, v)
  PROVE  \A i \in 1..(Len(scopes) - 1) :
           i <= Len(scopes') => DOMAIN scopes'[i] = DOMAIN scopes[i]
<1>1. TypeOK /\ scopes \in Seq(Tables) /\ Len(scopes) \in Nat /\ DOMAIN scopes = 1..Len(scopes)
  BY ScopeIsTable DEF IInv, TypeOK
<1>2. ASSUME NEW at, NEW key, scopes' = PutAt(at, key, v), at = Len(scopes) \/ key \in DOMAIN scopes[at]
      PROVE  \A i \in 1..(Len(scopes) - 1) : DOMAIN scopes'[i] = DOMAIN scopes[i]
  <2> SUFFICES ASSUME NEW i \in 1..(Len(scopes) - 1)
               PROVE  DOMAIN scopes'[i] = DOMAIN scopes[i]
    OBVIOUS
  <2>1. i \in DOMAIN scopes /\ i # Len(scopes)
    <3>1. \A n \in Nat : \A j \in 1..(n - 1) : j \in 1..n /\ j # n
      OBVIOUS
    <3> QED BY <1>1, <3>1, Zenon
  <2> DEFINE new == Put(scopes[at], key, v)
  <2>2. scopes' = [scopes EXCEPT ![at] = new]
    BY <1>2 DEF PutAt
  <2>3. DOMAIN new = DOMAIN scopes[at] \cup {key}
    BY PutIn
  <2> HIDE DEF new
  <2>4. scopes'[i] = IF i = at THEN new ELSE scopes[i]
    BY <2>1, <2>2
  <2> QED BY <1>2, <2>1, <2>3, <2>4
<1>3. CASE AssignVariable(name, v)
  <2> DEFINE i == Nearest(<<name>>)
  <2>1. CASE Holding(<<name>>) # {}
    <3>1. name \in DOMAIN scopes[i]
      BY <1>1, <2>1, NearestHolds DEF Has
    <3>2. scopes' = PutAt(i, name, v)
      BY <1>3, <2>1 DEF AssignVariable
    <3> QED BY <3>1, <3>2, <1>2
  <2>2. CASE Holding(<<name>>) = {}
    <3>1. scopes' = PutAt(Len(scopes), name, v)
      BY <1>3, <2>2 DEF AssignVariable, PutTop
    <3> QED BY <3>1, <1>2
  <2> QED BY <2>1, <2>2
<1>4. CASE AddToVariable(name, v)
  <2> DEFINE names == Candidates(Prefixed(name))
             i == Nearest(names)
             key == FirstIn(scopes[i], names)
  <2>1. Holding(names) # {} /\ scopes' = PutAt(i, key, v)
    BY <1>4 DEF AddToVariable
  <2>2. key \in DOMAIN scopes[i]
    BY <1>1, <2>1, AddedIsThere
  <2> HIDE DEF names, i, key
  <2> QED BY <2>1, <2>2, <1>2
<1> QED BY <1>3, <1>4

(* No step makes or removes a variable of a scope under the top one:       *)
(* Interpreter::setVar and getVar find a variable or fail, and the         *)
(* iteration of a for loop replaces its own scope only.                    *)
THEOREM OuterVariablesAreKept == Spec => OuterVariablesStay
<1>1. ASSUME IInv, Next
      PROVE  \A i \in 1..(Len(scopes) - 1) :
               i <= Len(scopes') => DOMAIN scopes'[i] = DOMAIN scopes[i]
  <2>1. CASE \E name, v : AssignVariable(name, v) \/ AddToVariable(name, v)
    BY <1>1, <2>1, WrittenIsThere
  <2>2. CASE ~ \E name, v : AssignVariable(name, v) \/ AddToVariable(name, v)
    BY <1>1, <2>2, OuterStays DEF OuterSame
  <2> QED BY <2>1, <2>2
<1>2. IInv /\ [Next]_vars =>
        [\A i \in 1..(Len(scopes) - 1) :
           i <= Len(scopes') => DOMAIN scopes'[i] = DOMAIN scopes[i]]_vars
  BY <1>1
<1> QED BY <1>2, ScopesInOrder, PTL DEF Spec, OuterVariablesStay

(* While a target block runs, in the functions it calls too, no step       *)
(* writes an outer scope or a property of another target.                  *)
THEOREM TargetsAreIsolated == Spec => TargetIsolated
<1>1. ASSUME IInv, Next, NEW t \in Targets, t # target
      PROVE  props'[t] = props[t]
  <2>1. props \in [Targets -> Tables]
    BY <1>1 DEF IInv, TypeOK
  <2>2. ASSUME NEW table, props' = [props EXCEPT ![target] = table]
        PROVE  props'[t] = props[t]
    BY <1>1, <2>1, <2>2
  <2>3. CASE \/ \E x \in Ids, v \in Assigned : Declare(x, v)
             \/ \E name \in VariableNames, v \in Plain : AssignProperty(name, v) \/ AddToProperty(name, v)
    BY <2>2, <2>3 DEF Declare, AssignProperty, AddToProperty
  <2>4. CASE props' = props
    BY <2>4
  <2> QED
    BY <1>1, <2>3, <2>4
    DEF Next, VariableNames, Import, EnterNamespace, DefineFunction, LeaveNamespace,
        EnterTarget, LeaveTarget, AssignVariable, AddToVariable, Call, LeaveCall, EnterLoop,
        NextElement, LeaveLoop
<1>2. ASSUME IInv, Next, target # NoTarget
      PROVE  \A i \in 1..(Len(scopes) - 1) : i <= Len(scopes') => scopes'[i] = scopes[i]
  <2>1. ~ \E name, v : AssignVariable(name, v) \/ AddToVariable(name, v)
    BY <1>2 DEF AssignVariable, AddToVariable
  <2> QED BY <1>2, <2>1, OuterStays DEF OuterSame
<1>3. IInv /\ [Next]_vars =>
        [/\ \A t \in Targets : t # target => props'[t] = props[t]
         /\ target # NoTarget =>
              \A i \in 1..(Len(scopes) - 1) : i <= Len(scopes') => scopes'[i] = scopes[i]]_vars
  BY <1>1, <1>2
<1> QED BY <1>3, ScopesInOrder, PTL DEF Spec, TargetIsolated

---------------------------------------------------------------------------
(* What is in the top scope under a simple name is what the name means,    *)
(* unless the namespace has a variable of that name in the same scope.     *)
TopIsRead ==
  IInv /\ DOMAIN Last(scopes) \subseteq SimpleNames =>
    \A name \in DOMAIN Last(scopes) : Resolve(name) = Last(scopes)[name]

LEMMA TopHides == TopIsRead
<1> SUFFICES ASSUME IInv, DOMAIN Last(scopes) \subseteq SimpleNames,
                    NEW name \in DOMAIN Last(scopes)
             PROVE  Resolve(name) = Last(scopes)[name]
  BY DEF TopIsRead
<1> DEFINE names == Candidates(name)
           top == Len(scopes)
           table == scopes[top]
<1>1. TypeOK /\ top \in Nat /\ DOMAIN scopes = 1..top /\ Last(scopes) = table
  BY ScopeIsTable DEF IInv, Last
<1>2. top \in DOMAIN scopes
  BY <1>1 DEF IInv, PlaceInOrder, BlocksInOrder, Scopeless
<1>3. PICK x \in Ids : name = <<x>>
  BY DEF SimpleNames
<1>4. names = <<name>> \/ \E n \in Namespaces : names = <<<<n, x>>, name>>
  <2>1. CASE ns = <<>>
    BY <2>1 DEF Candidates
  <2>2. CASE ns # <<>>
    <3>1. PICK n \in Namespaces : ns = <<n>>
      BY <2>2, <1>1 DEF TypeOK, NamespaceNames
    <3>2. ns \o name = <<n, x>>
      BY <3>1, <1>3, PairOfNames
    <3>3. Len(name) = 1
      BY <1>3
    <3> QED BY <2>2, <3>2, <3>3 DEF Candidates
  <2> QED BY <2>1, <2>2
<1>5. \A n : <<n, x>> \notin DOMAIN table
  <2>1. \A n, y : <<n, x>> # <<y>>
    OBVIOUS
  <2> QED BY <1>1, <2>1 DEF SimpleNames
<1>6. Has(table, names) /\ FirstIn(table, names) = name
  <2> DEFINE first(k) == /\ names[k] \in DOMAIN table
                         /\ \A j \in 1..(k - 1) : names[j] \notin DOMAIN table
  <2>1. FirstIn(table, names) = names[CHOOSE k \in DOMAIN names : first(k)]
    BY DEF FirstIn
  <2>2. CASE names = <<name>>
    <3>1. DOMAIN names = {1} /\ names[1] = name /\ 1..(1 - 1) = {}
      BY <2>2
    <3>2. first(1)
      BY <1>1, <3>1
    <3> QED BY <2>1, <3>1, <3>2, <1>1 DEF Has
  <2>3. ASSUME NEW n \in Namespaces, names = <<<<n, x>>, name>>
        PROVE  Has(table, names) /\ FirstIn(table, names) = name
    <3>1. DOMAIN names = {1, 2} /\ names[1] = <<n, x>> /\ names[2] = name /\ 1..(2 - 1) = {1}
      BY <2>3
    <3>2. first(2) /\ ~ first(1)
      BY <1>1, <1>5, <3>1
    <3>3. (CHOOSE k \in DOMAIN names : first(k)) = 2
      BY <3>1, <3>2
    <3> QED BY <2>1, <3>1, <3>3, <1>1 DEF Has
  <2> QED BY <2>2, <2>3, <1>4
<1>7. Holding(names) # {} /\ Nearest(names) = top
  <2> HIDE DEF names
  <2>1. top \in Holding(names)
    BY <1>2, <1>6 DEF Holding
  <2>2. Nearest(names) \in DOMAIN scopes /\ \A j \in Holding(names) : j <= Nearest(names)
    BY <2>1, <1>1, NearestHolds
  <2>3. Nearest(names) \in 1..top /\ top <= Nearest(names)
    BY <2>1, <2>2, <1>1
  <2> QED BY <2>1, <2>3, <1>1
<1> QED BY <1>1, <1>6, <1>7 DEF Resolve

(* In the body of a function each parameter reads as what it was given:    *)
(* visitFunctionCall makes its scope the nearest one, and resolveVariable  *)
(* tries the namespace's name first, but scope by scope.                   *)
THEOREM ParametersAreRead == Spec => ParameterIsRead
<1>1. ASSUME IInv, Next, Calling
      PROVE  \E q \in CallNames, params \in Params : Call(q, params)
  <2>1. /\ stack \in Seq(Block) /\ Len(stack) \in Nat
    BY <1>1 DEF IInv, PlaceInOrder, BlocksInOrder
  <2>2. ASSUME NEW kind, NEW what, NEW left, Push(kind, what, left), kind # "call"
        PROVE  FALSE
    <3> DEFINE new == [kind |-> kind, what |-> what, left |-> left,
                       ns |-> ns, ctx |-> ctx, target |-> target]
    <3>1. stack' = Append(stack, new) /\ new.kind = kind
      BY <2>2 DEF Push
    <3> HIDE DEF new
    <3>2. Len(stack') = Len(stack) + 1 /\ stack'[Len(stack) + 1] = new
      BY <2>1, <3>1
    <3>3. Last(stack') = new
      BY <3>2 DEF Last
    <3> QED BY <1>1, <2>2, <3>1, <3>3 DEF Calling
  <2>3. ASSUME NEW m \in Int, m <= Len(stack), stack' = SubSeq(stack, 1, m)
        PROVE  FALSE
    <3>1. \A i \in 1..m : stack[i] \in Block
      BY <2>1, <2>3
    <3>2. Len(stack') = IF 1 <= m THEN m - 1 + 1 ELSE 0
      BY <2>3, <3>1, SubSeqProperties
    <3> QED BY <1>1, <2>1, <2>3, <3>2 DEF Calling
  <2>4. stack' # stack
    BY <1>1, <2>1 DEF Calling
  <2>5. ~ \E v \in Plain : NextElement(v)
    <3>1. \A n, b : Len([stack EXCEPT ![n] = b]) = Len(stack)
      BY <2>1
    <3> QED BY <1>1, <2>1, <3>1 DEF NextElement, Calling
  <2>6. stack' # Popped(stack)
    <3>1. Len(stack) - 1 \in Int /\ Len(stack) - 1 <= Len(stack)
      BY <2>1
    <3> QED BY <2>3, <3>1 DEF Popped
  <2>7. ~ LeaveCall
    <3>1. \A k \in Calls : k - 1 \in Int /\ k - 1 <= Len(stack)
      BY <2>1 DEF Calls
    <3> QED BY <2>3, <3>1 DEF LeaveCall
  <2> QED
    BY <1>1, <2>2, <2>4, <2>5, <2>6, <2>7
    DEF Next, Import, EnterNamespace, DefineFunction, LeaveNamespace, EnterTarget, LeaveTarget,
        Declare, AssignProperty, AssignVariable, AddToProperty, AddToVariable, EnterLoop, LeaveLoop
<1>2. ASSUME IInv, IInv', TopIsRead', NEW q \in CallNames, NEW params \in Params, Call(q, params)
      PROVE  \A name \in DOMAIN Last(scopes') : Resolve(name)' = Last(scopes')[name]
  <2>1. Last(scopes') = params
    BY <1>2 DEF IInv, TypeOK, Call, Last
  <2>2. DOMAIN Last(scopes') \subseteq SimpleNames
    BY <2>1, ParamsAreTables
  <2> QED BY <1>2, <2>2 DEF TopIsRead
<1>3. TopIsRead'
  BY TopHides, PTL
<1>4. IInv /\ IInv' /\ [Next]_vars =>
        [Calling => \A name \in DOMAIN Last(scopes') : Resolve(name)' = Last(scopes')[name]]_vars
  BY <1>1, <1>2, <1>3
<1> QED BY <1>4, ScopesInOrder, PTL DEF Spec, ParameterIsRead
=============================================================================
