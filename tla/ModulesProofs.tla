---------------------------- MODULE ModulesProofs --------------------------
(***************************************************************************)
(* What is proved about the loading of files, for any projects,            *)
(* repositories and room on the stack, however git fails and whenever      *)
(* somebody else clones or partio is killed.                               *)
(***************************************************************************)
EXTENDS Modules, SequenceTheorems, WellFoundedInduction, TLAPS

CloneIInv == ClonesInOrder /\ CompleteUnlessSpoiled

LEMMA CloneInit == Init => CloneIInv
  BY DEF Init, CloneIInv, ClonesInOrder, CompleteUnlessSpoiled

(* Steps of fetch() for a repository.                                      *)
LEMMA CloneStep ==
  ASSUME CloneIInv, Clone
  PROVE  CloneIInv'
  <1>0. ClonesInOrder /\ CompleteUnlessSpoiled BY DEF CloneIInv
  <1>1. AtRemote /\ Remote \in Remotes
    BY <1>0 DEF ClonesInOrder, Clone, TakeClone, TakeEmpty, Cloned, DecideToClone, GitBegins,
                GitRefuses, GitEnds, GitFails, AtRemote, Remote
  <1>2. CASE TakeClone \/ TakeEmpty
    <2>1. Cloned /\ clones[Remote] # "none"
      BY <1>0, <1>2 DEF TakeClone, TakeEmpty, ClonesInOrder, Cloned
    <2>2. clones[Remote] # "complete" => Remote \in spoiled
      BY <1>0, <1>1, <2>1 DEF ClonesInOrder, Cloned, AtRemote, At
    <2>3. /\ git' = "idle" /\ clones' = clones /\ spoiled' = spoiled /\ incomplete' = Taken
          /\ outcome' = outcome
      BY <1>2 DEF TakeClone, TakeEmpty, Enter, outside
    <2>4. CompleteUnlessSpoiled'
      BY <1>0, <2>2, <2>3 DEF CompleteUnlessSpoiled, Taken
    <2>5. \A r \in Remotes : clones[r] # "ours"
      BY <1>0, <1>1, <2>1 DEF ClonesInOrder, Cloned
    <2>. QED BY <1>0, <2>3, <2>4, <2>5 DEF CloneIInv, ClonesInOrder
  <1>3. CASE DecideToClone \/ GitBegins \/ GitEnds
    <2>1. /\ UNCHANGED <<frames, outcome, spoiled, incomplete>>
          /\ git' # "idle"
      BY <1>3 DEF DecideToClone, GitBegins, GitEnds, memory, outside
    <2>2. AtRemote' /\ Remote' = Remote
      BY <1>1, <2>1 DEF AtRemote, At, Statement, Top, Remote
    <2>3. CASE DecideToClone
      <3>1. git' = "started" /\ clones' = clones /\ git = "idle"
        BY <2>3 DEF DecideToClone, outside
      <3>. QED BY <1>0, <2>1, <2>2, <3>1 DEF CloneIInv, ClonesInOrder, CompleteUnlessSpoiled
    <2>4. CASE GitBegins
      <3>1. /\ git = "started" /\ git' = "cloning" /\ clones' = [clones EXCEPT ![Remote] = "ours"]
        BY <2>4 DEF GitBegins
      <3>. QED BY <1>0, <1>1, <2>1, <2>2, <3>1 DEF CloneIInv, ClonesInOrder, CompleteUnlessSpoiled
    <2>5. CASE GitEnds
      <3>1. /\ git = "cloning" /\ git' = "cloned"
            /\ clones' = [clones EXCEPT ![Remote] = "complete"]
        BY <2>5 DEF GitEnds
      <3>. QED BY <1>0, <1>1, <2>1, <2>2, <3>1 DEF CloneIInv, ClonesInOrder, CompleteUnlessSpoiled
    <2>. QED BY <1>3, <2>3, <2>4, <2>5
  <1>4. CASE GitRefuses \/ GitFails
    <2>1. git' = "idle" /\ outcome' = "error" /\ UNCHANGED <<spoiled, incomplete>>
      BY <1>4 DEF GitRefuses, GitFails, Fail, memory
    <2>2. \/ git = "started" /\ clones' = clones
          \/ \E left \in Leftovers : git = "cloning" /\ clones' = [clones EXCEPT ![Remote] = left]
      BY <1>4 DEF GitRefuses, GitFails
    <2>. QED BY <1>0, <1>1, <2>1, <2>2 DEF CloneIInv, ClonesInOrder, CompleteUnlessSpoiled, Leftovers
  <1>. QED BY <1>2, <1>3, <1>4 DEF Clone

(* The other statements have nothing to do with clones.                    *)
LEMMA VisitStep ==
  ASSUME CloneIInv, Visit
  PROVE  CloneIInv'
  <1>0. ClonesInOrder /\ CompleteUnlessSpoiled BY DEF CloneIInv
  <1>1. CASE Overflow
    <2>1. git # "cloning" /\ git' = "idle" /\ outcome' = "overflow"
          /\ UNCHANGED <<clones, spoiled, incomplete>>
      BY <1>1 DEF Overflow, memory, outside
    <2>. QED BY <1>0, <2>1 DEF CloneIInv, ClonesInOrder, CompleteUnlessSpoiled
  <1>2. CASE ~Overflow
    <2>1. ~AtRemote
      BY <1>2, FilesAssumption
         DEF Visit, Import, ImportMissing, FetchLocal, Define, Describe, DescribedTwice, Call,
             CallCrashes, CallUnknown, EndCall, EndImport, EndFetch, EndMain, AtEnd, At, AtRemote
    <2>2. git = "idle" BY <1>0, <2>1 DEF ClonesInOrder
    <2>3. /\ git' = "idle" /\ clones' = clones /\ spoiled' = spoiled /\ incomplete' = incomplete
          /\ outcome' = "loading" => outcome = "loading"
      BY <1>2, <2>2
         DEF Visit, Import, ImportMissing, FetchLocal, Define, Describe, DescribedTwice, Call,
             CallCrashes, CallUnknown, EndCall, EndImport, EndFetch, EndMain, Enter, Fail,
             memory, outside
    <2>. QED BY <1>0, <2>2, <2>3 DEF CloneIInv, ClonesInOrder, CompleteUnlessSpoiled
  <1>. QED BY <1>1, <1>2

LEMMA OthersStep ==
  ASSUME CloneIInv, Others
  PROVE  CloneIInv'
  <1>0. ClonesInOrder /\ CompleteUnlessSpoiled BY DEF CloneIInv
  <1>1. CASE Kill
    <2>1. git' = "idle" /\ outcome' = "killed" /\ UNCHANGED <<spoiled, incomplete>>
      BY <1>1 DEF Kill, memory
    <2>2. CASE git = "cloning"
      <3>1. PICK left \in Leftovers \cup {"elsewhere"} : clones' = [clones EXCEPT ![Remote] = left]
        BY <1>1, <2>2 DEF Kill
      <3>2. Remote \in Remotes BY <1>0, <2>2 DEF ClonesInOrder, AtRemote, Remote
      <3>. QED BY <1>0, <2>1, <2>2, <3>1, <3>2
               DEF CloneIInv, ClonesInOrder, CompleteUnlessSpoiled, Leftovers
    <2>3. CASE git # "cloning"
      <3>1. clones' = clones BY <1>1, <2>3 DEF Kill
      <3>. QED BY <1>0, <2>1, <2>3, <3>1 DEF CloneIInv, ClonesInOrder, CompleteUnlessSpoiled
    <2>. QED BY <2>2, <2>3
  <1>2. CASE Restart
    <2>1. git = "idle" BY <1>0, <1>2 DEF ClonesInOrder, Restart, AtRemote, At
    <2>2. git' = git /\ clones' = clones /\ spoiled' = Half /\ incomplete' = {}
      BY <1>2 DEF Restart
    <2>. QED BY <1>0, <2>1, <2>2 DEF CloneIInv, ClonesInOrder, CompleteUnlessSpoiled, Half
  <1>3. ASSUME NEW r \in Remotes, ElsewhereBegins(r) \/ ElsewhereEnds(r)
        PROVE  CloneIInv'
    <2>1. /\ UNCHANGED <<frames, outcome, git, incomplete>>
          /\ spoiled \subseteq spoiled' /\ (outcome = "loading" => r \in spoiled')
      BY <1>0, <1>3 DEF ElsewhereBegins, ElsewhereEnds, memory, ClonesInOrder
    <2>2. (AtRemote' <=> AtRemote) /\ Remote' = Remote
      BY <2>1 DEF AtRemote, At, Statement, Top, Remote
    <2>3. clones[r] \notin {"ours", "complete"}
      BY <1>3 DEF ElsewhereBegins, ElsewhereEnds
    <2>4. PICK left \in {"none", "elsewhere", "broken", "complete"} :
            clones' = [clones EXCEPT ![r] = left]
      BY <1>3 DEF ElsewhereBegins, ElsewhereEnds
    <2>5. git \in {"cloning", "cloned"} => r # Remote
      BY <1>0, <2>3 DEF ClonesInOrder
    <2>6. ClonesInOrder'
      BY <1>0, <1>3, <2>1, <2>2, <2>3, <2>4, <2>5 DEF ClonesInOrder
    <2>. QED BY <1>0, <2>1, <2>6 DEF CloneIInv, CompleteUnlessSpoiled
  <1>. QED BY <1>1, <1>2, <1>3 DEF Others

LEMMA StutterStep ==
  ASSUME CloneIInv, UNCHANGED vars
  PROVE  CloneIInv'
  BY DEF CloneIInv, ClonesInOrder, CompleteUnlessSpoiled, AtRemote, At, Statement, Top, Remote,
         vars, memory

(* A run takes half a clone only if it was half made when the run began,   *)
(* or if another process was at it since: fetch() never goes on with what  *)
(* its own git has failed to make.                                         *)
THEOREM NoHalfClone == Spec => []CompleteUnlessSpoiled
  <1>1. CloneIInv /\ [Next]_vars => CloneIInv'
    BY CloneStep, VisitStep, OthersStep, StutterStep DEF Next
  <1>2. CloneIInv => CompleteUnlessSpoiled BY DEF CloneIInv
  <1>. QED BY <1>1, <1>2, CloneInit, PTL DEF Spec

---------------------------------------------------------------------------
(* Sequences, whatever they hold.                                          *)
IsSequence(s) == s \in Seq({s[i] : i \in DOMAIN s})

LEMMA SequencesAre ==
  ASSUME NEW S, NEW s \in Seq(S)
  PROVE  IsSequence(s)
  <1>1. s = [i \in 1..Len(s) |-> s[i]] /\ Len(s) \in Nat /\ DOMAIN s = 1..Len(s)
    OBVIOUS
  <1> DEFINE T == {s[i] : i \in DOMAIN s}
  <1>2. \A i \in 1..Len(s) : s[i] \in T
    BY <1>1
  <1> HIDE DEF T
  <1>3. [i \in 1..Len(s) |-> s[i]] \in Seq(T)
    BY <1>1, <1>2, IsASeq
  <1> QED BY <1>1, <1>3 DEF IsSequence, T

LEMMA Appended ==
  ASSUME NEW s, IsSequence(s), NEW x
  PROVE  /\ IsSequence(Append(s, x)) /\ Len(s) \in Nat /\ Len(Append(s, x)) = Len(s) + 1
         /\ \A i \in 1..Len(s) : Append(s, x)[i] = s[i]
         /\ Append(s, x)[Len(s) + 1] = x
  <1> DEFINE T == {s[i] : i \in DOMAIN s} \cup {x}
  <1>1. s \in Seq(T)
    <2>1. s \in Seq({s[i] : i \in DOMAIN s})
      BY DEF IsSequence
    <2> QED BY <2>1, SeqMonotonic
  <1> HIDE DEF T
  <1>2. x \in T
    BY DEF T
  <1>3. Append(s, x) \in Seq(T)
    BY <1>1, <1>2
  <1>4. IsSequence(Append(s, x))
    BY <1>3, SequencesAre
  <1>5. /\ Len(s) \in Nat /\ Len(Append(s, x)) = Len(s) + 1
        /\ \A i \in 1..Len(s) : Append(s, x)[i] = s[i]
        /\ Append(s, x)[Len(s) + 1] = x
    BY <1>1, <1>2
  <1> QED BY <1>4, <1>5

LEMMA Replaced ==
  ASSUME NEW s, IsSequence(s), NEW t, DOMAIN t = DOMAIN s, t = [i \in DOMAIN t |-> t[i]]
  PROVE  /\ IsSequence(t) /\ Len(t) = Len(s)
         /\ Len(s) \in Nat /\ DOMAIN s = 1..Len(s)
  <1>1. Len(s) \in Nat /\ DOMAIN s = 1..Len(s)
    BY DEF IsSequence
  <1> DEFINE T == {t[i] : i \in DOMAIN t}
  <1>2. \A i \in 1..Len(s) : t[i] \in T
    BY <1>1
  <1> HIDE DEF T
  <1>3. t \in Seq(T)
    <2>1. [i \in 1..Len(s) |-> t[i]] \in Seq(T)
      BY <1>1, <1>2, IsASeq
    <2> QED BY <1>1, <2>1
  <1>4. Len(t) = Len(s)
    BY <1>1, <1>3
  <1> QED BY <1>1, <1>3, <1>4, SequencesAre

LEMMA Shortened ==
  ASSUME NEW s, IsSequence(s), Len(s) > 0
  PROVE  /\ Len(s) \in Nat \ {0}
         /\ IsSequence(SubSeq(s, 1, Len(s) - 1)) /\ Len(SubSeq(s, 1, Len(s) - 1)) = Len(s) - 1
         /\ \A i \in 1..(Len(s) - 1) : SubSeq(s, 1, Len(s) - 1)[i] = s[i]
         /\ IsSequence(Tail(s)) /\ Len(Tail(s)) = Len(s) - 1 /\ Head(s) = s[1]
         /\ \A i \in 1..(Len(s) - 1) : Tail(s)[i] = s[i + 1]
  <1> DEFINE T == {s[i] : i \in DOMAIN s}
  <1>1. s \in Seq(T)
    BY DEF IsSequence
  <1> HIDE DEF T
  <1>2. s # <<>> /\ Len(s) \in Nat \ {0}
    BY <1>1
  <1>3. /\ Tail(s) \in Seq(T) /\ Len(Tail(s)) = Len(s) - 1 /\ Head(s) = s[1]
        /\ \A i \in 1..(Len(s) - 1) : Tail(s)[i] = s[i + 1]
    BY <1>1, <1>2
  <1>4. /\ SubSeq(s, 1, Len(s) - 1) \in Seq(T) /\ Len(SubSeq(s, 1, Len(s) - 1)) = Len(s) - 1
        /\ \A i \in 1..(Len(s) - 1) : SubSeq(s, 1, Len(s) - 1)[i] = s[i]
    <2>1. PICK n \in Nat : n = Len(s) - 1
      BY <1>2
    <2>2. \A i \in 1..n : s[i] \in T
      BY <1>1, <1>2, <2>1
    <2>3. SubSeq(s, 1, n) \in Seq(T) /\ Len(SubSeq(s, 1, n)) = n
          /\ \A i \in 1..n : SubSeq(s, 1, n)[i] = s[i]
      BY <2>2, SubSeqProperties
    <2> QED BY <2>1, <2>3
  <1> QED BY <1>2, <1>3, <1>4, SequencesAre

(* A set of numbers has a least one, and what holds of 0, and of k + 1 if  *)
(* of k, holds of n.                                                       *)
LEMMA LeastExists ==
  ASSUME NEW S \in SUBSET Nat, S # {}
  PROVE  \E k \in S : \A j \in S : ~(j < k)
<1> DEFINE R == {ss \in Nat \X Nat : ss[1] < ss[2]}
<1>1. IsWellFoundedOn(R, Nat)
  BY NatLessThanWellFounded, Zenon DEF OpToRel
<1>2. PICK k \in S : \A j \in S : ~(<<j, k>> \in R)
  <2> HIDE DEF R
  <2> QED BY <1>1, WFMin
<1>3. \A j \in S : ~(j < k)
  BY <1>2
<1> QED BY <1>3

LEMMA Climb ==
  ASSUME NEW n \in Nat, NEW S, 0 \in S, \A k \in 0..(n - 1) : k \in S => k + 1 \in S
  PROVE  n \in S
<1> DEFINE missing == {k \in 0..n : k \notin S}
<1> SUFFICES ASSUME n \notin S PROVE FALSE
  OBVIOUS
<1>1. missing \in SUBSET Nat /\ missing # {}
  OBVIOUS
<1>2. PICK k \in missing : \A j \in missing : ~(j < k)
  <2> HIDE DEF missing
  <2> QED BY <1>1, LeastExists
<1>3. k # 0 /\ k - 1 \in 0..(n - 1) /\ k - 1 < k /\ (k - 1) + 1 = k
  OBVIOUS
<1>4. k - 1 \in S
  BY <1>2, <1>3
<1> QED BY <1>3, <1>4

---------------------------------------------------------------------------
(* What holds of the visits and contexts of a load: frames and contexts    *)
(* are made as above, and what a visit has left to do is the end of its    *)
(* file.  A statement is executed when no visit of its context has it left *)
(* to do; what it loads then comes after its context, and no two contexts  *)
(* have executed the description of the same target.                       *)
FrameMade(fr) ==
  fr = [ctx |-> fr.ctx, call |-> fr.call, alias |-> fr.alias, todo |-> fr.todo, vars |-> fr.vars]
ContextMade(x) ==
  x = [how |-> x.how, file |-> x.file, globals |-> x.globals, defines |-> x.defines,
       cached |-> x.cached]

Left(k) == Len(frames[k].todo)
Visiting(k) == ~frames[k].call
Text(c) == script[ctxs[c].file]

FramesInOrder ==
  /\ IsSequence(frames) /\ Len(frames) > 0
  /\ Visiting(1) /\ frames[1].ctx = 1
  /\ \A k \in 1..Len(frames) :
       /\ FrameMade(frames[k]) /\ frames[k].ctx \in 1..Len(ctxs) /\ frames[k].call \in BOOLEAN
       /\ Visiting(k) => ctxs[frames[k].ctx].file \in Files

ContextsInOrder ==
  /\ script \in Scripts
  /\ IsSequence(ctxs)
  /\ \A c \in 1..Len(ctxs) :
       /\ ContextMade(ctxs[c])
       /\ ctxs[c].file \in Files \cup {NoFile}
       /\ ctxs[c].how \in {"main", "import", "fetch"}
       /\ ctxs[c].how = "main" <=> c = 1
       /\ ctxs[c].how = "import" => ctxs[c].cached
Suffixes ==
  \A k \in 1..Len(frames) : Visiting(k) =>
    /\ IsSequence(frames[k].todo)
    /\ Left(k) <= Len(Text(frames[k].ctx))
    /\ \A i \in 1..Left(k) :
         frames[k].todo[i] = Text(frames[k].ctx)[Len(Text(frames[k].ctx)) - Left(k) + i]
EndInOrder == outcome = "ok" => Len(frames) = 1 /\ frames[1].todo = <<>>

Executed(c) ==
  {i \in 1..Len(Text(c)) :
     \A k \in 1..Len(frames) :
       Visiting(k) /\ frames[k].ctx = c => i + Left(k) <= Len(Text(c))}
LoadedAfter(c, f) == \E b \in (c + 1)..Len(ctxs) : ctxs[b].file = f
Effect(c, s) ==
  /\ s.op \in {"import", "fetch"} /\ s.file \in Files => LoadedAfter(c, s.file)
  /\ s.op = "fetch" /\ s.file \in Remotes /\ incomplete = {} => LoadedAfter(c, Holds[s.file])
  /\ s.op = "target" => s.target \in described
Effects ==
  \A c \in 1..Len(ctxs) : ctxs[c].file \in Files =>
    \A i \in Executed(c) : Effect(c, Text(c)[i])
TargetsApart ==
  \A b, c \in 1..Len(ctxs) : b # c /\ ctxs[b].file \in Files /\ ctxs[c].file \in Files =>
    \A i \in Executed(b), j \in Executed(c) :
      Text(b)[i].op = "target" /\ Text(c)[j].op = "target" => Text(b)[i].target # Text(c)[j].target
LoadIInv == FramesInOrder /\ ContextsInOrder /\ Suffixes /\ EndInOrder /\ Effects /\ TargetsApart

---------------------------------------------------------------------------
(* Held is well defined: whether a context is held depends on earlier ones *)
(* only.                                                                   *)
IsHeld(n, held) ==
  held = [c \in 1..n |->
            \/ \E k \in DOMAIN frames : frames[k].ctx = c \/ c \in Values(frames[k].vars)
            \/ \E b \in 1..(c - 1) : held[b] /\ c \in Values(ctxs[b].globals)]

LEMMA HeldExists ==
  ASSUME NEW n \in Nat
  PROVE  \E held : IsHeld(n, held)
  <1> DEFINE knows(b, c) == c \in Values(ctxs[b].globals)
             root(c) == \E k \in DOMAIN frames : frames[k].ctx = c \/ c \in Values(frames[k].vars)
             next(f, c) == root(c) \/ \E b \in 1..(c - 1) : f[b] /\ knows(b, c)
             S == {m \in 0..n : \E f : f = [c \in 1..m |-> next(f, c)]}
  <1>1. 0 \in S
    <2> DEFINE f == [c \in 1..0 |-> TRUE]
    <2> HIDE DEF next
    <2>1. f = [c \in 1..0 |-> next(f, c)]
      OBVIOUS
    <2> HIDE DEF f
    <2>2. \E h : h = [c \in 1..0 |-> next(h, c)]
      BY <2>1
    <2>3. 0 \in 0..n
      OBVIOUS
    <2> QED BY <2>2, <2>3
  <1>2. ASSUME NEW k \in 0..(n - 1), k \in S
        PROVE  k + 1 \in S
    <2>1. PICK f : f = [c \in 1..k |-> next(f, c)]
      <3> HIDE DEF next
      <3> QED BY <1>2
    <2> DEFINE g == [c \in 1..(k + 1) |-> IF c = k + 1 THEN next(f, k + 1) ELSE f[c]]
    <2>2. ASSUME NEW c \in 1..(k + 1)
          PROVE  g[c] = next(g, c)
      <3>1. \A b \in 1..(c - 1) : g[b] = f[b]
        <4>1. \A b \in 1..(c - 1) : b \in 1..(k + 1) /\ b # k + 1
          OBVIOUS
        <4> HIDE DEF next
        <4> QED BY <4>1
      <3>2. next(g, c) = next(f, c)
        <4> HIDE DEF g, root, knows
        <4> QED BY <3>1
      <3>3. g[c] = next(f, c)
        <4> HIDE DEF next
        <4>1. CASE c = k + 1
          BY <4>1
        <4>2. CASE c # k + 1
          <5>1. c \in 1..k /\ g[c] = f[c]
            BY <4>2
          <5> QED BY <2>1, <5>1
        <4> QED BY <4>1, <4>2
      <3> HIDE DEF g, next
      <3> QED BY <3>2, <3>3
    <2>3. g = [c \in 1..(k + 1) |-> g[c]]
      <3> HIDE DEF next
      <3> QED OBVIOUS
    <2>4. g = [c \in 1..(k + 1) |-> next(g, c)]
      <3> HIDE DEF g, next
      <3> QED BY <2>2, <2>3
    <2> HIDE DEF g, next
    <2> QED BY <2>4
  <1>3. n \in S
    <2> HIDE DEF S
    <2> QED BY <1>1, <1>2, Climb
  <1> QED BY <1>3 DEF IsHeld

(* A context that is visited or called into is held.                       *)
LEMMA VisitedIsHeld ==
  ASSUME FramesInOrder, ContextsInOrder, NEW k \in DOMAIN frames
  PROVE  frames[k].ctx \in Held
  <1> DEFINE held == CHOOSE held : IsHeld(Len(ctxs), held)
             c == frames[k].ctx
  <1>1. Len(ctxs) \in Nat /\ k \in 1..Len(frames) /\ c \in 1..Len(ctxs)
    BY DEF FramesInOrder, ContextsInOrder, IsSequence
  <1>2. IsHeld(Len(ctxs), held)
    BY <1>1, HeldExists
  <1>3. Held = {b \in 1..Len(ctxs) : held[b]}
    BY DEF Held, IsHeld
  <1> HIDE DEF held
  <1>4. \E j \in DOMAIN frames : frames[j].ctx = c \/ c \in Values(frames[j].vars)
    OBVIOUS
  <1> HIDE DEF c
  <1>5. held[c]
    BY <1>1, <1>2, <1>4 DEF IsHeld
  <1> QED BY <1>1, <1>3, <1>5 DEF c

LEMMA InOrderAlive ==
  ASSUME FramesInOrder, ContextsInOrder
  PROVE  RunningAlive
  <1> SUFFICES ASSUME NEW k \in DOMAIN frames
               PROVE  \/ TreeAlive(frames[k].ctx)
                      \/ frames[k].call /\ ctxs[frames[k].ctx].how = "fetch"
    BY DEF RunningAlive
  <1> DEFINE c == frames[k].ctx
  <1>1. k \in 1..Len(frames) /\ c \in 1..Len(ctxs) /\ 1 \in DOMAIN frames
    BY DEF FramesInOrder, ContextsInOrder, IsSequence
  <1>2. CASE ~frames[k].call
    BY <1>2 DEF TreeAlive, Parsed
  <1>3. CASE frames[k].call /\ ctxs[c].how = "main"
    <2>1. c = 1 /\ frames[1].ctx = 1 /\ ~frames[1].call
      BY <1>1, <1>3 DEF FramesInOrder, ContextsInOrder, Visiting
    <2> QED BY <1>1, <2>1 DEF TreeAlive, Parsed
  <1>4. CASE frames[k].call /\ ctxs[c].how = "import"
    <2>1. ctxs[c].cached
      BY <1>1, <1>4 DEF ContextsInOrder
    <2> QED BY <2>1, VisitedIsHeld DEF TreeAlive
  <1>5. frames[k].call \in BOOLEAN /\ ctxs[c].how \in {"main", "import", "fetch"}
    BY <1>1 DEF FramesInOrder, ContextsInOrder
  <1> QED BY <1>2, <1>3, <1>4, <1>5

---------------------------------------------------------------------------
(* What a step may do to the visits in progress: the last one goes on by a *)
(* statement or ends, one more may begin, the others stay.                 *)
Ongoing ==
  \A k \in 1..Len(frames) :
    \/ k = Len(frames) /\ frames[k].todo = <<>> /\ Len(frames') = Len(frames) - 1
    \/ /\ k \in 1..Len(frames') /\ FrameMade(frames'[k])
       /\ frames'[k].ctx = frames[k].ctx /\ frames'[k].call = frames[k].call
       /\ \/ frames'[k].todo = frames[k].todo
          \/ k = Len(frames) /\ frames[k].todo # <<>> /\ frames'[k].todo = Tail(frames[k].todo)
Begun ==
  \A k \in 1..Len(frames') : k > Len(frames) =>
    /\ FrameMade(frames'[k]) /\ frames'[k].ctx \in 1..Len(ctxs') /\ frames'[k].call \in BOOLEAN
    /\ ~frames'[k].call =>
         ctxs'[frames'[k].ctx].file \in Files /\ frames'[k].todo = script[ctxs'[frames'[k].ctx].file]
Made ==
  /\ Len(ctxs) <= Len(ctxs')
  /\ \A c \in 1..Len(ctxs) : ctxs'[c].file = ctxs[c].file
  /\ \A c \in 1..Len(ctxs') : c > Len(ctxs) /\ ctxs'[c].file \in Files =>
       \E k \in 1..Len(frames') : /\ k > Len(frames) /\ ~frames'[k].call /\ frames'[k].ctx = c
VisitMoves ==
  /\ script' = script /\ IsSequence(frames') /\ Len(frames') > 0
  /\ Ongoing /\ Begun /\ Made

LEMMA TextsAre ==
  ASSUME ContextsInOrder, NEW c \in 1..Len(ctxs), ctxs[c].file \in Files
  PROVE  IsSequence(Text(c)) /\ Len(Text(c)) \in Nat
  <1>1. IsSequence(Text(c))
    BY ScriptsAssumption DEF ContextsInOrder, Text, IsSequence
  <1>2. Len(Text(c)) \in Nat
    <2> DEFINE t == Text(c)
    <2>1. IsSequence(t)
      BY <1>1
    <2> HIDE DEF t
    <2>2. Len(t) \in Nat
      BY <2>1 DEF IsSequence
    <2> QED BY <2>2 DEF t
  <1> QED BY <1>1, <1>2

LEMMA LeftIs ==
  ASSUME NEW todo, IsSequence(todo)
  PROVE  /\ Len(todo) \in Nat /\ (todo = <<>> <=> Len(todo) = 0)
         /\ todo # <<>> => /\ IsSequence(Tail(todo)) /\ Len(Tail(todo)) = Len(todo) - 1
                           /\ Head(todo) = todo[1]
                           /\ \A i \in 1..(Len(todo) - 1) : Tail(todo)[i] = todo[i + 1]
  <1>1. Len(todo) \in Nat /\ (todo = <<>> <=> Len(todo) = 0)
    BY DEF IsSequence
  <1>2. CASE todo # <<>>
    <2>1. Len(todo) > 0
      BY <1>1, <1>2
    <2> QED BY <1>1, <1>2, <2>1, Shortened
  <1> QED BY <1>1, <1>2

(* A statement that becomes executed is the one the last visit is at.      *)
LEMMA ExecutedGrows ==
  ASSUME FramesInOrder, ContextsInOrder, Suffixes, VisitMoves,
         NEW c \in 1..Len(ctxs), ctxs[c].file \in Files, NEW i \in Executed(c)'
  PROVE  /\ Text(c)' = Text(c)
         /\ \/ i \in Executed(c)
            \/ /\ Visiting(Len(frames)) /\ Top.ctx = c /\ Top.todo # <<>>
               /\ Text(c)[i] = Statement /\ Len(frames') >= Len(frames)
  <1>1. Text(c)' = Text(c)
    BY DEF VisitMoves, Made, Text
  <1>2. Len(Text(c)) \in Nat
    BY TextsAre
  <1>3. i \in 1..Len(Text(c))
    BY <1>1 DEF Executed
  <1>4. SUFFICES ASSUME i \notin Executed(c)
                 PROVE  /\ Visiting(Len(frames)) /\ Top.ctx = c /\ Top.todo # <<>>
                        /\ Text(c)[i] = Statement /\ Len(frames') >= Len(frames)
    BY <1>1
  <1>5. PICK k \in 1..Len(frames) :
          Visiting(k) /\ frames[k].ctx = c /\ ~(i + Left(k) <= Len(Text(c)))
    BY <1>3, <1>4 DEF Executed
  <1>6. /\ Len(frames) \in Nat /\ Len(frames') \in Nat
        /\ IsSequence(frames[k].todo) /\ Left(k) <= Len(Text(c))
        /\ \A j \in 1..Left(k) : frames[k].todo[j] = Text(c)[Len(Text(c)) - Left(k) + j]
    <2>1. Len(frames) \in Nat /\ Len(frames') \in Nat
      BY DEF FramesInOrder, VisitMoves, IsSequence
    <2> QED BY <1>5, <2>1 DEF Suffixes
  <1>7. Left(k) \in Nat /\ Left(k) # 0 /\ frames[k].todo # <<>>
    BY <1>2, <1>3, <1>5, <1>6, LeftIs DEF Left
  <1>8. /\ k \in 1..Len(frames') /\ frames'[k].ctx = c /\ ~frames'[k].call
        /\ \/ frames'[k].todo = frames[k].todo
           \/ k = Len(frames) /\ frames'[k].todo = Tail(frames[k].todo)
    BY <1>5, <1>7 DEF VisitMoves, Ongoing, Visiting
  <1>9. i + Len(frames'[k].todo) <= Len(Text(c))
    <2>1. i \in Executed(c)'
      OBVIOUS
    <2> QED BY <1>1, <1>8, <2>1 DEF Executed, Visiting, Left
  <1>10. k = Len(frames) /\ Len(frames'[k].todo) = Left(k) - 1 /\ Head(frames[k].todo) = frames[k].todo[1]
    BY <1>5, <1>6, <1>7, <1>8, <1>9, LeftIs DEF Left
  <1>11. i = Len(Text(c)) - Left(k) + 1
    BY <1>2, <1>3, <1>5, <1>6, <1>7, <1>9, <1>10
  <1>12. Text(c)[i] = Statement
    <2>1. 1 \in 1..Left(k)
      BY <1>7
    <2>2. Head(frames[k].todo) = Text(c)[i]
      BY <1>6, <1>10, <1>11, <2>1
    <2> QED BY <1>10, <2>2 DEF Statement, Top
  <1> QED BY <1>5, <1>6, <1>7, <1>8, <1>10, <1>12 DEF Top

(* A context just made has executed nothing.                               *)
LEMMA NothingExecuted ==
  ASSUME FramesInOrder, ContextsInOrder, ContextsInOrder', VisitMoves,
         NEW c \in 1..Len(ctxs'), c > Len(ctxs), ctxs'[c].file \in Files
  PROVE  Executed(c)' = {}
  <1>1. PICK k \in 1..Len(frames') : k > Len(frames) /\ ~frames'[k].call /\ frames'[k].ctx = c
    BY DEF VisitMoves, Made
  <1>2. frames'[k].todo = script[ctxs'[c].file]
    BY <1>1 DEF VisitMoves, Begun
  <1>3. Text(c)' = frames'[k].todo
    BY <1>2 DEF Text, VisitMoves
  <1>4. Len(frames'[k].todo) \in Nat
    <2> DEFINE t == script[ctxs'[c].file]
    <2>1. IsSequence(t)
      BY ScriptsAssumption DEF ContextsInOrder, IsSequence
    <2> HIDE DEF t
    <2>2. Len(t) \in Nat
      BY <2>1 DEF IsSequence
    <2> QED BY <1>2, <2>2 DEF t
  <1>5. \A i \in 1..Len(frames'[k].todo) : ~(i + Len(frames'[k].todo) <= Len(frames'[k].todo))
    BY <1>4
  <1> QED BY <1>1, <1>3, <1>5 DEF Executed, Visiting, Left

LEMMA MovesKeepOrder ==
  ASSUME FramesInOrder, ContextsInOrder, Suffixes, VisitMoves, ContextsInOrder'
  PROVE  FramesInOrder' /\ Suffixes'
  <1>1. Len(frames) \in Nat /\ Len(frames') \in Nat /\ Len(ctxs) \in Nat /\ Len(ctxs') \in Nat
    BY DEF FramesInOrder, ContextsInOrder, VisitMoves, IsSequence
  <1>2. ASSUME NEW k \in 1..Len(frames'), k <= Len(frames)
        PROVE  /\ FrameMade(frames'[k]) /\ frames'[k].ctx = frames[k].ctx /\ frames'[k].call = frames[k].call
               /\ \/ frames'[k].todo = frames[k].todo
                  \/ frames[k].todo # <<>> /\ frames'[k].todo = Tail(frames[k].todo)
    <2>1. ~(k = Len(frames) /\ Len(frames') = Len(frames) - 1)
      BY <1>1, <1>2
    <2> QED BY <1>1, <1>2, <2>1 DEF VisitMoves, Ongoing
  <1>3. ASSUME NEW k \in 1..Len(frames')
        PROVE  /\ FrameMade(frames'[k]) /\ frames'[k].ctx \in 1..Len(ctxs') /\ frames'[k].call \in BOOLEAN
               /\ ~frames'[k].call => ctxs'[frames'[k].ctx].file \in Files
    <2>1. CASE k <= Len(frames)
      <3>1. k \in 1..Len(frames)
        BY <1>1, <2>1
      <3>2. frames[k].ctx \in 1..Len(ctxs) /\ frames[k].call \in BOOLEAN
            /\ (~frames[k].call => ctxs[frames[k].ctx].file \in Files)
        BY <3>1 DEF FramesInOrder, Visiting
      <3>3. frames[k].ctx \in 1..Len(ctxs') /\ ctxs'[frames[k].ctx].file = ctxs[frames[k].ctx].file
        BY <1>1, <3>2 DEF VisitMoves, Made
      <3> QED BY <1>2, <2>1, <3>2, <3>3
    <2>2. CASE ~(k <= Len(frames))
      BY <1>1, <2>2 DEF VisitMoves, Begun
    <2> QED BY <2>1, <2>2
  <1>4. Visiting(1)' /\ frames'[1].ctx = 1
    <2>1. 1 \in 1..Len(frames') /\ 1 <= Len(frames)
      BY <1>1 DEF VisitMoves, FramesInOrder
    <2> QED BY <1>2, <2>1 DEF Visiting, FramesInOrder
  <1>5. ASSUME NEW k \in 1..Len(frames'), ~frames'[k].call
        PROVE  /\ IsSequence(frames'[k].todo)
               /\ Len(frames'[k].todo) <= Len(script[ctxs'[frames'[k].ctx].file])
               /\ \A i \in 1..Len(frames'[k].todo) :
                    frames'[k].todo[i] =
                      script[ctxs'[frames'[k].ctx].file]
                        [Len(script[ctxs'[frames'[k].ctx].file]) - Len(frames'[k].todo) + i]
    <2> DEFINE text == script[ctxs'[frames'[k].ctx].file]
    <2>1. ctxs'[frames'[k].ctx].file \in Files
      BY <1>3, <1>5
    <2>2. IsSequence(text) /\ Len(text) \in Nat
      <3>1. IsSequence(text)
        BY <2>1, ScriptsAssumption DEF ContextsInOrder, IsSequence
      <3> HIDE DEF text
      <3> QED BY <3>1 DEF IsSequence
    <2>3. CASE k <= Len(frames)
      <3> DEFINE old == frames[k].todo
      <3>1. k \in 1..Len(frames) /\ frames'[k].ctx = frames[k].ctx /\ ~frames[k].call
        BY <1>1, <1>2, <1>5, <2>3
      <3>2. text = Text(frames[k].ctx)
        <4>1. frames[k].ctx \in 1..Len(ctxs)
          BY <3>1 DEF FramesInOrder
        <4> QED BY <3>1, <4>1 DEF Text, VisitMoves, Made
      <3>3. /\ IsSequence(old) /\ Len(old) <= Len(text)
            /\ \A i \in 1..Len(old) : old[i] = text[Len(text) - Len(old) + i]
        BY <3>1, <3>2 DEF Suffixes, Visiting, Left
      <3>4. \/ frames'[k].todo = old
            \/ old # <<>> /\ frames'[k].todo = Tail(old)
        BY <1>2, <2>3
      <3> HIDE DEF text, old
      <3>5. CASE old # <<>> /\ frames'[k].todo = Tail(old)
        <4>1. /\ Len(old) \in Nat /\ IsSequence(Tail(old)) /\ Len(Tail(old)) = Len(old) - 1
              /\ \A i \in 1..(Len(old) - 1) : Tail(old)[i] = old[i + 1]
          BY <3>3, <3>5, LeftIs
        <4>2. ASSUME NEW i \in 1..(Len(old) - 1)
              PROVE  Tail(old)[i] = text[Len(text) - Len(Tail(old)) + i]
          <5>1. i + 1 \in 1..Len(old)
                /\ Len(text) - Len(old) + (i + 1) = Len(text) - Len(Tail(old)) + i
            <6>1. PICK m \in Nat, n \in Nat : m = Len(old) /\ n = Len(text)
              BY <2>2, <4>1
            <6>2. i \in 1..(m - 1) /\ Len(Tail(old)) = m - 1
              BY <4>1, <6>1
            <6>3. i + 1 \in 1..m /\ n - m + (i + 1) = n - (m - 1) + i
              BY <6>2
            <6> QED BY <6>1, <6>2, <6>3
          <5> QED BY <3>3, <4>1, <5>1
        <4>3. Len(Tail(old)) <= Len(text)
          BY <2>2, <3>3, <4>1
        <4>4. /\ IsSequence(Tail(old)) /\ Len(Tail(old)) <= Len(text)
              /\ \A i \in 1..Len(Tail(old)) : Tail(old)[i] = text[Len(text) - Len(Tail(old)) + i]
          BY <4>1, <4>2, <4>3
        <4> QED BY <3>5, <4>4 DEF text
      <3>6. CASE frames'[k].todo = old
        BY <3>3, <3>6 DEF text
      <3> QED BY <3>4, <3>5, <3>6
    <2>4. CASE ~(k <= Len(frames))
      <3>1. frames'[k].todo = text
        BY <1>1, <1>5, <2>4 DEF VisitMoves, Begun
      <3> HIDE DEF text
      <3>2. \A i \in 1..Len(text) : Len(text) - Len(text) + i = i
        BY <2>2
      <3>3. Len(text) <= Len(text)
        BY <2>2
      <3> QED BY <2>2, <3>1, <3>2, <3>3 DEF text
    <2> QED BY <2>3, <2>4
  <1>6. FramesInOrder'
    BY <1>3, <1>4 DEF FramesInOrder, Visiting, VisitMoves
  <1>7. script' = script
    BY DEF VisitMoves
  <1>8. Suffixes'
    BY <1>5, <1>7 DEF Suffixes, Visiting, Left, Text
  <1> QED BY <1>6, <1>8

(* What the statement the last visit is at leaves behind when it is passed.*)
Passed ==
  /\ Statement.op \in {"import", "fetch"} /\ Statement.file \in Files =>
       \E b \in 1..Len(ctxs') : b > Len(ctxs) /\ ctxs'[b].file = Statement.file
  /\ Statement.op = "fetch" /\ Statement.file \in Remotes /\ incomplete' = {} =>
       \E b \in 1..Len(ctxs') : b > Len(ctxs) /\ ctxs'[b].file = Holds[Statement.file]
  /\ Statement.op = "target" => Statement.target \in described' /\ Statement.target \notin described

LEMMA MovesKeepEffects ==
  ASSUME FramesInOrder, ContextsInOrder, Suffixes, Effects, TargetsApart,
         VisitMoves, ContextsInOrder',
         described \subseteq described', incomplete' = {} => incomplete = {},
         Top.todo # <<>> /\ Len(frames') >= Len(frames) => Passed
  PROVE  Effects' /\ TargetsApart'
  <1>1. Len(ctxs) \in Nat /\ Len(ctxs') \in Nat /\ Len(ctxs) <= Len(ctxs')
    BY DEF ContextsInOrder, VisitMoves, Made, IsSequence
  <1>2. Len(frames) \in Nat \ {0} /\ Top.ctx \in 1..Len(ctxs)
    BY DEF FramesInOrder, IsSequence, Top
  <1>3. ASSUME NEW c \in 1..Len(ctxs'), ctxs'[c].file \in Files, NEW i \in Executed(c)'
        PROVE  /\ c \in 1..Len(ctxs) /\ ctxs[c].file \in Files /\ Text(c)' = Text(c)
               /\ \/ i \in Executed(c)
                  \/ Top.ctx = c /\ Text(c)[i] = Statement /\ Passed
    <2>1. c <= Len(ctxs)
      BY <1>1, <1>3, NothingExecuted
    <2>2. c \in 1..Len(ctxs)
      BY <1>1, <2>1
    <2>3. ctxs[c].file \in Files
      BY <1>3, <2>2 DEF VisitMoves, Made
    <2> QED BY <1>3, <2>2, <2>3, ExecutedGrows
  <1>4. ASSUME NEW c \in 1..Len(ctxs'), ctxs'[c].file \in Files, NEW i \in Executed(c)', NEW s,
               s = Text(c)[i]
        PROVE  /\ s.op \in {"import", "fetch"} /\ s.file \in Files =>
                    \E b \in (c + 1)..Len(ctxs') : ctxs'[b].file = s.file
               /\ s.op = "fetch" /\ s.file \in Remotes /\ incomplete' = {} =>
                    \E b \in (c + 1)..Len(ctxs') : ctxs'[b].file = Holds[s.file]
               /\ s.op = "target" => s.target \in described'
    <2>1. c \in 1..Len(ctxs) /\ ctxs[c].file \in Files
      BY <1>3, <1>4
    <2>2. CASE i \in Executed(c)
      <3>1. Effect(c, s)
        BY <1>4, <2>1, <2>2 DEF Effects
      <3>2. \A b \in (c + 1)..Len(ctxs) : b \in (c + 1)..Len(ctxs') /\ ctxs'[b].file = ctxs[b].file
        <4>1. \A b \in (c + 1)..Len(ctxs) : b \in (c + 1)..Len(ctxs') /\ b \in 1..Len(ctxs)
          BY <1>1, <2>1
        <4> QED BY <4>1 DEF VisitMoves, Made
      <3> QED BY <3>1, <3>2 DEF Effect, LoadedAfter
    <2>3. CASE Text(c)[i] = Statement /\ Passed
      <3>1. \A b \in 1..Len(ctxs') : b > Len(ctxs) => b \in (c + 1)..Len(ctxs')
        BY <1>1, <2>1
      <3> QED BY <1>4, <2>3, <3>1 DEF Passed
    <2> QED BY <1>3, <1>4, <2>2, <2>3
  <1>5. Effects'
    <2>1. SUFFICES ASSUME NEW c \in 1..Len(ctxs'), ctxs'[c].file \in Files, NEW i \in Executed(c)'
                   PROVE  Effect(c, Text(c)[i])'
      BY DEF Effects
    <2>2. Text(c)' = Text(c)
      BY <1>3, <2>1
    <2> QED BY <1>4, <2>1, <2>2 DEF Effect, LoadedAfter
  <1>6. TargetsApart'
    <2>1. SUFFICES ASSUME NEW b \in 1..Len(ctxs'), NEW c \in 1..Len(ctxs'), b # c,
                          ctxs'[b].file \in Files, ctxs'[c].file \in Files,
                          NEW i \in Executed(b)', NEW j \in Executed(c)',
                          Text(b)'[i].op = "target", Text(c)'[j].op = "target"
                   PROVE  Text(b)'[i].target # Text(c)'[j].target
      BY DEF TargetsApart
    <2>2. /\ b \in 1..Len(ctxs) /\ ctxs[b].file \in Files /\ Text(b)' = Text(b)
          /\ \/ i \in Executed(b)
             \/ Top.ctx = b /\ Text(b)[i] = Statement /\ Passed
      BY <1>3, <2>1
    <2>3. /\ c \in 1..Len(ctxs) /\ ctxs[c].file \in Files /\ Text(c)' = Text(c)
          /\ \/ j \in Executed(c)
             \/ Top.ctx = c /\ Text(c)[j] = Statement /\ Passed
      BY <1>3, <2>1
    <2>4. /\ i \in Executed(b) => Text(b)[i].target \in described
          /\ j \in Executed(c) => Text(c)[j].target \in described
      BY <2>1, <2>2, <2>3 DEF Effects, Effect
    <2>5. CASE i \in Executed(b) /\ j \in Executed(c)
      BY <2>1, <2>2, <2>3, <2>5 DEF TargetsApart
    <2>6. CASE i \in Executed(b) /\ Text(c)[j] = Statement /\ Passed
      BY <2>1, <2>2, <2>3, <2>4, <2>6 DEF Passed
    <2>7. CASE j \in Executed(c) /\ Text(b)[i] = Statement /\ Passed
      BY <2>1, <2>2, <2>3, <2>4, <2>7 DEF Passed
    <2> QED BY <2>1, <2>2, <2>3, <2>5, <2>6, <2>7
  <1> QED BY <1>5, <1>6

---------------------------------------------------------------------------
(* The steps: what becomes of the contexts,                                *)
LEMMA ContextAdded ==
  ASSUME FramesInOrder, ContextsInOrder, script' = script, NEW how \in {"import", "fetch"},
         NEW f \in Files \cup {NoFile}, ctxs' = Append(ctxs, Context(how, f))
  PROVE  /\ ContextsInOrder' /\ Len(ctxs) \in Nat /\ Len(ctxs') = Len(ctxs) + 1
         /\ \A c \in 1..Len(ctxs) : ctxs'[c] = ctxs[c]
         /\ ctxs'[Len(ctxs) + 1].file = f
  <1> DEFINE new == Context(how, f)
  <1>1. /\ ContextMade(new) /\ new.file = f /\ new.how = how /\ (how = "import" => new.cached)
    BY DEF Context, ContextMade
  <1> HIDE DEF new
  <1>2. /\ IsSequence(ctxs') /\ Len(ctxs) \in Nat /\ Len(ctxs') = Len(ctxs) + 1
        /\ \A c \in 1..Len(ctxs) : ctxs'[c] = ctxs[c]
        /\ ctxs'[Len(ctxs) + 1] = new
    BY Appended DEF ContextsInOrder, new
  <1>3. \A c \in 1..Len(ctxs') : c \in 1..Len(ctxs) \/ (c = Len(ctxs) + 1 /\ c # 1)
    <2>1. 1 \in 1..Len(frames)
      BY DEF FramesInOrder, IsSequence
    <2>2. frames[1].ctx \in 1..Len(ctxs)
      BY <2>1 DEF FramesInOrder
    <2> QED BY <1>2, <2>2
  <1>4. ASSUME NEW c \in 1..Len(ctxs')
        PROVE  /\ ContextMade(ctxs'[c])
               /\ ctxs'[c].file \in Files \cup {NoFile}
               /\ ctxs'[c].how \in {"main", "import", "fetch"}
               /\ ctxs'[c].how = "main" <=> c = 1
               /\ ctxs'[c].how = "import" => ctxs'[c].cached
    <2>1. CASE c \in 1..Len(ctxs)
      BY <1>2, <2>1 DEF ContextsInOrder
    <2>2. CASE c = Len(ctxs) + 1 /\ c # 1
      BY <1>1, <1>2, <2>2
    <2> QED BY <1>3, <2>1, <2>2
  <1>5. ContextsInOrder'
    BY <1>2, <1>4 DEF ContextsInOrder
  <1> QED BY <1>1, <1>2, <1>5

LEMMA ContextChanged ==
  ASSUME ContextsInOrder, script' = script, NEW c \in 1..Len(ctxs), NEW x,
         ContextMade(x), x.how = ctxs[c].how, x.file = ctxs[c].file, x.cached = ctxs[c].cached,
         ctxs' = [ctxs EXCEPT ![c] = x]
  PROVE  /\ ContextsInOrder' /\ Len(ctxs') = Len(ctxs)
         /\ \A b \in 1..Len(ctxs) : ctxs'[b].file = ctxs[b].file
  <1>1. /\ IsSequence(ctxs') /\ Len(ctxs') = Len(ctxs)
        /\ \A b \in 1..Len(ctxs) : ctxs'[b] = IF b = c THEN x ELSE ctxs[b]
    <2>1. IsSequence(ctxs)
      BY DEF ContextsInOrder
    <2>2. /\ DOMAIN ctxs' = DOMAIN ctxs /\ ctxs' = [b \in DOMAIN ctxs' |-> ctxs'[b]]
          /\ \A b \in DOMAIN ctxs : ctxs'[b] = IF b = c THEN x ELSE ctxs[b]
      OBVIOUS
    <2> QED BY <2>1, <2>2, Replaced
  <1> QED BY <1>1 DEF ContextsInOrder

(* ... and of the visits in progress.                                      *)
LEMMA FrameChanged ==
  ASSUME NEW fr, FrameMade(fr), NEW t
  PROVE  /\ FrameMade([fr EXCEPT !.todo = t]) /\ FrameMade([fr EXCEPT !.vars = t])
         /\ [fr EXCEPT !.todo = t].ctx = fr.ctx /\ [fr EXCEPT !.vars = t].ctx = fr.ctx
         /\ [fr EXCEPT !.todo = t].call = fr.call /\ [fr EXCEPT !.vars = t].call = fr.call
         /\ [fr EXCEPT !.todo = t].todo = t /\ [fr EXCEPT !.vars = t].todo = fr.todo
  <1>1. PICK c, l, a, d, v : fr = [ctx |-> c, call |-> l, alias |-> a, todo |-> d, vars |-> v]
    BY DEF FrameMade
  <1>2. /\ [fr EXCEPT !.todo = t] = [ctx |-> c, call |-> l, alias |-> a, todo |-> t, vars |-> v]
        /\ [fr EXCEPT !.vars = t] = [ctx |-> c, call |-> l, alias |-> a, todo |-> d, vars |-> t]
    BY <1>1
  <1> QED BY <1>1, <1>2 DEF FrameMade

LEMMA AdvancedIs ==
  ASSUME FramesInOrder
  PROVE  /\ Len(frames) \in Nat \ {0} /\ IsSequence(Advanced) /\ Len(Advanced) = Len(frames)
         /\ \A k \in 1..Len(frames) :
              /\ FrameMade(Advanced[k])
              /\ Advanced[k].ctx = frames[k].ctx /\ Advanced[k].call = frames[k].call
              /\ Advanced[k].todo = IF k = Len(frames) THEN Tail(frames[k].todo) ELSE frames[k].todo
  <1> DEFINE n == Len(frames)
             x == [frames[n] EXCEPT !.todo = Tail(@)]
  <1>1. n \in Nat \ {0} /\ n \in 1..n
    BY DEF FramesInOrder, IsSequence
  <1>2. FrameMade(frames[n])
    BY <1>1 DEF FramesInOrder
  <1>3. FrameMade(x) /\ x.ctx = frames[n].ctx /\ x.call = frames[n].call /\ x.todo = Tail(frames[n].todo)
    BY <1>2, FrameChanged
  <1>4. Advanced = [frames EXCEPT ![n] = x]
    BY DEF Advanced
  <1> HIDE DEF x, n
  <1>5. /\ IsSequence(Advanced) /\ Len(Advanced) = Len(frames)
        /\ \A k \in 1..Len(frames) : Advanced[k] = IF k = n THEN x ELSE frames[k]
    <2>1. IsSequence(frames) /\ n \in 1..Len(frames)
      BY <1>1 DEF FramesInOrder, n
    <2>2. /\ DOMAIN Advanced = DOMAIN frames /\ Advanced = [k \in DOMAIN Advanced |-> Advanced[k]]
          /\ \A k \in DOMAIN frames : Advanced[k] = IF k = n THEN x ELSE frames[k]
      BY <1>4
    <2> QED BY <2>1, <2>2, Replaced
  <1>6. \A k \in 1..Len(frames) : FrameMade(frames[k])
    BY DEF FramesInOrder
  <1> QED BY <1>1, <1>3, <1>5, <1>6 DEF n

LEMMA OnlyAdvanced ==
  ASSUME FramesInOrder, Top.todo # <<>>, frames' = Advanced,
         script' = script, Len(ctxs) \in Nat, Len(ctxs') = Len(ctxs),
         \A c \in 1..Len(ctxs) : ctxs'[c].file = ctxs[c].file
  PROVE  VisitMoves
  <1>1. Ongoing /\ Len(frames') = Len(frames) /\ IsSequence(frames') /\ Len(frames) \in Nat \ {0}
    BY AdvancedIs DEF Ongoing, Top
  <1>2. Begun /\ Made
    BY <1>1 DEF Begun, Made
  <1> QED BY <1>1, <1>2 DEF VisitMoves

LEMMA AdvancedAndBegun ==
  ASSUME FramesInOrder, Top.todo # <<>>, NEW c \in 1..Len(ctxs'), NEW call \in BOOLEAN, NEW alias, NEW todo,
         frames' = Append(Advanced, Frame(c, call, alias, todo)),
         ~call => ctxs'[c].file \in Files /\ todo = script[ctxs'[c].file],
         script' = script, Made
  PROVE  VisitMoves
  <1> DEFINE new == Frame(c, call, alias, todo)
  <1>1. FrameMade(new) /\ new.ctx = c /\ new.call = call /\ new.todo = todo
    BY DEF Frame, FrameMade
  <1> HIDE DEF new
  <1>2. /\ Len(frames) \in Nat \ {0} /\ IsSequence(frames') /\ Len(frames') = Len(frames) + 1
        /\ \A k \in 1..Len(frames) : frames'[k] = Advanced[k]
        /\ frames'[Len(frames) + 1] = new
    BY AdvancedIs, Appended DEF new
  <1>3. Ongoing
    <2>1. \A k \in 1..Len(frames) : k \in 1..Len(frames')
      BY <1>2
    <2> QED BY <1>2, <2>1, AdvancedIs DEF Ongoing, Top
  <1>4. Begun
    <2>1. \A k \in 1..Len(frames') : k > Len(frames) => k = Len(frames) + 1
      BY <1>2
    <2> QED BY <1>1, <1>2, <2>1 DEF Begun
  <1> QED BY <1>2, <1>3, <1>4 DEF VisitMoves

LEMMA LastEnded ==
  ASSUME FramesInOrder, Len(frames) > 1, Top.todo = <<>>,
         IsSequence(frames'), Len(frames') = Len(frames) - 1,
         \A k \in 1..Len(frames') :
           /\ FrameMade(frames'[k]) /\ frames'[k].ctx = frames[k].ctx
           /\ frames'[k].call = frames[k].call /\ frames'[k].todo = frames[k].todo,
         script' = script, Len(ctxs) \in Nat, Len(ctxs') = Len(ctxs),
         \A c \in 1..Len(ctxs) : ctxs'[c].file = ctxs[c].file
  PROVE  VisitMoves
  <1>1. Len(frames) \in Nat /\ Len(frames') \in Nat
    BY DEF FramesInOrder, IsSequence
  <1>2. Begun /\ Made /\ Len(frames') > 0
    BY <1>1 DEF Begun, Made
  <1>3. \A k \in 1..Len(frames) : k = Len(frames) \/ k \in 1..Len(frames')
    BY <1>1
  <1>4. Ongoing
    BY <1>3 DEF Ongoing, Top
  <1> QED BY <1>2, <1>4 DEF VisitMoves

LEMMA PoppedAre ==
  ASSUME FramesInOrder, Len(frames) > 1
  PROVE  /\ IsSequence(Pop) /\ Len(Pop) = Len(frames) - 1 /\ Len(frames) \in Nat
         /\ \A k \in 1..(Len(frames) - 1) : k \in 1..Len(frames) /\ Pop[k] = frames[k] /\ FrameMade(frames[k])
  <1>1. Len(frames) \in Nat
    BY DEF FramesInOrder, IsSequence
  <1>2. \A k \in 1..(Len(frames) - 1) : k \in 1..Len(frames)
    BY <1>1
  <1> QED BY <1>1, <1>2, Shortened DEF FramesInOrder, Pop

---------------------------------------------------------------------------
LEMMA MovesKeep ==
  ASSUME LoadIInv, VisitMoves, ContextsInOrder', outcome' # "ok",
         described \subseteq described', incomplete' = {} => incomplete = {},
         Top.todo # <<>> /\ Len(frames') >= Len(frames) => Passed
  PROVE  LoadIInv'
  <1>1. FramesInOrder /\ ContextsInOrder /\ Suffixes /\ Effects /\ TargetsApart
    BY DEF LoadIInv
  <1>2. FramesInOrder' /\ Suffixes'
    BY <1>1, MovesKeepOrder
  <1>3. Effects' /\ TargetsApart'
    BY <1>1, MovesKeepEffects
  <1>4. EndInOrder'
    BY DEF EndInOrder
  <1> QED BY <1>2, <1>3, <1>4 DEF LoadIInv

LEMMA InOrder ==
  ASSUME LoadIInv
  PROVE  /\ FramesInOrder /\ ContextsInOrder
         /\ Len(frames) \in Nat \ {0} /\ Len(frames) \in 1..Len(frames) /\ Len(ctxs) \in Nat
         /\ Top = frames[Len(frames)] /\ Top.ctx \in 1..Len(ctxs) /\ FrameMade(Top)
         /\ ContextMade(ctxs[Top.ctx])
  <1>1. FramesInOrder /\ ContextsInOrder
    BY DEF LoadIInv
  <1>2. Len(frames) \in Nat \ {0} /\ Len(ctxs) \in Nat
    BY <1>1 DEF FramesInOrder, ContextsInOrder, IsSequence
  <1>3. Len(frames) \in 1..Len(frames)
    BY <1>2
  <1> QED BY <1>1, <1>2, <1>3 DEF FramesInOrder, ContextsInOrder, Top

LEMMA EnterKeeps ==
  ASSUME LoadIInv, outcome = "loading", Top.todo # <<>>,
         NEW how \in {"import", "fetch"}, NEW f \in Files, Enter(how, f),
         incomplete' = {} => incomplete = {},
         Statement.op \in {"import", "fetch"},
         Statement.file \in Files => Statement.file = f,
         Statement.file \in Remotes => f = Holds[Statement.file]
  PROVE  LoadIInv'
  <1> DEFINE new == Len(ctxs) + 1
  <1>1. /\ ctxs' = Append(ctxs, Context(how, f))
        /\ frames' = Append(Advanced, Frame(new, FALSE, Statement.alias, script[f]))
        /\ script' = script /\ described' = described /\ outcome' = "loading"
    BY DEF Enter
  <1>2. /\ ContextsInOrder' /\ Len(ctxs) \in Nat /\ Len(ctxs') = new
        /\ \A c \in 1..Len(ctxs) : ctxs'[c] = ctxs[c]
        /\ ctxs'[new].file = f
    BY <1>1, InOrder, ContextAdded
  <1>3. new \in 1..Len(ctxs') /\ new > Len(ctxs) /\ Len(ctxs) <= Len(ctxs')
    BY <1>2
  <1>4. Made
    <2>1. \A c \in 1..Len(ctxs') : c > Len(ctxs) => c = new
      BY <1>2
    <2>2. /\ Len(frames) \in Nat /\ Len(frames') = Len(frames) + 1
          /\ frames'[Len(frames) + 1] = Frame(new, FALSE, Statement.alias, script[f])
      <3>1. IsSequence(Advanced) /\ Len(Advanced) = Len(frames) /\ Len(frames) \in Nat
        BY InOrder, AdvancedIs
      <3> DEFINE fr == Frame(new, FALSE, Statement.alias, script[f])
      <3>2. frames' = Append(Advanced, fr)
        BY <1>1
      <3> HIDE DEF fr
      <3>3. Len(frames') = Len(Advanced) + 1 /\ frames'[Len(Advanced) + 1] = fr
        BY <3>1, <3>2, Appended, Zenon
      <3> QED BY <3>1, <3>3 DEF fr
    <2>3. /\ Len(frames) + 1 \in 1..Len(frames') /\ Len(frames) + 1 > Len(frames)
          /\ ~frames'[Len(frames) + 1].call /\ frames'[Len(frames) + 1].ctx = new
      BY <2>2 DEF Frame
    <2> QED BY <1>2, <1>3, <2>1, <2>3 DEF Made
  <1>5. VisitMoves
    <2>1. FramesInOrder /\ ctxs'[new].file \in Files /\ script[f] = script[ctxs'[new].file]
      BY <1>2, InOrder
    <2> HIDE DEF new
    <2> QED BY <1>1, <1>3, <1>4, <2>1, AdvancedAndBegun
  <1>6. Passed
    BY <1>2, <1>3 DEF Passed
  <1> QED BY <1>1, <1>2, <1>5, <1>6, MovesKeep

LEMMA TakeEmptyKeeps ==
  ASSUME LoadIInv, TakeEmpty
  PROVE  LoadIInv'
  <1>1. /\ outcome = "loading" /\ Top.todo # <<>> /\ Statement.op = "fetch" /\ Statement.file \in Remotes
        /\ ctxs' = Append(ctxs, Context("fetch", NoFile))
        /\ frames' = [Advanced EXCEPT ![Len(frames)].vars = Put(@, Statement.alias, Len(ctxs) + 1)]
        /\ incomplete' = incomplete \cup {Remote}
        /\ script' = script /\ described' = described /\ outcome' = "loading"
    BY DEF TakeEmpty, Cloned, AtRemote, At, Taken, outside
  <1>2. /\ ContextsInOrder' /\ Len(ctxs) \in Nat /\ Len(ctxs') = Len(ctxs) + 1
        /\ \A c \in 1..Len(ctxs) : ctxs'[c] = ctxs[c]
        /\ ctxs'[Len(ctxs) + 1].file = NoFile
    BY <1>1, InOrder, ContextAdded
  <1> DEFINE n == Len(frames)
             table == Put(Advanced[n].vars, Statement.alias, Len(ctxs) + 1)
             x == [Advanced[n] EXCEPT !.vars = table]
             new == [Advanced EXCEPT ![n] = x]
  <1>3. frames' = new
    BY <1>1
  <1>4. /\ n \in Nat \ {0} /\ IsSequence(Advanced) /\ Len(Advanced) = n /\ n \in 1..n
        /\ \A k \in 1..n :
              /\ FrameMade(Advanced[k])
              /\ Advanced[k].ctx = frames[k].ctx /\ Advanced[k].call = frames[k].call
              /\ Advanced[k].todo = IF k = n THEN Tail(frames[k].todo) ELSE frames[k].todo
    BY InOrder, AdvancedIs
  <1> HIDE DEF table
  <1>5. FrameMade(x) /\ x.ctx = Advanced[n].ctx /\ x.call = Advanced[n].call /\ x.todo = Advanced[n].todo
    BY <1>4, FrameChanged
  <1> HIDE DEF x, n
  <1>6. /\ IsSequence(new) /\ Len(new) = n
        /\ \A k \in 1..n : new[k] = IF k = n THEN x ELSE Advanced[k]
    <2>1. IsSequence(Advanced) /\ n \in 1..Len(Advanced)
      BY <1>4
    <2>2. /\ IsSequence(new) /\ Len(new) = Len(Advanced)
          /\ \A k \in 1..Len(Advanced) : new[k] = IF k = n THEN x ELSE Advanced[k]
      <3>1. /\ DOMAIN new = DOMAIN Advanced /\ new = [k \in DOMAIN new |-> new[k]]
            /\ \A k \in DOMAIN Advanced : new[k] = IF k = n THEN x ELSE Advanced[k]
        OBVIOUS
      <3> HIDE DEF new
      <3> QED BY <2>1, <3>1, Replaced
    <2> HIDE DEF new
    <2> QED BY <1>4, <2>2
  <1> HIDE DEF new
  <1>7. Ongoing /\ Len(frames') = n /\ IsSequence(frames')
    <2>1. Len(frames') = n /\ IsSequence(frames')
      BY <1>3, <1>6
    <2>2. \A k \in 1..n : /\ FrameMade(frames'[k]) /\ frames'[k].ctx = frames[k].ctx
                          /\ frames'[k].call = frames[k].call
                          /\ frames'[k].todo = IF k = n THEN Tail(frames[k].todo) ELSE frames[k].todo
      BY <1>3, <1>4, <1>5, <1>6
    <2>3. frames[n].todo # <<>>
      BY <1>1 DEF Top, n
    <2>4. Ongoing
      BY <2>1, <2>2, <2>3 DEF Ongoing, n
    <2> QED BY <2>1, <2>4
  <1>8. Begun
    BY <1>4, <1>7 DEF Begun, n
  <1>9. Made
    <2>1. \A c \in 1..Len(ctxs') : c > Len(ctxs) => c = Len(ctxs) + 1
      BY <1>2
    <2>2. Len(ctxs) <= Len(ctxs')
      BY <1>2
    <2> QED BY <1>2, <2>1, <2>2, FilesAssumption DEF Made
  <1>10. VisitMoves
    BY <1>1, <1>4, <1>7, <1>8, <1>9 DEF VisitMoves
  <1>11. Passed
    BY <1>1, FilesAssumption DEF Passed
  <1> QED BY <1>1, <1>2, <1>10, <1>11, MovesKeep

LEMMA ContextEdited ==
  ASSUME NEW x, ContextMade(x), NEW t
  PROVE  /\ ContextMade([x EXCEPT !.defines = t]) /\ ContextMade([x EXCEPT !.globals = t])
         /\ [x EXCEPT !.defines = t].how = x.how /\ [x EXCEPT !.globals = t].how = x.how
         /\ [x EXCEPT !.defines = t].file = x.file /\ [x EXCEPT !.globals = t].file = x.file
         /\ [x EXCEPT !.defines = t].cached = x.cached /\ [x EXCEPT !.globals = t].cached = x.cached
  <1>1. PICK h, f, g, d, c : x = [how |-> h, file |-> f, globals |-> g, defines |-> d, cached |-> c]
    BY DEF ContextMade
  <1>2. /\ [x EXCEPT !.defines = t] = [how |-> h, file |-> f, globals |-> g, defines |-> t, cached |-> c]
        /\ [x EXCEPT !.globals = t] = [how |-> h, file |-> f, globals |-> t, defines |-> d, cached |-> c]
    BY <1>1
  <1> QED BY <1>1, <1>2 DEF ContextMade

LEMMA DefineKeeps ==
  ASSUME LoadIInv, Define
  PROVE  LoadIInv'
  <1> DEFINE c == Top.ctx
             x == [ctxs[c] EXCEPT !.defines = TRUE]
  <1>1. /\ outcome = "loading" /\ Top.todo # <<>> /\ Statement.op = "define"
        /\ ctxs' = [ctxs EXCEPT ![c] = x] /\ frames' = Advanced
        /\ script' = script /\ described' = described /\ incomplete' = incomplete /\ outcome' = "loading"
    BY DEF Define, At, outside
  <1>2. ContextMade(x) /\ x.how = ctxs[c].how /\ x.file = ctxs[c].file /\ x.cached = ctxs[c].cached
    BY InOrder, ContextEdited
  <1> HIDE DEF x
  <1>3. /\ ContextsInOrder' /\ Len(ctxs') = Len(ctxs)
        /\ \A b \in 1..Len(ctxs) : ctxs'[b].file = ctxs[b].file
    BY <1>1, <1>2, InOrder, ContextChanged
  <1>4. VisitMoves
    BY <1>1, <1>3, InOrder, OnlyAdvanced
  <1>5. Passed
    BY <1>1 DEF Passed
  <1> QED BY <1>1, <1>3, <1>4, <1>5, MovesKeep

LEMMA DescribeKeeps ==
  ASSUME LoadIInv, Describe
  PROVE  LoadIInv'
  <1>1. /\ outcome = "loading" /\ Top.todo # <<>> /\ Statement.op = "target"
        /\ Statement.target \notin described /\ described' = described \cup {Statement.target}
        /\ ctxs' = ctxs /\ frames' = Advanced
        /\ script' = script /\ incomplete' = incomplete /\ outcome' = "loading"
    BY DEF Describe, At, outside
  <1>2. ContextsInOrder'
    BY <1>1, InOrder DEF ContextsInOrder
  <1>3. VisitMoves
    BY <1>1, InOrder, OnlyAdvanced
  <1>4. Passed
    BY <1>1 DEF Passed
  <1> QED BY <1>1, <1>2, <1>3, <1>4, MovesKeep

LEMMA CallKeeps ==
  ASSUME LoadIInv, NEW c \in DOMAIN ctxs, Call(c)
  PROVE  LoadIInv'
  <1>1. /\ outcome = "loading" /\ Top.todo # <<>> /\ Statement.op = "call"
        /\ ctxs' = ctxs /\ frames' = Append(Advanced, Frame(c, TRUE, NoFile, Body[ctxs[c].file]))
        /\ script' = script /\ described' = described /\ incomplete' = incomplete /\ outcome' = "loading"
    BY DEF Call, At, outside
  <1>2. ContextsInOrder'
    BY <1>1, InOrder DEF ContextsInOrder
  <1>3. Made /\ c \in 1..Len(ctxs')
    <2>1. Len(ctxs) \in Nat /\ DOMAIN ctxs = 1..Len(ctxs)
      BY InOrder DEF ContextsInOrder, IsSequence
    <2>2. \A b \in 1..Len(ctxs) : ~(b > Len(ctxs))
      BY <2>1
    <2>3. Len(ctxs) <= Len(ctxs)
      BY <2>1
    <2> QED BY <1>1, <2>1, <2>2, <2>3 DEF Made
  <1>4. VisitMoves
    BY <1>1, <1>3, InOrder, AdvancedAndBegun
  <1>5. Passed
    BY <1>1 DEF Passed
  <1> QED BY <1>1, <1>2, <1>4, <1>5, MovesKeep

(* A call, an import and a fetch() end.                                    *)
LEMMA OneLessIsOneLess ==
  ASSUME LoadIInv, Top.todo = <<>>, Len(frames) > 1
  PROVE  /\ Len(frames) - 1 \in 1..Len(frames) /\ Caller.ctx \in 1..Len(ctxs)
         /\ ContextMade(ctxs[Caller.ctx]) /\ Caller = frames[Len(frames) - 1]
  <1>1. Len(frames) - 1 \in 1..Len(frames)
    BY InOrder
  <1>2. Caller.ctx \in 1..Len(ctxs)
    BY <1>1, InOrder DEF FramesInOrder, Caller
  <1> QED BY <1>1, <1>2, InOrder DEF ContextsInOrder, Caller

LEMMA EndCallKeeps ==
  ASSUME LoadIInv, EndCall
  PROVE  LoadIInv'
  <1>1. /\ outcome = "loading" /\ Top.todo = <<>> /\ Top.call /\ frames' = Pop /\ ctxs' = ctxs
        /\ script' = script /\ described' = described /\ incomplete' = incomplete /\ outcome' = "loading"
    BY DEF EndCall, AtEnd, outside
  <1>2. Len(frames) > 1
    <2>1. Len(frames) # 1
      BY <1>1, InOrder DEF FramesInOrder, Visiting
    <2>2. PICK n \in Nat \ {0} : n = Len(frames)
      BY InOrder
    <2>3. n > 1
      BY <2>1, <2>2
    <2> QED BY <2>2, <2>3
  <1>3. VisitMoves
    <2>1. /\ IsSequence(frames') /\ Len(frames') = Len(frames) - 1
          /\ \A k \in 1..Len(frames') :
               /\ FrameMade(frames'[k]) /\ frames'[k].ctx = frames[k].ctx
               /\ frames'[k].call = frames[k].call /\ frames'[k].todo = frames[k].todo
      BY <1>1, <1>2, InOrder, PoppedAre
    <2> QED BY <1>1, <1>2, <2>1, InOrder, LastEnded
  <1>4. ContextsInOrder'
    BY <1>1, InOrder DEF ContextsInOrder
  <1> QED BY <1>1, <1>3, <1>4, MovesKeep

LEMMA OtherThanMain ==
  ASSUME LoadIInv, ctxs[Top.ctx].how # "main"
  PROVE  Len(frames) > 1
  <1>1. Top.ctx # 1
    BY InOrder DEF ContextsInOrder
  <1>2. Len(frames) # 1
    BY <1>1, InOrder DEF FramesInOrder
  <1>3. PICK n \in Nat \ {0} : n = Len(frames)
    BY InOrder
  <1>4. n > 1
    BY <1>2, <1>3
  <1> QED BY <1>3, <1>4

LEMMA EndImportKeeps ==
  ASSUME LoadIInv, EndImport
  PROVE  LoadIInv'
  <1> DEFINE c == Caller.ctx
             table == Put(ctxs[c].globals, Top.alias, Top.ctx)
             x == [ctxs[c] EXCEPT !.globals = table]
  <1>1. /\ outcome = "loading" /\ Top.todo = <<>> /\ ctxs[Top.ctx].how = "import"
        /\ frames' = Pop /\ ctxs' = [ctxs EXCEPT ![c] = x]
        /\ script' = script /\ described' = described /\ incomplete' = incomplete /\ outcome' = "loading"
    BY DEF EndImport, AtEnd, outside
  <1>2. Len(frames) > 1
    BY <1>1, OtherThanMain
  <1>3. ContextsInOrder' /\ Len(ctxs') = Len(ctxs)
        /\ \A b \in 1..Len(ctxs) : ctxs'[b].file = ctxs[b].file
    <2>1. c \in 1..Len(ctxs) /\ ContextMade(ctxs[c])
      BY <1>1, <1>2, OneLessIsOneLess
    <2> HIDE DEF table
    <2>2. ContextMade(x) /\ x.how = ctxs[c].how /\ x.file = ctxs[c].file /\ x.cached = ctxs[c].cached
      BY <2>1, ContextEdited
    <2> HIDE DEF x, c
    <2> QED BY <1>1, <2>1, <2>2, InOrder, ContextChanged
  <1>4. VisitMoves
    <2>1. /\ IsSequence(frames') /\ Len(frames') = Len(frames) - 1
          /\ \A k \in 1..Len(frames') :
               /\ FrameMade(frames'[k]) /\ frames'[k].ctx = frames[k].ctx
               /\ frames'[k].call = frames[k].call /\ frames'[k].todo = frames[k].todo
      BY <1>1, <1>2, InOrder, PoppedAre
    <2> QED BY <1>1, <1>2, <1>3, <2>1, InOrder, LastEnded
  <1> QED BY <1>1, <1>3, <1>4, MovesKeep

LEMMA EndFetchKeeps ==
  ASSUME LoadIInv, EndFetch
  PROVE  LoadIInv'
  <1> DEFINE m == Len(frames) - 1
             p == Pop
             table == Put(p[m].vars, Top.alias, Top.ctx)
             x == [p[m] EXCEPT !.vars = table]
             new == [p EXCEPT ![m] = x]
  <1>1. /\ outcome = "loading" /\ Top.todo = <<>> /\ ctxs[Top.ctx].how = "fetch"
        /\ frames' = new /\ ctxs' = ctxs
        /\ script' = script /\ described' = described /\ incomplete' = incomplete /\ outcome' = "loading"
    BY DEF EndFetch, AtEnd, outside
  <1>2. Len(frames) > 1
    BY <1>1, OtherThanMain
  <1> HIDE DEF table
  <1>3. /\ IsSequence(p) /\ Len(p) = m /\ m \in 1..m
        /\ \A k \in 1..m : p[k] = frames[k] /\ FrameMade(p[k])
    BY <1>2, InOrder, PoppedAre
  <1> HIDE DEF m, p
  <1>4. FrameMade(x) /\ x.ctx = p[m].ctx /\ x.call = p[m].call /\ x.todo = p[m].todo
    BY <1>3, FrameChanged
  <1> HIDE DEF x
  <1>5. /\ DOMAIN new = DOMAIN p /\ new = [k \in DOMAIN new |-> new[k]]
        /\ \A k \in DOMAIN p : new[k] = IF k = m THEN x ELSE p[k]
    OBVIOUS
  <1> HIDE DEF new
  <1>6. /\ IsSequence(new) /\ Len(new) = m
        /\ \A k \in 1..m : new[k] = IF k = m THEN x ELSE p[k]
    BY <1>3, <1>5, Replaced
  <1>7. \A k \in 1..Len(frames') :
          /\ FrameMade(frames'[k]) /\ frames'[k].ctx = frames[k].ctx
          /\ frames'[k].call = frames[k].call /\ frames'[k].todo = frames[k].todo
    BY <1>1, <1>3, <1>4, <1>6
  <1>8. VisitMoves
    BY <1>1, <1>2, <1>6, <1>7, InOrder, LastEnded DEF m
  <1>9. ContextsInOrder'
    BY <1>1, InOrder DEF ContextsInOrder
  <1> QED BY <1>1, <1>8, <1>9, MovesKeep

(* Nothing is loaded and no visit goes on.                                 *)
LEMMA StandsStill ==
  ASSUME LoadIInv, UNCHANGED <<script, memory>>,
         outcome' = "ok" => outcome = "ok" \/ (Len(frames) = 1 /\ Top.todo = <<>>)
  PROVE  LoadIInv'
  <1>1. script' = script /\ frames' = frames /\ ctxs' = ctxs /\ described' = described /\ incomplete' = incomplete
    BY DEF memory
  <1>2. FramesInOrder' /\ ContextsInOrder' /\ Suffixes'
    <2>1. FramesInOrder'
      BY <1>1 DEF LoadIInv, FramesInOrder, Visiting
    <2>2. ContextsInOrder'
      BY <1>1 DEF LoadIInv, ContextsInOrder
    <2>3. \A k : Visiting(k)' = Visiting(k) /\ Left(k)' = Left(k) /\ Text(frames[k].ctx)' = Text(frames[k].ctx)
      BY <1>1 DEF Visiting, Left, Text
    <2>4. Suffixes'
      BY <1>1, <2>3 DEF LoadIInv, Suffixes
    <2> QED BY <2>1, <2>2, <2>4
  <1>4. \A c : Text(c)' = Text(c) /\ Executed(c)' = Executed(c)
    BY <1>1 DEF Executed, Visiting, Left, Text
  <1>5. \A c, s : Effect(c, s)' = Effect(c, s)
    BY <1>1 DEF Effect, LoadedAfter
  <1>6. Effects'
    BY <1>1, <1>4, <1>5 DEF LoadIInv, Effects
  <1>7. TargetsApart'
    BY <1>1, <1>4 DEF LoadIInv, TargetsApart
  <1>3. EndInOrder'
    BY <1>1 DEF EndInOrder, LoadIInv, Top
  <1> QED BY <1>2, <1>3, <1>6, <1>7 DEF LoadIInv

(* A run begins.                                                           *)
LEMMA Begins ==
  ASSUME script \in Scripts, ctxs = <<MainContext>>, frames = <<MainFrame>>, outcome = "loading"
  PROVE  LoadIInv
  <1> DEFINE text == script[MainFile]
  <1>1. /\ Len(ctxs) = 1 /\ IsSequence(ctxs) /\ ContextMade(ctxs[1])
        /\ ctxs[1].how = "main" /\ ctxs[1].file = MainFile
    <2>1. ctxs \in Seq({MainContext}) /\ Len(ctxs) = 1 /\ ctxs[1] = MainContext
      OBVIOUS
    <2>2. ContextMade(MainContext) /\ MainContext.how = "main" /\ MainContext.file = MainFile
      BY DEF ContextMade, MainContext, Context
    <2> QED BY <2>1, <2>2, SequencesAre
  <1>2. /\ Len(frames) = 1 /\ IsSequence(frames) /\ FrameMade(frames[1])
        /\ frames[1].ctx = 1 /\ frames[1].call = FALSE /\ frames[1].todo = text
    <2>1. frames \in Seq({MainFrame}) /\ Len(frames) = 1 /\ frames[1] = MainFrame
      OBVIOUS
    <2>2. FrameMade(MainFrame) /\ MainFrame.ctx = 1 /\ MainFrame.call = FALSE /\ MainFrame.todo = text
      BY DEF FrameMade, MainFrame, Frame
    <2> QED BY <2>1, <2>2, SequencesAre
  <1>3. IsSequence(text)
    BY FilesAssumption, ScriptsAssumption DEF IsSequence
  <1> HIDE DEF text
  <1>4. Len(text) \in Nat
    BY <1>3 DEF IsSequence
  <1>5. ContextsInOrder
    <2>1. \A c \in 1..Len(ctxs) : c = 1
      BY <1>1
    <2> QED BY <1>1, <2>1, FilesAssumption DEF ContextsInOrder
  <1>6. \A k \in 1..Len(frames) : k = 1
    BY <1>2
  <1>7. FramesInOrder
    <2>1. Visiting(1) /\ frames[1].call \in BOOLEAN /\ ctxs[frames[1].ctx].file \in Files
          /\ frames[1].ctx \in 1..Len(ctxs) /\ Len(frames) > 0
      <3>1. Visiting(1) /\ frames[1].call \in BOOLEAN
        BY <1>2, Zenon DEF Visiting
      <3>2. 1 \in 1..Len(ctxs) /\ Len(frames) > 0
        BY <1>1, <1>2
      <3>3. ctxs[frames[1].ctx].file \in Files /\ frames[1].ctx \in 1..Len(ctxs)
        BY <1>1, <1>2, <3>2, FilesAssumption
      <3> QED BY <3>1, <3>2, <3>3
    <2> QED BY <1>2, <1>6, <2>1 DEF FramesInOrder
  <1>8. Text(1) = text
    BY <1>1 DEF Text, text
  <1>9. Suffixes
    <2>1. \A i \in 1..Len(text) : Len(text) - Len(text) + i = i
      BY <1>4
    <2>2. Len(text) <= Len(text)
      BY <1>4
    <2>3. frames[1].ctx = 1 /\ frames[1].todo = text
      BY <1>2
    <2>4. /\ IsSequence(frames[1].todo) /\ Left(1) <= Len(Text(frames[1].ctx))
          /\ \A i \in 1..Left(1) :
               frames[1].todo[i] = Text(frames[1].ctx)[Len(Text(frames[1].ctx)) - Left(1) + i]
      BY <1>3, <1>8, <2>1, <2>2, <2>3 DEF Left
    <2> QED BY <1>6, <2>4 DEF Suffixes
  <1>10. Executed(1) = {}
    <2>1. \A i \in 1..Len(text) : ~(i + Len(text) <= Len(text))
      BY <1>4
    <2>2. 1 \in 1..Len(frames)
      BY <1>2
    <2> QED BY <1>2, <1>8, <2>1, <2>2 DEF Executed, Visiting, Left
  <1>11. \A c \in 1..Len(ctxs) : c = 1
    BY <1>1
  <1>12. Effects /\ TargetsApart
    BY <1>10, <1>11 DEF Effects, TargetsApart
  <1> QED BY <1>5, <1>7, <1>9, <1>12 DEF LoadIInv, EndInOrder

LEMMA NextLoads ==
  ASSUME LoadIInv, Next
  PROVE  LoadIInv'
  <1>1. CASE Import \/ FetchLocal
    <2>1. PICK how \in {"import", "fetch"} :
            /\ outcome = "loading" /\ Top.todo # <<>> /\ Statement.op \in {"import", "fetch"}
            /\ Statement.file \in Files /\ Enter(how, Statement.file) /\ incomplete' = incomplete
      BY <1>1 DEF Import, FetchLocal, At
    <2>2. Statement.file \notin Remotes
      BY <2>1, FilesAssumption
    <2> QED BY <2>1, <2>2, EnterKeeps
  <1>2. CASE TakeClone
    <2>1. /\ outcome = "loading" /\ Top.todo # <<>> /\ Statement.op = "fetch"
          /\ Statement.file \in Remotes /\ Enter("fetch", Holds[Statement.file])
          /\ (incomplete' = {} => incomplete = {})
      BY <1>2 DEF TakeClone, Cloned, AtRemote, At, Remote, Taken
    <2>2. Statement.file \notin Files /\ Holds[Statement.file] \in Files
      BY <2>1, FilesAssumption
    <2> QED BY <2>1, <2>2, EnterKeeps
  <1>3. CASE TakeEmpty
    BY <1>3, TakeEmptyKeeps
  <1>4. CASE Define \/ Describe
    BY <1>4, DefineKeeps, DescribeKeeps
  <1>5. CASE \E c \in DOMAIN ctxs : Call(c)
    BY <1>5, CallKeeps
  <1>6. CASE EndCall \/ EndImport \/ EndFetch
    BY <1>6, EndCallKeeps, EndImportKeeps, EndFetchKeeps
  <1>7. CASE Overflow \/ ImportMissing \/ DescribedTwice \/ CallUnknown \/ EndMain
             \/ (\E c \in DOMAIN ctxs : CallCrashes(c))
    <2>1. UNCHANGED <<script, memory>>
          /\ (outcome' = "ok" => outcome = "ok" \/ (Len(frames) = 1 /\ Top.todo = <<>>))
      BY <1>7 DEF Overflow, ImportMissing, DescribedTwice, CallUnknown, EndMain, CallCrashes,
                  Fail, AtEnd, outside
    <2> QED BY <2>1, StandsStill
  <1>8. CASE DecideToClone \/ GitBegins \/ GitRefuses \/ GitEnds \/ GitFails
    <2>1. UNCHANGED <<script, memory>> /\ (outcome' = "ok" => outcome = "ok")
      BY <1>8 DEF DecideToClone, GitBegins, GitRefuses, GitEnds, GitFails, Fail, outside
    <2> QED BY <2>1, StandsStill
  <1>9. CASE Kill \/ \E r \in Remotes : ElsewhereBegins(r) \/ ElsewhereEnds(r)
    <2>1. UNCHANGED <<script, memory>> /\ (outcome' = "ok" => outcome = "ok")
      BY <1>9 DEF Kill, ElsewhereBegins, ElsewhereEnds
    <2> QED BY <2>1, StandsStill
  <1>10. CASE Restart
    <2>1. script' = script /\ ctxs' = <<MainContext>> /\ frames' = <<MainFrame>> /\ outcome' = "loading"
          /\ script \in Scripts
      BY <1>10 DEF Restart, LoadIInv, ContextsInOrder
    <2> QED
      <3>1. script' \in Scripts /\ ctxs' = <<MainContext'>> /\ frames' = <<MainFrame'>>
        BY <2>1 DEF MainContext, MainFrame, Context, Frame
      <3>2. script \in Scripts /\ ctxs = <<MainContext>> /\ frames = <<MainFrame>> /\ outcome = "loading" => LoadIInv
        BY Begins
      <3>3. (script \in Scripts /\ ctxs = <<MainContext>> /\ frames = <<MainFrame>> /\ outcome = "loading" => LoadIInv)'
        BY Begins, PTL
      <3> QED BY <2>1, <3>1, <3>3
  <1> QED BY <1>1, <1>2, <1>3, <1>4, <1>5, <1>6, <1>7, <1>8, <1>9, <1>10 DEF Next, Visit, Clone, Others

LEMMA LoadStays == Spec => []LoadIInv
  <1>1. Init => LoadIInv
    BY Begins DEF Init
  <1>2. LoadIInv /\ [Next]_vars => LoadIInv'
    <2>1. LoadIInv /\ UNCHANGED vars => LoadIInv'
      <3> SUFFICES ASSUME LoadIInv, UNCHANGED vars PROVE LoadIInv'
        OBVIOUS
      <3>1. UNCHANGED <<script, memory>> /\ outcome' = outcome
        BY DEF vars
      <3> QED BY <3>1, StandsStill
    <2> QED BY <2>1, NextLoads
  <1> QED BY <1>1, <1>2, PTL DEF Spec

(* A function runs in a tree that is in memory, but for those of fetched   *)
(* files.                                                                  *)
THEOREM FunctionsRunAlive == Spec => []RunningAlive
  <1>1. LoadIInv => RunningAlive
    BY InOrderAlive DEF LoadIInv
  <1> QED BY <1>1, LoadStays, PTL

LEMMA GreatestExists ==
  ASSUME NEW n \in Nat, NEW S \in SUBSET (1..n), S # {}
  PROVE  \E k \in S : \A j \in S : ~(j > k)
  <1> DEFINE T == {n - k : k \in S}
  <1>1. T \in SUBSET Nat /\ T # {}
    <2>1. \A k \in S : n - k \in Nat
      OBVIOUS
    <2>2. PICK k \in S : TRUE
      OBVIOUS
    <2>3. n - k \in T
      OBVIOUS
    <2> QED BY <2>1, <2>3
  <1>2. PICK m \in T : \A j \in T : ~(j < m)
    <2> HIDE DEF T
    <2> QED BY <1>1, LeastExists
  <1>3. PICK k \in S : m = n - k
    OBVIOUS
  <1>4. ASSUME NEW j \in S, j > k
        PROVE  FALSE
    <2>1. n - j \in T
      OBVIOUS
    <2>2. n - j < n - k
      <3>1. j \in 1..n /\ k \in 1..n
        OBVIOUS
      <3> HIDE DEF T
      <3> QED BY <1>4, <3>1
    <2> HIDE DEF T
    <2> QED BY <1>2, <1>3, <2>1, <2>2
  <1> QED BY <1>4

(* At the end of a load that went well every statement of every file it    *)
(* loaded is executed.                                                     *)
LEMMA AllExecuted ==
  ASSUME LoadIInv, outcome = "ok", NEW c \in 1..Len(ctxs), ctxs[c].file \in Files,
         NEW i \in DOMAIN script[ctxs[c].file]
  PROVE  i \in Executed(c) /\ Text(c)[i] = script[ctxs[c].file][i]
  <1>1. Len(frames) = 1 /\ frames[1].todo = <<>>
    BY DEF LoadIInv, EndInOrder
  <1>2. IsSequence(Text(c)) /\ Len(Text(c)) \in Nat /\ Text(c) = script[ctxs[c].file]
    BY TextsAre DEF LoadIInv, Text
  <1>3. i \in 1..Len(Text(c))
    <2> DEFINE t == Text(c)
    <2>1. IsSequence(t) /\ i \in DOMAIN t
      BY <1>2
    <2> HIDE DEF t
    <2>2. i \in 1..Len(t)
      BY <2>1 DEF IsSequence
    <2> QED BY <2>2 DEF t
  <1>4. \A k \in 1..Len(frames) : Left(k) = 0
    BY <1>1 DEF Left
  <1>5. i + 0 <= Len(Text(c))
    BY <1>2, <1>3
  <1> QED BY <1>2, <1>3, <1>4, <1>5 DEF Executed

LEMMA InOrderEndsWell ==
  ASSUME LoadIInv
  PROVE  EndsWell
  <1> SUFFICES ASSUME outcome = "ok", incomplete = {}
               PROVE  /\ \A S \in (SUBSET Loaded) \ {{}} : \E f \in S : \A g \in S : ~LoadsFile(f, g)
                      /\ \A c, d \in DOMAIN ctxs :
                           c # d /\ ctxs[c].file = ctxs[d].file /\ ctxs[c].file # NoFile => ~HasTarget(ctxs[c].file)
    BY DEF EndsWell
  <1>1. Len(ctxs) \in Nat /\ DOMAIN ctxs = 1..Len(ctxs)
        /\ \A c \in 1..Len(ctxs) : ctxs[c].file # NoFile => ctxs[c].file \in Files
    BY DEF LoadIInv, ContextsInOrder, IsSequence
  <1>2. ASSUME NEW c \in 1..Len(ctxs), ctxs[c].file \in Files,
               NEW i \in DOMAIN script[ctxs[c].file], NEW s, s = script[ctxs[c].file][i]
        PROVE  /\ s.op \in {"import", "fetch"} /\ s.file \in Files =>
                    \E b \in (c + 1)..Len(ctxs) : ctxs[b].file = s.file
               /\ s.op = "fetch" /\ s.file \in Remotes =>
                    \E b \in (c + 1)..Len(ctxs) : ctxs[b].file = Holds[s.file]
    <2>1. i \in Executed(c) /\ Text(c)[i] = s
      BY <1>2, AllExecuted
    <2>2. Effect(c, s)
      BY <1>2, <2>1 DEF LoadIInv, Effects
    <2> QED BY <2>2 DEF Effect, LoadedAfter
  <1>3. ASSUME NEW S \in (SUBSET Loaded) \ {{}}
        PROVE  \E f \in S : \A g \in S : ~LoadsFile(f, g)
    <2> DEFINE C == {c \in 1..Len(ctxs) : ctxs[c].file \in S}
    <2>1. C \in SUBSET (1..Len(ctxs)) /\ C # {} /\ S \subseteq Files
      <3>1. S \subseteq Loaded /\ S # {}
        OBVIOUS
      <3>2. PICK f \in S : TRUE
        BY <3>1
      <3>3. PICK b \in DOMAIN ctxs : ctxs[b].file = f
        BY <3>1, <3>2 DEF Loaded
      <3>4. b \in C
        BY <1>1, <3>2, <3>3
      <3>5. S \subseteq Files
        BY <1>1, <3>1 DEF Loaded
      <3> QED BY <3>4, <3>5
    <2>2. PICK c \in C : \A b \in C : ~(b > c)
      <3> HIDE DEF C
      <3> QED BY <1>1, <2>1, GreatestExists
    <2>3. c \in 1..Len(ctxs) /\ ctxs[c].file \in S /\ ctxs[c].file \in Files
      BY <2>1
    <2>4. \A b \in (c + 1)..Len(ctxs) : ctxs[b].file \notin S
      <3>1. \A b \in (c + 1)..Len(ctxs) : b \in 1..Len(ctxs) /\ b > c
        BY <1>1, <2>3
      <3> QED BY <2>2, <3>1
    <2>5. ASSUME NEW g \in S, LoadsFile(ctxs[c].file, g)
          PROVE  FALSE
      <3>1. PICK i \in DOMAIN script[ctxs[c].file] :
              LET s == script[ctxs[c].file][i]
              IN \/ s.op \in {"import", "fetch"} /\ s.file = g
                 \/ s.op = "fetch" /\ s.file \in Remotes /\ Holds[s.file] = g
        BY <2>5 DEF LoadsFile
      <3>2. \E b \in (c + 1)..Len(ctxs) : ctxs[b].file = g
        BY <1>2, <2>1, <2>3, <3>1
      <3> QED BY <2>4, <3>2
    <2> QED BY <2>3, <2>5
  <1>4. ASSUME NEW c \in DOMAIN ctxs, NEW d \in DOMAIN ctxs, c # d,
               ctxs[c].file = ctxs[d].file, ctxs[c].file # NoFile, HasTarget(ctxs[c].file)
        PROVE  FALSE
    <2>1. PICK i \in DOMAIN script[ctxs[c].file] : script[ctxs[c].file][i].op = "target"
      BY <1>4 DEF HasTarget
    <2>2. c \in 1..Len(ctxs) /\ d \in 1..Len(ctxs) /\ ctxs[c].file \in Files /\ ctxs[d].file \in Files
      BY <1>1, <1>4
    <2>3. i \in Executed(c) /\ Text(c)[i] = script[ctxs[c].file][i]
      BY <2>2, AllExecuted
    <2>4. i \in Executed(d) /\ Text(d)[i] = script[ctxs[c].file][i]
      BY <1>4, <2>2, AllExecuted
    <2>5. TargetsApart
      BY DEF LoadIInv
    <2> QED BY <1>4, <2>1, <2>2, <2>3, <2>4, <2>5 DEF TargetsApart
  <1> QED BY <1>3, <1>4

(* A load that ends well has loaded no file in a circle and no file with a *)
(* target twice, unless it took a clone that was not complete.             *)
THEOREM GoodEndings == Spec => []EndsWell
  BY InOrderEndsWell, LoadStays, PTL
=============================================================================
