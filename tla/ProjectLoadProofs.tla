-------------------------- MODULE ProjectLoadProofs ------------------------
(***************************************************************************)
(* What is proved about a run of partio, for any files, any targets in     *)
(* them, any nesting of imports and fetches and any bound on the lists.    *)
(***************************************************************************)
EXTENDS ProjectLoad, TLAPS, WellFoundedInduction, SequenceTheorems

(* The file in progress is that of the last frame.                         *)
LEMMA TopIsFrame ==
  ASSUME BlocksInOrder, Loading
  PROVE  /\ Len(frames) \in DOMAIN frames /\ DOMAIN frames = 1..Len(frames)
         /\ Len(frames) \in Nat \ {0}
         /\ Top \in Frame /\ Top = frames[Len(frames)]
         /\ Current \in Names \cup {NoTarget}
         /\ phase # "start" /\ outcome = "running"
<1>1. frames \in Seq(Frame) /\ frames # <<>>
  BY DEF BlocksInOrder, Loading
<1>2. Len(frames) \in DOMAIN frames /\ DOMAIN frames = 1..Len(frames)
      /\ Len(frames) \in Nat \ {0}
  BY <1>1
<1>3. frames[Len(frames)] \in Frame
  BY <1>1, <1>2
<1> QED BY <1>1, <1>2, <1>3 DEF Top, Current, Frame, BlocksInOrder, Loading

(* A new file starts outside every target block.                           *)
LEMMA EnterFileKeeps ==
  ASSUME BlocksInOrder, NEW f \in Files, NEW inFunction \in BOOLEAN,
         EnterFile(f, inFunction), phase' = "load", outcome = "running"
  PROVE  BlocksInOrder'
<1> DEFINE new == [todo |-> Declares[f], target |-> NoTarget, inFunction |-> inFunction]
<1>1. Declares[f] \in Seq(Names)
  BY FilesAssumption
<1>2. new \in Frame
  BY <1>1 DEF Frame
<1>3. frames \in Seq(Frame) /\ frames' = Append(frames, new)
  BY DEF EnterFile, BlocksInOrder
<1>4. frames' \in Seq(Frame)
  BY <1>2, <1>3
<1>5. \A k \in DOMAIN frames' :
        \/ k \in DOMAIN frames /\ frames'[k] = frames[k]
        \/ frames'[k].target = NoTarget
  BY <1>2, <1>3
<1>6. OpenBlocksDiffer'
  <2>1. defined' = defined
    BY DEF EnterFile
  <2> QED BY <1>5, <2>1 DEF OpenBlocksDiffer, BlocksInOrder
<1>7. registered' \subseteq Names
  BY <1>1 DEF EnterFile, BlocksInOrder
<1> QED BY <1>4, <1>6, <1>7 DEF EnterFile, BlocksInOrder, PlanIsCurrent

(* After an error there are no frames left, and the plans are not claimed  *)
(* to be current.                                                          *)
LEMMA FailKeeps ==
  ASSUME BlocksInOrder, Loading, NEW how \in {"error", "circular"}, Fail(how)
  PROVE  BlocksInOrder'
<1>1. frames' = <<>> /\ frames' \in Seq(Frame)
  BY DEF Fail
<1>2. OpenBlocksDiffer'
  BY <1>1 DEF OpenBlocksDiffer
<1> QED BY <1>1, <1>2, TopIsFrame DEF Fail, data, BlocksInOrder, PlanIsCurrent

(* Leaving files, by their end or by a return, leaves their blocks.        *)
LEMMA FramesCut ==
  ASSUME BlocksInOrder, Loading, NEW n \in 0..(Len(frames) - 1),
         frames' = SubSeq(frames, 1, n), defined' = defined
  PROVE  /\ frames' \in Seq(Frame)
         /\ \A k \in DOMAIN frames' : k \in DOMAIN frames /\ frames'[k] = frames[k]
         /\ OpenBlocksDiffer'
<1>1. frames \in Seq(Frame) /\ n \in Nat /\ n <= Len(frames) /\ Len(frames) \in Nat
  BY TopIsFrame DEF BlocksInOrder
<1>2. frames' \in Seq(Frame) /\ DOMAIN frames' = 1..n /\ \A k \in 1..n : frames'[k] = frames[k]
  BY <1>1
<1>3. \A k \in DOMAIN frames' : k \in DOMAIN frames /\ frames'[k] = frames[k]
  BY <1>1, <1>2
<1> QED BY <1>2, <1>3 DEF OpenBlocksDiffer, BlocksInOrder

LEMMA OpenTargetKeeps ==
  ASSUME BlocksInOrder, OpenTarget
  PROVE  BlocksInOrder'
<1> DEFINE t == Head(Top.todo)
           new == [Top EXCEPT !.target = t, !.todo = Tail(@)]
<1>1. Loading /\ Top.todo # <<>> /\ t \notin defined
  BY DEF OpenTarget
<1>2. Top \in Frame /\ Top.todo \in Seq(Names)
  BY <1>1, TopIsFrame DEF Frame
<1>3. t \in Names /\ Tail(Top.todo) \in Seq(Names)
  BY <1>1, <1>2
<1>4. new \in Frame /\ new.target = t
  BY <1>2, <1>3 DEF Frame
<1>5. frames' = [frames EXCEPT ![Len(frames)] = new] /\ frames \in Seq(Frame)
  BY DEF OpenTarget, ChangeTop, BlocksInOrder
<1>6. /\ frames' \in Seq(Frame) /\ DOMAIN frames' = DOMAIN frames
      /\ frames'[Len(frames)] = new
      /\ \A k \in DOMAIN frames : k # Len(frames) => frames'[k] = frames[k]
  BY <1>1, <1>4, <1>5, TopIsFrame
<1>7. t # NoTarget /\ defined' = defined \cup {t}
  BY <1>3, NamesAssumption DEF OpenTarget
<1>8. OpenBlocksDiffer'
  <2> SUFFICES ASSUME NEW j \in DOMAIN frames, NEW k \in DOMAIN frames,
                      frames'[j].target # NoTarget
               PROVE  /\ frames'[j].target \in defined'
                      /\ frames'[j].target = frames'[k].target => j = k
    BY <1>6 DEF OpenBlocksDiffer
  <2>1. \A i \in DOMAIN frames : frames[i].target # t
    BY <1>1, <1>7 DEF OpenBlocksDiffer, BlocksInOrder
  <2>2. CASE j = Len(frames)
    BY <1>4, <1>6, <1>7, <2>1, <2>2
  <2>3. CASE j # Len(frames)
    BY <1>4, <1>6, <1>7, <2>1, <2>3 DEF OpenBlocksDiffer, BlocksInOrder
  <2> QED BY <2>2, <2>3
<1>9. outcome' = "running" /\ phase' # "start"
  BY <1>1, TopIsFrame DEF OpenTarget
<1> QED BY <1>3, <1>6, <1>7, <1>8, <1>9 DEF OpenTarget, BlocksInOrder, PlanIsCurrent

LEMMA CloseTargetKeeps ==
  ASSUME BlocksInOrder, CloseTarget
  PROVE  BlocksInOrder'
<1> DEFINE new == [Top EXCEPT !.target = NoTarget]
<1>1. Loading
  BY DEF CloseTarget
<1>2. new \in Frame /\ new.target = NoTarget
  BY <1>1, TopIsFrame DEF Frame
<1>3. frames' = [frames EXCEPT ![Len(frames)] = new] /\ frames \in Seq(Frame)
  BY DEF CloseTarget, ChangeTop, BlocksInOrder
<1>4. /\ frames' \in Seq(Frame) /\ DOMAIN frames' = DOMAIN frames
      /\ frames'[Len(frames)] = new
      /\ \A k \in DOMAIN frames : k # Len(frames) => frames'[k] = frames[k]
  BY <1>1, <1>2, <1>3, TopIsFrame
<1>5. OpenBlocksDiffer'
  <2> SUFFICES ASSUME NEW j \in DOMAIN frames, NEW k \in DOMAIN frames,
                      frames'[j].target # NoTarget
               PROVE  /\ frames'[j].target \in defined'
                      /\ frames'[j].target = frames'[k].target => j = k
    BY <1>4 DEF OpenBlocksDiffer
  <2>1. j # Len(frames) /\ frames'[j] = frames[j] /\ defined' = defined
    BY <1>2, <1>4 DEF CloseTarget, data
  <2>2. k = Len(frames) => frames'[k].target # frames'[j].target
    BY <1>2, <1>4
  <2> QED BY <1>4, <2>1, <2>2 DEF OpenBlocksDiffer, BlocksInOrder
<1>6. outcome' = "running" /\ phase' # "start"
  BY <1>1, TopIsFrame DEF CloseTarget
<1> QED BY <1>4, <1>5, <1>6 DEF CloseTarget, data, BlocksInOrder, PlanIsCurrent

(* Inside a block only the depends of its target changes.                  *)
LEMMA DependsKeeps ==
  ASSUME BlocksInOrder, Loading, Current # NoTarget,
         NEW list \in Seq(Names \cup {Text}),
         depends' = [depends EXCEPT ![Current] = list],
         UNCHANGED <<registered, defined, plan, loading, phase, building>>
  PROVE  BlocksInOrder'
<1>1. depends' \in [Names -> Seq(Names \cup {Text})]
  BY TopIsFrame DEF BlocksInOrder
<1>2. OpenBlocksDiffer'
  BY DEF OpenBlocksDiffer, BlocksInOrder, loading
<1>3. outcome' = "running" /\ phase' # "start"
  BY TopIsFrame DEF loading
<1> QED BY <1>1, <1>2, <1>3 DEF BlocksInOrder, PlanIsCurrent, loading

LEMMA AssignDependsKeeps ==
  ASSUME BlocksInOrder, AssignDepends
  PROVE  BlocksInOrder'
<1>1. Loading /\ Current \in Names /\ Current # NoTarget
  BY TopIsFrame DEF AssignDepends
<1>2. PICK list \in Lists(MaxDepends[Current]) : depends' = [depends EXCEPT ![Current] = list]
  BY DEF AssignDepends
<1>3. ListElements \subseteq Names \cup {Text}
  BY DEF ListElements, BlocksInOrder
<1>4. PICK n \in 0..MaxDepends[Current] : list \in [1..n -> ListElements]
  BY DEF Lists
<1>5. n \in Nat
  BY <1>1, BoundsAssumption
<1>6. list \in Seq(Names \cup {Text})
  BY <1>3, <1>4, <1>5
<1> QED BY <1>1, <1>2, <1>6, DependsKeeps DEF AssignDepends

LEMMA AppendDependsKeeps ==
  ASSUME BlocksInOrder, NEW v \in ListElements, AppendDepends(v)
  PROVE  BlocksInOrder'
<1>1. Loading /\ Current \in Names /\ Current # NoTarget
  BY TopIsFrame DEF AppendDepends
<1>2. v \in Names \cup {Text}
  BY DEF ListElements, BlocksInOrder
<1>3. depends[Current] \in Seq(Names \cup {Text})
  BY <1>1 DEF BlocksInOrder
<1>4. Append(depends[Current], v) \in Seq(Names \cup {Text})
  BY <1>2, <1>3
<1> QED BY <1>1, <1>4, DependsKeeps DEF AppendDepends

(* The end of main's file is the one that sets the outcome, and the plans  *)
(* it has just made are of targets nothing writes after it.                *)
LEMMA EndFileKeeps ==
  ASSUME BlocksInOrder, EndFile
  PROVE  BlocksInOrder'
<1>1. Loading
  BY DEF EndFile
<1>2. Len(frames) - 1 \in 0..(Len(frames) - 1)
  BY <1>1, TopIsFrame
<1>3. frames' \in Seq(Frame) /\ OpenBlocksDiffer'
  BY <1>1, <1>2, FramesCut DEF EndFile, Pop
<1>4. PlanIsCurrent'
  BY DEF EndFile, Plans, PlanIsCurrent
<1>5. phase' # "start" /\ (outcome' # "running" => frames' = <<>>)
  <2>1. CASE Len(frames) = 1
    <3>1. frames' = SubSeq(frames, 1, 0)
      BY <2>1 DEF EndFile, Pop
    <3> QED BY <1>1, <3>1, TopIsFrame DEF EndFile
  <2>2. CASE Len(frames) # 1
    BY <1>1, <2>2, TopIsFrame DEF EndFile
  <2> QED BY <2>1, <2>2
<1> QED BY <1>3, <1>4, <1>5 DEF EndFile, BlocksInOrder

LEMMA ReturnCaughtKeeps ==
  ASSUME BlocksInOrder, ReturnCaught
  PROVE  BlocksInOrder'
<1>1. Loading
  BY DEF ReturnCaught
<1>2. PICK k \in Catchers : frames' = SubSeq(frames, 1, k - 1)
  BY DEF ReturnCaught
<1>3. k - 1 \in 0..(Len(frames) - 1)
  BY <1>1, TopIsFrame DEF Catchers
<1>4. frames' \in Seq(Frame) /\ OpenBlocksDiffer'
  BY <1>1, <1>2, <1>3, FramesCut DEF ReturnCaught, data
<1>5. outcome' = "running" /\ phase' # "start"
  BY <1>1, TopIsFrame DEF ReturnCaught
<1> QED BY <1>4, <1>5 DEF ReturnCaught, data, BlocksInOrder, PlanIsCurrent

(* The Builder changes nothing of what the interpreters made.              *)
LEMMA BuildKeeps ==
  ASSUME BlocksInOrder, Build
  PROVE  BlocksInOrder'
<1>1. UNCHANGED <<data, loading>> /\ phase' # "start"
  BY DEF Build, StartBuild, BuildNext, BuildGoal, GoalMissing, CompileThrows, CompileHangs
<1>2. OpenBlocksDiffer'
  BY <1>1 DEF OpenBlocksDiffer, BlocksInOrder, data, loading
<1>3. phase # "start"
  BY DEF Build, StartBuild, BuildNext, BuildGoal, GoalMissing, CompileThrows, CompileHangs
<1> QED BY <1>1, <1>2, <1>3 DEF BlocksInOrder, PlanIsCurrent, data, loading

LEMMA InitBlocks == Init => BlocksInOrder
<1> SUFFICES ASSUME Init PROVE BlocksInOrder
  OBVIOUS
<1>1. <<>> \in Seq(Frame) /\ <<>> \in Seq(Names \cup {Text})
  OBVIOUS
<1>2. OpenBlocksDiffer
  BY DEF Init, OpenBlocksDiffer
<1> QED BY <1>1, <1>2 DEF Init, BlocksInOrder, PlanIsCurrent

LEMMA NextBlocks == BlocksInOrder /\ [Next]_vars => BlocksInOrder'
<1> SUFFICES ASSUME BlocksInOrder, [Next]_vars PROVE BlocksInOrder'
  OBVIOUS
<1>1. CASE StartMain
  <2>1. outcome = "running"
    BY <1>1 DEF StartMain, BlocksInOrder
  <2> QED BY <1>1, <2>1, FilesAssumption, EnterFileKeeps DEF StartMain
<1>2. CASE \E f \in Files : Import(f)
  <2>1. PICK f \in Files : Import(f)
    BY <1>2
  <2>2. Loading /\ outcome = "running" /\ phase' = "load" /\ EnterFile(f, FALSE)
    BY <2>1, TopIsFrame DEF Import, Loading
  <2> QED BY <2>2, EnterFileKeeps
<1>3. CASE \E f \in Files, inFunction \in BOOLEAN : Fetch(f, inFunction)
  <2>1. PICK f \in Files, inFunction \in BOOLEAN : Fetch(f, inFunction)
    BY <1>3
  <2>2. Loading /\ outcome = "running" /\ phase' = "load" /\ EnterFile(f, inFunction)
    BY <2>1, TopIsFrame DEF Fetch, Loading
  <2> QED BY <2>2, EnterFileKeeps
<1>4. CASE StatementThrows \/ DescribedTwice \/ FoundCycle \/ ReturnUncaught
  <2>1. Loading /\ \E how \in {"error", "circular"} : Fail(how)
    BY <1>4 DEF StatementThrows, DescribedTwice, FoundCycle, ReturnUncaught
  <2> QED BY <2>1, FailKeeps
<1>5. CASE OpenTarget
  BY <1>5, OpenTargetKeeps
<1>6. CASE CloseTarget
  BY <1>6, CloseTargetKeeps
<1>7. CASE AssignDepends
  BY <1>7, AssignDependsKeeps
<1>8. CASE \E v \in ListElements : AppendDepends(v)
  BY <1>8, AppendDependsKeeps
<1>9. CASE EndFile
  BY <1>9, EndFileKeeps
<1>10. CASE ReturnCaught
  BY <1>10, ReturnCaughtKeeps
<1>11. CASE Build
  BY <1>11, BuildKeeps
<1>12. CASE UNCHANGED vars
  <2>1. OpenBlocksDiffer'
    BY <1>12 DEF vars, data, loading, OpenBlocksDiffer, BlocksInOrder
  <2> QED BY <1>12, <2>1 DEF vars, data, loading, BlocksInOrder, PlanIsCurrent
<1> QED BY <1>1, <1>2, <1>3, <1>4, <1>5, <1>6, <1>7, <1>8, <1>9, <1>10, <1>11, <1>12
        DEF Next, Interpret

---------------------------------------------------------------------------
(* Targets still to describe: a step that leaves the files in progress, or *)
(* only what they have still to do, leaves those as well.                  *)
LEMMA TargetsKept ==
  ASSUME TargetsInOrder, UNCHANGED <<registered, defined, cut, outcome>>,
         DOMAIN frames' = DOMAIN frames, \A k \in DOMAIN frames : frames'[k].todo = frames[k].todo
  PROVE  TargetsInOrder'
<1>1. \A t : ToDescribe(t) => ToDescribe(t)'
  BY DEF ToDescribe
<1> QED BY <1>1 DEF TargetsInOrder, AllDescribed

LEMMA EnterFileKeepsTargets ==
  ASSUME BlocksInOrder, TargetsInOrder, NEW f \in Files, NEW inFunction \in BOOLEAN,
         EnterFile(f, inFunction), outcome = "running"
  PROVE  TargetsInOrder'
<1> DEFINE new == [todo |-> Declares[f], target |-> NoTarget, inFunction |-> inFunction]
           n == Len(frames)
<1>1. /\ frames \in Seq(Frame) /\ frames' = Append(frames, new) /\ new.todo = Declares[f]
      /\ Declares[f] \in Seq(Names)
      /\ registered' = registered \cup {Declares[f][i] : i \in DOMAIN Declares[f]}
      /\ defined' = defined /\ cut' = cut /\ outcome' = outcome
  BY FilesAssumption DEF EnterFile, BlocksInOrder
<1> HIDE DEF new
<1>2. /\ n \in Nat /\ DOMAIN frames = 1..n /\ DOMAIN frames' = 1..(n + 1)
      /\ frames'[n + 1] = new /\ n + 1 \in DOMAIN frames'
      /\ \A k \in DOMAIN frames : k \in DOMAIN frames' /\ frames'[k] = frames[k]
  BY <1>1
<1>3. \A k \in DOMAIN frames' : (k \in DOMAIN frames /\ frames'[k] = frames[k]) \/ frames'[k] = new
  BY <1>2
<1>4. \A k \in DOMAIN frames' : \A i \in DOMAIN frames'[k].todo : frames'[k].todo[i] \in registered'
  BY <1>1, <1>3 DEF TargetsInOrder
<1>5. ASSUME ~cut, NEW t \in registered' \ defined'
      PROVE  ToDescribe(t)'
  <2>1. CASE t \in registered
    <3>1. ToDescribe(t)
      BY <1>1, <1>5, <2>1 DEF TargetsInOrder
    <3> QED BY <1>2, <3>1 DEF ToDescribe
  <2>2. CASE t \notin registered
    <3>1. PICK i \in DOMAIN Declares[f] : Declares[f][i] = t
      BY <1>1, <1>5, <2>2
    <3> QED BY <1>1, <1>2, <3>1 DEF ToDescribe
  <2> QED BY <2>1, <2>2
<1> QED BY <1>1, <1>4, <1>5 DEF TargetsInOrder, AllDescribed

(* The block that is opened is the next of its file: the target described  *)
(* with it is no longer to describe, and every other one still is.         *)
LEMMA OpenTargetKeepsTargets ==
  ASSUME BlocksInOrder, TargetsInOrder, OpenTarget
  PROVE  TargetsInOrder'
<1> DEFINE todo == Top.todo
           new == [Top EXCEPT !.target = Head(todo), !.todo = Tail(@)]
           n == Len(frames)
<1>1. Loading /\ todo # <<>>
  BY DEF OpenTarget
<1>2. Top \in Frame /\ todo \in Seq(Names) /\ n \in DOMAIN frames /\ Top = frames[n]
      /\ outcome = "running" /\ frames \in Seq(Frame)
  BY <1>1, TopIsFrame DEF Frame, BlocksInOrder
<1>3. new.todo = Tail(todo)
  BY <1>2 DEF Frame
<1>4. /\ frames' = [frames EXCEPT ![n] = new] /\ registered' = registered
      /\ defined' = defined \cup {Head(todo)} /\ cut' = cut /\ outcome' = outcome
  BY DEF OpenTarget, ChangeTop
<1> HIDE DEF new
<1>5. /\ DOMAIN frames' = DOMAIN frames /\ frames'[n] = new
      /\ \A k \in DOMAIN frames : k # n => frames'[k] = frames[k]
  BY <1>2, <1>4
<1>6. /\ \A i \in DOMAIN Tail(todo) : i + 1 \in DOMAIN todo /\ Tail(todo)[i] = todo[i + 1]
      /\ \A i \in DOMAIN todo : todo[i] # Head(todo) =>
           i - 1 \in DOMAIN Tail(todo) /\ Tail(todo)[i - 1] = todo[i]
      /\ 1 \in DOMAIN todo /\ Head(todo) = todo[1]
  BY <1>1, <1>2
<1>7. \A i \in DOMAIN todo : todo[i] \in registered
  BY <1>2 DEF TargetsInOrder
<1> HIDE DEF todo, n
<1>8. \A k \in DOMAIN frames' : \A i \in DOMAIN frames'[k].todo : frames'[k].todo[i] \in registered'
  <2> SUFFICES ASSUME NEW k \in DOMAIN frames', NEW i \in DOMAIN frames'[k].todo
               PROVE  frames'[k].todo[i] \in registered
    BY <1>4
  <2>1. CASE k = n
    BY <1>3, <1>5, <1>6, <1>7, <2>1
  <2>2. CASE k # n
    BY <1>5, <2>2 DEF TargetsInOrder
  <2> QED BY <2>1, <2>2
<1>9. ASSUME ~cut, NEW t \in registered' \ defined'
      PROVE  ToDescribe(t)'
  <2>1. t \in registered \ defined /\ t # Head(todo)
    BY <1>4, <1>9
  <2>a. PICK k \in DOMAIN frames : \E i \in DOMAIN frames[k].todo : frames[k].todo[i] = t
    BY <1>2, <1>9, <2>1 DEF TargetsInOrder, ToDescribe
  <2>2. PICK i \in DOMAIN frames[k].todo : frames[k].todo[i] = t
    BY <2>a
  <2>3. CASE k = n
    <3>1. frames[n].todo = todo
      BY <1>2 DEF todo
    <3>2. i - 1 \in DOMAIN Tail(todo) /\ Tail(todo)[i - 1] = t
      BY <1>6, <2>1, <2>2, <2>3, <3>1
    <3> QED BY <1>3, <1>5, <1>2, <3>2 DEF ToDescribe
  <2>4. CASE k # n
    BY <1>5, <2>2, <2>4 DEF ToDescribe
  <2> QED BY <2>3, <2>4
<1>10. defined' \subseteq registered'
  BY <1>4, <1>6, <1>7 DEF TargetsInOrder
<1> QED BY <1>2, <1>4, <1>8, <1>9, <1>10 DEF TargetsInOrder, AllDescribed

(* A file that ends has nothing left to do, main's too: then nobody has.   *)
LEMMA EndFileKeepsTargets ==
  ASSUME BlocksInOrder, TargetsInOrder, EndFile
  PROVE  TargetsInOrder'
<1> DEFINE n == Len(frames)
<1>1. Loading /\ frames[n].todo = <<>> /\ UNCHANGED <<registered, defined, cut>>
  BY DEF EndFile, Top
<1>2. n \in Nat \ {0} /\ DOMAIN frames = 1..n /\ frames \in Seq(Frame) /\ outcome = "running"
  BY <1>1, TopIsFrame DEF BlocksInOrder
<1>3. frames' = SubSeq(frames, 1, n - 1) /\ outcome' = IF n = 1 THEN "ok" ELSE outcome
  BY DEF EndFile, Pop
<1>4. DOMAIN frames' = 1..(n - 1) /\ \A k \in 1..(n - 1) : frames'[k] = frames[k]
  BY <1>2, <1>3
<1>5. ASSUME NEW t, NEW k \in DOMAIN frames, NEW i \in DOMAIN frames[k].todo, frames[k].todo[i] = t
      PROVE  k \in 1..(n - 1)
  <2>1. DOMAIN frames[n].todo = {}
    BY <1>1
  <2>2. k # n
    BY <1>5, <2>1
  <2> QED BY <1>2, <2>2
<1>6. ASSUME NEW t, ToDescribe(t)
      PROVE  ToDescribe(t)'
  <2>1. PICK k \in DOMAIN frames : \E i \in DOMAIN frames[k].todo : frames[k].todo[i] = t
    BY <1>6 DEF ToDescribe
  <2>2. k \in 1..(n - 1)
    BY <1>5, <2>1
  <2> QED BY <1>4, <2>1, <2>2 DEF ToDescribe
<1>7. n = 1 => \A t : ~ToDescribe(t)
  BY <1>5 DEF ToDescribe
<1>8. \A k \in DOMAIN frames' : \A i \in DOMAIN frames'[k].todo : frames'[k].todo[i] \in registered'
  BY <1>1, <1>2, <1>4 DEF TargetsInOrder
<1>9. AllDescribed'
  <2> SUFFICES ASSUME n = 1, ~cut PROVE registered = defined
    BY <1>1, <1>2, <1>3 DEF AllDescribed
  <2> QED BY <1>2, <1>7 DEF TargetsInOrder
<1> QED BY <1>1, <1>2, <1>6, <1>8, <1>9 DEF TargetsInOrder

LEMMA NextTargets ==
  ASSUME BlocksInOrder, TargetsInOrder, [Next]_vars
  PROVE  TargetsInOrder'
<1>1. CASE StartMain
  BY <1>1, FilesAssumption, EnterFileKeepsTargets DEF StartMain, BlocksInOrder
<1>2. CASE \E f \in Files : Import(f)
  BY <1>2, TopIsFrame, EnterFileKeepsTargets DEF Import
<1>3. CASE \E f \in Files, inFunction \in BOOLEAN : Fetch(f, inFunction)
  BY <1>3, TopIsFrame, EnterFileKeepsTargets DEF Fetch
<1>4. CASE StatementThrows \/ DescribedTwice \/ FoundCycle \/ ReturnUncaught
  <2>1. \E how \in {"error", "circular"} : Fail(how)
    BY <1>4 DEF StatementThrows, DescribedTwice, FoundCycle, ReturnUncaught
  <2>2. frames' = <<>> /\ outcome' \in {"error", "circular"} /\ UNCHANGED data
    BY <2>1 DEF Fail
  <2> QED BY <2>2 DEF TargetsInOrder, AllDescribed, data
<1>5. CASE OpenTarget
  BY <1>5, OpenTargetKeepsTargets
<1>6. CASE CloseTarget
  <2> DEFINE new == [Top EXCEPT !.target = NoTarget]
  <2>1. Top \in Frame /\ Len(frames) \in DOMAIN frames /\ Top = frames[Len(frames)]
        /\ frames \in Seq(Frame)
    BY <1>6, TopIsFrame DEF CloseTarget, BlocksInOrder
  <2>2. new.todo = Top.todo
    BY <2>1 DEF Frame
  <2>3. frames' = [frames EXCEPT ![Len(frames)] = new]
    BY <1>6 DEF CloseTarget, ChangeTop
  <2> HIDE DEF new
  <2>4. DOMAIN frames' = DOMAIN frames /\ \A k \in DOMAIN frames : frames'[k].todo = frames[k].todo
    BY <2>1, <2>2, <2>3
  <2> QED BY <1>6, <2>4, TargetsKept DEF CloseTarget, data
<1>7. CASE AssignDepends \/ \E v \in ListElements : AppendDepends(v)
  BY <1>7, TargetsKept DEF AssignDepends, AppendDepends, loading
<1>8. CASE EndFile
  BY <1>8, EndFileKeepsTargets
<1>9. CASE ReturnCaught
  <2>1. Loading
    BY <1>9 DEF ReturnCaught
  <2>2. PICK k \in Catchers : frames' = SubSeq(frames, 1, k - 1)
    BY <1>9 DEF ReturnCaught
  <2>3. k - 1 \in 0..(Len(frames) - 1)
    BY <2>1, TopIsFrame DEF Catchers
  <2>4. \A j \in DOMAIN frames' : j \in DOMAIN frames /\ frames'[j] = frames[j]
    BY <1>9, <2>1, <2>2, <2>3, FramesCut DEF ReturnCaught, data
  <2>5. cut' /\ UNCHANGED data
    BY <1>9 DEF ReturnCaught
  <2> QED BY <2>4, <2>5 DEF TargetsInOrder, AllDescribed, data
<1>10. CASE Build
  <2>1. UNCHANGED <<data, loading>>
    BY <1>10 DEF Build, StartBuild, BuildNext, BuildGoal, GoalMissing, CompileThrows, CompileHangs
  <2> QED BY <2>1, TargetsKept DEF data, loading
<1>11. CASE UNCHANGED vars
  BY <1>11, TargetsKept DEF vars, data, loading
<1> QED BY <1>1, <1>2, <1>3, <1>4, <1>5, <1>6, <1>7, <1>8, <1>9, <1>10, <1>11 DEF Next, Interpret

---------------------------------------------------------------------------
(* While the project is loaded and built the open blocks are of different  *)
(* targets that have been described, the outcome is set once, with the     *)
(* plans just made, and what is not described yet still has its block in a *)
(* file in progress.                                                       *)
THEOREM LoadsInOrder == Spec => []LoadInOrder
<1>1. Init => LoadInOrder
  BY InitBlocks DEF Init, LoadInOrder, TargetsInOrder, AllDescribed
<1>2. LoadInOrder /\ [Next]_vars => LoadInOrder'
  BY NextBlocks, NextTargets DEF LoadInOrder
<1> QED BY <1>1, <1>2, PTL DEF Spec

(* After a load without error the plans are those of the targets as they   *)
(* ended up.                                                               *)
THEOREM PlansAreCurrent == Spec => []PlanIsCurrent
<1>1. LoadInOrder => PlanIsCurrent
  BY DEF LoadInOrder, BlocksInOrder
<1> QED BY <1>1, LoadsInOrder, PTL

(* After a load without error every target that has been registered, by    *)
(* whatever file, has been described, unless a return has left a file.     *)
THEOREM TargetsAreDescribed == Spec => []AllDescribed
<1>1. LoadInOrder => AllDescribed
  BY DEF LoadInOrder, TargetsInOrder
<1> QED BY <1>1, LoadsInOrder, PTL

---------------------------------------------------------------------------
(* A step opens the block of a target that had none before, or opens none. *)
LEMMA BlocksOpened ==
  ASSUME BlocksInOrder, Next, NEW t \in Names, ~InBlock(t), t \in defined
  PROVE  ~InBlock(t)'
<1>0. t # NoTarget
  BY NamesAssumption
<1> SUFFICES \A k \in DOMAIN frames' : frames'[k].target # t
  BY DEF InBlock
<1>1. frames \in Seq(Frame) /\ \A k \in DOMAIN frames : frames[k].target # t
  BY DEF InBlock, BlocksInOrder
<1>2. CASE \E f \in Files, inFunction \in BOOLEAN : EnterFile(f, inFunction)
  <2>1. PICK f \in Files, inFunction \in BOOLEAN : EnterFile(f, inFunction)
    BY <1>2
  <2> DEFINE new == [todo |-> Declares[f], target |-> NoTarget, inFunction |-> inFunction]
  <2>2. frames' = Append(frames, new) /\ new.target = NoTarget
    BY <2>1 DEF EnterFile
  <2>3. \A k \in DOMAIN frames' : (k \in DOMAIN frames /\ frames'[k] = frames[k]) \/ frames'[k] = new
    BY <1>1, <2>2
  <2> QED BY <1>0, <1>1, <2>2, <2>3
<1>3. CASE \E how \in {"error", "circular"} : Fail(how)
  BY <1>3 DEF Fail
<1>4. CASE OpenTarget \/ CloseTarget
  <2>1. Loading
    BY <1>4 DEF OpenTarget, CloseTarget
  <2>2. PICK new : frames' = [frames EXCEPT ![Len(frames)] = new] /\ new.target # t
    <3>1. CASE OpenTarget
      <4> DEFINE opened == [Top EXCEPT !.target = Head(Top.todo), !.todo = Tail(@)]
      <4>1. opened.target = Head(Top.todo) /\ Head(Top.todo) # t
        BY <2>1, <3>1, TopIsFrame DEF OpenTarget, Frame
      <4>2. frames' = [frames EXCEPT ![Len(frames)] = opened]
        BY <3>1 DEF OpenTarget, ChangeTop
      <4> HIDE DEF opened
      <4> QED BY <4>1, <4>2
    <3>2. CASE CloseTarget
      <4> DEFINE closed == [Top EXCEPT !.target = NoTarget]
      <4>1. closed.target = NoTarget
        BY <2>1, TopIsFrame DEF Frame
      <4>2. frames' = [frames EXCEPT ![Len(frames)] = closed]
        BY <3>2 DEF CloseTarget, ChangeTop
      <4> HIDE DEF closed
      <4> QED BY <1>0, <4>1, <4>2
    <3> QED BY <1>4, <3>1, <3>2
  <2> QED BY <1>1, <2>2
<1>5. CASE EndFile \/ ReturnCaught
  <2>1. Loading /\ defined' = defined
    BY <1>5 DEF EndFile, ReturnCaught, data
  <2>2. PICK n \in 0..(Len(frames) - 1) : frames' = SubSeq(frames, 1, n)
    <3>1. CASE EndFile
      <4>1. Len(frames) - 1 \in 0..(Len(frames) - 1)
        BY <2>1, TopIsFrame
      <4> QED BY <3>1, <4>1 DEF EndFile, Pop
    <3>2. CASE ReturnCaught
      <4>1. PICK k \in Catchers : frames' = SubSeq(frames, 1, k - 1)
        BY <3>2 DEF ReturnCaught
      <4>2. k - 1 \in 0..(Len(frames) - 1)
        BY <2>1, TopIsFrame DEF Catchers
      <4> QED BY <4>1, <4>2
    <3> QED BY <1>5, <3>1, <3>2
  <2> QED BY <1>1, <2>1, <2>2, FramesCut
<1>6. CASE frames' = frames
  BY <1>1, <1>6
<1>7. \/ \E f \in Files, inFunction \in BOOLEAN : EnterFile(f, inFunction)
      \/ \E how \in {"error", "circular"} : Fail(how)
      \/ OpenTarget \/ CloseTarget \/ EndFile \/ ReturnCaught
      \/ frames' = frames
  <2>1. CASE StartMain
    BY <2>1, FilesAssumption DEF StartMain
  <2>2. CASE Interpret
    BY <2>2 DEF Interpret, StatementThrows, Import, Fetch, DescribedTwice, AssignDepends,
                AppendDepends, FoundCycle, ReturnUncaught, loading
  <2>3. CASE Build
    BY <2>3 DEF Build, StartBuild, BuildNext, BuildGoal, GoalMissing, CompileThrows, CompileHangs, loading
  <2> QED BY <2>1, <2>2, <2>3 DEF Next
<1> QED BY <1>2, <1>3, <1>4, <1>5, <1>6, <1>7

(* The depends that a step writes is that of an open block.                *)
LEMMA WrittenInBlock ==
  ASSUME BlocksInOrder, Next, NEW t \in Names, ~InBlock(t)
  PROVE  depends'[t] = depends[t]
<1>1. CASE AssignDepends \/ \E v \in ListElements : AppendDepends(v)
  <2>1. Loading
    BY <1>1 DEF AssignDepends, AppendDepends
  <2>2. Current # t
    BY <2>1, TopIsFrame DEF Current, InBlock
  <2>3. PICK list : depends' = [depends EXCEPT ![Current] = list]
    BY <1>1 DEF AssignDepends, AppendDepends
  <2> QED BY <2>2, <2>3 DEF BlocksInOrder
<1>2. CASE depends' = depends
  BY <1>2
<1>3. depends' = depends \/ AssignDepends \/ \E v \in ListElements : AppendDepends(v)
  <2>1. CASE StartMain
    BY <2>1 DEF StartMain, EnterFile
  <2>2. CASE Interpret
    BY <2>2 DEF Interpret, StatementThrows, Import, Fetch, DescribedTwice, EnterFile, Fail,
                OpenTarget, CloseTarget, EndFile, FoundCycle, ReturnCaught, ReturnUncaught, data
  <2>3. CASE Build
    BY <2>3 DEF Build, StartBuild, BuildNext, BuildGoal, GoalMissing, CompileThrows, CompileHangs, data
  <2> QED BY <2>1, <2>2, <2>3 DEF Next
<1> QED BY <1>1, <1>2, <1>3

(* Only its own block writes the depends of a target, and a block that has *)
(* been left is not entered again, whatever files load each other and      *)
(* however they are left.                                                  *)
THEOREM BlocksEnteredOnce == Spec => DescribedOnce
<1>1. LoadInOrder /\ [Next]_vars =>
        [\A t \in Names : ~InBlock(t) =>
           /\ depends'[t] = depends[t]
           /\ t \in defined => ~InBlock(t)']_vars
  BY BlocksOpened, WrittenInBlock DEF LoadInOrder
<1> QED BY <1>1, LoadsInOrder, PTL DEF Spec, DescribedOnce
---------------------------------------------------------------------------
(* Up to n by steps of one: what holds of 0, and of k + 1 if of k.         *)
LEMMA Climb ==
  ASSUME NEW n \in Nat, NEW S, 0 \in S, \A k \in 0..(n - 1) : k \in S => k + 1 \in S
  PROVE  n \in S
<1> DEFINE missing == {k \in 0..n : k \notin S}
           R == {ss \in Nat \X Nat : ss[1] < ss[2]}
<1> SUFFICES ASSUME n \notin S PROVE FALSE
  OBVIOUS
<1>0. IsWellFoundedOn(R, Nat)
  BY NatLessThanWellFounded, Zenon DEF OpToRel
<1>1. missing \subseteq Nat /\ missing # {}
  OBVIOUS
<1>2. PICK k \in missing : \A j \in missing : ~(<<j, k>> \in R)
  <2> HIDE DEF missing, R
  <2> QED BY <1>0, <1>1, WFMin
<1>3. \A j \in missing : ~(j < k)
  BY <1>1, <1>2
<1>4. k # 0 /\ k - 1 \in 0..(n - 1) /\ k - 1 < k /\ (k - 1) + 1 = k
  OBVIOUS
<1>5. k - 1 \in S
  BY <1>3, <1>4
<1> QED BY <1>4, <1>5

(* f holds the targets among the first k elements of the list, for k up    *)
(* to m: the equation TargetDeps is defined by.                            *)
IsDeps(list, m, f) ==
  f = [n \in 0..m |-> IF n = 0 THEN <<>>
                      ELSE IF list[n] \in Names THEN Append(f[n - 1], list[n]) ELSE f[n - 1]]

LEMMA DepsExist ==
  ASSUME NEW list, Len(list) \in Nat
  PROVE  \E f : IsDeps(list, Len(list), f)
<1> DEFINE next(f, n) == IF n = 0 THEN <<>>
                         ELSE IF list[n] \in Names THEN Append(f[n - 1], list[n]) ELSE f[n - 1]
           S == {m \in 0..Len(list) : \E f : f = [n \in 0..m |-> next(f, n)]}
<1>1. 0 \in S
  <2> DEFINE f == [n \in 0..0 |-> <<>>]
  <2>1. f = [n \in 0..0 |-> next(f, n)]
    OBVIOUS
  <2> HIDE DEF f, next
  <2> QED BY <2>1
<1>2. ASSUME NEW k \in 0..(Len(list) - 1), k \in S
      PROVE  k + 1 \in S
  <2>1. PICK f : f = [n \in 0..k |-> next(f, n)]
    <3> HIDE DEF next
    <3> QED BY <1>2
  <2> DEFINE g == [n \in 0..(k + 1) |-> IF n = k + 1 THEN next(f, k + 1) ELSE f[n]]
  <2>2. ASSUME NEW n \in 0..(k + 1)
        PROVE  g[n] = next(g, n)
    <3>1. CASE n = k + 1
      <4>1. g[n] = next(f, k + 1) /\ g[k] = f[k] /\ n # 0 /\ n - 1 = k
        <5> HIDE DEF next
        <5> QED BY <3>1
      <4> HIDE DEF g
      <4> QED BY <3>1, <4>1
    <3>2. CASE n # k + 1
      <4>1. n \in 0..k /\ g[n] = f[n]
        <5> HIDE DEF next
        <5> QED BY <3>2
      <4>2. f[n] = next(f, n)
        <5> HIDE DEF next
        <5> QED BY <2>1, <4>1
      <4>3. n # 0 => g[n - 1] = f[n - 1]
        <5>1. n # 0 => n - 1 \in 0..(k + 1) /\ n - 1 # k + 1
          BY <4>1
        <5> HIDE DEF next
        <5> QED BY <5>1
      <4> HIDE DEF g
      <4> QED BY <4>1, <4>2, <4>3
    <3> QED BY <3>1, <3>2
  <2>3. g = [n \in 0..(k + 1) |-> g[n]]
    <3> HIDE DEF next
    <3> QED OBVIOUS
  <2>4. g = [n \in 0..(k + 1) |-> next(g, n)]
    <3> HIDE DEF g, next
    <3> QED BY <2>2, <2>3
  <2> HIDE DEF g, next
  <2> QED BY <2>4
<1>3. Len(list) \in S
  <2> HIDE DEF S
  <2> QED BY <1>1, <1>2, Climb
<1> QED BY <1>3 DEF IsDeps

(* TargetDeps takes from a list nothing but targets, and only those in it. *)
LEMMA DepsAreTargets ==
  ASSUME NEW S, NEW list \in Seq(S)
  PROVE  TargetDeps(list) \in Seq(S \cap Names)
<1> DEFINE f == CHOOSE f : IsDeps(list, Len(list), f)
           T == {n \in 0..Len(list) : f[n] \in Seq(S \cap Names)}
<1>1. TargetDeps(list) = f[Len(list)]
  BY DEF TargetDeps, IsDeps
<1>2. IsDeps(list, Len(list), f)
  BY DepsExist
<1> HIDE DEF f
<1>3. 0 \in T
  BY <1>2 DEF IsDeps
<1>4. ASSUME NEW k \in 0..(Len(list) - 1), k \in T
      PROVE  k + 1 \in T
  <2>1. k + 1 \in 1..Len(list) /\ k + 1 \in 0..Len(list) /\ (k + 1) - 1 = k /\ k + 1 # 0
    OBVIOUS
  <2>2. f[k + 1] = IF list[k + 1] \in Names THEN Append(f[k], list[k + 1]) ELSE f[k]
    BY <1>2, <2>1 DEF IsDeps
  <2>3. list[k + 1] \in S
    BY <2>1
  <2>4. f[k] \in Seq(S \cap Names)
    BY <1>4
  <2>5. f[k + 1] \in Seq(S \cap Names)
    BY <2>2, <2>3, <2>4
  <2> QED BY <2>1, <2>5
<1>5. Len(list) \in T
  <2> HIDE DEF T
  <2> QED BY <1>3, <1>4, Climb
<1> QED BY <1>1, <1>5
(* ... and leaves none of those out.                                       *)
LEMMA DepsAreAll ==
  ASSUME NEW S, NEW list \in Seq(S), NEW i \in DOMAIN list, list[i] \in Names
  PROVE  \E j \in DOMAIN TargetDeps(list) : TargetDeps(list)[j] = list[i]
<1> DEFINE f == CHOOSE f : IsDeps(list, Len(list), f)
           found(n) == \E j \in DOMAIN f[n] : f[n][j] = list[i]
           T == {n \in 0..Len(list) : f[n] \in Seq(S) /\ (i <= n => found(n))}
<1>1. TargetDeps(list) = f[Len(list)]
  BY DEF TargetDeps, IsDeps
<1>2. IsDeps(list, Len(list), f)
  BY DepsExist
<1>3. i \in 1..Len(list) /\ Len(list) \in Nat
  OBVIOUS
<1> HIDE DEF f
<1>4. 0 \in T
  BY <1>2, <1>3 DEF IsDeps
<1>5. ASSUME NEW k \in 0..(Len(list) - 1), k \in T
      PROVE  k + 1 \in T
  <2>1. /\ k + 1 \in 1..Len(list) /\ k + 1 \in 0..Len(list) /\ (k + 1) - 1 = k /\ k + 1 # 0
        /\ i <= k + 1 => i <= k \/ i = k + 1
    BY <1>3
  <2>2. f[k + 1] = IF list[k + 1] \in Names THEN Append(f[k], list[k + 1]) ELSE f[k]
    BY <1>2, <2>1 DEF IsDeps
  <2>3. list[k + 1] \in S
    BY <2>1
  <2>4. f[k] \in Seq(S) /\ (i <= k => found(k))
    BY <1>5
  <2> HIDE DEF T
  <2>5. f[k + 1] \in Seq(S)
    BY <2>2, <2>3, <2>4
  <2>6. ASSUME i <= k
        PROVE  found(k + 1)
    <3>1. PICK j \in DOMAIN f[k] : f[k][j] = list[i]
      BY <2>4, <2>6
    <3>2. j \in DOMAIN f[k + 1] /\ f[k + 1][j] = f[k][j]
      BY <2>2, <2>3, <2>4, <3>1
    <3> QED BY <3>1, <3>2
  <2>7. ASSUME i = k + 1
        PROVE  found(k + 1)
    <3>1. f[k + 1] = Append(f[k], list[i])
      BY <2>2, <2>7
    <3>2. Len(f[k]) + 1 \in DOMAIN f[k + 1] /\ f[k + 1][Len(f[k]) + 1] = list[i]
      BY <2>3, <2>4, <2>7, <3>1
    <3> QED BY <3>2
  <2> QED BY <2>1, <2>5, <2>6, <2>7 DEF T
<1>6. Len(list) \in T
  <2> HIDE DEF T
  <2> QED BY <1>3, <1>4, <1>5, Climb
<1> QED BY <1>1, <1>3, <1>6

---------------------------------------------------------------------------
(* The plans name registered targets only, and so do the Builder's queue   *)
(* and what it has built.                                                  *)
PlansTyped ==
  /\ \A t \in Names : depends[t] \in Seq(registered \cup {Text})
  /\ DOMAIN plan \subseteq registered
  /\ \A t \in DOMAIN plan : plan[t] \in Seq(registered)
  /\ cut \in BOOLEAN
  /\ outcome \in {"running", "ok", "error", "circular"}
  /\ phase \in {"start", "load", "build", "done", "crashed", "hung"}
  /\ queue \in Seq(registered) /\ built \in Seq(registered)

LEMMA RegisteredGrows ==
  ASSUME PlansTyped, registered \subseteq registered',
         UNCHANGED <<depends, plan, building>>
  PROVE  /\ \A t \in Names : depends'[t] \in Seq(registered' \cup {Text})
         /\ DOMAIN plan' \subseteq registered'
         /\ \A t \in DOMAIN plan' : plan'[t] \in Seq(registered')
         /\ queue' \in Seq(registered') /\ built' \in Seq(registered')
<1>1. \A s : s \in Seq(registered) => s \in Seq(registered')
  BY SeqMonotonic
<1>2. \A s : s \in Seq(registered \cup {Text}) => s \in Seq(registered' \cup {Text})
  BY SeqMonotonic
<1> QED BY <1>1, <1>2 DEF PlansTyped, building

(* What a block writes are lists of what can be named.                     *)
LEMMA WrittenLists ==
  ASSUME BlocksInOrder, PlansTyped, AssignDepends \/ \E v \in ListElements : AppendDepends(v)
  PROVE  PlansTyped'
<1>0. Loading /\ Current \in Names
  BY TopIsFrame DEF AssignDepends, AppendDepends
<1>1. PICK list \in Seq(registered \cup {Text}) : depends' = [depends EXCEPT ![Current] = list]
  <2>1. CASE AssignDepends
    <3>1. PICK list \in Lists(MaxDepends[Current]) : depends' = [depends EXCEPT ![Current] = list]
      BY <2>1 DEF AssignDepends
    <3>2. PICK n \in 0..MaxDepends[Current] : list \in [1..n -> registered \cup {Text}]
      BY DEF Lists, ListElements
    <3>3. n \in Nat
      BY <1>0, BoundsAssumption
    <3>4. list \in Seq(registered \cup {Text})
      BY <3>2, <3>3
    <3> QED BY <3>1, <3>4
  <2>2. CASE \E v \in ListElements : AppendDepends(v)
    <3>1. PICK v \in registered \cup {Text} :
            depends' = [depends EXCEPT ![Current] = Append(depends[Current], v)]
      BY <2>2 DEF AppendDepends, ListElements
    <3>2. depends[Current] \in Seq(registered \cup {Text})
      BY <1>0 DEF PlansTyped
    <3> DEFINE S == registered \cup {Text}
    <3>3. Append(depends[Current], v) \in Seq(S)
      <4>1. v \in S /\ depends[Current] \in Seq(S)
        BY <3>1, <3>2
      <4> HIDE DEF S
      <4> QED BY <4>1
    <3> QED BY <3>1, <3>3
  <2> QED BY <2>1, <2>2
<1>2. UNCHANGED <<registered, defined, plan, loading, phase, building>>
  BY DEF AssignDepends, AppendDepends
<1>3. \A t \in Names : depends'[t] \in Seq(registered' \cup {Text})
  BY <1>1, <1>2 DEF PlansTyped, BlocksInOrder
<1> QED BY <1>2, <1>3 DEF PlansTyped, loading, building

LEMMA EndFilePlans ==
  ASSUME BlocksInOrder, PlansTyped, EndFile
  PROVE  PlansTyped'
<1>1. \A t \in registered : TargetDeps(depends[t]) \in Seq(registered)
  <2> SUFFICES ASSUME NEW t \in registered PROVE TargetDeps(depends[t]) \in Seq(registered)
    OBVIOUS
  <2>1. depends[t] \in Seq(registered \cup {Text})
    BY DEF PlansTyped, BlocksInOrder
  <2>2. TargetDeps(depends[t]) \in Seq((registered \cup {Text}) \cap Names)
    BY <2>1, DepsAreTargets
  <2>3. (registered \cup {Text}) \cap Names \subseteq registered
    BY NamesAssumption
  <2> QED BY <2>2, <2>3, SeqMonotonic
<1>2. plan' = [t \in registered |-> TargetDeps(depends[t])] /\ registered' = registered
      /\ outcome' \in {"ok", outcome} /\ UNCHANGED <<depends, cut, phase, building>>
  BY DEF EndFile, Plans
<1> QED BY <1>1, <1>2 DEF PlansTyped, building

(* The Builder takes its queue from the plans.                             *)
LEMMA BuildPlans ==
  ASSUME PlansTyped, Build
  PROVE  PlansTyped'
<1>1. UNCHANGED <<data, loading>>
  BY DEF Build, StartBuild, BuildNext, BuildGoal, GoalMissing, CompileThrows, CompileHangs
<1>2. queue' \in Seq(registered) /\ built' \in Seq(registered) /\ phase' \in {"build", "done", "crashed", "hung"}
  <2>1. CASE StartBuild
    BY <2>1 DEF StartBuild, PlansTyped
  <2>2. CASE BuildNext
    <3>1. queue # <<>> /\ built' = Append(built, Head(queue)) /\ queue' = Tail(queue)
          /\ phase' = "build"
      BY <2>2 DEF BuildNext
    <3>2. Head(queue) \in registered /\ Tail(queue) \in Seq(registered)
      BY <3>1, HeadTailProperties DEF PlansTyped
    <3> QED BY <3>1, <3>2 DEF PlansTyped
  <2>3. CASE BuildGoal
    BY <2>3 DEF BuildGoal, PlansTyped
  <2>4. CASE GoalMissing \/ CompileThrows \/ CompileHangs
    BY <2>4 DEF GoalMissing, CompileThrows, CompileHangs, building, PlansTyped
  <2> QED BY <2>1, <2>2, <2>3, <2>4 DEF Build
<1> QED BY <1>1, <1>2 DEF PlansTyped, data, loading

LEMMA NextPlans ==
  ASSUME BlocksInOrder, PlansTyped, [Next]_vars
  PROVE  PlansTyped'
<1>1. CASE StartMain
  BY <1>1, RegisteredGrows DEF StartMain, EnterFile, PlansTyped
<1>2. CASE \E f \in Files : Import(f)
  BY <1>2, RegisteredGrows DEF Import, EnterFile, PlansTyped
<1>3. CASE \E f \in Files, inFunction \in BOOLEAN : Fetch(f, inFunction)
  BY <1>3, RegisteredGrows DEF Fetch, EnterFile, PlansTyped
<1>4. CASE StatementThrows \/ DescribedTwice \/ FoundCycle \/ ReturnUncaught
  <2>1. \E how \in {"error", "circular"} : Fail(how)
    BY <1>4 DEF StatementThrows, DescribedTwice, FoundCycle, ReturnUncaught
  <2> QED BY <2>1 DEF Fail, PlansTyped, data, building
<1>5. CASE OpenTarget \/ CloseTarget \/ ReturnCaught
  BY <1>5 DEF OpenTarget, CloseTarget, ReturnCaught, PlansTyped, data, building
<1>6. CASE AssignDepends \/ \E v \in ListElements : AppendDepends(v)
  BY <1>6, WrittenLists
<1>7. CASE EndFile
  BY <1>7, EndFilePlans
<1>8. CASE Build
  BY <1>8, BuildPlans
<1>9. CASE UNCHANGED vars
  BY <1>9 DEF vars, data, loading, building, PlansTyped
<1> QED BY <1>1, <1>2, <1>3, <1>4, <1>5, <1>6, <1>7, <1>8, <1>9 DEF Next, Interpret

LEMMA PlansAreTyped == Spec => []PlansTyped
<1>1. Init => PlansTyped
  <2> SUFFICES ASSUME Init PROVE PlansTyped
    OBVIOUS
  <2>1. <<>> \in Seq(registered) /\ <<>> \in Seq(registered \cup {Text})
    OBVIOUS
  <2>2. DOMAIN plan = {} /\ \A t \in Names : depends[t] = <<>>
    BY DEF Init
  <2> QED BY <2>1, <2>2 DEF Init, PlansTyped
<1>2. LoadInOrder /\ PlansTyped /\ [Next]_vars => PlansTyped'
  BY NextPlans DEF LoadInOrder
<1> QED BY <1>1, <1>2, LoadsInOrder, PTL DEF Spec

(* The variables keep their types: plans, queue and files in progress name *)
(* registered targets, open blocks targets that have been described.       *)
THEOREM TypesHold == Spec => []TypeOK
<1>1. LoadInOrder /\ PlansTyped => TypeOK
  <2> SUFFICES ASSUME LoadInOrder, PlansTyped PROVE TypeOK
    OBVIOUS
  <2> DEFINE F == [todo : Seq(registered), target : defined \cup {NoTarget}, inFunction : BOOLEAN]
  <2>1. frames \in Seq(Frame) /\ DOMAIN frames = 1..Len(frames) /\ Len(frames) \in Nat
    BY DEF LoadInOrder, BlocksInOrder
  <2>2. ASSUME NEW k \in 1..Len(frames)
        PROVE  frames[k] \in F
    <3>0. frames[k] \in Frame
      BY <2>1, <2>2
    <3>1. frames[k] \in Frame /\ frames[k].todo \in Seq(Names)
      BY <3>0 DEF Frame
    <3>2. \A i \in 1..Len(frames[k].todo) : frames[k].todo[i] \in registered
      BY <2>1, <3>1 DEF LoadInOrder, TargetsInOrder
    <3>3. frames[k].todo \in Seq(registered)
      <4>1. frames[k].todo \in [1..Len(frames[k].todo) -> registered] /\ Len(frames[k].todo) \in Nat
        BY <3>1, <3>2
      <4> QED BY <4>1
    <3>4. frames[k].target \in defined \cup {NoTarget}
      BY <2>1 DEF LoadInOrder, BlocksInOrder, OpenBlocksDiffer
    <3> QED BY <3>1, <3>3, <3>4 DEF Frame
  <2>3. frames \in Seq(F)
    <3>1. frames \in [1..Len(frames) -> F]
      <4> HIDE DEF F
      <4> QED BY <2>1, <2>2
    <3> HIDE DEF F
    <3> QED BY <2>1, <3>1
  <2> QED BY <2>3 DEF LoadInOrder, BlocksInOrder, TargetsInOrder, PlansTyped, TypeOK
<1> QED BY <1>1, LoadsInOrder, PlansAreTyped, PTL

---------------------------------------------------------------------------
(* With fewer edges there are no more circles.                             *)
LEMMA FewerEdges ==
  ASSUME NEW d, NEW e, \A t \in Names : DependsOn(e, t) \subseteq DependsOn(d, t), ~Cyclic(d)
  PROVE  ~Cyclic(e)
<1> SUFFICES ASSUME NEW t \in Names, Reaches(e, t, t) PROVE Reaches(d, t, t)
  BY DEF Cyclic
<1> SUFFICES ASSUME NEW S \in SUBSET Names, DependsOn(d, t) \subseteq S, ClosedUnderDepends(d, S)
             PROVE  t \in S
  BY DEF Reaches
<1>1. DependsOn(e, t) \subseteq S /\ ClosedUnderDepends(e, S)
  BY DEF ClosedUnderDepends
<1> QED BY <1>1 DEF Reaches

AllPlans == [t \in Names |-> IF t \in DOMAIN plan THEN plan[t] ELSE <<>>]

LEMMA EndFileNoCycle ==
  ASSUME BlocksInOrder, EndFile
  PROVE  PlanHasNoCycle'
<1>1. /\ ~Cyclic(depends) /\ plan' = [t \in registered |-> TargetDeps(depends[t])]
      /\ registered \subseteq Names /\ depends \in [Names -> Seq(Names \cup {Text})]
  BY DEF EndFile, Plans, BlocksInOrder
<1>2. ASSUME NEW t \in Names
      PROVE  DependsOn(AllPlans', t) \subseteq DependsOn(depends, t)
  <2> SUFFICES ASSUME NEW u \in Names, NEW i \in DOMAIN AllPlans'[t], AllPlans'[t][i] = u
               PROVE  u \in DependsOn(depends, t)
    BY DEF DependsOn
  <2>1. t \in registered /\ AllPlans'[t] = TargetDeps(depends[t])
    BY <1>1 DEF AllPlans
  <2> DEFINE S == {depends[t][j] : j \in DOMAIN depends[t]}
  <2>2. depends[t] \in Seq(S)
    <3>1. depends[t] \in Seq(Names \cup {Text})
      BY <1>1
    <3>2. depends[t] \in [1..Len(depends[t]) -> S] /\ Len(depends[t]) \in Nat
      BY <3>1
    <3> HIDE DEF S
    <3> QED BY <3>2
  <2>3. TargetDeps(depends[t]) \in Seq(S \cap Names)
    <3> HIDE DEF S
    <3> QED BY <2>2, DepsAreTargets
  <2>4. u \in S
    <3> HIDE DEF S
    <3> QED BY <2>1, <2>3
  <2> QED BY <2>4 DEF DependsOn
<1>3. ~Cyclic(AllPlans')
  BY <1>1, <1>2, FewerEdges
<1> QED BY <1>3 DEF PlanHasNoCycle, AllPlans

(* The plans as a whole never have a cycle, also those that nested files   *)
(* have left behind when the load ends in an error.                        *)
THEOREM PlansHaveNoCycle == Spec => []PlanHasNoCycle
<1>1. Init => PlanHasNoCycle
  <2> SUFFICES ASSUME Init, NEW t \in Names, Reaches(AllPlans, t, t) PROVE FALSE
    BY DEF PlanHasNoCycle, Cyclic, AllPlans
  <2>1. \A u \in Names : DependsOn(AllPlans, u) = {}
    BY DEF Init, AllPlans, DependsOn
  <2> QED BY <2>1 DEF Reaches, ClosedUnderDepends
<1>2. LoadInOrder /\ PlanHasNoCycle /\ [Next]_vars => PlanHasNoCycle'
  <2> SUFFICES ASSUME LoadInOrder, PlanHasNoCycle, [Next]_vars PROVE PlanHasNoCycle'
    OBVIOUS
  <2>1. CASE EndFile
    BY <2>1, EndFileNoCycle DEF LoadInOrder
  <2>2. CASE plan' = plan
    BY <2>2 DEF PlanHasNoCycle
  <2>3. EndFile \/ plan' = plan
    <3>1. CASE StartMain
      BY <3>1 DEF StartMain, EnterFile
    <3>2. CASE Interpret
      BY <3>2 DEF Interpret, StatementThrows, Import, Fetch, DescribedTwice, EnterFile, Fail,
                  OpenTarget, CloseTarget, AssignDepends, AppendDepends, FoundCycle,
                  ReturnCaught, ReturnUncaught, data
    <3>3. CASE Build
      BY <3>3 DEF Build, StartBuild, BuildNext, BuildGoal, GoalMissing, CompileThrows, CompileHangs, data
    <3>4. CASE UNCHANGED vars
      BY <3>4 DEF vars, data
    <3> QED BY <3>1, <3>2, <3>3, <3>4 DEF Next
  <2> QED BY <2>1, <2>2, <2>3
<1> QED BY <1>1, <1>2, LoadsInOrder, PTL DEF Spec

---------------------------------------------------------------------------
(* After a load without error, what has been built and what is still       *)
(* queued make up the plan of the goal; nothing is built while loading.    *)
BuildFollowsPlan ==
  /\ phase \in {"start", "load"} => built = <<>>
  /\ outcome = "ok" /\ Goal \in registered =>
       /\ phase = "build" => built \o queue = TargetDeps(depends[Goal])
       /\ phase = "done" => built = Append(TargetDeps(depends[Goal]), Goal)
  /\ phase = "done" => Goal \in registered

LEMMA BuildStepFollows ==
  ASSUME LoadInOrder, PlansTyped, BuildFollowsPlan, Build
  PROVE  BuildFollowsPlan'
<1>1. UNCHANGED <<registered, depends, plan, outcome>>
  BY DEF Build, StartBuild, BuildNext, BuildGoal, GoalMissing, CompileThrows, CompileHangs,
         data, loading
<1>2. CASE StartBuild
  <2>1. built' = <<>> /\ phase' = "build" /\ queue' = IF Goal \in DOMAIN plan THEN plan[Goal] ELSE <<>>
    BY <1>2 DEF StartBuild, BuildFollowsPlan
  <2>2. ASSUME outcome = "ok", Goal \in registered
        PROVE  built' \o queue' = TargetDeps(depends[Goal])
    <3>1. queue' = TargetDeps(depends[Goal]) /\ queue' \in Seq(registered)
      BY <2>1, <2>2 DEF LoadInOrder, BlocksInOrder, PlanIsCurrent, PlansTyped
    <3> QED BY <2>1, <3>1, ConcatEmptySeq
  <2> QED BY <1>1, <2>1, <2>2 DEF BuildFollowsPlan
<1>3. CASE BuildNext
  <2>1. /\ phase = "build" /\ phase' = "build" /\ queue # <<>>
        /\ built' = Append(built, Head(queue)) /\ queue' = Tail(queue)
        /\ queue \in Seq(registered) /\ built \in Seq(registered)
    BY <1>3 DEF BuildNext, PlansTyped
  <2>2. built' \o queue' = built \o queue
    <3>1. Head(queue) \in registered /\ Tail(queue) \in Seq(registered) /\ <<Head(queue)>> \in Seq(registered)
      BY <2>1, HeadTailProperties
    <3>2. built' = built \o <<Head(queue)>>
      BY <2>1, <3>1, AppendIsConcat
    <3>3. queue = <<Head(queue)>> \o Tail(queue)
      BY <2>1, <3>1
    <3> QED BY <2>1, <3>1, <3>2, <3>3, ConcatAssociative
  <2> QED BY <1>1, <2>1, <2>2 DEF BuildFollowsPlan
<1>4. CASE BuildGoal
  <2>1. /\ phase = "build" /\ phase' = "done" /\ queue = <<>> /\ Goal \in registered
        /\ built' = Append(built, Goal) /\ built \in Seq(registered)
    BY <1>4 DEF BuildGoal, PlansTyped
  <2>2. built \o queue = built
    BY <2>1, ConcatEmptySeq
  <2> QED BY <1>1, <2>1, <2>2 DEF BuildFollowsPlan
<1>5. CASE GoalMissing \/ CompileThrows \/ CompileHangs
  BY <1>1, <1>5 DEF GoalMissing, CompileThrows, CompileHangs, BuildFollowsPlan
<1> QED BY <1>2, <1>3, <1>4, <1>5 DEF Build

LEMMA BuildsFollowPlan == Spec => []BuildFollowsPlan
<1>1. Init => BuildFollowsPlan
  BY DEF Init, BuildFollowsPlan
<1>2. LoadInOrder /\ PlansTyped /\ BuildFollowsPlan /\ [Next]_vars => BuildFollowsPlan'
  <2> SUFFICES ASSUME LoadInOrder, PlansTyped, BuildFollowsPlan, [Next]_vars
               PROVE  BuildFollowsPlan'
    OBVIOUS
  <2>1. CASE StartMain \/ Interpret
    <3>1. phase \in {"start", "load"} /\ phase' = "load" /\ built' = built
      BY <2>1 DEF StartMain, Interpret, StatementThrows, Import, Fetch, DescribedTwice, EnterFile,
                  Fail, OpenTarget, CloseTarget, AssignDepends, AppendDepends, EndFile, FoundCycle,
                  ReturnCaught, ReturnUncaught, Loading, building
    <3> QED BY <3>1 DEF BuildFollowsPlan
  <2>2. CASE Build
    BY <2>2, BuildStepFollows
  <2>3. CASE UNCHANGED vars
    BY <2>3 DEF vars, data, loading, building, BuildFollowsPlan
  <2> QED BY <2>1, <2>2, <2>3 DEF Next
<1> QED BY <1>1, <1>2, LoadsInOrder, PlansAreTyped, PTL DEF Spec

(* A build that ends after a load without error has compiled what the goal *)
(* lists, in that order, and the goal last.                                *)
THEOREM BuildsInOrder == Spec => []BuiltInOrder
<1>1. BuildFollowsPlan => BuiltInOrder
  BY DEF BuildFollowsPlan, BuiltInOrder
<1> QED BY <1>1, BuildsFollowPlan, PTL

(* It has compiled the goal, every target the goal lists, and no other.    *)
BuiltIsListed ==
  phase = "done" /\ outcome = "ok" =>
    {built[k] : k \in DOMAIN built} = DependsOn(depends, Goal) \cup {Goal}
THEOREM NothingElseIsBuilt == Spec => []BuiltIsListed
<1>1. LoadInOrder /\ BuildFollowsPlan => BuiltIsListed
  <2> SUFFICES ASSUME LoadInOrder, BuildFollowsPlan, phase = "done", outcome = "ok"
               PROVE  {built[k] : k \in DOMAIN built} = DependsOn(depends, Goal) \cup {Goal}
    BY DEF BuiltIsListed
  <2> DEFINE list == depends[Goal]
             deps == TargetDeps(list)
             S == {list[i] : i \in DOMAIN list}
  <2>1. Goal \in Names /\ built = Append(deps, Goal) /\ list \in Seq(Names \cup {Text})
    BY DEF BuildFollowsPlan, LoadInOrder, BlocksInOrder
  <2>2. list \in Seq(S)
    <3> HIDE DEF deps
    <3>1. list \in [1..Len(list) -> S] /\ Len(list) \in Nat
      BY <2>1
    <3> HIDE DEF S, list
    <3> QED BY <3>1
  <2>3. deps \in Seq(S \cap Names)
    <3> HIDE DEF S, list
    <3> QED BY <2>2, DepsAreTargets
  <2>4. {deps[k] : k \in DOMAIN deps} = DependsOn(depends, Goal)
    <3>1. ASSUME NEW k \in DOMAIN deps
          PROVE  deps[k] \in DependsOn(depends, Goal)
      <4>1. deps[k] \in S \cap Names
        <5> HIDE DEF S, deps
        <5> QED BY <2>3, <3>1
      <4> HIDE DEF deps
      <4> QED BY <4>1 DEF DependsOn
    <3>2. ASSUME NEW u \in DependsOn(depends, Goal)
          PROVE  \E k \in DOMAIN deps : deps[k] = u
      <4>1. PICK i \in DOMAIN list : list[i] = u
        BY DEF DependsOn
      <4>2. u \in Names
        BY DEF DependsOn
      <4> HIDE DEF list, S
      <4> QED BY <2>2, <4>1, <4>2, DepsAreAll
    <3> HIDE DEF deps
    <3> QED BY <3>1, <3>2
  <2>5. {built[k] : k \in DOMAIN built} = {deps[k] : k \in DOMAIN deps} \cup {Goal}
    <3> HIDE DEF deps, S
    <3>1. /\ DOMAIN deps = 1..Len(deps) /\ DOMAIN built = 1..(Len(deps) + 1) /\ Len(deps) \in Nat
          /\ built[Len(deps) + 1] = Goal /\ \A k \in 1..Len(deps) : built[k] = deps[k]
      BY <2>1, <2>3
    <3>2. DOMAIN built = DOMAIN deps \cup {Len(deps) + 1}
      BY <3>1
    <3>3. Len(deps) + 1 \in DOMAIN built /\ \A k \in DOMAIN deps : k \in DOMAIN built
      BY <3>2
    <3>4. \A k \in DOMAIN built : built[k] \in {deps[i] : i \in DOMAIN deps} \cup {Goal}
      <4> SUFFICES ASSUME NEW k \in DOMAIN built
                   PROVE  built[k] \in {deps[i] : i \in DOMAIN deps} \cup {Goal}
        OBVIOUS
      <4>1. CASE k = Len(deps) + 1
        BY <3>1, <4>1
      <4>2. CASE k \in DOMAIN deps
        BY <3>1, <4>2
      <4> QED BY <3>2, <4>1, <4>2
    <3>5. Goal \in {built[k] : k \in DOMAIN built}
      BY <3>1, <3>3
    <3>6. \A k \in DOMAIN deps : deps[k] \in {built[i] : i \in DOMAIN built}
      BY <3>1, <3>3
    <3> QED BY <3>4, <3>5, <3>6
  <2> QED BY <2>4, <2>5
<1> QED BY <1>1, LoadsInOrder, BuildsFollowPlan, PTL
=============================================================================
