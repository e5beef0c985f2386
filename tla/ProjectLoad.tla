----------------------------- MODULE ProjectLoad ---------------------------
(***************************************************************************)
(* One run of partio: main() interprets build.yacs, whose imports and      *)
(* fetches start further interpreters over the same ProjectData, and then  *)
(* hands that data to the Builder, whether the interpreter succeeded or    *)
(* not.                                                                    *)
(*                                                                         *)
(* The text of the project files is left open.  What is fixed of a file is *)
(* the order of its target blocks; what its statements do in between is    *)
(* any of the effects a statement can have on the shared data.  hasCycles  *)
(* is taken by its verdict, which module CycleCheck shows it to compute.   *)
(***************************************************************************)
EXTENDS Naturals, Sequences

CONSTANTS
  Names,        \* target names; one Target object per name
  Text,         \* an element of depends that holds no Target
  Files,        \* project files
  MainFile,     \* build.yacs
  Declares,     \* for each file, the names of its target blocks in order
  Goal,         \* the --target argument
  NoTarget,     \* the null currentTarget
  MaxFrames,    \* bound: nesting of imports and fetches
  MaxDepends    \* bound: elements in the depends list of each target

ASSUME FilesAssumption ==
  /\ MainFile \in Files /\ Declares \in [Files -> Seq(Names)]
ASSUME NamesAssumption ==
  /\ Text \notin Names /\ NoTarget \notin Names
ASSUME BoundsAssumption ==
  /\ MaxFrames \in Nat \ {0} /\ MaxDepends \in [Names -> Nat]

INSTANCE TargetGraph WITH Targets <- Names

VARIABLES
  registered,  \* the keys of ProjectData::targets
  defined,     \* the targets with is_defined set
  depends,     \* Target::depends
  plan,        \* ProjectData::execution_plan, a function on the names it has
  frames,      \* the interpreters in progress, main's first
  cut,         \* a file was left by a `return` that an outer function caught
  outcome,     \* how main's interpreter ended
  phase,       \* what main() is doing
  queue,       \* the Builder's copy of the plan of Goal
  built        \* the targets compiled so far

data == <<registered, defined, depends, plan>>
loading == <<frames, cut, outcome>>
building == <<queue, built>>
vars == <<data, loading, phase, building>>

Init ==
  /\ registered = {} /\ defined = {}
  /\ depends = [t \in Names |-> <<>>]
  /\ plan = <<>>
  /\ frames = <<>> /\ cut = FALSE
  /\ outcome = "running" /\ phase = "start"
  /\ queue = <<>> /\ built = <<>>

---------------------------------------------------------------------------
(* The interpreter at work, and the target block it is in.                 *)
Top == frames[Len(frames)]
Loading == phase = "load" /\ frames # <<>>
Current == Top.target
ChangeTop(frame) == [frames EXCEPT ![Len(frames)] = frame]
Pop == SubSeq(frames, 1, Len(frames) - 1)

(* visitProject_file begins: all its targets are registered up front, so   *)
(* that any statement can name any of them.                                *)
EnterFileUnregistered(f, inFunction) ==
  /\ frames' = Append(frames, [todo       |-> Declares[f],
                               target     |-> NoTarget,
                               inFunction |-> inFunction])
  /\ UNCHANGED <<registered, defined, depends, plan, cut, outcome, building>>
EnterFile(f, inFunction) ==
  /\ frames' = Append(frames, [todo       |-> Declares[f],
                               target     |-> NoTarget,
                               inFunction |-> inFunction])
  /\ registered' = registered \cup {Declares[f][i] : i \in DOMAIN Declares[f]}
  /\ UNCHANGED <<defined, depends, plan, cut, outcome, building>>

StartMain ==
  /\ phase = "start"
  /\ phase' = "load"
  /\ EnterFile(MainFile, FALSE)

(* An exception other than a return leaves every interpreter; main()       *)
(* prints it and goes on.                                                  *)
Fail(how) ==
  /\ frames' = <<>>
  /\ outcome' = how
  /\ UNCHANGED <<data, cut, phase, building>>

(* Any statement can throw: an unknown name, a type mismatch, a missing    *)
(* file ...                                                                *)
StatementThrows == Loading /\ Fail("error")

(* `import f;` stands at the top level of a file only.                     *)
Import(f) ==
  /\ Loading /\ Current = NoTarget
  /\ Len(frames) < MaxFrames
  /\ EnterFile(f, FALSE)
  /\ UNCHANGED phase

(* fetch() is an expression: it runs anywhere, in a function's body too.   *)
Fetch(f, inFunction) ==
  /\ Loading
  /\ Len(frames) < MaxFrames
  /\ EnterFile(f, inFunction)
  /\ UNCHANGED phase

---------------------------------------------------------------------------
(* visitTarget_block: the target becomes the current one, unless it has    *)
(* been described before, in this file or in another.                      *)
OpenTargetAgain ==
  /\ Loading /\ Current = NoTarget /\ Top.todo # <<>>
  /\ defined' = defined \cup {Head(Top.todo)}
  /\ frames' = ChangeTop([Top EXCEPT !.target = Head(Top.todo), !.todo = Tail(@)])
  /\ UNCHANGED <<registered, depends, plan, cut, outcome, phase, building>>
OpenTargetUnmarked ==
  /\ Loading /\ Current = NoTarget /\ Top.todo # <<>>
  /\ Head(Top.todo) \notin defined
  /\ frames' = ChangeTop([Top EXCEPT !.target = Head(Top.todo), !.todo = Tail(@)])
  /\ UNCHANGED <<data, cut, outcome, phase, building>>
OpenTarget ==
  /\ Loading /\ Current = NoTarget /\ Top.todo # <<>>
  /\ Head(Top.todo) \notin defined
  /\ defined' = defined \cup {Head(Top.todo)}
  /\ frames' = ChangeTop([Top EXCEPT !.target = Head(Top.todo), !.todo = Tail(@)])
  /\ UNCHANGED <<registered, depends, plan, cut, outcome, phase, building>>

DescribedTwice ==
  /\ Loading /\ Current = NoTarget /\ Top.todo # <<>>
  /\ Head(Top.todo) \in defined
  /\ Fail("error")

(* What an expression can yield for a depends list: registered targets,    *)
(* of any file, and values that are no target.                             *)
ListElements == registered \cup {Text}
Lists(longest) == UNION {[1..n -> ListElements] : n \in 0..longest}

(* `depends = [...]`                                                       *)
AssignDepends ==
  /\ Loading /\ Current # NoTarget
  /\ \E list \in Lists(MaxDepends[Current]) : depends' = [depends EXCEPT ![Current] = list]
  /\ UNCHANGED <<registered, defined, plan, loading, phase, building>>

(* `depends += ...`, and `depends = x` for an x that is no list.           *)
AppendDepends(v) ==
  /\ Loading /\ Current # NoTarget
  /\ Len(depends[Current]) < MaxDepends[Current]
  /\ depends' = [depends EXCEPT ![Current] = Append(@, v)]
  /\ UNCHANGED <<registered, defined, plan, loading, phase, building>>

CloseTarget ==
  /\ Loading /\ Current # NoTarget
  /\ frames' = ChangeTop([Top EXCEPT !.target = NoTarget])
  /\ UNCHANGED <<data, cut, outcome, phase, building>>

---------------------------------------------------------------------------
(* buildExecutionPlans: the old plans go, and every registered target gets *)
(* one, its direct dependencies in the order listed.                       *)
PlansOfNew == [t \in registered |-> IF t \in DOMAIN plan THEN plan[t] ELSE TargetDeps(depends[t])]
Plans == [t \in registered |-> TargetDeps(depends[t])]

(* The end of visitProject_file.                                           *)
EndFileUnchecked ==
  /\ Loading /\ Current = NoTarget /\ Top.todo = <<>>
  /\ plan' = Plans
  /\ frames' = Pop
  /\ outcome' = IF Len(frames) = 1 THEN "ok" ELSE outcome
  /\ UNCHANGED <<registered, defined, depends, cut, phase, building>>
EndFile ==
  /\ Loading /\ Current = NoTarget /\ Top.todo = <<>>
  /\ ~Cyclic(depends)
  /\ plan' = Plans
  /\ frames' = Pop
  /\ outcome' = IF Len(frames) = 1 THEN "ok" ELSE outcome
  /\ UNCHANGED <<registered, defined, depends, cut, phase, building>>

FoundCycle ==
  /\ Loading /\ Current = NoTarget /\ Top.todo = <<>>
  /\ Cyclic(depends)
  /\ Fail("circular")

(* A `return` outside any function is a ReturnSignal nobody in its file    *)
(* catches.  It leaves that file, and the files around it, up to the       *)
(* first interpreter that is in a function call; without one, main()       *)
(* takes it for an error.                                                  *)
Catchers == {k \in 1..Len(frames) : frames[k].inFunction}
ReturnCaught ==
  /\ Loading
  /\ \E k \in Catchers :
       /\ \A j \in Catchers : j <= k
       /\ frames' = SubSeq(frames, 1, k - 1)
  /\ cut' = TRUE
  /\ UNCHANGED <<data, outcome, phase, building>>

ReturnUncaught == Loading /\ Catchers = {} /\ Fail("error")

---------------------------------------------------------------------------
(* Builder::build, on a copy of the plan of the goal if it has one.        *)
StartBuild ==
  /\ phase = "load" /\ frames = <<>>
  /\ phase' = "build"
  /\ queue' = IF Goal \in DOMAIN plan THEN plan[Goal] ELSE <<>>
  /\ UNCHANGED <<data, loading, built>>

BuildLast ==
  /\ phase = "build" /\ queue # <<>>
  /\ built' = Append(built, queue[Len(queue)])
  /\ queue' = SubSeq(queue, 1, Len(queue) - 1)
  /\ UNCHANGED <<data, loading, phase>>
BuildNext ==
  /\ phase = "build" /\ queue # <<>>
  /\ built' = Append(built, Head(queue))
  /\ queue' = Tail(queue)
  /\ UNCHANGED <<data, loading, phase>>

BuildGoal ==
  /\ phase = "build" /\ queue = <<>>
  /\ Goal \in registered
  /\ built' = Append(built, Goal)
  /\ phase' = "done"
  /\ UNCHANGED <<data, loading, queue>>

(* targets.at(goal), and any compile_target, may throw; nobody catches it. *)
GoalMissingIgnored ==
  /\ phase = "build" /\ queue = <<>>
  /\ Goal \notin registered
  /\ UNCHANGED <<data, loading, phase, building>>
GoalMissing ==
  /\ phase = "build" /\ queue = <<>>
  /\ Goal \notin registered
  /\ phase' = "crashed"
  /\ UNCHANGED <<data, loading, building>>

CompileThrows ==
  /\ phase = "build" /\ (queue # <<>> \/ Goal \in registered)
  /\ phase' = "crashed"
  /\ UNCHANGED <<data, loading, building>>

(* The lexer of the front end may never come back from a source file.      *)
CompileHangs ==
  /\ phase = "build" /\ (queue # <<>> \/ Goal \in registered)
  /\ phase' = "hung"
  /\ UNCHANGED <<data, loading, building>>

Interpret ==
  \/ StatementThrows
  \/ \E f \in Files : Import(f)
  \/ \E f \in Files, inFunction \in BOOLEAN : Fetch(f, inFunction)
  \/ OpenTarget \/ DescribedTwice \/ CloseTarget
  \/ AssignDepends
  \/ \E v \in ListElements : AppendDepends(v)
  \/ EndFile \/ FoundCycle \/ ReturnCaught \/ ReturnUncaught

Build == StartBuild \/ BuildNext \/ BuildGoal \/ GoalMissing \/ CompileThrows \/ CompileHangs

Next == StartMain \/ Interpret \/ Build

(* The Builder is a loop over a finite queue, and the compilation of one   *)
(* target returns, throws or hangs.  What the project's statements do is   *)
(* not assumed to end.                                                     *)
Spec == Init /\ [][Next]_vars /\ WF_vars(Build)

---------------------------------------------------------------------------
(* The variables keep their types.                                         *)
TypeOK ==
  /\ registered \subseteq Names /\ defined \subseteq registered
  /\ depends \in [Names -> Seq(Names \cup {Text})]
  /\ DOMAIN plan \subseteq registered
  /\ \A t \in DOMAIN plan : plan[t] \in Seq(registered)
  /\ frames \in Seq([todo : Seq(registered), target : defined \cup {NoTarget},
                     inFunction : BOOLEAN])
  /\ cut \in BOOLEAN
  /\ outcome \in {"running", "ok", "error", "circular"}
  /\ phase \in {"start", "load", "build", "done", "crashed", "hung"}
  /\ queue \in Seq(registered) /\ built \in Seq(registered)

(* After a load without error the plans are those of the targets as they   *)
(* ended up, though every nested file has planned before with targets      *)
(* that were half described at that moment.                                *)
PlanIsCurrent ==
  outcome = "ok" =>
    /\ DOMAIN plan = registered
    /\ \A t \in registered : plan[t] = TargetDeps(depends[t])

(* Also after an error, when the Builder works with the plans of some      *)
(* nested file, the plans as a whole have no cycle.                        *)
PlanHasNoCycle ==
  ~Cyclic([t \in Names |-> IF t \in DOMAIN plan THEN plan[t] ELSE <<>>])

(* After a load without error every target somebody could list has been    *)
(* described, unless a file was left by a return.                          *)
AllDescribed == outcome = "ok" /\ ~cut => registered = defined

(* The graph does not change behind a target's back: only its own block    *)
(* writes its depends, and a block that has been left, in whatever file    *)
(* and however it was left, is not entered again.                          *)
InBlock(t) == \E k \in DOMAIN frames : frames[k].target = t
DescribedOnce ==
  [][\A t \in Names : ~InBlock(t) =>
       /\ depends'[t] = depends[t]
       /\ t \in defined => ~InBlock(t)']_vars

(* Why the plans are current and no block is entered twice: the inductive  *)
(* invariant.  main's interpreter ends once, and with the last frame gone  *)
(* nothing changes the data any more; the open blocks are of targets       *)
(* described, no two of the same.                                          *)
Frame == [todo : Seq(Names), target : Names \cup {NoTarget}, inFunction : BOOLEAN]
OpenBlocksDiffer ==
  \A j, k \in DOMAIN frames :
    frames[j].target # NoTarget =>
      /\ frames[j].target \in defined
      /\ frames[j].target = frames[k].target => j = k
BlocksInOrder ==
  /\ registered \subseteq Names /\ defined \subseteq Names
  /\ depends \in [Names -> Seq(Names \cup {Text})]
  /\ frames \in Seq(Frame)
  /\ phase = "start" \/ outcome # "running" => frames = <<>>
  /\ phase = "start" => outcome = "running"
  /\ OpenBlocksDiffer
  /\ PlanIsCurrent

(* ... and as long as no file was left by a return, a target not described *)
(* yet has its block in the rest of a file in progress.                    *)
ToDescribe(t) == \E k \in DOMAIN frames : \E i \in DOMAIN frames[k].todo : frames[k].todo[i] = t
TargetsInOrder ==
  /\ defined \subseteq registered
  /\ \A k \in DOMAIN frames : \A i \in DOMAIN frames[k].todo : frames[k].todo[i] \in registered
  /\ ~cut /\ outcome = "running" => \A t \in registered \ defined : ToDescribe(t)
  /\ AllDescribed
LoadInOrder == BlocksInOrder /\ TargetsInOrder

(* After a load without error a build that ends has compiled what the goal *)
(* lists, in that order, and the goal last.                                *)
BuiltInOrder ==
  phase = "done" /\ outcome = "ok" => built = Append(TargetDeps(depends[Goal]), Goal)

(* Whatever the load has left, with an error or without, the Builder's own *)
(* loop over the plan ends: main() gets through the build, ends in an      *)
(* exception, or hangs in the lexer of one source, and nowhere else.       *)
BuildEnds == phase = "load" /\ frames = <<>> ~> phase \in {"done", "crashed", "hung"}

---------------------------------------------------------------------------
(* Two things the code says of itself and does not do.                     *)

(* "Build aborted due to circular dependencies.": once a cycle has been    *)
(* reported nothing is compiled.                                           *)
AbortedBuildsNothing == outcome = "circular" => built = <<>>

(* buildExecutionPlans calls its search of the dependencies recursive: a   *)
(* target is compiled after everything it depends on.                      *)
DependenciesFirst ==
  outcome = "ok" =>
    \A k \in DOMAIN built : \A u \in DependsOn(depends, built[k]) :
      \E j \in 1..(k - 1) : built[j] = u
=============================================================================
