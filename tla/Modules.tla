------------------------------- MODULE Modules -----------------------------
(***************************************************************************)
(* The files of a project as partio loads them: import, fetch() with its   *)
(* directory of clones, and calls of the functions they define.  A loaded  *)
(* file has a ProjectContext; its functions point into its parse tree.     *)
(* The clones outlive a run, and git, which makes them, is a process of    *)
(* its own: partio can be killed while it works, and another partio can    *)
(* clone into the same directory.                                          *)
(***************************************************************************)
EXTENDS Naturals, Sequences

CONSTANTS
  Files,      \* project files
  MainFile,   \* build.yacs
  NoFile,     \* a file that does not exist
  Remotes,    \* what fetch() clones, by the name of the directory
  Holds,      \* for each, the build.yacs in it
  Scripts,    \* for each file its statements in the order of their visit
  Body,       \* for each file the statements of the function it defines
  MaxDepth,   \* visits the stack has room for
  MaxRuns     \* bound: runs of partio

ASSUME FilesAssumption ==
  MainFile \in Files /\ NoFile \notin Files /\ Remotes \cap Files = {} /\ Holds \in [Remotes -> Files]
ASSUME ScriptsAssumption ==
  \A s \in Scripts : \A f \in Files : s[f] \in Seq({s[f][i] : i \in DOMAIN s[f]})
ASSUME BoundsAssumption == MaxDepth \in Nat \ {0} /\ MaxRuns \in Nat \ {0}

VARIABLES
  script,      \* the project
  frames,      \* the visits in progress: files and, above them, their calls
  ctxs,        \* the ProjectContexts made
  described,   \* the targets with is_defined set
  outcome,     \* how the load goes or went
  git,         \* what fetch() is doing about a clone
  clones,      \* the directories in .yacs/deps
  spoiled,     \* history: remotes half cloned when this run began, or by
               \* somebody else since
  incomplete,  \* remotes this run took from a clone that was not complete
  runs         \* runs of partio

memory == <<frames, ctxs, described, incomplete>>
vars == <<script, memory, outcome, git, clones, spoiled, runs>>

ContextUncached(how, f) ==
  [how |-> how, file |-> f, globals |-> <<>>, defines |-> FALSE, cached |-> FALSE]
Context(how, f) ==
  [how |-> how, file |-> f, globals |-> <<>>, defines |-> FALSE, cached |-> how = "import"]
Frame(c, call, alias, todo) ==
  [ctx |-> c, call |-> call, alias |-> alias, todo |-> todo, vars |-> <<>>]
Put(table, name, v) == [n \in DOMAIN table \cup {name} |-> IF n = name THEN v ELSE table[n]]

(* main() visits build.yacs.                                               *)
MainContext == Context("main", MainFile)
MainFrame == Frame(1, FALSE, NoFile, script[MainFile])
Init ==
  /\ script \in Scripts
  /\ ctxs = <<MainContext>> /\ frames = <<MainFrame>>
  /\ described = {} /\ outcome = "loading" /\ git = "idle"
  /\ clones = [r \in Remotes |-> "none"]
  /\ spoiled = {} /\ incomplete = {} /\ runs = 1

Top == frames[Len(frames)]
Statement == Head(Top.todo)
At(op) == outcome = "loading" /\ Top.todo # <<>> /\ Statement.op = op
Advanced == [frames EXCEPT ![Len(frames)].todo = Tail(@)]
Room == Len(frames) < MaxDepth
outside == <<script, clones, spoiled, runs>>

(* An exception leaves every interpreter.                                  *)
Fail ==
  /\ outcome' = "error" /\ git' = "idle"
  /\ UNCHANGED <<script, memory, spoiled, runs>>

(* The stack is exhausted.                                                 *)
Overflow ==
  /\ outcome = "loading" /\ git # "cloning" /\ ~Room /\ Top.todo # <<>>
  /\ Statement.op \in {"import", "fetch", "call"}
  /\ outcome' = "overflow" /\ git' = "idle"
  /\ UNCHANGED <<memory, outside>>

---------------------------------------------------------------------------
(* A file is parsed and visited by an interpreter and in a context of its  *)
(* own.  import keeps the parsed file in the context, fetch() does not.    *)
Enter(how, f) ==
  /\ Room
  /\ ctxs' = Append(ctxs, Context(how, f))
  /\ frames' = Append(Advanced, Frame(Len(ctxs) + 1, FALSE, Statement.alias, script[f]))
  /\ UNCHANGED <<script, described, outcome, clones, spoiled, runs>>

Import ==
  /\ At("import") /\ Statement.file \in Files
  /\ Enter("import", Statement.file)
  /\ UNCHANGED <<git, incomplete>>
ImportMissing ==
  /\ At("import") /\ Statement.file = NoFile
  /\ Fail /\ UNCHANGED clones

(* fetch() of a directory in the file system.                              *)
FetchLocal ==
  /\ At("fetch") /\ Statement.file \in Files
  /\ Enter("fetch", Statement.file)
  /\ UNCHANGED <<git, incomplete>>

(* fetch() of a repository.  A directory of its name is taken as it is;    *)
(* its build.yacs is visited if it is there.                               *)
AtRemote == At("fetch") /\ Statement.file \in Remotes
Remote == Statement.file
Taken == IF clones[Remote] = "complete" THEN incomplete ELSE incomplete \cup {Remote}
Cloned == AtRemote /\ (git = "cloned" \/ (git = "idle" /\ clones[Remote] # "none"))
TakeClone ==
  /\ Cloned /\ clones[Remote] # "none"
  /\ Enter("fetch", Holds[Remote])
  /\ git' = "idle" /\ incomplete' = Taken
TakeEmpty ==
  /\ Cloned /\ clones[Remote] # "complete"
  /\ ctxs' = Append(ctxs, Context("fetch", NoFile))
  /\ frames' = [Advanced EXCEPT ![Len(frames)].vars = Put(@, Statement.alias, Len(ctxs) + 1)]
  /\ git' = "idle" /\ incomplete' = Taken
  /\ UNCHANGED <<described, outcome, outside>>

(* Without one, git is run; by then somebody may have made the directory.  *)
DecideToClone ==
  /\ AtRemote /\ git = "idle" /\ clones[Remote] = "none"
  /\ git' = "started"
  /\ UNCHANGED <<memory, outcome, outside>>
GitBegins ==
  /\ git = "started" /\ clones[Remote] = "none"
  /\ git' = "cloning" /\ clones' = [clones EXCEPT ![Remote] = "ours"]
  /\ UNCHANGED <<script, memory, outcome, spoiled, runs>>
GitRefuses ==
  /\ git = "started" /\ clones[Remote] # "none"
  /\ Fail /\ UNCHANGED clones
GitEnds ==
  /\ git = "cloning"
  /\ git' = "cloned" /\ clones' = [clones EXCEPT ![Remote] = "complete"]
  /\ UNCHANGED <<script, memory, outcome, spoiled, runs>>

(* A git that fails removes what it has made, but not if the checkout is   *)
(* what failed: then the directory stays, with a work tree cut short.      *)
Leftovers == {"none", "broken"}
GitFailsIgnored ==
  /\ git = "cloning"
  /\ \E left \in Leftovers : clones' = [clones EXCEPT ![Remote] = left]
  /\ git' = "cloned"
  /\ UNCHANGED <<script, memory, outcome, spoiled, runs>>
GitFailsRetried ==
  /\ git = "cloning"
  /\ git' = "idle" /\ clones' = [clones EXCEPT ![Remote] = "none"]
  /\ UNCHANGED <<script, memory, outcome, spoiled, runs>>
GitFails ==
  /\ git = "cloning"
  /\ \E left \in Leftovers : clones' = [clones EXCEPT ![Remote] = left]
  /\ Fail

---------------------------------------------------------------------------
(* The other statements.  A function is known to its file's context.       *)
Define ==
  /\ At("define")
  /\ ctxs' = [ctxs EXCEPT ![Top.ctx].defines = TRUE]
  /\ frames' = Advanced
  /\ UNCHANGED <<described, incomplete, outcome, git, outside>>

DescribeAgain ==
  /\ At("target")
  /\ described' = described \cup {Statement.target}
  /\ frames' = Advanced
  /\ UNCHANGED <<ctxs, incomplete, outcome, git, outside>>
Describe ==
  /\ At("target") /\ Statement.target \notin described
  /\ described' = described \cup {Statement.target}
  /\ frames' = Advanced
  /\ UNCHANGED <<ctxs, incomplete, outcome, git, outside>>
DescribedTwice ==
  /\ At("target") /\ Statement.target \in described
  /\ Fail /\ UNCHANGED clones

---------------------------------------------------------------------------
(* What memory the smart pointers keep: a context somebody can reach, and  *)
(* the parsed file in it.  An import only ever refers to later contexts.   *)
Values(table) == {table[n] : n \in DOMAIN table}
Held ==
  LET held[c \in 1..Len(ctxs)] ==
        \/ \E k \in DOMAIN frames : frames[k].ctx = c \/ c \in Values(frames[k].vars)
        \/ \E b \in 1..(c - 1) : held[b] /\ c \in Values(ctxs[b].globals)
  IN {c \in 1..Len(ctxs) : held[c]}
Parsed(c) == \E k \in DOMAIN frames : frames[k].ctx = c /\ ~frames[k].call
TreeAlive(c) == Parsed(c) \/ (ctxs[c].cached /\ c \in Held)

(* A call alias:...:f() : the alias is looked for in the scopes of the     *)
(* interpreter, the callers' too, and in the globals of the context.       *)
Interpreter == {k \in 1..Len(frames) : \A j \in (k + 1)..Len(frames) : frames[j].call}
Scoped(alias) == {k \in Interpreter : alias \in DOMAIN frames[k].vars}
Meant(alias) ==
  IF Scoped(alias) # {}
    THEN {frames[k].vars[alias] : k \in {k \in Scoped(alias) : \A j \in Scoped(alias) : j <= k}}
    ELSE {ctxs[Top.ctx].globals[a] : a \in {alias} \cap DOMAIN ctxs[Top.ctx].globals}

Call(c) ==
  /\ At("call") /\ c \in Meant(Statement.alias) /\ ctxs[c].defines
  /\ Room
  /\ frames' = Append(Advanced, Frame(c, TRUE, NoFile, Body[ctxs[c].file]))
  /\ UNCHANGED <<ctxs, described, incomplete, outcome, git, outside>>

(* The tree of the function is gone: what is left of it in memory runs     *)
(* once more, as above, or not.                                            *)
CallCrashes(c) ==
  /\ At("call") /\ c \in Meant(Statement.alias) /\ ctxs[c].defines
  /\ ~TreeAlive(c)
  /\ outcome' = "crashed"
  /\ UNCHANGED <<memory, git, outside>>
CallUnknown ==
  /\ At("call") /\ \A c \in Meant(Statement.alias) : ~ctxs[c].defines
  /\ Fail /\ UNCHANGED clones

(* The end of a visit, and where the caller finds the module.              *)
Pop == SubSeq(frames, 1, Len(frames) - 1)
Caller == frames[Len(frames) - 1]
AtEnd == outcome = "loading" /\ Top.todo = <<>>
EndCall ==
  /\ AtEnd /\ Top.call
  /\ frames' = Pop
  /\ UNCHANGED <<ctxs, described, incomplete, outcome, git, outside>>
EndImport ==
  /\ AtEnd /\ ~Top.call /\ ctxs[Top.ctx].how = "import"
  /\ ctxs' = [ctxs EXCEPT ![Caller.ctx].globals = Put(@, Top.alias, Top.ctx)]
  /\ frames' = Pop
  /\ UNCHANGED <<described, incomplete, outcome, git, outside>>
EndFetch ==
  /\ AtEnd /\ ~Top.call /\ ctxs[Top.ctx].how = "fetch"
  /\ frames' = [Pop EXCEPT ![Len(frames) - 1].vars = Put(@, Top.alias, Top.ctx)]
  /\ UNCHANGED <<ctxs, described, incomplete, outcome, git, outside>>
EndMain ==
  /\ AtEnd /\ Len(frames) = 1
  /\ outcome' = "ok"
  /\ UNCHANGED <<memory, git, outside>>

---------------------------------------------------------------------------
(* Somebody kills partio.  Its git may have had the time to clean up, may  *)
(* have been killed too, or may go on on its own.                          *)
Kill ==
  /\ outcome = "loading"
  /\ outcome' = "killed" /\ git' = "idle"
  /\ IF git = "cloning"
       THEN \E left \in Leftovers \cup {"elsewhere"} : clones' = [clones EXCEPT ![Remote] = left]
       ELSE UNCHANGED clones
  /\ UNCHANGED <<script, memory, spoiled, runs>>
Half == {r \in Remotes : clones[r] \notin {"none", "complete"}}
Restart ==
  /\ outcome # "loading" /\ runs < MaxRuns
  /\ outcome' = "loading" /\ runs' = runs + 1
  /\ ctxs' = <<MainContext>> /\ frames' = <<MainFrame>> /\ described' = {} /\ incomplete' = {}
  /\ spoiled' = Half
  /\ UNCHANGED <<script, git, clones>>

(* Another process clones r into the same directory.                       *)
ElsewhereBegins(r) ==
  /\ clones[r] = "none"
  /\ clones' = [clones EXCEPT ![r] = "elsewhere"] /\ spoiled' = spoiled \cup {r}
  /\ UNCHANGED <<script, memory, outcome, git, runs>>
ElsewhereEnds(r) ==
  /\ clones[r] = "elsewhere"
  /\ \E left \in {"complete", "none", "broken"} : clones' = [clones EXCEPT ![r] = left]
  /\ UNCHANGED <<script, memory, outcome, git, spoiled, runs>>

Visit ==
  \/ Overflow \/ Import \/ ImportMissing \/ FetchLocal \/ Define
  \/ Describe \/ DescribedTwice \/ CallUnknown
  \/ (\E c \in DOMAIN ctxs : Call(c) \/ CallCrashes(c))
  \/ EndCall \/ EndImport \/ EndFetch \/ EndMain
Clone ==
  \/ TakeClone \/ TakeEmpty \/ DecideToClone
  \/ GitBegins \/ GitRefuses \/ GitEnds \/ GitFails
Others == Kill \/ Restart \/ \E r \in Remotes : ElsewhereBegins(r) \/ ElsewhereEnds(r)
Next == Visit \/ Clone \/ Others

(* partio goes on, and git comes to an end one way or the other.           *)
Spec == Init /\ [][Next]_vars /\ WF_vars(Visit \/ Clone)

---------------------------------------------------------------------------
(* The tree of a function is in memory as long as the function runs,       *)
(* however the module came to be known under the name it was called by and *)
(* whatever is loaded meanwhile.  Not so for a fetched file: its tree dies *)
(* with fetch(), before anybody else can call the function.                *)
RunningAlive ==
  \A k \in DOMAIN frames :
    \/ TreeAlive(frames[k].ctx)
    \/ frames[k].call /\ ctxs[frames[k].ctx].how = "fetch"

(* A load ends well only if no file it has loaded loads itself again, over *)
(* however many others, and no file that describes a target has been       *)
(* loaded a second time, over whichever two ways.                          *)
Loaded == {ctxs[c].file : c \in DOMAIN ctxs} \ {NoFile}
LoadsFile(f, g) ==
  \E i \in DOMAIN script[f] :
    LET s == script[f][i]
    IN \/ s.op \in {"import", "fetch"} /\ s.file = g
       \/ s.op = "fetch" /\ s.file \in Remotes /\ Holds[s.file] = g
HasTarget(f) == \E i \in DOMAIN script[f] : script[f][i].op = "target"
EndsWell ==
  outcome = "ok" /\ incomplete = {} =>
    /\ \A S \in (SUBSET Loaded) \ {{}} : \E f \in S : \A g \in S : ~LoadsFile(f, g)
    /\ \A c, d \in DOMAIN ctxs :
         c # d /\ ctxs[c].file = ctxs[d].file /\ ctxs[c].file # NoFile => ~HasTarget(ctxs[c].file)

(* A run takes half a clone only if that was half made when the run began  *)
(* (by a run that was killed, or whose git failed in the checkout), or if  *)
(* another process was at it since: never what its own git has failed to   *)
(* make, whichever of its fetches asks for it.                             *)
CompleteUnlessSpoiled == incomplete \subseteq spoiled

(* Why: the inductive invariant.  While git works fetch() waits for it;    *)
(* outside that, as long as the run lasts, no directory is half made by    *)
(* it: what its git has left behind it has not lived to see.               *)
ClonesInOrder ==
  /\ git # "idle" => AtRemote
  /\ git = "cloned" => clones[Remote] = "complete"
  /\ \A r \in Remotes :
       /\ clones[r] \in {"none", "ours", "elsewhere", "broken", "complete"}
       /\ clones[r] = "ours" => git = "cloning" /\ r = Remote
       /\ outcome = "loading" /\ clones[r] \in {"elsewhere", "broken"} => r \in spoiled
  /\ git = "cloning" => clones[Remote] = "ours"
  /\ DOMAIN clones = Remotes

(* Every load ends, if only by exhausting the stack.                       *)
LoadEnds == outcome = "loading" ~> outcome # "loading"
=============================================================================
