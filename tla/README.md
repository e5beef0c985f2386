# Partio in TLA+

Partio interprets a YACS project file (`build.yacs` and the files it imports or
fetches), collects targets and their dependencies, checks them for cycles, plans
the build, and runs its own C++ front end on the sources of the chosen target.
These modules model the parts of it that keep state and can go wrong in ways a
unit test would hardly reach, check them with TLC on small instances, and prove
what matters most for every project with TLAPS. Paths below are relative to
the repository; the source is in `src/` there.

## The system

| Part | Source | State | Operations | What makes it correct |
|---|---|---|---|---|
| Interpreter, loading | `Interpreter.cpp/.hpp`, `ProjectContext.hpp` | `ProjectData` (targets, plans), shared by all interpreters of a run | project file, import, fetch, target block, assignments to `depends` | each target described once; plans match targets; no circular plan |
| Cycle check | `Interpreter::hasCycles` | colours, path | one depth-first search | right answer, real trace, returns |
| Interpreter, scopes | `Interpreter.cpp/.hpp` | scope stack, namespace, context, current target | declarations, assignments, calls, loops, returns, namespaces, target blocks | everything saved is restored; targets isolated; names mean what they should |
| Builder | `Builder.cpp`, `main.cpp` | a copy of one plan | compile what is planned, then the goal | order; ends |
| C++ front end | `Lexer.hpp`, `Preprocessor.hpp`, `Parser.hpp`, `BinaryKeywordTable.hpp` | cursor, lexer mode, current token, declarations | next token, directive, parse methods | ends; accepts good files; finds their declarations |
| Project files, clones | `Interpreter.cpp` (`import`, `fetch`, calls), `ProjectContext.hpp` | contexts with their parse trees; the directory of clones | import, fetch, clone, define, call; kill, next run | trees outlive their use; circular loads fail; no half clone |
| Source manager, buffers | `SourceManager.hpp`, `SourceBuffer.hpp` | map of loaded files; descriptors, mappings | load file, construct, destroy a buffer | right file, one buffer for one file, kept to the end; no leak |
| Arena | `Arena.hpp`, `Arena.cpp` | list of chunks | allocate, destroy | objects disjoint, aligned, inside their chunk; all given back |
| String pool | `StringPool.hpp` | hash table of ids, chunks of text | intern, grow | ids unique and stable; a probe ends |
| Type registry | `TypeRegistry.hpp` | types | struct layout | offsets aligned, fields disjoint (nothing calls it yet) |

`main()` interprets `build.yacs`; `import` and `fetch()` make a new `Interpreter` for
another file *inside* the statement that asks for it, over the same `ProjectData`. At
the end of every file, nested or not, `visitProject_file` checks all targets known so
far for cycles and rebuilds all plans. Errors are C++ exceptions; `return` is one too,
and the only one that code inside the interpreter catches (in `visitFunctionCall`).
When the interpreter is done, or has failed, `main()` runs the `Builder`, which for
each source file stacks `Parser` on `Preprocessor` on `Lexer`. The program has one
thread; what is hard about it is not interleaving but re-entrancy, shared state seen
half done, non-local exits and modes that outlive what set them. Around it there are
others all the same: the file system changes under it, every call of the system can
fail, `git` is a process of its own, and a second `partio` may work in the same
directory. `PROJECT.json` lists these hazards line by line.

## The modules

**`TargetGraph`** has the graph of dependencies as constant operators: what of a
`depends` list is an edge, and reachability without recursion (membership in every
closed set), so that TLAPS can reason about it.

**`CycleVerdict`** is what `hasCycles` promises: one decision, right for the
`depends` as they are. **`CycleCheck`** is what it does: `state` is the map of
colours, `path` the vector of the error message and at the same time the call
stack of the recursive lambda, `iter` the loop position of each call, `root` that
of the outer loop. There is one action for each branch of the loop body and each
exit. The refinement mapping is the identity on `depends` and `verdict`.

**`ProjectLoad`** is one run of the program. `registered`, `defined`, `depends`
and `plan` are `ProjectData`; `frames` are the interpreters in progress, each with
the target blocks its file still has and the block it is in. Files are open but for
the order of their target blocks: between any two of those, any statement may
come. `EndFile` and `FoundCycle` take `hasCycles` by its verdict (`Cyclic`), which
is what `CycleCheck` establishes. A `return` outside functions is an action of its
own (`ReturnCaught`), because it leaves files without cycle check and plan. The compile
of a target returns (`BuildNext`, `BuildGoal`), throws (`CompileThrows`) or never comes
back (`CompileHangs`: the lexer's endless loop, see `CppFront`).

**`Scopes`** is one interpreter in detail: `ns`, `ctx` and `target` are the fields
`currentNamespace`, `project_ctx` and `currentTarget`; `scopes` the stack of tables;
`stack` the visit methods in progress together with what they have saved in local
variables. The script is open: any statement may come where the grammar allows one.
Note that `x = v;` parses as a declaration; only `n:x = v;` and `+=` reach
`visitAssignment`. An exception other than a return ends the behaviour, since the
interpreter is not used again.

**`CppFront`** is lexer, preprocessor and parser over a file given as lexemes.
`WellFormed` is a grammar of items: empty lines, comments, includes, variables,
prototypes, and functions without nested blocks, strings or comments in them.
`Lex` is `Lexer::next_token` as a function of cursor and mode, `PullToken` and
`PullDirective` are `Preprocessor::next_token`, and the parser is a set of places
with one token of lookahead. `handle_include` cannot be reached: the keyword table
knows `include`, so the token is never an identifier, and there is never more than
one lexer on the stack.

**`Modules`** is the loading of files once more, with closed scripts this time: which
file is visited when, in which context, under which alias it is then known, and
what is left of it. `frames` are the visits in progress, of files and of functions,
`ctxs` the `ProjectContext`s made, with their `globals` and whether `ast_cache` keeps
the parse tree; `Held` follows the shared pointers. A function can be called after
its file's tree is gone (`fetch` does not keep it, although the comment at
`ProjectContext.hpp:202` gives the keeping as the purpose of `ParsedFile`): what is
left of it in memory runs once more (`Call`) or crashes (`CallCrashes`). The other
half of the module is `fetch` of a repository: the check for the directory, `git
clone` and the visit are separate steps, `git` works between them, a kill can come at
any point and leave git dead or running on, and another process can clone into the
same directory. A git that fails may remove what it has made or leave it (`Leftovers`:
git keeps the directory when the clone succeeded and only the checkout failed). `clones`
is the only state that outlives a run; the history variable `spoiled` names the
directories that were half made when the run began (`Half`), or that another process has
begun since.

**`Compile`** is `Builder::compile_target` over all sources of a build. A turn makes
an `Arena`, asks `SourceManager::load_file` for the file, constructs a `SourceBuffer`
unless there is one, parses into the arena, and destroys it, on the way of `continue`
too. Each call of the system is a step of its own (`exists`, `exists` again,
`canonical`, `open`, `fstat`, `mmap`), between which files appear and vanish
(`Change`), and each of them can fail; `fds` and `maps` are the kernel's account of
what the program holds. `exists` can throw as well as answer (`ExistsThrows`), so can
`canonical` (`CanonicalThrows`), and the parse can end, throw, or hang in the lexer
(`LexerHangs`). It extends **`Arena`**: chunks, objects and the destructor's walk,
with the addresses chosen by `operator new`. **`Alignment`** is the rounding that
`Arena` and `TypeRegistry` share.

**`Interner`** is what the string pool promises: an id for every string, the same one
again, no two strings the same, for ever. **`StringPool`** is what it does: `intern()`
loop by loop (`pc`, `idx`), `grow_table` slot by slot (`old`, `pos`), the chunks by
the bytes used. The refinement mapping is the identity on the texts, the argument
and the last answer.

**`TypeRegistry`** lays out structs. Its comments number the three calls for a struct,
but each takes any ids, so any sequence of calls with any ids is a behaviour: structs
open one in the other or side by side, finalized twice, changed when they are
finished. `open` and `misused` are history variables: which structs have not been
finalized, and whether a call has added a field to a finished struct, a field of an
unfinished type, or made a struct outgrow the 32 bits of a size. Nothing in the
program calls it, so it has no run: it is there for its proofs.

Definitions such as `EnterAtZero` or `LeaveCallOneScope`, right before the
definition they resemble, are that definition with a plausible bug. No
specification uses them; they serve to show that a property can fail.

## The runs

| Run | Checks | Instance |
|---|---|---|
| `cycle_check` | `TypeOK`, `TraceIsCycle`, `IInv`, `DecidesRight` (refinement), `Terminates` | 3 targets, every choice of lists of up to 2 elements (a target or another value) |
| `project_load` | `TypeOK`, `PlanIsCurrent`, `PlanHasNoCycle`, `LoadInOrder`, `AllDescribed`, `BuiltInOrder`, `DescribedOnce`, `BuildEnds` | `build.yacs` with targets a, b and a file with c, the goal; nesting up to 3; lists up to 1, 1, 2 |
| `scopes` | `TypeOK`, `PlaceRight`, `OuterVariablesStay`, `TargetIsolated`, `ParameterIsRead` | one variable name, namespace, function, target; two contexts, two values; nesting up to 3, loops of up to 2 |
| `string_pool` | `RecordsApart`, `StoredOnce`, `IInv`, `InternsRight` (refinement), `InternReturns` | six texts, five of which meet in few slots, one longer than a chunk; table from 2 slots, chunks of 16 bytes, up to 6 |
| `compile` | `Accounted`, `FirstFound`, `AllTried`, `CleanExit`, `BlocksSafe`, `BuildInOrder`, `BuffersStay`, `CompileEnds` | two directories, two names for two files (three source lists), two descriptors, two changes of the file system, two objects per arena |
| `modules` | `RunningAlive`, `EndsWell`, `CompleteUnlessSpoiled`, `LoadEnds` | 96 projects of four files and a repository, visits up to seven deep, two runs |
| `cpp_front` | `TypeOK`, `WellFormedAccepted`, `DeclarationsFound`, `SpinsOnlyAfterDirective`, `FileEnds` | all files of up to 3 of 22 items, 9 of them well formed |

Why these bounds are enough. *Cycle check*: three targets have self-loops, cycles
of two and three, diamonds with repeated elements and several roots; the proof
covers the rest. *Project load*: three frames are the least for a file nested in
a nested one, and let the second file be loaded twice and inside itself; the goal
may be absent, present without plan, or planned; two elements in its list give an
order and a repetition. *Scopes*: three levels have a loop in a call in a call or
in a target, a call into another context out of a namespace block, and a return
out of a loop; the namespace and the alias give every name two meanings. *C++
front end*: three items have a directive, what its mode spoils and a declaration
after that; the broken items are cut off at every place of the parser. *String
pool*: the table grows twice, both times with entries that collide, wrap around and
close up; texts fill a chunk to the byte, overflow it and do not fit at all.
*Compile*: one file is reached under two names and one name means two files; two
descriptors are fewer than three attempts to open can take, so a leaked one is
felt; two changes can take a file away and put it back; chunks of eight bytes at
multiples of four with objects of three and of ten bytes need padding, a second
chunk and one larger than usual. *Modules*: the projects have a diamond of imports
with and without a target, circles of imports and of fetches through build.yacs, the
library and the repository, a function that fetches and calls on; seven visits are
more than twice the longest circle; the second run finds what the first has left.

Every bound is a constant (`MaxFrames`, `MaxDepends`, `MaxStack`, `MaxLoop`,
`MaxChunks`, `MaxBlocks`, `MaxChanges`, `MaxDepth`, `MaxRuns`) or a set in an MC
module. `MaxDepth` stands for something real, the room on the stack. Deadlock is
checked in `Scopes`; the other programs end.

Five more runs check what the code or its messages say of it, and fail:

| Run | Statement | What happens |
|---|---|---|
| `aborted_builds` | "Build aborted due to circular dependencies." | `main()` prints the error and runs the Builder, which compiles the goal and what an older plan lists |
| `dependencies_first` | the plan is a "recursive DFS" | the search never recurses; dependencies of dependencies are not compiled |
| `locals_stay_local` | a variable declared in a function is local | it becomes a property of the current target too |
| `declared_is_read` | a declared variable is read from where it was saved | the prefixed name is tried first in the same scope |
| `directive_mode` | Directive mode ends with the line | an earlier branch takes the newline; the mode stays |

What the passing runs say of these: the plans as a whole stay free of cycles even
after an error (`PlanHasNoCycle`), so the Builder cannot be led in circles; the
stale Directive mode can do two things to a well-formed file and no others. It can take
an operator `<` for the start of a header name (`LessMisread`, the exception to
`WellFormedAccepted` and `DeclarationsFound`: both fail without it), and it can make the
lexer hang on a comment: `WellFormedAccepted` says that no well-formed file is rejected,
and that the lexer hangs on one only at a comment behind a quoted include, with no
`<header>` between them to end the mode (`CommentCaught`). For files that are not well
formed `SpinsOnlyAfterDirective` says that a hang needs a `#` before it, and `FileEnds`
for all files that nothing else goes on for ever. Such a hang is that of the whole build:
`BuildEnds` and `CompileEnds` count it among the ends.

What `modules` says of the hazards of loading: of the files of a *fetched* project no
tree is alive when its functions are called later, the exception in `RunningAlive`;
for imported files, which keep theirs, it holds under every alias and in every
call. Circular loads exhaust the stack unless a target's second description stops
them first; none ends well (`EndsWell`). A directory in `.yacs/deps` is taken for
a complete clone by its name alone (the url and the version are not looked at again),
so a half clone is used and never repaired, whether a kill, a git whose checkout failed,
or another process has left it. `CompleteUnlessSpoiled` says that a run takes one only
if it was half made when the run began, or somebody else has begun it since: what its
own git has left after a failure, no statement of the same run goes on with, because
`fetch` throws and nothing catches it.

Of `compile`: a file that goes between two steps of the search can skip a source or
end the program, never confuse the map (`Accounted`) or the lexers (`BuffersStay`);
`FirstFound` holds for turns in which no file comes or goes (`Undisturbed`), as a later
directory's file is rightly taken when an earlier one has just gone.

Of `string_pool`: the first text interned gets chunk 0, offset 0, thus id 0, which the
comments at `StringPool.hpp:31` and `Token.hpp:143` reserve for "no string"; no code
compares an id with 0. Ids are unique as long as
`encode_id`'s eight bits tell the chunks apart: the 257th chunk shares its ids with
the first (`Intact` is the limit in the model).

## Fairness

`CycleCheck` and `CppFront` are sequential functions: weak fairness of `Next`, the
thread keeps running. `CppFront` gives the endless loop of the lexer a state of its
own (`"hung"`), so `FileEnds` does not hide it; `ProjectLoad` and `Compile` have one too,
reached from any compile or parse, so that neither assumes that a source file is ever read
to its end. `ProjectLoad` has weak fairness of the Builder only: scripts are not assumed
to end. `Scopes` has none. `StringPool` has
weak fairness of a call that has begun, not of the callers. `Compile` has it of the
program, with the file system free to do nothing; a failing call is a step too, so
that no success is assumed. `Modules` has it of the visits together with `git`, which
comes to an end one way or the other (`fetch` waits for it without a timeout: a git
that hangs hangs partio); kills, other processes and further runs need not happen.

## The proofs

`CycleCheckProofs` proves, from `OrderAssumption` (the map lists every target) and
`ListsAssumption` (lists are sequences of values, targets among them), for any
sets of targets and values:

* `SearchInOrder`: `Spec => []IInv`, the inductive invariant;
* `TypesHold`, `TraceHolds`, `AnswerIsRight`: `TypeOK`, `TraceIsCycle`, `VerdictRight`;
* `ImplementsVerdict`: initial states and steps of the search are those of
  `CycleVerdict`, or stutter.

That the answer is right is not inductive: it says nothing before the function
returns. `IInv` adds what the search maintains. Targets in progress are those on
the path, once each (`InProgressIsPath`); each lists the next (`Chain`), so an edge
back into the path closes a cycle (`PathReaches`) and `cyclic` is right. What a
call has passed over is checked, no target, or the next on the path
(`ScannedSoFar`), so a finished target lists checked ones only (`CheckedClosed`)
and no set of checked targets is circular (`CheckedAcyclic`): the new one would
need an edge from an older one. When the outer loop is over every target is checked
(`RootsSeen`), and `NoCircularSet` turns "no set is circular" into "nobody reaches
itself": the targets that reach a target and are reached from it would be such a set.

`ProjectLoadProofs` proves, from the assumptions of `ProjectLoad` (a target name is
neither the null target nor a plain value; files list target names), for any files,
nesting and length of lists:

* `LoadsInOrder`: `Spec => []LoadInOrder`, the inductive invariant
  `BlocksInOrder /\ TargetsInOrder`;
* `PlansAreCurrent`: `PlanIsCurrent`; `PlansHaveNoCycle`: `PlanHasNoCycle`;
* `TargetsAreDescribed`: `AllDescribed`;
* `BlocksEnteredOnce`: the action property `DescribedOnce`;
* `BuildsInOrder`: `BuiltInOrder`; `NothingElseIsBuilt`: what a finished build has
  compiled is what the goal depends on, and the goal; `TypesHold`: `TypeOK`.

None is inductive. That a block is entered once needs that every open block, of
whatever file, is of a target already marked `is_defined` and that no two are of the
same (`OpenBlocksDiffer`): closing one could otherwise leave another open. That the
plans stay current needs that the outcome is set only when the last frame goes, so
that no block is left that could still write a `depends`. That every target is described
needs where the others are: a registered target not described yet still has its block
ahead in a file in progress (`TargetsInOrder`), and no file is in progress at the end.
A plan is made only where the check has just found no cycle, and has no edge but those
of the `depends` it is made from (`FewerEdges`); the Builder goes through the copy it
took (`BuildFollowsPlan`). Both need what `TargetDeps` makes of a list of any length:
`DepsAreTargets` and `DepsAreAll`, by induction (see below).

`ScopesProofs`, from the assumptions of `Scopes`, for any names, functions, contexts and
values and any nesting: `ScopesInOrder` (the inductive invariant), `TypesHold`,
`PlaceIsRight`, `OuterVariablesAreKept`, `TargetsAreIsolated`, `ParametersAreRead`: every
property of the passing run. A return leaves many blocks at once, so `PlaceRight` is
not inductive: each block has to have saved the place the blocks below it determine
(`SavedRight`), and target and namespace blocks must be at the bottom of the stack
(`TopLevelOnly`), or a return would leave a target without restoring it or count a scope
too many.

`StringPoolProofs`, from `StringsAssumption`, `SizesAssumption`, `NoIdAssumption` (any
texts, lengths and hashes; any table and chunk size; `NoId` is no id):

* `PoolInOrder`: the inductive invariant `IInv`; `RecordsStayApart`,
  `TextsStoredOnce`; `PoolInterns`: the pool implements `Interner`, safety.

That a text is stored once needs that a probe from its hash meets its id before an
empty slot (`Reachable`), while the table grows too, for the entries moved so far:
the slots between home and entry are full, around the end of the table.

`TypeRegistryProofs`, with no assumption, for any calls with any ids and any number of
types and fields: `TypesHold`; `RegistryInOrder`, the inductive invariant;
`LayoutsAreRight` (`LayoutRight`). The layout of a type depends on those of its
fields' types, so the invariant says of every field, in structs still open too, that
its type is complete, and a step has to leave complete types as they are: the second
`finalize_struct` of a struct does because its size is a multiple of its alignment
already (`AlignUpStays`).

`CompileProofs` is about an arena by itself first, from `SizesAssumption` and
`AddressAssumption` (objects aligned beyond what `operator new` gives are allowed; the
theorems except them where the code does not serve them, see `Ordinary`):
`ArenaInOrder`, `BlocksAreSafe`, `NothingIsLeaked`. The lemmas about its steps are cited
for the arena of each source in what follows, from the assumptions of `Compile`, for any
files, names, directories, descriptors and sources: `BuildStaysInOrder` (the inductive
invariant `BuildInOrder`), `AllAccounted`, `EverySourceTried`, `NodesAreSafe`,
`ExitIsClean`, `BuffersAreStable`, `FirstIsFound`. Accounting is not inductive by itself:
a constructor may only close what is its own and store where nothing is
(`ConstructorInOrder`); that the first file is found needs what `load_file` has passed
over (`SearchInOrder`).

`ModulesProofs`, from `FilesAssumption`, `ScriptsAssumption` (scripts are sequences) and
`BoundsAssumption`, for any projects, repositories and runs, every property of the
passing run but its liveness:

* `NoHalfClone`: `CompleteUnlessSpoiled`, from `ClonesInOrder` (as long as the run goes on,
  a directory half made by its own git exists only while `fetch` waits for it, and any
  other half one is spoiled);
* `FunctionsRunAlive`: `RunningAlive`; `GoodEndings`: `EndsWell`.

The last two come from `LoadIInv`. What a visit has left to do is the end of its file's
script (`Suffixes`), so the statements executed can be told from the frames
(`Executed`). Each of them has left its mark (`Effects`): the file it loads is that of a
*later* context, its target is described; and no two contexts have executed the
description of one target (`TargetsApart`). At a good end all statements are executed
(`AllExecuted`); were a set of loaded files closed under loading, the last context with
a file of the set would have a later one, and two contexts of a file with a target would
both have described it. A function that runs is in a context some frame refers to, hence
held, however it got there; if it is not a fetched one, its tree is cached or it is
build.yacs, still visited.

`CppFrontProofs`, from `FilesAssumption` (a file is a sequence of items, their text a
sequence of lexemes), `IdentifiersAssumption` (no identifier is a keyword or a mark)
and `NoDeclAssumption` (`NoDecl` is no declaration), for any files:

* `TypesHold`, `HangsBehindDirective` (`SpinsOnlyAfterDirective`), `NamesAreRead` (a
  declared name is an identifier of the text), from the inductive invariant
  `FrontInOrder`: the cursor is inside the text, and behind a `#` whenever the mode is
  Directive. `LexReads` says what one call of the lexer does to cursor and mode, and
  that the loops of it which are operators here (`EndsAt`) stop.
* `AcceptsWellFormed` (`WellFormedAccepted`: not rejected, and hanging only at a comment
  behind a quoted include) and `FindsDeclarations`
  (`DeclarationsFound`), for files of any number of items of the grammar `WellFormed`,
  with functions and comments of any length.

The last two come from `ItemsInOrder`. `IsLayout` says where each item lies in the text
(`FlatLayout`: that of a concatenation exists), `IsDeclared` what the items up to one
declare. In a well-formed file the cursor is between two items, with exactly what the
items before declare, or `Within` a declaration at the lexeme that the parser's place
stands for. Mode Directive is on only for the rest of a directive or `Stale`: behind a
quoted include, with no `<header>` since. A stale mode does no harm inside an item,
except at an operator `<` (`LessMisread`, the hypothesis; `MisreadLess`) or at a comment,
which hangs, and is then behind the quoted include that made the mode stale
(`CatchesComment`). There is one lemma for each thing the lexer may find at
the cursor (`PullsEmpty`, `PullsComment`, `PullsHash`, `PullsHeader`, `PullsLineEnd`,
`PullsType`, `PullsWithin`, `PullsEnd`) and one for each place of the parser.

Recursive functions (`TargetDeps`, `Held`, `FlattenSeq` of the community modules) are
reasoned about with the lemma `Climb`: a set of numbers that has 0, and with k also
k + 1, has every number. It follows from the least element of a set, without an
operator as a parameter. A first lemma says that the function exists (`DepsExist`,
`HeldExists`, `FlatExists`), another what it computes.

Only model-checked: liveness (`Terminates`, `FileEnds`, `BuildEnds`, `InternReturns`,
`CompileEnds`, `LoadEnds`), which TLAPS does not reach, hence the liveness part of
`DecidesRight` too. Every invariant of the passing runs is a theorem.

## Not modelled

Command line and terminal output; `message`, `print`, `glob` and `shell` (I/O); the
contents of files and of mappings; the ANTLR parser and the YACS grammar's lexer
modes (generated); `PerfectKeywordTable` (used nowhere); text conversion and
arithmetic of values. Of a target only `depends`, `sources` (in `Compile`, as the lists
of a build) and free properties are kept. `load_file` with `is_system` or from inside
a file is not: only `handle_include` would call it so, and it cannot be reached (the
keyword table knows `include`). In `Modules` a script has no conditions, loops, local
functions or stray `return` (`ProjectLoad` and `Scopes` have those), and `fetch` of a
directory finds its build.yacs. Memory that runs out, signals other than a kill, and
line and column of tokens are not modelled.

## Plan

1. *Core* (done): `CycleCheck`, `ProjectLoad`, `Scopes`, `CppFront`, with proofs.
2. *Memory and files* (done): `StringPool` against `Interner`, `Arena`, `TypeRegistry`,
   `Compile`, with their proofs.
3. *Loading* (done): parse trees, circular loads, clones over runs (`Modules`).
4. *Proofs of the rest* (done): plans and builds of `ProjectLoad`, `Modules`, the lexer's
   cursor and mode and the grammar of well-formed items in `CppFront`.
5. *Left*: strings and comments inside functions in that grammar; the values and
   properties of the interpreter (`Value`), which are modelled only as far as scopes and
   targets need them.
