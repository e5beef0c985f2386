------------------------------- MODULE Compile -----------------------------
(***************************************************************************)
(* The Builder at the source files of its targets: each gets an Arena of   *)
(* its own, is looked for and mapped by the SourceManager, or taken from   *)
(* what that has mapped already, and is parsed into the arena.  The file   *)
(* system belongs to others too: files come and go between two calls of    *)
(* the program, and every call of the system can fail.                     *)
(***************************************************************************)
EXTENDS Arena

CONSTANTS
  SourceFiles,  \* files by their canonical path
  NoFile,       \* no file
  Names,        \* what a `sources` list calls them
  NotAString,   \* an element of `sources` that is no string
  Places,       \* number of directories: the current one, the include paths
  Resolves,     \* what a name in a directory resolves to, once it exists
  SourceLists,  \* the sources of all targets planned, in their order
  Descriptors,  \* the file descriptors a process can have
  MaxChanges    \* bound: files that appear or vanish

ASSUME PlacesAssumption ==
  Places \in Nat \ {0} /\ Resolves \in [(1..Places) \X Names -> SourceFiles \cup {NoFile}]
ASSUME SourcesAssumption ==
  NotAString \notin Names /\ SourceLists \subseteq Seq(Names \cup {NotAString})
ASSUME SystemAssumption ==
  /\ {NoFile, "not found", "not loaded"} \cap SourceFiles = {}
  /\ Descriptors \subseteq Nat \ {0} /\ MaxChanges \in Nat

VARIABLES
  present,   \* the files that exist
  changes,   \* how often one has appeared or vanished
  fds,       \* the process's open file descriptors
  maps,      \* what it has mapped, one entry for each mapping
  loaded,    \* SourceManager::loaded_files: a buffer for each file
  sources,   \* the sources to compile
  done,      \* what has become of them so far
  pc,        \* where compile_target, or load_file below it, is
  place,     \* where load_file is looking
  since,     \* the changes when it began
  file,      \* canonical
  buffer     \* the SourceBuffer being constructed

disk == <<present, changes>>
kernel == <<fds, maps>>
search == <<place, since, file, buffer>>
buildVars == <<vars, disk, kernel, loaded, sources, done, pc, search>>

NoBuffer == [fd |-> 0, mapped |-> FALSE]
BuildInit ==
  /\ phase = "gone" /\ chunks = <<>> /\ blocks = {} /\ heap = {}
  /\ present \in SUBSET SourceFiles /\ changes = 0
  /\ fds = <<>> /\ maps = {} /\ loaded = <<>>
  /\ sources \in SourceLists /\ done = <<>>
  /\ pc = "next" /\ place = 1 /\ since = 0 /\ file = NoFile /\ buffer = NoBuffer

Name == sources[Len(done) + 1]
Path(p, name) == Resolves[<<p, name>>]
Finds(p) == Path(p, Name) \in present
Extend(f, k, v) == [x \in DOMAIN f \cup {k} |-> IF x = k THEN v ELSE f[x]]
Without(f, k) == [x \in DOMAIN f \ {k} |-> f[x]]

---------------------------------------------------------------------------
(* The next source of a target: its arena is made, then load_file is asked *)
(* for it.                                                                 *)
NextSource ==
  /\ pc = "next" /\ Len(done) < Len(sources) /\ Name # NotAString
  /\ phase' = "alive" /\ blocks' = {}
  /\ \E b \in Free(ChunkSize) :
       chunks' = <<Chunk(b, ChunkSize)>> /\ heap' = heap \cup {Piece(b, ChunkSize)}
  /\ pc' = "search" /\ place' = 1 /\ since' = changes
  /\ UNCHANGED <<disk, kernel, loaded, sources, done, file, buffer>>

(* An exception nobody catches: as<std::string>() of a value that is none, *)
(* exists() or canonical() in trouble, a syntax error.                     *)
Terminate == pc' = "terminated" /\ UNCHANGED <<vars, disk, kernel, loaded, sources, done, search>>
NotAName ==
  /\ pc = "next" /\ Len(done) < Len(sources) /\ Name = NotAString
  /\ Terminate

SearchOnPastHit ==
  /\ pc = "search" /\ place < Places
  /\ place' = place + 1
  /\ UNCHANGED <<vars, disk, kernel, loaded, sources, done, pc, since, file, buffer>>
SearchOnTooFar ==
  /\ pc = "search" /\ ~Finds(place) /\ place <= Places
  /\ place' = place + 1
  /\ UNCHANGED <<vars, disk, kernel, loaded, sources, done, pc, since, file, buffer>>
SearchOn ==
  /\ pc = "search" /\ ~Finds(place) /\ place < Places
  /\ place' = place + 1
  /\ UNCHANGED <<vars, disk, kernel, loaded, sources, done, pc, since, file, buffer>>

(* exists() throws when it cannot tell: a path too long, a directory that  *)
(* may not be searched.                                                    *)
ExistsThrows == pc \in {"search", "found"} /\ Terminate

(* Found nowhere, resolved_path is still that in the current directory.    *)
SearchEnds ==
  /\ pc = "search" /\ (Finds(place) \/ place = Places)
  /\ place' = IF Finds(place) THEN place ELSE 1
  /\ pc' = "found"
  /\ UNCHANGED <<vars, disk, kernel, loaded, sources, done, since, file, buffer>>

(* What has become of the source; its arena goes at the end of its turn.   *)
FinishedNotCounted(outcome) ==
  /\ UNCHANGED done
  /\ Destroy /\ pc' = "unwind"
  /\ UNCHANGED <<disk, sources, place, since, file>>
Finished(outcome) ==
  /\ done' = Append(done, outcome)
  /\ Destroy /\ pc' = "unwind"
  /\ UNCHANGED <<disk, sources, place, since, file>>

NotFound ==
  /\ pc = "found" /\ ~Finds(place)
  /\ Finished("not found")
  /\ UNCHANGED <<kernel, loaded, buffer>>
StillThere ==
  /\ pc = "found" /\ Finds(place)
  /\ pc' = "canonical"
  /\ UNCHANGED <<vars, disk, kernel, loaded, sources, done, search>>

(* canonical() throws for the same reasons, and for a file just gone.      *)
CanonicalThrows == pc = "canonical" /\ Terminate

KnownInCurrent == place = 1 /\ Path(place, Name) \in DOMAIN loaded
Known == Path(place, Name) \in DOMAIN loaded
Canonical ==
  /\ pc = "canonical" /\ Finds(place)
  /\ file' = Path(place, Name)
  /\ pc' = IF Known THEN "parse" ELSE "open"
  /\ UNCHANGED <<vars, disk, kernel, loaded, sources, done, place, since, buffer>>

---------------------------------------------------------------------------
(* The constructor of SourceBuffer: open, fstat, mmap; a file of size 0 is *)
(* not mapped.  An exception is caught in load_file, which has not stored  *)
(* anything yet.                                                           *)
Open ==
  /\ pc = "open" /\ file \in present
  /\ \E fd \in Descriptors \ DOMAIN fds :
       fds' = Extend(fds, fd, file) /\ buffer' = [NoBuffer EXCEPT !.fd = fd]
  /\ pc' = "stat"
  /\ UNCHANGED <<vars, disk, maps, loaded, sources, done, place, since, file>>
OpenFails ==
  /\ pc = "open"
  /\ Finished("not loaded")
  /\ UNCHANGED <<kernel, loaded, buffer>>

NotEmpty ==
  /\ pc = "stat"
  /\ pc' = "map"
  /\ UNCHANGED <<vars, disk, kernel, loaded, sources, done, search>>

(* fstat or mmap fails: the constructor closes what it has opened.         *)
ConstructorFailsOpen ==
  /\ pc \in {"stat", "map"}
  /\ buffer' = NoBuffer
  /\ Finished("not loaded")
  /\ UNCHANGED <<fds, maps, loaded>>
ConstructorFails ==
  /\ pc \in {"stat", "map"}
  /\ fds' = Without(fds, buffer.fd) /\ buffer' = NoBuffer
  /\ Finished("not loaded")
  /\ UNCHANGED <<maps, loaded>>

Store(b) ==
  /\ loaded' = Extend(loaded, file, b) /\ buffer' = NoBuffer
  /\ pc' = "parse"
  /\ UNCHANGED <<vars, disk, fds, sources, done, place, since, file>>
StoreEmpty == pc = "stat" /\ Store(buffer) /\ UNCHANGED maps
Map ==
  /\ pc = "map"
  /\ Store([buffer EXCEPT !.mapped = TRUE])
  /\ maps' = maps \cup {<<file, buffer.fd>>}

---------------------------------------------------------------------------
(* The parser makes nodes in the arena, and ends, throws, or asks a lexer  *)
(* for a token that never comes (module CppFront has the three).           *)
MakeNode ==
  /\ pc = "parse"
  /\ \E size \in Sizes, a \in Aligns : Allocate(size, a) \/ AllocateInNewChunk(size, a)
  /\ UNCHANGED <<disk, kernel, loaded, sources, done, pc, search>>
SyntaxError == pc = "parse" /\ Terminate
LexerHangs ==
  /\ pc = "parse"
  /\ pc' = "hung"
  /\ UNCHANGED <<vars, disk, kernel, loaded, sources, done, search>>
Parsed ==
  /\ pc = "parse"
  /\ Finished(file)
  /\ UNCHANGED <<kernel, loaded, buffer>>

(* The arena of the source is destroyed, also on the way of `continue`.    *)
Unwind ==
  /\ pc = "unwind" /\ phase = "dying"
  /\ FreeHead \/ Gone
  /\ UNCHANGED <<disk, kernel, loaded, sources, done, pc, search>>
TurnEndsBuild ==
  /\ pc = "unwind" /\ phase = "gone"
  /\ pc' = IF done[Len(done)] = "not found" THEN "exit" ELSE "next"
  /\ UNCHANGED <<vars, disk, kernel, loaded, sources, done, search>>
TurnEnds ==
  /\ pc = "unwind" /\ phase = "gone"
  /\ pc' = "next"
  /\ UNCHANGED <<vars, disk, kernel, loaded, sources, done, search>>

(* After the last source the Builder goes, and with it the SourceManager   *)
(* and its buffers, in any order.                                          *)
AllCompiled ==
  /\ pc = "next" /\ Len(done) = Len(sources)
  /\ pc' = "exit"
  /\ UNCHANGED <<vars, disk, kernel, loaded, sources, done, search>>
DestroyMapped(f) ==
  /\ pc = "exit" /\ f \in DOMAIN loaded /\ loaded[f].mapped
  /\ loaded' = Without(loaded, f)
  /\ maps' = maps \ {<<f, loaded[f].fd>>}
  /\ fds' = Without(fds, loaded[f].fd)
  /\ UNCHANGED <<vars, disk, sources, done, pc, search>>
DestroyEmpty(f) ==
  /\ pc = "exit" /\ f \in DOMAIN loaded /\ ~loaded[f].mapped
  /\ loaded' = Without(loaded, f)
  /\ fds' = Without(fds, loaded[f].fd)
  /\ UNCHANGED <<vars, disk, maps, sources, done, pc, search>>
Exit ==
  /\ pc = "exit" /\ DOMAIN loaded = {}
  /\ pc' = "exited"
  /\ UNCHANGED <<vars, disk, kernel, loaded, sources, done, search>>

(* Somebody else removes a file, or puts one there.                        *)
Change(f) ==
  /\ pc \notin {"exit", "exited", "terminated"} /\ changes < MaxChanges
  /\ present' = IF f \in present THEN present \ {f} ELSE present \cup {f}
  /\ changes' = changes + 1
  /\ UNCHANGED <<vars, kernel, loaded, sources, done, pc, search>>

LoadFile ==
  \/ SearchOn \/ SearchEnds \/ NotFound \/ StillThere \/ Canonical
  \/ ExistsThrows \/ CanonicalThrows
  \/ Open \/ OpenFails \/ NotEmpty \/ ConstructorFails \/ StoreEmpty \/ Map
Program ==
  \/ NextSource \/ NotAName \/ LoadFile
  \/ MakeNode \/ SyntaxError \/ LexerHangs \/ Parsed \/ Unwind \/ TurnEnds
  \/ AllCompiled \/ (\E f \in SourceFiles : DestroyMapped(f) \/ DestroyEmpty(f)) \/ Exit

BuildNext == Program \/ \E f \in SourceFiles : Change(f)

(* The program keeps running; the file system need not do anything.        *)
BuildSpec == BuildInit /\ [][BuildNext]_buildVars /\ WF_buildVars(Program)

---------------------------------------------------------------------------
NotCompiled == {"not found", "not loaded"}
Outcomes == SourceFiles \cup NotCompiled
BufferType == [fd : Descriptors \cup {0}, mapped : BOOLEAN]

(* The variables keep their types, those of the arena included; there is   *)
(* an arena exactly while a source has its turn.                           *)
BuildTypeOK ==
  /\ TypeOK /\ present \subseteq SourceFiles /\ changes \in Nat /\ since \in Nat
  /\ DOMAIN fds \subseteq Descriptors /\ fds \in [DOMAIN fds -> SourceFiles]
  /\ maps \subseteq SourceFiles \X Descriptors
  /\ DOMAIN loaded \subseteq SourceFiles /\ loaded \in [DOMAIN loaded -> BufferType]
  /\ sources \in Seq(Names \cup {NotAString}) /\ Len(done) <= Len(sources)
  /\ done \in Seq(Outcomes)
  /\ place \in 1..Places /\ file \in SourceFiles \cup {NoFile} /\ buffer \in BufferType
  /\ pc \in {"next", "exit", "exited"} => phase = "gone"

(* Every open descriptor and every mapping belongs to one buffer, the      *)
(* loaded ones or the one being constructed, whichever call has failed and *)
(* in whatever state the file was; and every loaded buffer still has its   *)
(* own.  No file has two.                                                  *)
Constructing == IF buffer.fd = 0 THEN {} ELSE {buffer.fd}
Accounted ==
  /\ \A f \in DOMAIN loaded :
       /\ loaded[f].fd \in DOMAIN fds /\ fds[loaded[f].fd] = f
       /\ loaded[f].mapped <=> <<f, loaded[f].fd>> \in maps
  /\ DOMAIN fds = {loaded[f].fd : f \in DOMAIN loaded} \cup Constructing
  /\ \A m \in maps : m[1] \in DOMAIN loaded /\ m[2] = loaded[m[1]].fd
  /\ \A d, e \in DOMAIN fds : fds[d] = fds[e] => d = e

(* A lexer points into the buffer it was given: no buffer goes or changes  *)
(* before the end, whatever is loaded after it and under which name.       *)
BuffersStay ==
  [][pc # "exit" => \A f \in DOMAIN loaded : f \in DOMAIN loaded' /\ loaded'[f] = loaded[f]]_buildVars

(* As long as no file comes or goes meanwhile, what is compiled is the     *)
(* first file of that name in the order of the directories, however it     *)
(* was loaded before, and "not found" means that there is none.            *)
Undisturbed == changes = since
FirstFound ==
  /\ pc = "parse" /\ Undisturbed =>
       \E p \in 1..Places :
         /\ file = Path(p, Name) /\ file \in present
         /\ \A q \in 1..(p - 1) : ~Finds(q)
  /\ pc = "unwind" /\ Undisturbed /\ done[Len(done)] = "not found" =>
       \A p \in 1..Places : Path(p, sources[Len(done)]) \notin present

(* A source that cannot be loaded does not keep the others from being      *)
(* compiled: a build that comes to its end has tried every source, in      *)
(* order, and compiled for each a file of its name or none.                *)
AllTried ==
  /\ pc \in {"exit", "exited"} => Len(done) = Len(sources)
  /\ \A k \in DOMAIN done :
       \/ done[k] \in NotCompiled
       \/ \E p \in 1..Places : done[k] = Path(p, sources[k])

(* At the end nothing is left of it in the system.                         *)
CleanExit == pc = "exited" => DOMAIN fds = {} /\ maps = {} /\ heap = {}

(* Why: the inductive invariant.  Outside the constructor no buffer is     *)
(* under construction, and inside it its file has none yet; and what       *)
(* load_file has passed over was not there.                                *)
InConstructor == pc \in {"stat", "map"}
Resolved == pc \in {"open", "stat", "map", "parse"}
ConstructorInOrder ==
  /\ IF InConstructor
       THEN /\ ~buffer.mapped
            /\ buffer.fd \in DOMAIN fds /\ fds[buffer.fd] = file
       ELSE buffer = NoBuffer
  /\ pc = "open" \/ InConstructor => file \notin DOMAIN loaded
  /\ pc = "exited" => DOMAIN loaded = {}
NoneBefore(p) == \A q \in 1..(p - 1) : ~Finds(q)
SearchInOrder ==
  /\ since <= changes
  /\ pc \in {"search", "found", "canonical"} \/ Resolved =>
       /\ Len(done) < Len(sources) /\ Name \in Names
       /\ Undisturbed => NoneBefore(place)
  /\ pc = "found" /\ Undisturbed => Finds(place) \/ \A p \in 1..Places : ~Finds(p)
  /\ Resolved => file = Path(place, Name) /\ file # NoFile
  /\ Resolved /\ Undisturbed => file \in present
BuildInOrder ==
  /\ BuildTypeOK /\ ConstructorInOrder /\ SearchInOrder
  /\ Accounted /\ AllTried /\ IInv /\ (phase = "gone" => chunks = <<>>)

(* Whatever the file system does, the loops over sources and directories   *)
(* and the destructors end: the build exits or terminates, unless the      *)
(* lexer hangs on a source.                                                *)
CompileEnds == <>(pc \in {"exited", "terminated", "hung"})
=============================================================================
