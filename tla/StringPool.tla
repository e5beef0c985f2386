----------------------------- MODULE StringPool ----------------------------
(***************************************************************************)
(* StringPool: texts are appended to chunks of memory that never move, an  *)
(* id says where (chunk index and offset), and an open-addressing table    *)
(* of ids finds a text that is there already.  intern() is taken loop by   *)
(* loop: a crowded table is first rebuilt at twice its size, slot by slot, *)
(* then the slots from the text's hash on are probed.                      *)
(***************************************************************************)
EXTENDS Naturals, Sequences

CONSTANTS
  Strings,      \* the texts interned
  NoString,     \* nothing is being interned
  Length,       \* bytes of each text
  Hash,         \* its 32-bit hash
  NoId,         \* EMPTY_SLOT
  InitialSize,  \* slots of a new table (4096)
  Capacity,     \* bytes of a chunk (64 KB)
  ChunkIds,     \* chunk indexes an id can tell apart (eight bits: 256)
  MaxChunks     \* bound: chunks the pool may fill

ASSUME StringsAssumption ==
  NoString \notin Strings /\ Length \in [Strings -> Nat] /\ Hash \in [Strings -> Nat]

ASSUME SizesAssumption ==
  /\ InitialSize \in Nat \ {0}   \* a power of two: hash & mask is hash % size
  /\ Capacity \in Nat \ {0} /\ ChunkIds \in Nat \ {0} /\ MaxChunks \in Nat \ {0}

ASSUME NoIdAssumption == NoId \notin Nat \X Nat

VARIABLES
  size,     \* hash_table.size()
  table,    \* hash_table: an id or NoId in each slot
  active,   \* active_entries
  used,     \* for each chunk, the bytes in use
  text,     \* the text whose record starts at <<chunk, offset>>
  pc,       \* where intern() is
  str,      \* its argument
  idx,      \* the slot a loop looks at
  old,      \* the table being replaced while it grows
  pos,      \* the slot of it to move next
  answer    \* the id returned last

memory == <<active, used, text>>
vars == <<size, table, memory, pc, str, idx, old, pos, answer>>

EmptyTable(n) == [i \in 0..(n - 1) |-> NoId]

Init ==
  /\ size = InitialSize /\ table = EmptyTable(InitialSize) /\ active = 0
  /\ used = <<0>> /\ text = <<>>
  /\ pc = "idle" /\ str = NoString /\ idx = 0 /\ old = <<>> /\ pos = 0
  /\ answer = <<0, 0>>

---------------------------------------------------------------------------
Home(s, n) == Hash[s] % n
NextSlotStops(i) == IF i + 1 = size THEN i ELSE i + 1
NextSlot(i) == IF i + 1 = size THEN 0 ELSE i + 1

(* Beyond these limits the memory of other texts is overwritten or read:   *)
(* every record inside its chunk, and no more chunks than ids tell apart.  *)
Intact == Len(used) <= ChunkIds /\ \A c \in 1..Len(used) : used[c] <= Capacity

(* active_entries * 100 / hash_table.size() > 60, an integer division.     *)
Crowded == active * 100 >= 61 * size

(* intern(s) is called; a table not crowded is searched at once ...        *)
Intern(s) ==
  /\ pc = "idle" /\ Intact
  /\ ~Crowded
  /\ str' = s /\ pc' = "probe" /\ idx' = Home(s, size)
  /\ UNCHANGED <<size, table, memory, old, pos, answer>>

(* ... a crowded one is emptied at twice the size first (grow_table).      *)
InternAndGrow(s) ==
  /\ pc = "idle" /\ Intact
  /\ Crowded
  /\ str' = s /\ pc' = "rehash"
  /\ size' = 2 * size /\ table' = EmptyTable(2 * size)
  /\ old' = table /\ pos' = 0
  /\ UNCHANGED <<memory, idx, answer>>

SkipEmpty ==
  /\ pc = "rehash" /\ pos \in DOMAIN old
  /\ old[pos] = NoId
  /\ pos' = pos + 1
  /\ UNCHANGED <<size, table, memory, pc, str, idx, old, answer>>

HashAgainHalf ==
  /\ pc = "rehash" /\ pos \in DOMAIN old
  /\ old[pos] # NoId
  /\ pc' = "place" /\ idx' = Home(text[old[pos]], size \div 2)
  /\ UNCHANGED <<size, table, memory, str, old, pos, answer>>
HashAgain ==
  /\ pc = "rehash" /\ pos \in DOMAIN old
  /\ old[pos] # NoId
  /\ pc' = "place" /\ idx' = Home(text[old[pos]], size)
  /\ UNCHANGED <<size, table, memory, str, old, pos, answer>>

PlaceFurther ==
  /\ pc = "place" /\ table[idx] # NoId
  /\ idx' = NextSlot(idx)
  /\ UNCHANGED <<size, table, memory, pc, str, old, pos, answer>>

Place ==
  /\ pc = "place" /\ table[idx] = NoId
  /\ table' = [table EXCEPT ![idx] = old[pos]]
  /\ pc' = "rehash" /\ pos' = pos + 1
  /\ UNCHANGED <<size, memory, str, idx, old, answer>>

Rehashed ==
  /\ pc = "rehash" /\ pos \notin DOMAIN old
  /\ pc' = "probe" /\ idx' = Home(str, size) /\ old' = <<>>
  /\ UNCHANGED <<size, table, memory, str, pos, answer>>

---------------------------------------------------------------------------
(* A slot holds the text asked for if length and bytes agree.              *)
SameLength(id) == Length[text[id]] = Length[str]
Same(id) == text[id] = str

Found ==
  /\ pc = "probe" /\ table[idx] # NoId
  /\ Same(table[idx])
  /\ answer' = table[idx]
  /\ pc' = "idle" /\ str' = NoString
  /\ UNCHANGED <<size, table, memory, idx, old, pos>>

ProbeFurther ==
  /\ pc = "probe" /\ table[idx] # NoId
  /\ ~Same(table[idx])
  /\ idx' = NextSlot(idx)
  /\ UNCHANGED <<size, table, memory, pc, str, old, pos, answer>>

(* A record is the length in four bytes and the text, at a multiple of 4.  *)
Needed == Length[str] + 4
AlignUp(n) == ((n + 3) \div 4) * 4
Offset == AlignUp(used[Len(used)])
Fits == Offset + Needed <= Capacity

(* The record of str goes to this offset of that chunk.                    *)
Id(chunk, offset) == <<chunk % ChunkIds, offset>>
Record(chunk, offset) ==
  /\ text' = [p \in DOMAIN text \cup {<<chunk, offset>>} |->
                IF p = <<chunk, offset>> THEN str ELSE text[p]]
  /\ table' = [table EXCEPT ![idx] = Id(chunk, offset)]
  /\ answer' = Id(chunk, offset)
  /\ active' = active + 1
  /\ pc' = "idle" /\ str' = NoString
  /\ UNCHANGED <<size, idx, old, pos>>

Add ==
  /\ pc = "probe" /\ table[idx] = NoId
  /\ Fits
  /\ used' = [used EXCEPT ![Len(used)] = Offset + Needed]
  /\ Record(Len(used) - 1, Offset)

AddInNewChunkKeepsOffset ==
  /\ pc = "probe" /\ table[idx] = NoId
  /\ ~Fits /\ Len(used) < MaxChunks
  /\ used' = Append(used, Offset + Needed)
  /\ Record(Len(used), Offset)
AddInNewChunk ==
  /\ pc = "probe" /\ table[idx] = NoId
  /\ ~Fits /\ Len(used) < MaxChunks
  /\ used' = Append(used, Needed)
  /\ Record(Len(used), 0)

Next ==
  \/ \E s \in Strings : Intern(s) \/ InternAndGrow(s)
  \/ SkipEmpty \/ HashAgain \/ PlaceFurther \/ Place \/ Rehashed
  \/ Found \/ ProbeFurther \/ Add \/ AddInNewChunk

(* intern() is a sequential function; nobody has to call it.               *)
Return == pc # "idle" /\ Next
Spec == Init /\ [][Next]_vars /\ WF_vars(Return)

---------------------------------------------------------------------------
Ids == Nat \X Nat

MemoryTypes ==
  /\ active \in Nat /\ answer \in Ids
  /\ used \in Seq(Nat) /\ used # <<>>
  /\ DOMAIN text \subseteq Ids /\ text \in [DOMAIN text -> Strings]
TableTypes ==
  /\ size \in Nat \ {0} /\ table \in [0..(size - 1) -> Ids \cup {NoId}]
  /\ pc \in {"idle", "rehash", "place", "probe"}
  /\ str \in Strings \cup {NoString} /\ (pc = "idle" <=> str = NoString)
  /\ idx \in Nat /\ (pc \in {"place", "probe"} => idx < size)
  /\ pos \in Nat
  /\ pc \in {"rehash", "place"} => old \in [0..(size \div 2 - 1) -> Ids \cup {NoId}]
  /\ pc = "place" => pos \in DOMAIN old /\ old[pos] # NoId

(* The variables keep their types, and no loop leaves its table.           *)
TypeOK == MemoryTypes /\ TableTypes

(* Records start at multiples of 4 and never share a byte, whatever order  *)
(* the texts come in and however the chunks fill up, and every text that   *)
(* fits in a chunk at all is inside its own: only one longer than a chunk  *)
(* is written past the end (of a chunk of its own; the code has no check). *)
RecordEnd(p) == p[2] + Length[text[p]] + 4
RecordsApart ==
  \A p \in DOMAIN text :
    /\ p[2] % 4 = 0 /\ p[1] < Len(used) /\ RecordEnd(p) <= used[p[1] + 1]
    /\ RecordEnd(p) <= Capacity \/ (p[2] = 0 /\ Length[text[p]] + 4 > Capacity)
    /\ \A q \in DOMAIN text :
         p[1] = q[1] /\ p # q => RecordEnd(p) <= q[2] \/ RecordEnd(q) <= p[2]

(* No text is stored twice, however the probes of others and a growing     *)
(* table have moved its slot: two equal identifiers have the same id.      *)
StoredOnce == \A p, q \in DOMAIN text : text[p] = text[q] => p = q

---------------------------------------------------------------------------
(* Why a text that is there is found: the inductive invariant.             *)

(* The slots a probe from h passes before it comes to i.                   *)
Between(h, i) ==
  {j \in 0..(size - 1) : IF h <= i THEN h <= j /\ j < i ELSE h <= j \/ j < i}

(* A text has one slot, and a probe for it meets no empty one on the way.  *)
Reachable ==
  \A i \in 0..(size - 1) : table[i] # NoId =>
    /\ table[i] \in DOMAIN text
    /\ \A j \in Between(Home(text[table[i]], size), i) : table[j] # NoId

(* Every text is in the table, or still in the one being replaced.         *)
InTable(p) == \E i \in 0..(size - 1) : table[i] = p
InOld(p) == pc \in {"rehash", "place"} /\ \E i \in DOMAIN old : i >= pos /\ old[i] = p
Listed ==
  /\ \A p \in DOMAIN text : InTable(p) \/ InOld(p)
  /\ pc \in {"rehash", "place"} =>
       \A i \in DOMAIN old : old[i] # NoId => old[i] \in DOMAIN text

(* What the two probing loops have passed.                                 *)
Probed ==
  /\ pc = "probe" => \A j \in Between(Home(str, size), idx) :
                       table[j] # NoId /\ text[table[j]] # str
  /\ pc = "place" => \A j \in Between(Home(text[old[pos]], size), idx) :
                       table[j] # NoId

(* The table, the memory and the loops of intern() agree.                  *)
IInv ==
  /\ TypeOK /\ Len(used) <= MaxChunks
  /\ Reachable /\ Listed /\ Probed
  /\ RecordsApart /\ StoredOnce

---------------------------------------------------------------------------
(* As long as ids tell all chunks apart, the pool is an Interner: an id    *)
(* never changes its text, and a text never changes its id.                *)
Abstract == INSTANCE Interner
InternsRight == Abstract!Spec

(* intern() returns, also when the table has to grow first.                *)
InternReturns == pc # "idle" ~> pc = "idle"
=============================================================================
