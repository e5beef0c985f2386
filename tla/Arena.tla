------------------------------- MODULE Arena -------------------------------
(***************************************************************************)
(* Arena: the parser's nodes are cut from chunks of memory, one behind the *)
(* other, and are all given back when the arena of the file is destroyed.  *)
(* Addresses are numbers; where operator new puts a chunk is its choice.   *)
(***************************************************************************)
EXTENDS Alignment, Sequences, FiniteSets

CONSTANTS
  ChunkSize,   \* bytes of a chunk, if no object needs more (1 MB)
  NewAlign,    \* what operator new[] aligns a byte array to (16)
  Sizes,       \* the sizes asked for
  Aligns,      \* the alignments asked for
  Addresses,   \* where a chunk can start
  MaxBlocks    \* bound: objects made

ASSUME SizesAssumption ==
  ChunkSize \in Nat \ {0} /\ Sizes \subseteq Nat \ {0} /\ Aligns \subseteq Alignments

ASSUME AddressAssumption ==
  /\ NewAlign \in Alignments
  /\ Addresses \subseteq Nat /\ \A b \in Addresses : b % NewAlign = 0

VARIABLES
  phase,   \* "alive", "dying" in ~Arena, or "gone"
  chunks,  \* the list from the first chunk to head, the last
  blocks,  \* the objects made: where, how long, how aligned
  heap     \* the chunks operator new gave and delete has not taken back

vars == <<phase, chunks, blocks, heap>>

Chunk(base, capacity) == [base |-> base, capacity |-> capacity, offset |-> 0]
Piece(base, capacity) == [base |-> base, capacity |-> capacity]

(* operator new[] gives memory that overlaps no other.                     *)
Apart(p, q) == p.base + p.capacity <= q.base \/ q.base + q.capacity <= p.base
Free(capacity) == {b \in Addresses : \A p \in heap : Apart(Piece(b, capacity), p)}

Init ==
  /\ phase = "alive" /\ blocks = {}
  /\ \E b \in Addresses :
       /\ chunks = <<Chunk(b, ChunkSize)>>
       /\ heap = {Piece(b, ChunkSize)}

---------------------------------------------------------------------------
Newest == chunks[Len(chunks)]   \* head
StartInChunk(a) == Newest.base + AlignUp(Newest.offset, a)
Start(a) == AlignUp(Newest.base + Newest.offset, a)
Padding(a) == Start(a) - (Newest.base + Newest.offset)
Fits(size, a) == Newest.offset + Padding(a) + size <= Newest.capacity

Block(at, size, a) == [at |-> at, size |-> size, alignment |-> a]
Made == phase = "alive" /\ Cardinality(blocks) < MaxBlocks

(* raw_allocate: behind the last object of the head, if it fits there ...  *)
Allocate(size, a) ==
  /\ Made
  /\ Fits(size, a)
  /\ chunks' = [chunks EXCEPT ![Len(chunks)].offset = @ + Padding(a) + size]
  /\ blocks' = blocks \cup {Block(Start(a), size, a)}
  /\ UNCHANGED <<phase, heap>>

(* ... and in a new chunk, at least as large as the object, otherwise.     *)
Larger(size) == IF size > ChunkSize THEN size ELSE ChunkSize
NewHead(c) == chunks' = Append(chunks, c) /\ heap' = heap \cup {Piece(c.base, c.capacity)}
AllocateInNewChunk(size, a) ==
  /\ Made
  /\ ~Fits(size, a)
  /\ \E b \in Free(Larger(size)) :
       LET at == AlignUp(b, a)
       IN  /\ NewHead([Chunk(b, Larger(size)) EXCEPT !.offset = (at - b) + size])
           /\ blocks' = blocks \cup {Block(at, size, a)}
  /\ UNCHANGED phase

(* ~Arena gives back the head, then the one before it, to the last one.    *)
Destroy ==
  /\ phase = "alive"
  /\ phase' = "dying"
  /\ UNCHANGED <<chunks, blocks, heap>>
FreeHeadForgetRest ==
  /\ phase = "dying" /\ chunks # <<>>
  /\ heap' = heap \ {Piece(Newest.base, Newest.capacity)}
  /\ chunks' = <<>>
  /\ UNCHANGED <<phase, blocks>>
FreeHead ==
  /\ phase = "dying" /\ chunks # <<>>
  /\ heap' = heap \ {Piece(Newest.base, Newest.capacity)}
  /\ chunks' = SubSeq(chunks, 1, Len(chunks) - 1)
  /\ UNCHANGED <<phase, blocks>>
Gone ==
  /\ phase = "dying" /\ chunks = <<>>
  /\ phase' = "gone"
  /\ UNCHANGED <<chunks, blocks, heap>>

Next ==
  \/ \E size \in Sizes, a \in Aligns : Allocate(size, a) \/ AllocateInNewChunk(size, a)
  \/ Destroy \/ FreeHead \/ Gone

(* The destructor runs through; nobody has to allocate or to destroy.      *)
Spec == Init /\ [][Next]_vars /\ WF_vars(FreeHead) /\ WF_vars(Gone)

---------------------------------------------------------------------------
ChunkType == [base : Nat, capacity : Nat, offset : Nat]

(* The variables keep their types.                                         *)
TypeOK ==
  /\ phase \in {"alive", "dying", "gone"}
  /\ chunks \in Seq(ChunkType) /\ (phase = "alive" => chunks # <<>>)
  /\ blocks \subseteq [at : Nat, size : Nat \ {0}, alignment : Alignments]
  /\ heap \subseteq [base : Nat, capacity : Nat]

(* The code does not count the padding in front of the first object of a   *)
(* fresh chunk, which is 0 for all that operator new aligns a chunk for.   *)
Ordinary(b) == b.alignment <= NewAlign
InPiece(b, p) == p.base <= b.at /\ b.at + b.size <= p.base + p.capacity

(* Objects lie at a multiple of their alignment and never share a byte,    *)
(* whichever chunks they are in and wherever these are; and as long as the *)
(* arena lives each is inside memory it still owns.                        *)
BlocksAligned == \A b \in blocks : b.at % b.alignment = 0
BlocksOwned ==
  phase = "alive" => \A b \in blocks : Ordinary(b) => \E p \in heap : InPiece(b, p)
BlocksApart ==
  \A b, c \in blocks :
    b # c /\ Ordinary(b) /\ Ordinary(c) => b.at + b.size <= c.at \/ c.at + c.size <= b.at
BlocksSafe == BlocksAligned /\ BlocksOwned /\ BlocksApart

---------------------------------------------------------------------------
(* Why: the inductive invariant.                                           *)
PieceOf(c) == Piece(c.base, c.capacity)

(* The list holds each chunk that is allocated, once.                      *)
ListIsHeap ==
  /\ heap = {PieceOf(chunks[i]) : i \in 1..Len(chunks)}
  /\ \A i, j \in 1..Len(chunks) : i # j => Apart(PieceOf(chunks[i]), PieceOf(chunks[j]))
  /\ \A i \in 1..Len(chunks) : chunks[i].base % NewAlign = 0 /\ chunks[i].capacity > 0

(* An ordinary object is in the part of a chunk that is in use.            *)
InUse(b, c) == c.base <= b.at /\ b.at + b.size <= c.base + c.offset
InsideUsed ==
  phase = "alive" =>
    \A b \in blocks : Ordinary(b) =>
      \E i \in 1..Len(chunks) :
        InUse(b, chunks[i]) /\ b.at + b.size <= chunks[i].base + chunks[i].capacity

(* The list, the heap and the objects agree.                               *)
IInv == TypeOK /\ ListIsHeap /\ InsideUsed /\ BlocksAligned /\ BlocksApart

---------------------------------------------------------------------------
(* With the arena gone every chunk has been given back, the oldest too,    *)
(* which only the chain of the newer ones leads to.                        *)
NothingLeaks == phase = "gone" => heap = {}

(* The destructor ends.                                                    *)
DestructorEnds == phase = "dying" ~> phase = "gone"
=============================================================================
