--------------------------- MODULE CompileProofs ---------------------------
(***************************************************************************)
(* The build never loses a descriptor, a mapping or a chunk, compiles the  *)
(* file a search in order finds, and tries every source, for any names,    *)
(* directories, source lists and sizes, and whatever the file system does. *)
(* First about an arena by itself: objects are aligned, inside memory the  *)
(* arena owns and never overlap, and its destructor gives every chunk      *)
(* back, for any objects and wherever the chunks are put.                  *)
(***************************************************************************)
EXTENDS Compile, SequenceTheorems, Integers, TLAPS

(* What rounding up gives, for the alignments that occur.                  *)
LEMMA AlignUpRounds ==
  ASSUME NEW n \in Nat, NEW a \in Alignments
  PROVE  /\ AlignUp(n, a) \in Nat /\ AlignUp(n, a) % a = 0
         /\ n <= AlignUp(n, a) /\ AlignUp(n, a) < n + a
  <1>1. CASE a = 1 BY <1>1 DEF AlignUp
  <1>2. CASE a = 2 BY <1>2 DEF AlignUp
  <1>3. CASE a = 4 BY <1>3 DEF AlignUp
  <1>4. CASE a = 8 BY <1>4 DEF AlignUp
  <1>5. CASE a = 16 BY <1>5 DEF AlignUp
  <1>6. CASE a = 32 BY <1>6 DEF AlignUp
  <1>7. CASE a = 64 BY <1>7 DEF AlignUp
  <1>. QED BY <1>1, <1>2, <1>3, <1>4, <1>5, <1>6, <1>7 DEF Alignments

LEMMA AlignedStays ==
  ASSUME NEW n \in Nat, NEW a \in Alignments, n % a = 0
  PROVE  AlignUp(n, a) = n
  <1>1. CASE a = 1 BY <1>1 DEF AlignUp
  <1>2. CASE a = 2 BY <1>2 DEF AlignUp
  <1>3. CASE a = 4 BY <1>3 DEF AlignUp
  <1>4. CASE a = 8 BY <1>4 DEF AlignUp
  <1>5. CASE a = 16 BY <1>5 DEF AlignUp
  <1>6. CASE a = 32 BY <1>6 DEF AlignUp
  <1>7. CASE a = 64 BY <1>7 DEF AlignUp
  <1>. QED BY <1>1, <1>2, <1>3, <1>4, <1>5, <1>6, <1>7 DEF Alignments

(* A multiple of an alignment is one of every smaller alignment.           *)
LEMMA MultipleOfSmaller ==
  ASSUME NEW n \in Nat, NEW a \in Alignments, NEW b \in Alignments, a <= b, n % b = 0
  PROVE  n % a = 0
  BY DEF Alignments

LEMMA ChunkTypes ==
  ASSUME TypeOK, NEW i \in 1..Len(chunks)
  PROVE  /\ chunks[i] \in ChunkType /\ chunks[i].base \in Nat
         /\ chunks[i].capacity \in Nat /\ chunks[i].offset \in Nat
  <1>1. chunks[i] \in ChunkType BY DEF TypeOK
  <1>. QED BY <1>1 DEF ChunkType

(* Where the next object of the newest chunk would start.                  *)
LEMMA StartIsBehind ==
  ASSUME TypeOK, phase = "alive", NEW a \in Alignments
  PROVE  /\ Len(chunks) \in Nat \ {0} /\ Newest \in ChunkType /\ Newest = chunks[Len(chunks)]
         /\ Start(a) \in Nat /\ Start(a) % a = 0
         /\ Newest.base + Newest.offset <= Start(a)
         /\ Padding(a) \in Nat /\ Start(a) = Newest.base + Newest.offset + Padding(a)
  <1>1. Len(chunks) \in Nat \ {0} /\ Newest \in ChunkType BY DEF TypeOK, Newest
  <1>2. Newest.base \in Nat /\ Newest.offset \in Nat BY <1>1 DEF ChunkType
  <1>3. Newest.base + Newest.offset \in Nat BY <1>2
  <1>4. /\ Start(a) \in Nat /\ Start(a) % a = 0
        /\ Newest.base + Newest.offset <= Start(a)
    BY <1>3, AlignUpRounds DEF Start
  <1>. QED BY <1>1, <1>2, <1>4 DEF Newest, Padding

(* Where the first object of a fresh chunk starts: at once, if ordinary.   *)
LEMMA FreshStart ==
  ASSUME NEW b \in Addresses, NEW a \in Alignments
  PROVE  /\ b \in Nat /\ AlignUp(b, a) \in Nat /\ b <= AlignUp(b, a) /\ AlignUp(b, a) % a = 0
         /\ a <= NewAlign => AlignUp(b, a) = b
  <1>1. b \in Nat /\ b % NewAlign = 0 /\ NewAlign \in Alignments BY AddressAssumption
  <1>2. a <= NewAlign => b % a = 0 BY <1>1, MultipleOfSmaller
  <1>. QED BY <1>1, <1>2, AlignUpRounds, AlignedStays

LEMMA LargerIsNat ==
  ASSUME NEW size \in Sizes
  PROVE  Larger(size) \in Nat \ {0} /\ size <= Larger(size) /\ size \in Nat \ {0}
  BY SizesAssumption DEF Larger

(* Arithmetic of the ranges of objects and chunks.                         *)
LEMMA SumFits ==
  ASSUME NEW at \in Nat, NEW base \in Nat, NEW offset \in Nat, NEW padding \in Nat,
         NEW size \in Nat, NEW capacity \in Nat,
         at = base + offset + padding, offset + padding + size <= capacity
  PROVE  base <= at /\ at + size <= base + capacity
  OBVIOUS

LEMMA SumsGrow ==
  ASSUME NEW e \in Nat, NEW base \in Nat, NEW offset \in Nat, NEW later \in Nat,
         e <= base + offset, offset <= later
  PROVE  e <= base + later
  OBVIOUS

LEMMA RangesApart ==
  ASSUME NEW p \in Nat, NEW q \in Nat, NEW e \in Nat, NEW f \in Nat,
         NEW x \in Nat, NEW y \in Nat, NEW at \in Nat, NEW size \in Nat,
         p <= x, x + y <= p + q, e <= at, at + size <= e + f,
         p + q <= e \/ e + f <= p
  PROVE  x + y <= at \/ at + size <= x
  OBVIOUS

LEMMA InitIInv == Init => IInv
  <1> SUFFICES ASSUME Init PROVE IInv OBVIOUS
  <1>1. PICK b \in Addresses : chunks = <<Chunk(b, ChunkSize)>> /\ heap = {Piece(b, ChunkSize)}
    BY DEF Init
  <1>2. b \in Nat /\ b % NewAlign = 0 /\ ChunkSize \in Nat \ {0}
    BY AddressAssumption, SizesAssumption
  <1>3. TypeOK BY <1>1, <1>2 DEF Init, TypeOK, ChunkType, Chunk, Piece
  <1>4. ListIsHeap BY <1>1, <1>2 DEF ListIsHeap, PieceOf, Chunk, Piece
  <1>5. InsideUsed /\ BlocksAligned /\ BlocksApart
    BY DEF Init, InsideUsed, BlocksAligned, BlocksApart
  <1>. QED BY <1>3, <1>4, <1>5 DEF IInv

---------------------------------------------------------------------------
LEMMA AllocateStep ==
  ASSUME IInv, NEW size \in Sizes, NEW a \in Alignments, Allocate(size, a)
  PROVE  IInv'
  <1>. DEFINE n == Len(chunks)
  <1>. PICK at : at = Start(a) OBVIOUS
  <1>. PICK new : new = Block(at, size, a) OBVIOUS
  <1>0. TypeOK /\ ListIsHeap /\ InsideUsed /\ BlocksAligned /\ BlocksApart /\ phase = "alive"
    BY DEF IInv, Allocate, Made
  <1>1. /\ n \in Nat \ {0} /\ chunks[n] \in ChunkType /\ Newest = chunks[n]
        /\ at \in Nat /\ chunks[n].base + chunks[n].offset <= at
        /\ Padding(a) \in Nat /\ at = chunks[n].base + chunks[n].offset + Padding(a)
    BY <1>0, StartIsBehind
  <1>a. at % a = 0 BY <1>0, StartIsBehind
  <1>2. size \in Nat \ {0} BY SizesAssumption
  <1>3. /\ chunks[n].base \in Nat /\ chunks[n].offset \in Nat /\ chunks[n].capacity \in Nat
        /\ chunks[n].offset + Padding(a) + size <= chunks[n].capacity
    BY <1>1 DEF ChunkType, Allocate, Fits
  <1>4. /\ new.at = at /\ new.size = size /\ new.alignment = a
        /\ blocks' = blocks \cup {new} /\ heap' = heap /\ phase' = phase
    BY DEF Block, Allocate
  <1>5. /\ Len(chunks') = n /\ chunks' \in Seq(ChunkType)
        /\ \A i \in 1..n : /\ chunks'[i].base = chunks[i].base
                           /\ chunks'[i].capacity = chunks[i].capacity
                           /\ i # n => chunks'[i].offset = chunks[i].offset
        /\ chunks'[n].offset = chunks[n].offset + Padding(a) + size
    <2>1. PICK d : d = [chunks[n] EXCEPT !.offset = @ + Padding(a) + size] OBVIOUS
    <2>2. /\ d \in ChunkType /\ d.base = chunks[n].base /\ d.capacity = chunks[n].capacity
          /\ d.offset = chunks[n].offset + Padding(a) + size
      BY <1>1, <1>2, <1>3, <2>1 DEF ChunkType
    <2>3. chunks' = [chunks EXCEPT ![n] = d] BY <2>1 DEF Allocate
    <2>. QED BY <1>0, <1>1, <2>2, <2>3 DEF TypeOK
  <1>6. TypeOK'
    <2>1. new \in [at : Nat, size : Nat \ {0}, alignment : Alignments]
      BY <1>1, <1>2 DEF Block
    <2>2. chunks' # <<>> BY <1>1, <1>5
    <2>. QED BY <1>0, <1>4, <1>5, <2>1, <2>2 DEF TypeOK
  <1>7. ListIsHeap' BY <1>0, <1>4, <1>5 DEF ListIsHeap, PieceOf, Piece, Apart
  <1>8. InsideUsed'
    <2>1. SUFFICES ASSUME NEW b \in blocks', Ordinary(b)
                   PROVE  \E i \in 1..n : /\ InUse(b, chunks'[i])
                                          /\ b.at + b.size <= chunks'[i].base + chunks'[i].capacity
      BY <1>5 DEF InsideUsed
    <2>2. CASE b = new
      <3>1. n \in 1..n BY <1>1
      <3>2. /\ chunks'[n].base = chunks[n].base /\ chunks'[n].capacity = chunks[n].capacity
            /\ chunks'[n].offset = chunks[n].offset + Padding(a) + size
        BY <1>5, <3>1
      <3>a. PICK base \in Nat, used \in Nat, most \in Nat, padding \in Nat :
              /\ base = chunks[n].base /\ used = chunks[n].offset
              /\ most = chunks[n].capacity /\ padding = Padding(a)
        BY <1>1, <1>3, Zenon
      <3>b. at = base + used + padding /\ used + padding + size <= most
        BY <1>1, <1>3, <3>a, Zenon
      <3>c. base <= at /\ at + size <= base + (used + padding + size) /\ at + size <= base + most
        BY <1>2, <3>b
      <3>3. InUse(new, chunks'[n])
        <4>1. chunks'[n].base = base /\ chunks'[n].offset = used + padding + size
          BY <3>2, <3>a, Zenon
        <4>. QED BY <1>4, <3>c, <4>1, Zenon DEF InUse
      <3>4. at + size <= chunks[n].base + chunks[n].capacity
        BY <3>a, <3>c, Zenon
      <3>5. new.at + new.size <= chunks'[n].base + chunks'[n].capacity
        BY <1>4, <3>2, <3>4
      <3>. QED BY <2>2, <3>1, <3>3, <3>5
    <2>3. CASE b \in blocks
      <3>1. PICK i \in 1..n : InUse(b, chunks[i]) /\ b.at + b.size <= chunks[i].base + chunks[i].capacity
        BY <1>0, <2>1, <2>3 DEF InsideUsed
      <3>2. chunks[i].base \in Nat /\ chunks[i].offset \in Nat /\ chunks'[i].offset \in Nat
            /\ chunks[i].offset <= chunks'[i].offset
        <4>1. chunks[i].base \in Nat /\ chunks[i].offset \in Nat BY <1>0, ChunkTypes
        <4>2. CASE i = n BY <1>1, <1>2, <1>5, <4>1, <4>2
        <4>3. CASE i # n BY <1>5, <4>1, <4>3
        <4>. QED BY <4>2, <4>3
      <3>3. b.at \in Nat /\ b.size \in Nat BY <1>0, <2>3 DEF TypeOK
      <3>a. chunks'[i].base = chunks[i].base BY <1>5
      <3>b. chunks[i].base <= b.at /\ b.at + b.size <= chunks[i].base + chunks[i].offset
        BY <3>1 DEF InUse
      <3>c. chunks'[i].base <= b.at BY <3>a, <3>b
      <3>d. b.at + b.size <= chunks'[i].base + chunks'[i].offset
        <4>1. b.at + b.size \in Nat BY <3>3
        <4>. QED BY <3>a, <3>b, <3>2, <4>1, SumsGrow
      <3>4. InUse(b, chunks'[i]) BY <3>c, <3>d DEF InUse
      <3>. QED BY <1>5, <3>1, <3>4
    <2>. QED BY <1>4, <2>2, <2>3
  <1>9. BlocksAligned' BY <1>0, <1>a, <1>4 DEF BlocksAligned
  <1>10. BlocksApart'
    <2>1. ASSUME NEW b \in blocks, Ordinary(b)
          PROVE  b.at + b.size <= at \/ at + size <= b.at
      <3>1. PICK i \in 1..n : InUse(b, chunks[i]) /\ b.at + b.size <= chunks[i].base + chunks[i].capacity
        BY <1>0, <2>1 DEF InsideUsed
      <3>2. b.at \in Nat /\ b.size \in Nat BY <1>0, <2>1 DEF TypeOK
      <3>3. chunks[i].base \in Nat /\ chunks[i].offset \in Nat /\ chunks[i].capacity \in Nat
        BY <1>0, ChunkTypes
      <3>4. CASE i = n
        <4>1. b.at + b.size <= chunks[n].base + chunks[n].offset BY <3>1, <3>4 DEF InUse
        <4>. QED BY <1>1, <1>3, <3>2, <4>1, SMTT(30)
      <3>5. CASE i # n
        <4>1. n \in 1..n BY <1>1
        <4>2. Apart(PieceOf(chunks[i]), PieceOf(chunks[n])) BY <1>0, <3>5, <4>1 DEF ListIsHeap
        <4>3. \/ chunks[i].base + chunks[i].capacity <= chunks[n].base
              \/ chunks[n].base + chunks[n].capacity <= chunks[i].base
          BY <4>2 DEF Apart, PieceOf, Piece
        <4>4. chunks[i].base <= b.at BY <3>1 DEF InUse
        <4>5. chunks[n].base <= at /\ at + size <= chunks[n].base + chunks[n].capacity
          BY <1>1, <1>2, <1>3, SumFits
        <4>. QED BY <1>1, <1>2, <1>3, <3>1, <3>2, <3>3, <4>3, <4>4, <4>5, RangesApart
      <3>. QED BY <3>4, <3>5
    <2>. QED BY <1>0, <1>4, <2>1 DEF BlocksApart, Ordinary
  <1>. QED BY <1>6, <1>7, <1>8, <1>9, <1>10 DEF IInv

LEMMA AllocateInNewChunkStep ==
  ASSUME IInv, NEW size \in Sizes, NEW a \in Alignments, AllocateInNewChunk(size, a)
  PROVE  IInv'
  <1>. DEFINE n == Len(chunks)
              cap == Larger(size)
  <1>0. TypeOK /\ ListIsHeap /\ InsideUsed /\ BlocksAligned /\ BlocksApart /\ phase = "alive"
    BY DEF IInv, AllocateInNewChunk, Made
  <1>. PICK base \in Free(cap) :
         LET at == AlignUp(base, a)
         IN  /\ NewHead([Chunk(base, cap) EXCEPT !.offset = (at - base) + size])
             /\ blocks' = blocks \cup {Block(at, size, a)}
    BY DEF AllocateInNewChunk
  <1>. PICK at : at = AlignUp(base, a) OBVIOUS
  <1>. PICK new : new = Block(at, size, a) OBVIOUS
  <1>. PICK c : c = [Chunk(base, cap) EXCEPT !.offset = (at - base) + size] OBVIOUS
  <1>1. cap \in Nat \ {0} /\ size <= cap /\ size \in Nat \ {0} BY LargerIsNat
  <1>2. base \in Nat /\ at \in Nat /\ base <= at /\ (a <= NewAlign => at = base)
    BY FreshStart DEF Free
  <1>a. at % a = 0 /\ base % NewAlign = 0 BY FreshStart, AddressAssumption DEF Free
  <1>3. /\ c.base = base /\ c.capacity = cap /\ c.offset = (at - base) + size
        /\ c \in ChunkType
    BY <1>1, <1>2 DEF Chunk, ChunkType
  <1>4. /\ new.at = at /\ new.size = size /\ new.alignment = a
        /\ blocks' = blocks \cup {new} /\ phase' = phase
        /\ heap' = heap \cup {Piece(base, cap)} /\ chunks' = Append(chunks, c)
    BY <1>3 DEF Block, AllocateInNewChunk, NewHead
  <1>5. /\ n \in Nat /\ Len(chunks') = n + 1 /\ chunks'[n + 1] = c
        /\ \A i \in 1..n : chunks'[i] = chunks[i]
        /\ chunks' \in Seq(ChunkType) /\ chunks' # <<>>
    BY <1>0, <1>3, <1>4 DEF TypeOK
  <1>6. TypeOK'
    <2>1. new \in [at : Nat, size : Nat \ {0}, alignment : Alignments]
      BY <1>1, <1>2 DEF Block
    <2>2. Piece(base, cap) \in [base : Nat, capacity : Nat] BY <1>1, <1>2 DEF Piece
    <2>. QED BY <1>0, <1>4, <1>5, <2>1, <2>2 DEF TypeOK
  <1>7. \A i \in 1..n : Apart(Piece(base, cap), PieceOf(chunks[i]))
    BY <1>0 DEF Free, ListIsHeap
  <1>8. ListIsHeap'
    <2>1. PieceOf(c) = Piece(base, cap) BY <1>3 DEF PieceOf
    <2>2. heap' = {PieceOf(chunks'[i]) : i \in 1..(n + 1)}
      BY <1>0, <1>4, <1>5, <2>1 DEF ListIsHeap
    <2>3. ASSUME NEW i \in 1..(n + 1), NEW j \in 1..(n + 1), i # j
          PROVE  Apart(PieceOf(chunks'[i]), PieceOf(chunks'[j]))
      <3>1. CASE i \in 1..n /\ j \in 1..n BY <1>0, <1>5, <2>3, <3>1 DEF ListIsHeap
      <3>2. CASE i = n + 1 BY <1>5, <1>7, <2>1, <2>3, <3>2
      <3>3. CASE j = n + 1 BY <1>5, <1>7, <2>1, <2>3, <3>3 DEF Apart
      <3>. QED BY <1>5, <3>1, <3>2, <3>3
    <2>4. \A i \in 1..(n + 1) : chunks'[i].base % NewAlign = 0 /\ chunks'[i].capacity > 0
      <3>1. \A i \in 1..n : chunks'[i].base % NewAlign = 0 /\ chunks'[i].capacity > 0
        BY <1>0, <1>5 DEF ListIsHeap
      <3>2. chunks'[n + 1].base = base /\ chunks'[n + 1].capacity = cap BY <1>3, <1>5
      <3>3. chunks'[n + 1].base % NewAlign = 0 /\ chunks'[n + 1].capacity > 0
        BY <1>1, <1>a, <3>2
      <3>4. \A i \in 1..(n + 1) : i \in 1..n \/ i = n + 1 BY <1>5
      <3>. QED BY <3>1, <3>3, <3>4
    <2>. QED BY <1>5, <2>2, <2>3, <2>4 DEF ListIsHeap
  <1>9. InsideUsed'
    <2>1. SUFFICES ASSUME NEW b \in blocks', Ordinary(b)
                   PROVE  \E i \in 1..(n + 1) :
                            /\ InUse(b, chunks'[i])
                            /\ b.at + b.size <= chunks'[i].base + chunks'[i].capacity
      BY <1>5 DEF InsideUsed
    <2>2. CASE b = new
      <3>1. at = base BY <1>2, <1>4, <2>1, <2>2 DEF Ordinary
      <3>2. InUse(new, c) /\ at + size <= c.base + c.capacity
        BY <1>1, <1>2, <1>3, <1>4, <3>1 DEF InUse
      <3>. QED BY <1>4, <1>5, <2>2, <3>2
    <2>3. CASE b \in blocks
      <3>1. PICK i \in 1..n : InUse(b, chunks[i]) /\ b.at + b.size <= chunks[i].base + chunks[i].capacity
        BY <1>0, <2>1, <2>3 DEF InsideUsed
      <3>. QED BY <1>5, <3>1
    <2>. QED BY <1>4, <2>2, <2>3
  <1>10. BlocksAligned' BY <1>0, <1>a, <1>4 DEF BlocksAligned
  <1>11. BlocksApart'
    <2>1. ASSUME NEW b \in blocks, Ordinary(b), Ordinary(new)
          PROVE  b.at + b.size <= at \/ at + size <= b.at
      <3>1. PICK i \in 1..n : InUse(b, chunks[i]) /\ b.at + b.size <= chunks[i].base + chunks[i].capacity
        BY <1>0, <2>1 DEF InsideUsed
      <3>2. b.at \in Nat /\ b.size \in Nat BY <1>0, <2>1 DEF TypeOK
      <3>3. chunks[i].base \in Nat /\ chunks[i].capacity \in Nat
        BY <1>0, ChunkTypes
      <3>4. at = base BY <1>2, <1>4, <2>1 DEF Ordinary
      <3>5. Apart(Piece(base, cap), PieceOf(chunks[i])) BY <1>7
      <3>. QED BY <1>1, <1>2, <3>1, <3>2, <3>3, <3>4, <3>5, SMTT(30) DEF InUse, Apart, PieceOf, Piece
    <2>. QED BY <1>0, <1>4, <2>1 DEF BlocksApart
  <1>. QED BY <1>6, <1>8, <1>9, <1>10, <1>11 DEF IInv

LEMMA FreeHeadStep ==
  ASSUME IInv, FreeHead
  PROVE  IInv'
  <1>0. TypeOK /\ ListIsHeap /\ BlocksAligned /\ BlocksApart /\ phase = "dying" /\ chunks # <<>>
    BY DEF IInv, FreeHead
  <1>1. PICK n \in Nat \ {0} : n = Len(chunks) BY <1>0 DEF TypeOK
  <1>2. /\ Len(chunks') = n - 1 /\ \A i \in 1..(n - 1) : chunks'[i] = chunks[i]
        /\ chunks' \in Seq(ChunkType)
    <2>1. chunks' = SubSeq(chunks, 1, n - 1) BY <1>1 DEF FreeHead
    <2>2. \A i \in 1..(n - 1) : chunks[i] \in ChunkType BY <1>0, <1>1, ChunkTypes
    <2>3. 1 \in Int /\ n - 1 \in Int BY <1>1
    <2>4. /\ SubSeq(chunks, 1, n - 1) \in Seq(ChunkType)
          /\ Len(SubSeq(chunks, 1, n - 1)) = IF 1 <= n - 1 THEN (n - 1) - 1 + 1 ELSE 0
          /\ \A i \in 1..((n - 1) - 1 + 1) : SubSeq(chunks, 1, n - 1)[i] = chunks[1 + i - 1]
      BY <2>2, <2>3, SubSeqProperties
    <2>5. (n - 1) - 1 + 1 = n - 1 /\ (~(1 <= n - 1) => n - 1 = 0) BY <1>1
    <2>6. \A i \in 1..(n - 1) : 1 + i - 1 = i OBVIOUS
    <2>. QED BY <2>1, <2>4, <2>5, <2>6
  <1>3. heap' = heap \ {PieceOf(chunks[n])} /\ blocks' = blocks /\ phase' = "dying"
    BY <1>1 DEF FreeHead, PieceOf, Newest
  <1>4. TypeOK' BY <1>0, <1>2, <1>3 DEF TypeOK
  <1>5. \A i \in 1..(n - 1) : PieceOf(chunks[i]) # PieceOf(chunks[n])
    <2>1. SUFFICES ASSUME NEW i \in 1..(n - 1) PROVE PieceOf(chunks[i]) # PieceOf(chunks[n])
      OBVIOUS
    <2>2. Apart(PieceOf(chunks[i]), PieceOf(chunks[n])) BY <1>0, <1>1 DEF ListIsHeap
    <2>3. chunks[i] \in ChunkType /\ chunks[i].capacity > 0 BY <1>0, <1>1 DEF TypeOK, ListIsHeap
    <2>. QED BY <2>2, <2>3 DEF Apart, PieceOf, Piece, ChunkType
  <1>6. heap' = {PieceOf(chunks'[i]) : i \in 1..(n - 1)}
    <2>1. heap = {PieceOf(chunks[i]) : i \in 1..n} BY <1>0, <1>1 DEF ListIsHeap
    <2>2. 1..n = 1..(n - 1) \cup {n} BY <1>1
    <2>. QED BY <1>2, <1>3, <1>5, <2>1, <2>2
  <1>7. ListIsHeap' BY <1>0, <1>1, <1>2, <1>6 DEF ListIsHeap
  <1>8. InsideUsed' /\ BlocksAligned' /\ BlocksApart'
    BY <1>0, <1>3 DEF InsideUsed, BlocksAligned, BlocksApart
  <1>. QED BY <1>4, <1>7, <1>8 DEF IInv

LEMMA InvariantStep == IInv /\ [Next]_vars => IInv'
  <1> SUFFICES ASSUME IInv, [Next]_vars PROVE IInv' OBVIOUS
  <1>1. ASSUME NEW size \in Sizes, NEW a \in Aligns, Allocate(size, a) PROVE IInv'
    BY <1>1, AllocateStep, SizesAssumption
  <1>2. ASSUME NEW size \in Sizes, NEW a \in Aligns, AllocateInNewChunk(size, a) PROVE IInv'
    BY <1>2, AllocateInNewChunkStep, SizesAssumption
  <1>3. CASE FreeHead BY <1>3, FreeHeadStep
  <1>4. CASE Destroy \/ Gone \/ UNCHANGED vars
    <2>1. UNCHANGED <<chunks, blocks, heap>> BY <1>4 DEF Destroy, Gone, vars
    <2>2. phase' = "alive" => phase = "alive" BY <1>4 DEF Destroy, Gone, vars
    <2>3. TypeOK' BY <1>4, <2>1, <2>2 DEF IInv, TypeOK, Destroy, Gone, vars
    <2>4. ListIsHeap' BY <2>1 DEF IInv, ListIsHeap
    <2>5. InsideUsed' BY <2>1, <2>2 DEF IInv, InsideUsed
    <2>6. BlocksAligned' /\ BlocksApart' BY <2>1 DEF IInv, BlocksAligned, BlocksApart
    <2>. QED BY <2>3, <2>4, <2>5, <2>6 DEF IInv
  <1>. QED BY <1>1, <1>2, <1>3, <1>4 DEF Next

(* What the invariant is for.                                              *)
LEMMA InOrderIsSafe ==
  ASSUME IInv
  PROVE  BlocksSafe
  <1>1. SUFFICES BlocksOwned BY DEF IInv, BlocksSafe
  <1>2. SUFFICES ASSUME phase = "alive", NEW b \in blocks, Ordinary(b)
                 PROVE  \E p \in heap : InPiece(b, p)
    BY DEF BlocksOwned
  <1>3. PICK i \in 1..Len(chunks) :
          InUse(b, chunks[i]) /\ b.at + b.size <= chunks[i].base + chunks[i].capacity
    BY <1>2 DEF IInv, InsideUsed
  <1>4. PieceOf(chunks[i]) \in heap BY DEF IInv, ListIsHeap
  <1>5. InPiece(b, PieceOf(chunks[i])) BY <1>3 DEF InPiece, InUse, PieceOf, Piece
  <1>. QED BY <1>4, <1>5

(* When the destructor is through, no chunk is left allocated.             *)
Emptied == phase = "gone" => chunks = <<>>
LEMMA EmptiedLeaksNothing ==
  ASSUME IInv, Emptied
  PROVE  NothingLeaks
  BY DEF IInv, ListIsHeap, Emptied, NothingLeaks

(* The list of chunks, the heap and the objects agree in every state.      *)
THEOREM ArenaInOrder == Spec => []IInv
  BY InitIInv, InvariantStep, PTL DEF Spec

(* Objects are aligned, owned and apart, wherever the chunks are put.      *)
THEOREM BlocksAreSafe == Spec => []BlocksSafe
  BY ArenaInOrder, InOrderIsSafe, PTL

(* The destructor gives every chunk back.                                  *)
THEOREM NothingIsLeaked == Spec => []NothingLeaks
  <1>1. Init => Emptied BY DEF Init, Emptied
  <1>2. Emptied /\ [Next]_vars => Emptied'
    BY DEF Emptied, Next, Allocate, AllocateInNewChunk, Made, NewHead, Destroy, FreeHead, Gone, vars
  <1>. QED BY <1>1, <1>2, ArenaInOrder, EmptiedLeaksNothing, PTL DEF Spec

---------------------------------------------------------------------------
(* The arena: every step is one of Arena, leaves it alone, or makes a new  *)
(* one when the last one is gone.                                          *)
LEMMA ArenaStep ==
  ASSUME BuildInOrder, [BuildNext]_buildVars
  PROVE  IInv' /\ Emptied'
  <1>0. IInv /\ Emptied /\ (pc = "next" => phase = "gone")
    BY DEF BuildInOrder, BuildTypeOK, Emptied
  <1>1. CASE NextSource
    <2>1. chunks = <<>> /\ heap = {}
      BY <1>0, <1>1 DEF NextSource, Emptied, IInv, ListIsHeap
    <2>2. PICK b \in Free(ChunkSize) :
            chunks' = <<Chunk(b, ChunkSize)>> /\ heap' = heap \cup {Piece(b, ChunkSize)}
      BY <1>1 DEF NextSource
    <2>3. b \in Addresses BY DEF Free
    <2>4. heap' = {Piece(b, ChunkSize)} BY <2>1, <2>2
    <2>5. phase' = "alive" /\ blocks' = {} BY <1>1 DEF NextSource
    <2>6. Init' BY <2>2, <2>3, <2>4, <2>5 DEF Init
    <2>7. Init' => IInv' BY InitIInv, PTL
    <2>. QED BY <2>5, <2>6, <2>7 DEF Emptied
  <1>2. CASE ~NextSource
    <2>1. [Next]_vars
      <3>1. CASE MakeNode BY <3>1 DEF MakeNode, Next
      <3>2. CASE Unwind BY <3>2 DEF Unwind, Next
      <3>3. CASE NotFound \/ OpenFails \/ ConstructorFails \/ Parsed
        BY <3>3 DEF NotFound, OpenFails, ConstructorFails, Parsed, Finished, Next
      <3>4. CASE UNCHANGED buildVars BY <3>4 DEF buildVars
      <3>5. CASE SearchOn \/ SearchEnds \/ StillThere \/ ExistsThrows \/ CanonicalThrows \/ Canonical
                 \/ Open
                 \/ NotEmpty \/ StoreEmpty \/ Map
        BY <3>5 DEF SearchOn, SearchEnds, StillThere, ExistsThrows, CanonicalThrows, Terminate, Canonical, Open,
                    NotEmpty, StoreEmpty, Map, Store
      <3>6. CASE NotAName \/ SyntaxError \/ LexerHangs \/ TurnEnds \/ AllCompiled \/ Exit
        BY <3>6 DEF NotAName, SyntaxError, LexerHangs, vars, Terminate, TurnEnds, AllCompiled, Exit
      <3>7. ASSUME NEW f \in SourceFiles, DestroyMapped(f) \/ DestroyEmpty(f) \/ Change(f)
            PROVE  UNCHANGED vars
        BY <3>7 DEF DestroyMapped, DestroyEmpty, Change
      <3>. QED BY <1>2, <3>1, <3>2, <3>3, <3>4, <3>5, <3>6, <3>7 DEF BuildNext, Program, LoadFile
    <2>2. Emptied'
      BY <1>0, <2>1 DEF Emptied, Next, Allocate, AllocateInNewChunk, Made, NewHead, Destroy,
                        FreeHead, Gone, vars
    <2>. QED BY <1>0, <2>1, <2>2, InvariantStep
  <1>. QED BY <1>1, <1>2

---------------------------------------------------------------------------
LEMMA ExtendIs ==
  ASSUME NEW f, NEW k, NEW v
  PROVE  /\ DOMAIN Extend(f, k, v) = DOMAIN f \cup {k}
         /\ Extend(f, k, v)[k] = v
         /\ \A x \in DOMAIN f : x # k => Extend(f, k, v)[x] = f[x]
  BY DEF Extend

LEMMA ExtendTyped ==
  ASSUME NEW T, NEW f, f \in [DOMAIN f -> T], NEW k, NEW v \in T
  PROVE  Extend(f, k, v) \in [DOMAIN f \cup {k} -> T]
  BY DEF Extend

LEMMA WithoutIs ==
  ASSUME NEW f, NEW k
  PROVE  /\ DOMAIN Without(f, k) = DOMAIN f \ {k}
         /\ \A x \in DOMAIN f \ {k} : Without(f, k)[x] = f[x]
  BY DEF Without

LEMMA WithoutTyped ==
  ASSUME NEW T, NEW f, f \in [DOMAIN f -> T], NEW k
  PROVE  Without(f, k) \in [DOMAIN f \ {k} -> T]
  BY DEF Without

(* The name of the turn, and what it resolves to.                          *)
LEMMA NameHolds ==
  ASSUME BuildTypeOK, Len(done) < Len(sources)
  PROVE  /\ Len(done) \in Nat /\ Len(done) + 1 \in 1..Len(sources)
         /\ Name \in Names \cup {NotAString}
  <1>1. done \in Seq(Outcomes) /\ sources \in Seq(Names \cup {NotAString}) BY DEF BuildTypeOK
  <1>2. Len(done) \in Nat /\ Len(sources) \in Nat BY <1>1
  <1>3. Len(done) + 1 \in 1..Len(sources) BY <1>2
  <1>. QED BY <1>1, <1>2, <1>3 DEF Name

LEMMA ResolvesHolds ==
  ASSUME NEW p \in 1..Places, Name \in Names
  PROVE  /\ Path(p, Name) \in SourceFiles \cup {NoFile}
         /\ Path(p, Name) # NoFile => Path(p, Name) \in SourceFiles
  <1>1. <<p, Name>> \in (1..Places) \X Names OBVIOUS
  <1>. QED BY <1>1, PlacesAssumption DEF Path

---------------------------------------------------------------------------
(* The search.                                                             *)
LEMMA SearchStep ==
  ASSUME BuildInOrder, [BuildNext]_buildVars
  PROVE  SearchInOrder'
  <1>0. BuildTypeOK /\ SearchInOrder /\ changes \in Nat /\ since \in Nat /\ place \in 1..Places
    BY DEF BuildInOrder, BuildTypeOK
  <1>1. CASE NextSource
    <2>1. Name \in Names BY <1>0, <1>1, NameHolds DEF NextSource
    <2>. QED BY <1>0, <1>1, <2>1 DEF NextSource, SearchInOrder, disk, NoneBefore, Resolved, Name
  <1>2. CASE SearchOn
    <2>1. \A q \in 1..(place + 1 - 1) : q \in 1..(place - 1) \/ q = place BY <1>0
    <2>. QED BY <1>0, <1>2, <2>1
             DEF SearchOn, SearchInOrder, disk, NoneBefore, Resolved, Undisturbed, Finds, Name
  <1>3. CASE SearchEnds
    <2>1. \A q \in 1..Places : place = Places => q \in 1..(place - 1) \/ q = place
      BY <1>0, PlacesAssumption
    <2>. QED BY <1>0, <1>3, <2>1
             DEF SearchEnds, SearchInOrder, disk, NoneBefore, Resolved, Undisturbed, Finds, Name
  <1>4. CASE Canonical
    <2>1. /\ Len(done) < Len(sources) /\ Name \in Names
          /\ Undisturbed => NoneBefore(place)
          /\ since <= changes
      BY <1>0, <1>4 DEF Canonical, SearchInOrder
    <2>2. file' = Path(place, Name) /\ file' \in present /\ file' # NoFile
      BY <1>0, <1>4, SystemAssumption DEF Canonical, Finds, BuildTypeOK
    <2>3. /\ UNCHANGED <<done, sources, place, since, present, changes>>
          /\ pc' \in {"parse", "open"}
      BY <1>4 DEF Canonical, disk
    <2>. QED BY <2>1, <2>2, <2>3 DEF SearchInOrder, Undisturbed, Resolved, Name, NoneBefore, Finds, Path
  <1>5. ASSUME NEW f \in SourceFiles, Change(f) PROVE SearchInOrder'
    <2>1. changes' = changes + 1 /\ since' = since /\ ~Undisturbed'
      BY <1>0, <1>5 DEF Change, search, SearchInOrder, Undisturbed
    <2>. QED BY <1>0, <1>5, <2>1 DEF Change, search, SearchInOrder, Resolved, Name
  <1>6. CASE \/ StillThere \/ Open \/ NotEmpty \/ StoreEmpty \/ Map \/ MakeNode
             \/ UNCHANGED buildVars
    <2>1. UNCHANGED <<present, changes, sources, done, place, since, file>>
      BY <1>6 DEF StillThere, Open, NotEmpty, StoreEmpty, Map, Store, MakeNode, disk, search, buildVars
    <2>2. /\ pc' = "canonical" => pc \in {"found", "canonical"}
          /\ pc' = "found" => pc = "found"
          /\ pc' = "search" => pc = "search"
          /\ Resolved' => Resolved
      BY <1>6 DEF StillThere, Open, NotEmpty, StoreEmpty, Map, Store, MakeNode, buildVars, Resolved
    <2>. QED BY <1>0, <2>1, <2>2 DEF SearchInOrder, Undisturbed, NoneBefore, Finds, Name
  <1>7. CASE \/ NotAName \/ NotFound \/ ExistsThrows \/ CanonicalThrows \/ OpenFails
             \/ ConstructorFails \/ SyntaxError \/ LexerHangs \/ Parsed \/ Unwind \/ TurnEnds
             \/ AllCompiled \/ Exit
             \/ \E f \in SourceFiles : DestroyMapped(f) \/ DestroyEmpty(f)
    <2>1. UNCHANGED <<since, changes>>
      BY <1>7 DEF NotAName, NotFound, ExistsThrows, CanonicalThrows, OpenFails,
                  ConstructorFails, SyntaxError, LexerHangs, Parsed, Unwind, TurnEnds,
                  AllCompiled, Exit, DestroyMapped, DestroyEmpty, Terminate,
                  Finished, disk, search
    <2>2. pc' \in {"terminated", "hung", "unwind", "next", "exit", "exited"}
      BY <1>7 DEF NotAName, NotFound, ExistsThrows, CanonicalThrows, OpenFails,
                  ConstructorFails, SyntaxError, LexerHangs, Parsed, Unwind, TurnEnds,
                  AllCompiled, Exit, DestroyMapped, DestroyEmpty, Terminate, Finished
    <2>. QED BY <1>0, <2>1, <2>2 DEF SearchInOrder, Resolved
  <1>. QED BY <1>1, <1>2, <1>3, <1>4, <1>5, <1>6, <1>7 DEF BuildNext, Program, LoadFile

(* The sources tried.                                                      *)
LEMMA FinishedTries ==
  ASSUME BuildInOrder, Len(done) < Len(sources), NEW outcome, Finished(outcome),
         \/ outcome \in NotCompiled
         \/ /\ outcome \in SourceFiles
            /\ \E p \in 1..Places : outcome = Path(p, Name)
  PROVE  /\ AllTried' /\ Len(done') <= Len(sources') /\ Len(done') = Len(done) + 1
         /\ done' \in Seq(Outcomes)
         /\ done'[Len(done')] = outcome
  <1>1. done \in Seq(Outcomes) /\ AllTried
    BY DEF BuildInOrder, BuildTypeOK
  <1>2. sources' = sources /\ done' = Append(done, outcome) /\ pc' = "unwind" BY DEF Finished
  <1>3. PICK n \in Nat : n = Len(done) BY <1>1
  <1>4. /\ done' \in Seq(Outcomes) /\ Len(done') = n + 1
        /\ done'[n + 1] = outcome /\ \A k \in 1..n : done'[k] = done[k]
    <2>1. outcome \in Outcomes BY DEF Outcomes
    <2>. QED BY <1>1, <1>2, <1>3, <2>1
  <1>5. Len(sources) \in Nat BY DEF BuildInOrder, BuildTypeOK
  <1>6. AllTried'
    <2>1. SUFFICES ASSUME NEW k \in 1..(n + 1)
                   PROVE  \/ done'[k] \in NotCompiled
                          \/ \E p \in 1..Places : done'[k] = Path(p, sources[k])
      BY <1>2, <1>4 DEF AllTried
    <2>2. CASE k = n + 1 BY <1>3, <1>4, <2>2 DEF Name
    <2>3. CASE k \in 1..n BY <1>1, <1>3, <1>4, <2>3 DEF AllTried
    <2>. QED BY <1>3, <2>2, <2>3
  <1>. QED BY <1>2, <1>3, <1>4, <1>5, <1>6

---------------------------------------------------------------------------
(* What is open and mapped.                                                *)
KernelTypes ==
  /\ DOMAIN fds \subseteq Descriptors /\ fds \in [DOMAIN fds -> SourceFiles]
  /\ maps \subseteq SourceFiles \X Descriptors
  /\ DOMAIN loaded \subseteq SourceFiles /\ loaded \in [DOMAIN loaded -> BufferType]
  /\ buffer \in BufferType
Owned == KernelTypes /\ Accounted /\ ConstructorInOrder

LEMMA OpenOwned ==
  ASSUME BuildInOrder, Open
  PROVE  Owned'
  <1>0. KernelTypes /\ Accounted /\ ConstructorInOrder /\ file \in SourceFiles
    BY SystemAssumption DEF BuildInOrder, BuildTypeOK, KernelTypes, SearchInOrder, Resolved, Open
  <1>1. PICK fd \in Descriptors \ DOMAIN fds :
          fds' = Extend(fds, fd, file) /\ buffer' = [NoBuffer EXCEPT !.fd = fd]
    BY DEF Open
  <1>2. buffer = NoBuffer /\ file \notin DOMAIN loaded
    BY <1>0 DEF Open, ConstructorInOrder, InConstructor
  <1>3. fd \in Nat /\ fd # 0 /\ buffer'.fd = fd /\ ~buffer'.mapped /\ buffer' \in BufferType
    BY <1>1, SystemAssumption DEF NoBuffer, BufferType
  <1>4. maps' = maps /\ loaded' = loaded /\ file' = file /\ pc' = "stat" BY DEF Open
  <1>5. /\ DOMAIN fds' = DOMAIN fds \cup {fd} /\ fds'[fd] = file
        /\ \A d \in DOMAIN fds : fds'[d] = fds[d]
    BY <1>1 DEF Extend
  <1>6. fds' \in [DOMAIN fds' -> SourceFiles]
    BY <1>0, <1>1, <1>5, ExtendTyped DEF KernelTypes
  <1>7. KernelTypes' BY <1>0, <1>3, <1>4, <1>5, <1>6 DEF KernelTypes
  <1>8. DOMAIN fds = {loaded[f].fd : f \in DOMAIN loaded} /\ Constructing' = {fd}
    BY <1>0, <1>2, <1>3 DEF Accounted, Constructing, NoBuffer
  <1>9. \A d \in DOMAIN fds : fds[d] # file
    <2>1. \A f \in DOMAIN loaded : fds[loaded[f].fd] = f BY <1>0 DEF Accounted
    <2>2. SUFFICES ASSUME NEW d \in DOMAIN fds PROVE fds[d] # file OBVIOUS
    <2>3. PICK f \in DOMAIN loaded : d = loaded[f].fd BY <1>8
    <2>. QED BY <1>2, <2>1, <2>3
  <1>10. Accounted'
    <2>1. \A f \in DOMAIN loaded' : loaded'[f].fd \in DOMAIN fds' /\ fds'[loaded'[f].fd] = f
      BY <1>0, <1>4, <1>5 DEF Accounted
    <2>2. DOMAIN fds' = {loaded'[f].fd : f \in DOMAIN loaded'} \cup Constructing'
      BY <1>4, <1>5, <1>8
    <2>3. \A d, e \in DOMAIN fds' : fds'[d] = fds'[e] => d = e
      BY <1>0, <1>5, <1>9 DEF Accounted
    <2>. QED BY <1>0, <1>4, <2>1, <2>2, <2>3 DEF Accounted
  <1>11. ConstructorInOrder' BY <1>2, <1>3, <1>4, <1>5 DEF ConstructorInOrder, InConstructor
  <1>. QED BY <1>7, <1>10, <1>11 DEF Owned

LEMMA ConstructorFailsOwned ==
  ASSUME BuildInOrder, ConstructorFails
  PROVE  Owned'
  <1>0. KernelTypes /\ Accounted /\ ConstructorInOrder
    BY DEF BuildInOrder, BuildTypeOK, KernelTypes
  <1>1. /\ InConstructor /\ fds' = Without(fds, buffer.fd) /\ buffer' = NoBuffer
        /\ maps' = maps /\ loaded' = loaded /\ pc' = "unwind"
    BY DEF ConstructorFails, Finished, InConstructor
  <1>2. /\ buffer.fd \in DOMAIN fds /\ fds[buffer.fd] = file /\ file \notin DOMAIN loaded
    BY <1>0, <1>1 DEF ConstructorInOrder
  <1>3. buffer.fd # 0
    BY <1>0, <1>2, SystemAssumption DEF KernelTypes
  <1>4. /\ DOMAIN fds' = DOMAIN fds \ {buffer.fd}
        /\ \A d \in DOMAIN fds' : fds'[d] = fds[d]
    BY <1>1, WithoutIs
  <1>5. fds' \in [DOMAIN fds' -> SourceFiles]
    BY <1>0, <1>1, <1>4, WithoutTyped DEF KernelTypes
  <1>6. buffer' \in BufferType BY <1>1 DEF NoBuffer, BufferType
  <1>7. KernelTypes' BY <1>0, <1>1, <1>4, <1>5, <1>6 DEF KernelTypes
  <1>8. \A f \in DOMAIN loaded : loaded[f].fd # buffer.fd
    <2>1. \A f \in DOMAIN loaded : fds[loaded[f].fd] = f BY <1>0 DEF Accounted
    <2>. QED BY <1>2, <2>1
  <1>9. DOMAIN fds = {loaded[f].fd : f \in DOMAIN loaded} \cup {buffer.fd}
    BY <1>0, <1>3 DEF Accounted, Constructing
  <1>10. Accounted'
    <2>1. Constructing' = {} BY <1>1 DEF Constructing, NoBuffer
    <2>2. DOMAIN fds' = {loaded'[f].fd : f \in DOMAIN loaded'} \cup Constructing'
      BY <1>1, <1>4, <1>8, <1>9, <2>1
    <2>3. \A f \in DOMAIN loaded' : loaded'[f].fd \in DOMAIN fds' /\ fds'[loaded'[f].fd] = f
      BY <1>0, <1>1, <1>4, <1>8 DEF Accounted
    <2>4. \A d, e \in DOMAIN fds' : fds'[d] = fds'[e] => d = e BY <1>0, <1>4 DEF Accounted
    <2>. QED BY <1>0, <1>1, <2>2, <2>3, <2>4 DEF Accounted
  <1>11. ConstructorInOrder' BY <1>1 DEF ConstructorInOrder, InConstructor
  <1>. QED BY <1>7, <1>10, <1>11 DEF Owned

LEMMA StoreOwned ==
  ASSUME BuildInOrder, NEW b, Store(b), InConstructor,
         \/ b = buffer /\ maps' = maps
         \/ /\ b = [buffer EXCEPT !.mapped = TRUE]
            /\ maps' = maps \cup {<<file, buffer.fd>>}
  PROVE  Owned'
  <1>0. KernelTypes /\ Accounted /\ ConstructorInOrder
    BY DEF BuildInOrder, BuildTypeOK, KernelTypes
  <1>1. /\ loaded' = Extend(loaded, file, b) /\ buffer' = NoBuffer /\ fds' = fds /\ pc' = "parse"
    BY DEF Store
  <1>2. /\ buffer.fd \in DOMAIN fds /\ fds[buffer.fd] = file /\ file \notin DOMAIN loaded
        /\ ~buffer.mapped
    BY <1>0 DEF ConstructorInOrder
  <1>3. file \in SourceFiles /\ buffer.fd # 0 /\ buffer.fd \in Descriptors
    BY <1>0, <1>2, SystemAssumption DEF KernelTypes
  <1>4. /\ b \in BufferType /\ b.fd = buffer.fd
        /\ b.mapped <=> maps' # maps
        /\ maps' = IF b.mapped THEN maps \cup {<<file, b.fd>>} ELSE maps
    <2>1. buffer \in BufferType BY <1>0 DEF KernelTypes
    <2>2. <<file, buffer.fd>> \notin maps
      <3>1. SUFFICES ASSUME <<file, buffer.fd>> \in maps PROVE FALSE OBVIOUS
      <3>2. PICK m \in maps : m = <<file, buffer.fd>> BY <3>1
      <3>3. m[1] = file BY <3>2
      <3>. QED BY <1>0, <1>2, <3>3 DEF Accounted
    <2>. QED BY <1>2, <2>1, <2>2 DEF BufferType
  <1>5. /\ DOMAIN loaded' = DOMAIN loaded \cup {file} /\ loaded'[file] = b
        /\ \A f \in DOMAIN loaded : loaded'[f] = loaded[f]
    BY <1>1, <1>2 DEF Extend
  <1>6. loaded' \in [DOMAIN loaded' -> BufferType]
    <2>1. loaded \in [DOMAIN loaded -> BufferType] BY <1>0 DEF KernelTypes
    <2>2. Extend(loaded, file, b) \in [DOMAIN loaded \cup {file} -> BufferType]
      BY <1>4, <2>1, ExtendTyped
    <2>. QED BY <1>1, <1>5, <2>2
  <1>7. buffer' \in BufferType BY <1>1 DEF NoBuffer, BufferType
  <1>8. maps' \subseteq SourceFiles \X Descriptors BY <1>0, <1>3, <1>4 DEF KernelTypes
  <1>9. KernelTypes' BY <1>0, <1>1, <1>3, <1>5, <1>6, <1>7, <1>8 DEF KernelTypes
  <1>10. \A m \in maps : m[1] \in DOMAIN loaded BY <1>0 DEF Accounted
  <1>11. \A m \in maps' : m \in maps \/ (b.mapped /\ m = <<file, b.fd>>) BY <1>4
  <1>12. Accounted'
    <2>1. \A f \in DOMAIN loaded' :
            /\ loaded'[f].fd \in DOMAIN fds' /\ fds'[loaded'[f].fd] = f
            /\ loaded'[f].mapped <=> <<f, loaded'[f].fd>> \in maps'
      <3>1. SUFFICES ASSUME NEW f \in DOMAIN loaded'
                     PROVE  /\ loaded'[f].fd \in DOMAIN fds' /\ fds'[loaded'[f].fd] = f
                            /\ loaded'[f].mapped <=> <<f, loaded'[f].fd>> \in maps'
        OBVIOUS
      <3>2. CASE f = file
        <4>1. loaded'[f] = b BY <1>5, <3>2
        <4>2. ~b.mapped => <<file, b.fd>> \notin maps'
          <5>1. SUFFICES ASSUME <<file, b.fd>> \in maps, maps' = maps PROVE FALSE BY <1>4
          <5>2. PICK m \in maps : m = <<file, b.fd>> BY <5>1
          <5>3. m[1] = file BY <5>2
          <5>. QED BY <1>2, <1>10, <5>3
        <4>3. b.mapped => <<file, b.fd>> \in maps' BY <1>4
        <4>. QED BY <1>1, <1>2, <1>4, <3>2, <4>1, <4>2, <4>3
      <3>3. CASE f \in DOMAIN loaded /\ f # file
        <4>1. loaded'[f] = loaded[f] BY <1>5, <3>3
        <4>2. <<f, loaded[f].fd>> \in maps' <=> <<f, loaded[f].fd>> \in maps
          BY <1>4, <3>3
        <4>. QED BY <1>0, <1>1, <3>3, <4>1, <4>2 DEF Accounted
      <3>. QED BY <1>2, <1>5, <3>2, <3>3
    <2>2. DOMAIN fds' = {loaded'[f].fd : f \in DOMAIN loaded'} \cup Constructing'
      <3>1. Constructing' = {} /\ Constructing = {b.fd}
        BY <1>1, <1>3, <1>4 DEF Constructing, NoBuffer
      <3>. QED BY <1>0, <1>1, <1>2, <1>5, <3>1 DEF Accounted
    <2>3. \A m \in maps' : m[1] \in DOMAIN loaded' /\ m[2] = loaded'[m[1]].fd
      <3>1. SUFFICES ASSUME NEW m \in maps' PROVE m[1] \in DOMAIN loaded' /\ m[2] = loaded'[m[1]].fd
        OBVIOUS
      <3>2. CASE m \in maps BY <1>0, <1>5, <3>2 DEF Accounted
      <3>3. CASE m = <<file, b.fd>> BY <1>5, <3>3
      <3>. QED BY <1>11, <3>2, <3>3
    <2>. QED BY <1>0, <1>1, <2>1, <2>2, <2>3 DEF Accounted
  <1>13. ConstructorInOrder' BY <1>1 DEF ConstructorInOrder, InConstructor
  <1>. QED BY <1>9, <1>12, <1>13 DEF Owned

LEMMA DestroyOwned ==
  ASSUME BuildInOrder, NEW f \in SourceFiles, DestroyMapped(f) \/ DestroyEmpty(f)
  PROVE  Owned'
  <1>0. KernelTypes /\ Accounted /\ ConstructorInOrder
    BY DEF BuildInOrder, BuildTypeOK, KernelTypes
  <1>1. /\ pc = "exit" /\ pc' = "exit" /\ f \in DOMAIN loaded /\ buffer' = buffer
        /\ loaded' = Without(loaded, f) /\ fds' = Without(fds, loaded[f].fd)
        /\ \/ loaded[f].mapped /\ maps' = maps \ {<<f, loaded[f].fd>>}
           \/ ~loaded[f].mapped /\ maps' = maps
    BY DEF DestroyMapped, DestroyEmpty, search
  <1>2. buffer = NoBuffer BY <1>0, <1>1 DEF ConstructorInOrder, InConstructor
  <1>3. \A g \in DOMAIN loaded : loaded[g].fd \in DOMAIN fds /\ fds[loaded[g].fd] = g
    BY <1>0 DEF Accounted
  <1>4. /\ DOMAIN loaded' = DOMAIN loaded \ {f}
        /\ \A g \in DOMAIN loaded' : loaded'[g] = loaded[g] /\ loaded[g].fd # loaded[f].fd
    BY <1>1, <1>3 DEF Without
  <1>5. /\ DOMAIN fds' = DOMAIN fds \ {loaded[f].fd}
        /\ \A d \in DOMAIN fds' : fds'[d] = fds[d]
    BY <1>1 DEF Without
  <1>6. KernelTypes'
    <2>1. loaded' \in [DOMAIN loaded' -> BufferType]
      <3>1. loaded \in [DOMAIN loaded -> BufferType] BY <1>0 DEF KernelTypes
      <3>. QED BY <1>1, <1>4, <3>1, WithoutTyped
    <2>2. fds' \in [DOMAIN fds' -> SourceFiles]
      <3>1. fds \in [DOMAIN fds -> SourceFiles] BY <1>0 DEF KernelTypes
      <3>. QED BY <1>1, <1>5, <3>1, WithoutTyped
    <2>3. maps' \subseteq maps BY <1>1
    <2>. QED BY <1>0, <1>1, <1>4, <1>5, <2>1, <2>2, <2>3 DEF KernelTypes
  <1>7. \A m \in maps' : m \in maps /\ m[1] # f
    <2>1. SUFFICES ASSUME NEW m \in maps', m[1] = f PROVE FALSE BY <1>1
    <2>2. m \in maps /\ m[2] = loaded[f].fd BY <1>0, <1>1, <2>1 DEF Accounted
    <2>3. m = <<m[1], m[2]>> BY <1>0, <2>2 DEF KernelTypes
    <2>4. <<f, loaded[f].fd>> \in maps /\ <<f, loaded[f].fd>> \in maps' BY <2>1, <2>2, <2>3
    <2>5. loaded[f].mapped BY <1>0, <1>1, <2>4 DEF Accounted
    <2>. QED BY <1>1, <2>4, <2>5
  <1>8. Accounted'
    <2>1. \A g \in DOMAIN loaded' :
            /\ loaded'[g].fd \in DOMAIN fds' /\ fds'[loaded'[g].fd] = g
            /\ loaded'[g].mapped <=> <<g, loaded'[g].fd>> \in maps'
      <3>1. SUFFICES ASSUME NEW g \in DOMAIN loaded'
                     PROVE  /\ loaded[g].fd \in DOMAIN fds' /\ fds'[loaded[g].fd] = g
                            /\ loaded[g].mapped <=> <<g, loaded[g].fd>> \in maps'
        BY <1>4
      <3>2. g \in DOMAIN loaded /\ g # f BY <1>4
      <3>3. loaded[g].mapped <=> <<g, loaded[g].fd>> \in maps BY <1>0, <3>2 DEF Accounted
      <3>4. <<g, loaded[g].fd>> \in maps <=> <<g, loaded[g].fd>> \in maps' BY <1>1, <3>2
      <3>. QED BY <1>3, <1>4, <1>5, <3>2, <3>3, <3>4
    <2>2. DOMAIN fds' = {loaded'[g].fd : g \in DOMAIN loaded'} \cup Constructing'
      <3>1. Constructing' = {} /\ Constructing = {} BY <1>1, <1>2 DEF Constructing, NoBuffer
      <3>2. DOMAIN fds = {loaded[g].fd : g \in DOMAIN loaded} BY <1>0, <3>1 DEF Accounted
      <3>3. {loaded'[g].fd : g \in DOMAIN loaded'} = {loaded[g].fd : g \in DOMAIN loaded \ {f}}
        BY <1>4
      <3>. QED BY <1>1, <1>4, <1>5, <3>1, <3>2, <3>3
    <2>3. \A m \in maps' : m[1] \in DOMAIN loaded' /\ m[2] = loaded'[m[1]].fd
      <3>1. SUFFICES ASSUME NEW m \in maps' PROVE m[1] \in DOMAIN loaded' /\ m[2] = loaded'[m[1]].fd
        OBVIOUS
      <3>2. m[1] \in DOMAIN loaded /\ m[2] = loaded[m[1]].fd BY <1>0, <1>7 DEF Accounted
      <3>. QED BY <1>4, <1>7, <3>2
    <2>4. \A d, e \in DOMAIN fds' : fds'[d] = fds'[e] => d = e BY <1>0, <1>5 DEF Accounted
    <2>. QED BY <2>1, <2>2, <2>3, <2>4 DEF Accounted
  <1>9. ConstructorInOrder' BY <1>1, <1>2 DEF ConstructorInOrder, InConstructor
  <1>. QED BY <1>6, <1>8, <1>9 DEF Owned

LEMMA OwnedStep ==
  ASSUME BuildInOrder, [BuildNext]_buildVars
  PROVE  Owned'
  <1>0. KernelTypes /\ Accounted /\ ConstructorInOrder
    BY DEF BuildInOrder, BuildTypeOK, KernelTypes
  <1>1. CASE Open BY <1>1, OpenOwned
  <1>2. CASE ConstructorFails BY <1>2, ConstructorFailsOwned
  <1>3. CASE StoreEmpty BY <1>3, StoreOwned DEF StoreEmpty, InConstructor
  <1>4. CASE Map
    <2>1. PICK b : b = [buffer EXCEPT !.mapped = TRUE] OBVIOUS
    <2>2. Store(b) /\ InConstructor BY <1>4, <2>1 DEF Map, InConstructor
    <2>3. maps' = maps \cup {<<file, buffer.fd>>} BY <1>4 DEF Map
    <2>. QED BY <2>1, <2>2, <2>3, StoreOwned
  <1>5. ASSUME NEW f \in SourceFiles, DestroyMapped(f) \/ DestroyEmpty(f) PROVE Owned'
    BY <1>5, DestroyOwned
  <1>6. CASE Canonical
    <2>1. UNCHANGED <<fds, maps, loaded, buffer>> BY <1>6 DEF Canonical, kernel
    <2>2. buffer = NoBuffer BY <1>0, <1>6 DEF Canonical, ConstructorInOrder, InConstructor
    <2>3. pc' = "parse" \/ (pc' = "open" /\ file' \notin DOMAIN loaded)
      BY <1>6 DEF Canonical, Known
    <2>4. KernelTypes' /\ Accounted'
      BY <1>0, <2>1 DEF KernelTypes, Accounted, Constructing
    <2>5. ConstructorInOrder' BY <2>1, <2>2, <2>3 DEF ConstructorInOrder, InConstructor
    <2>. QED BY <2>4, <2>5 DEF Owned
  <1>7. ASSUME /\ UNCHANGED <<fds, maps, loaded, buffer, file>>
               /\ InConstructor' <=> InConstructor
               /\ pc' = "open" => pc = "open"
               /\ pc' = "exited" => DOMAIN loaded = {}
        PROVE  Owned'
    <2>1. KernelTypes' /\ Accounted'
      BY <1>0, <1>7 DEF KernelTypes, Accounted, Constructing
    <2>2. ConstructorInOrder' BY <1>0, <1>7 DEF ConstructorInOrder
    <2>. QED BY <2>1, <2>2 DEF Owned
  <1>8. CASE \/ NextSource \/ SearchOn \/ SearchEnds \/ NotFound \/ StillThere \/ OpenFails
             \/ NotEmpty \/ MakeNode \/ Parsed \/ Unwind \/ TurnEnds \/ AllCompiled
    <2>1. UNCHANGED <<fds, maps, loaded, buffer, file>>
      BY <1>8 DEF NextSource, SearchOn, SearchEnds, NotFound, StillThere, OpenFails, NotEmpty,
                  MakeNode, Parsed, Unwind, TurnEnds, AllCompiled, Finished, kernel, search
    <2>2. /\ InConstructor' <=> InConstructor
          /\ pc' = "open" => pc = "open"
          /\ pc' # "exited"
      BY <1>8 DEF NextSource, SearchOn, SearchEnds, NotFound, StillThere, OpenFails, NotEmpty,
                  MakeNode, Parsed, Unwind, TurnEnds, AllCompiled, Finished, InConstructor
    <2>. QED BY <1>7, <2>1, <2>2
  <1>9. CASE \/ NotAName \/ ExistsThrows \/ CanonicalThrows \/ SyntaxError \/ LexerHangs \/ Exit
             \/ UNCHANGED buildVars
    BY <1>0, <1>7, <1>9 DEF NotAName, ExistsThrows, CanonicalThrows, SyntaxError, LexerHangs, Exit,
                            Terminate, kernel, search, buildVars, InConstructor, ConstructorInOrder
  <1>10. ASSUME NEW f \in SourceFiles, Change(f) PROVE Owned'
    BY <1>0, <1>7, <1>10 DEF Change, kernel, search, InConstructor, ConstructorInOrder
  <1>. QED BY <1>1, <1>2, <1>3, <1>4, <1>5, <1>6, <1>8, <1>9, <1>10 DEF BuildNext, Program, LoadFile

---------------------------------------------------------------------------
(* The rest of the types, and the sources tried.                           *)
LEMMA RestStep ==
  ASSUME BuildInOrder, [BuildNext]_buildVars
  PROVE  BuildTypeOK' /\ AllTried'
  <1>0. BuildTypeOK /\ AllTried /\ SearchInOrder BY DEF BuildInOrder
  <1>1. TypeOK' /\ KernelTypes' BY ArenaStep, OwnedStep DEF IInv, Owned
  <1>2. /\ present \subseteq SourceFiles /\ changes \in Nat /\ since \in Nat
        /\ place \in 1..Places /\ file \in SourceFiles \cup {NoFile}
        /\ sources \in Seq(Names \cup {NotAString}) /\ done \in Seq(Outcomes)
        /\ Len(done) <= Len(sources)
        /\ pc \in {"next", "exit", "exited"} => phase = "gone"
    BY <1>0 DEF BuildTypeOK
  <1>3. /\ \/ UNCHANGED <<present, changes>>
           \/ \E f \in SourceFiles : present' \subseteq present \cup {f} /\ changes' = changes + 1
        /\ sources' = sources
        /\ since' = since \/ since' = changes
        /\ place' = place \/ place' = 1 \/ (place < Places /\ place' = place + 1)
        /\ file' = file \/ file' \in present
        /\ pc' \in {"next", "exit", "exited"} => phase' = "gone"
    BY <1>2 DEF BuildNext, Program, LoadFile, NextSource, NotAName, SearchOn, SearchEnds, NotFound,
           StillThere, ExistsThrows, CanonicalThrows, Canonical, Open, OpenFails, NotEmpty, ConstructorFails,
           StoreEmpty, Map, MakeNode, SyntaxError, LexerHangs, Parsed, Unwind, TurnEnds, AllCompiled, Exit,
           DestroyMapped, DestroyEmpty, Change, Terminate, Finished, Store, Finds, vars, disk,
           search, buildVars
  <1>4. present' \subseteq SourceFiles /\ changes' \in Nat BY <1>2, <1>3
  <1>5. place' \in 1..Places BY <1>2, <1>3, PlacesAssumption
  <1>6. file' \in SourceFiles \cup {NoFile} BY <1>2, <1>3
  <1>7. since' \in Nat /\ sources' \in Seq(Names \cup {NotAString}) BY <1>2, <1>3
  <1>8. /\ done' \in Seq(Outcomes) /\ Len(done') <= Len(sources') /\ AllTried'
    <2>1. CASE NotFound \/ OpenFails \/ ConstructorFails \/ Parsed
      <3>1. Len(done) < Len(sources) BY <1>0, <2>1
        DEF NotFound, OpenFails, ConstructorFails, Parsed, SearchInOrder, Resolved
      <3>2. CASE Parsed
        <4>1. file \in SourceFiles /\ file = Path(place, Name)
          BY <1>0, <1>2, <3>2 DEF Parsed, SearchInOrder, Resolved
        <4>2. Finished(file) BY <3>2 DEF Parsed
        <4>. QED BY <1>2, <3>1, <4>1, <4>2, FinishedTries
      <3>3. CASE NotFound
        BY <3>1, <3>3, FinishedTries DEF NotFound, NotCompiled
      <3>4. CASE OpenFails \/ ConstructorFails
        BY <3>1, <3>4, FinishedTries DEF OpenFails, ConstructorFails, NotCompiled
      <3>. QED BY <2>1, <3>2, <3>3, <3>4
    <2>2. CASE AllCompiled
      BY <1>0, <1>2, <2>2 DEF AllCompiled, AllTried
    <2>3. CASE ~(NotFound \/ OpenFails \/ ConstructorFails \/ Parsed \/ AllCompiled)
      <3>1. done' = done
        BY <2>3 DEF BuildNext, Program, LoadFile, NextSource, NotAName, SearchOn, SearchEnds,
             StillThere, ExistsThrows, CanonicalThrows, Canonical, Open, NotEmpty, StoreEmpty, Map, MakeNode,
             SyntaxError, LexerHangs, Unwind, TurnEnds, Exit, DestroyMapped, DestroyEmpty, Change,
             Terminate, Store, buildVars
      <3>2. pc' \in {"exit", "exited"} => pc \in {"exit", "exited"}
        BY <2>3 DEF BuildNext, Program, LoadFile, NextSource, NotAName, SearchOn, SearchEnds,
             StillThere, ExistsThrows, CanonicalThrows, Canonical, Open, NotEmpty, StoreEmpty, Map, MakeNode,
             SyntaxError, LexerHangs, Unwind, TurnEnds, Exit, DestroyMapped, DestroyEmpty, Change,
             Terminate, Store, buildVars
      <3>. QED BY <1>0, <1>2, <1>3, <3>1, <3>2 DEF AllTried
    <2>. QED BY <2>1, <2>2, <2>3
  <1>. QED BY <1>1, <1>3, <1>4, <1>5, <1>6, <1>7, <1>8 DEF BuildTypeOK, KernelTypes

(* BuildInOrder is inductive.                                              *)
LEMMA BuildInit_InOrder == BuildInit => BuildInOrder
  <1> SUFFICES ASSUME BuildInit PROVE BuildInOrder OBVIOUS
  <1>1. IInv /\ Emptied
    BY DEF BuildInit, IInv, TypeOK, ListIsHeap, InsideUsed, BlocksAligned, BlocksApart, Emptied
  <1>2. sources \in Seq(Names \cup {NotAString}) BY SourcesAssumption DEF BuildInit
  <1>3. BuildTypeOK
    <2>1. DOMAIN fds = {} /\ fds \in [{} -> SourceFiles] BY DEF BuildInit
    <2>2. DOMAIN loaded = {} /\ loaded \in [{} -> BufferType] BY DEF BuildInit
    <2>3. done \in Seq(Outcomes) /\ Len(done) = 0 /\ Len(sources) \in Nat
      BY <1>2 DEF BuildInit
    <2>4. place \in 1..Places /\ buffer \in BufferType
      BY PlacesAssumption DEF BuildInit, NoBuffer, BufferType
    <2>. QED BY <1>1, <1>2, <2>1, <2>2, <2>3, <2>4 DEF BuildInit, BuildTypeOK, IInv
  <1>4. ConstructorInOrder /\ SearchInOrder
    BY DEF BuildInit, ConstructorInOrder, InConstructor, SearchInOrder, Resolved
  <1>5. Accounted
    <2>1. DOMAIN fds = {} /\ DOMAIN loaded = {} /\ Constructing = {} /\ maps = {}
      BY DEF BuildInit, Constructing, NoBuffer
    <2>. QED BY <2>1 DEF Accounted
  <1>6. AllTried BY DEF BuildInit, AllTried
  <1>. QED BY <1>1, <1>3, <1>4, <1>5, <1>6 DEF BuildInOrder, Emptied

LEMMA BuildStep == BuildInOrder /\ [BuildNext]_buildVars => BuildInOrder'
  BY ArenaStep, SearchStep, OwnedStep, RestStep DEF BuildInOrder, Owned, Emptied

THEOREM BuildStaysInOrder == BuildSpec => []BuildInOrder
  BY BuildInit_InOrder, BuildStep, PTL DEF BuildSpec

---------------------------------------------------------------------------
(* No descriptor and no mapping is lost, whatever fails.                   *)
THEOREM AllAccounted == BuildSpec => []Accounted
  BY BuildStaysInOrder, PTL DEF BuildInOrder

(* A build that ends has tried every source.                               *)
THEOREM EverySourceTried == BuildSpec => []AllTried
  BY BuildStaysInOrder, PTL DEF BuildInOrder

(* The nodes of every file, as long as they are used, are apart, aligned,  *)
(* and in memory the arena owns.                                           *)
THEOREM NodesAreSafe == BuildSpec => []BlocksSafe
  <1>1. BuildInOrder => BlocksSafe BY InOrderIsSafe DEF BuildInOrder
  <1>. QED BY <1>1, BuildStaysInOrder, PTL

(* When partio exits, everything has been given back.                      *)
THEOREM ExitIsClean == BuildSpec => []CleanExit
  <1>1. BuildInOrder => CleanExit
    <2>1. SUFFICES ASSUME BuildInOrder, pc = "exited" PROVE DOMAIN fds = {} /\ maps = {} /\ heap = {}
      BY DEF CleanExit
    <2>2. DOMAIN loaded = {} /\ buffer = NoBuffer
      BY <2>1 DEF BuildInOrder, ConstructorInOrder, InConstructor
    <2>3. DOMAIN fds = {} /\ maps = {}
      BY <2>1, <2>2 DEF BuildInOrder, Accounted, Constructing, NoBuffer
    <2>4. heap = {} BY <2>1 DEF BuildInOrder, BuildTypeOK, IInv, ListIsHeap
    <2>. QED BY <2>3, <2>4
  <1>. QED BY <1>1, BuildStaysInOrder, PTL

(* No loaded buffer goes or changes while something may still point there. *)
THEOREM BuffersAreStable == BuildSpec => BuffersStay
  <1>1. ASSUME BuildInOrder, BuildNext, pc # "exit", NEW f \in DOMAIN loaded
        PROVE  f \in DOMAIN loaded' /\ loaded'[f] = loaded[f]
    <2>1. CASE StoreEmpty \/ Map
      <3>1. PICK b : loaded' = Extend(loaded, file, b) BY <2>1 DEF StoreEmpty, Map, Store
      <3>2. file \notin DOMAIN loaded
        BY <1>1, <2>1 DEF StoreEmpty, Map, BuildInOrder, ConstructorInOrder, InConstructor
      <3>. QED BY <1>1, <3>1, <3>2 DEF Extend
    <2>2. CASE ~(StoreEmpty \/ Map)
      BY <1>1, <2>2 DEF BuildNext, Program, LoadFile, NextSource, NotAName, SearchOn, SearchEnds,
           NotFound, StillThere, ExistsThrows, CanonicalThrows, Canonical, Open, OpenFails, NotEmpty,
           ConstructorFails, MakeNode, SyntaxError, LexerHangs, Parsed, Unwind, TurnEnds, AllCompiled, Exit,
           DestroyMapped, DestroyEmpty, Change, Terminate
    <2>. QED BY <2>1, <2>2
  <1>2. BuildInOrder /\ [BuildNext]_buildVars =>
          [pc # "exit" => \A f \in DOMAIN loaded : f \in DOMAIN loaded' /\ loaded'[f] = loaded[f]]_buildVars
    BY <1>1
  <1>. QED BY <1>2, BuildStaysInOrder, PTL DEF BuildSpec, BuffersStay

---------------------------------------------------------------------------
(* What the search finds.  That "not found" was said of the last source is *)
(* remembered until the turn ends.                                         *)
NotFoundIsTrue ==
  pc = "unwind" =>
    /\ done # <<>>
    /\ Undisturbed /\ done[Len(done)] = "not found" =>
         \A p \in 1..Places : Path(p, sources[Len(done)]) \notin present

LEMMA NotFoundStep ==
  ASSUME BuildInOrder, NotFoundIsTrue, [BuildNext]_buildVars
  PROVE  NotFoundIsTrue'
  <1>0. BuildTypeOK /\ SearchInOrder BY DEF BuildInOrder
  <1>1. CASE NotFound \/ OpenFails \/ ConstructorFails \/ Parsed
    <2>1. Len(done) < Len(sources)
      BY <1>0, <1>1 DEF NotFound, OpenFails, ConstructorFails, Parsed, SearchInOrder, Resolved
    <2>2. PICK outcome \in Outcomes :
            /\ Finished(outcome)
            /\ outcome = "not found" => NotFound
      <3>1. CASE NotFound BY <3>1 DEF NotFound, Outcomes, NotCompiled
      <3>2. CASE OpenFails \/ ConstructorFails
        <4>1. Finished("not loaded") BY <3>2 DEF OpenFails, ConstructorFails
        <4>2. "not loaded" \in Outcomes /\ "not loaded" # "not found" BY DEF Outcomes, NotCompiled
        <4>. QED BY <4>1, <4>2
      <3>3. CASE Parsed
        <4>1. file \in SourceFiles
          BY <1>0, <3>3 DEF Parsed, SearchInOrder, Resolved, BuildTypeOK
        <4>. QED BY <3>3, <4>1, SystemAssumption DEF Parsed, Outcomes
      <3>. QED BY <1>1, <3>1, <3>2, <3>3
    <2>3. PICK n \in Nat : n = Len(done) BY <1>0 DEF BuildTypeOK
    <2>4. done \in Seq(Outcomes) /\ done' = Append(done, outcome)
      BY <1>0, <2>2 DEF BuildTypeOK, Finished
    <2>5. Len(done') = n + 1 /\ done'[n + 1] = outcome /\ done' # <<>> BY <2>3, <2>4
    <2>6. UNCHANGED <<sources, present, changes, since>> BY <2>2 DEF Finished, disk
    <2>7. CASE NotFound
      <3>1. Undisturbed => \A p \in 1..Places : ~Finds(p)
        BY <1>0, <2>7 DEF NotFound, SearchInOrder
      <3>2. Undisturbed' <=> Undisturbed BY <2>6 DEF Undisturbed
      <3>3. Undisturbed' => \A p \in 1..Places : Path(p, sources'[n + 1]) \notin present'
        BY <2>3, <2>6, <3>1, <3>2 DEF Finds, Name, Path
      <3>. QED BY <2>5, <3>3 DEF NotFoundIsTrue, Path
    <2>8. CASE outcome # "not found" BY <2>5, <2>8 DEF NotFoundIsTrue
    <2>. QED BY <2>2, <2>7, <2>8
  <1>2. ASSUME NEW f \in SourceFiles, Change(f) PROVE NotFoundIsTrue'
    <2>1. ~Undisturbed' /\ done' = done /\ pc' = pc
      BY <1>0, <1>2 DEF Change, search, SearchInOrder, BuildTypeOK, Undisturbed
    <2>. QED BY <2>1 DEF NotFoundIsTrue
  <1>3. CASE Unwind \/ UNCHANGED buildVars
    <2>1. UNCHANGED <<pc, done, sources, present, changes, since>>
      BY <1>3 DEF Unwind, disk, search, buildVars
    <2>. QED BY <2>1 DEF NotFoundIsTrue, Undisturbed, Path
  <1>4. CASE pc' # "unwind" BY <1>4 DEF NotFoundIsTrue
  <1>5. \/ NotFound \/ OpenFails \/ ConstructorFails \/ Parsed
        \/ \E f \in SourceFiles : Change(f)
        \/ Unwind \/ UNCHANGED buildVars \/ pc' # "unwind"
    BY DEF BuildNext, Program, LoadFile, NextSource, NotAName, SearchOn, SearchEnds,
           StillThere, ExistsThrows, CanonicalThrows, Canonical, Open, NotEmpty, StoreEmpty, Map, MakeNode,
           SyntaxError, LexerHangs, TurnEnds, AllCompiled, Exit, DestroyMapped, DestroyEmpty,
           Terminate, Store
  <1>. QED BY <1>1, <1>2, <1>3, <1>4, <1>5

(* What is compiled is the first file of its name, and "not found" means   *)
(* that there is none, as long as no file came or went meanwhile.          *)
THEOREM FirstIsFound == BuildSpec => []FirstFound
  <1>1. BuildInit => NotFoundIsTrue BY DEF BuildInit, NotFoundIsTrue
  <1>2. BuildSpec => []NotFoundIsTrue
    BY <1>1, NotFoundStep, BuildStaysInOrder, PTL DEF BuildSpec
  <1>3. ASSUME BuildInOrder, NotFoundIsTrue PROVE FirstFound
    <2>1. ASSUME pc = "parse", Undisturbed
          PROVE  \E p \in 1..Places :
                   /\ file = Path(p, Name) /\ file \in present
                   /\ \A q \in 1..(p - 1) : ~Finds(q)
      BY <1>3, <2>1 DEF BuildInOrder, BuildTypeOK, SearchInOrder, Resolved, NoneBefore
    <2>. QED BY <1>3, <2>1 DEF FirstFound, NotFoundIsTrue
  <1>. QED BY <1>2, <1>3, BuildStaysInOrder, PTL
=============================================================================
