-------------------------- MODULE StringPoolProofs -------------------------
(***************************************************************************)
(* Proofs about StringPool, for any texts, hashes and sizes, as long as    *)
(* ids tell all chunks apart: the loops of intern() keep the table, the    *)
(* memory and what they have passed consistent (IInv), so a text is stored *)
(* once, records stay apart, and the pool is an Interner.                  *)
(***************************************************************************)
EXTENDS StringPool, TLAPS

(* The slot a hash selects exists.                                         *)
LEMMA HomeIsSlot ==
  ASSUME NEW s \in Strings, NEW n \in Nat \ {0}
  PROVE  Home(s, n) \in 0..(n - 1)
  <1>1. Hash[s] \in Nat BY StringsAssumption
  <1>. QED BY <1>1 DEF Home

(* One step of a probe passes one slot more ...                            *)
LEMMA BetweenNext ==
  ASSUME size \in Nat \ {0}, NEW h \in 0..(size - 1), NEW i \in 0..(size - 1)
  PROVE  /\ NextSlot(i) \in 0..(size - 1)
         /\ Between(h, NextSlot(i)) \subseteq Between(h, i) \cup {i}
  BY DEF Between, NextSlot

(* ... of two slots one is passed on the way to the other ...              *)
LEMMA BetweenSplit ==
  ASSUME size \in Nat \ {0}, NEW h \in 0..(size - 1),
         NEW i \in 0..(size - 1), NEW k \in 0..(size - 1), i # k
  PROVE  i \in Between(h, k) \/ k \in Between(h, i)
  BY DEF Between

(* ... and none on the way from a slot to itself.                          *)
LEMMA BetweenNone ==
  ASSUME size \in Nat \ {0}, NEW h \in 0..(size - 1)
  PROVE  Between(h, h) = {}
  BY DEF Between

(* An id is where its record is.                                           *)
LEMMA IdIsPosition ==
  ASSUME NEW c \in Nat, c < ChunkIds, NEW o \in Nat
  PROVE  Id(c, o) = <<c, o>>
  <1>1. c % ChunkIds = c BY SizesAssumption
  <1>. QED BY <1>1 DEF Id

---------------------------------------------------------------------------
LEMMA InitIInv == Init => IInv
  <1> SUFFICES ASSUME Init PROVE IInv OBVIOUS
  <1>1. TypeOK
    BY SizesAssumption, NoIdAssumption, StringsAssumption
    DEF Init, TypeOK, MemoryTypes, TableTypes, EmptyTable, Ids
  <1>2. Reachable /\ Listed /\ Probed
    BY SizesAssumption DEF Init, Reachable, Listed, Probed, EmptyTable
  <1>3. RecordsApart /\ StoredOnce /\ Len(used) <= MaxChunks
    BY SizesAssumption DEF Init, RecordsApart, StoredOnce
  <1>. QED BY <1>1, <1>2, <1>3 DEF IInv

---------------------------------------------------------------------------
LEMMA TypeStep ==
  ASSUME IInv, [Next]_vars
  PROVE  TypeOK'
  <1>. TypeOK BY DEF IInv
  <1>. USE DEF TypeOK
  <1>1. ASSUME NEW s \in Strings, Intern(s) PROVE TypeOK'
    <2>1. Home(s, size) \in 0..(size - 1) BY HomeIsSlot DEF TableTypes
    <2>2. TableTypes' BY <1>1, <2>1, StringsAssumption DEF Intern, TableTypes
    <2>. QED BY <1>1, <2>2 DEF Intern, memory, MemoryTypes
  <1>2. ASSUME NEW s \in Strings, InternAndGrow(s) PROVE TypeOK'
    <2>1. table' \in [0..(size' - 1) -> Ids \cup {NoId}]
      BY <1>2 DEF InternAndGrow, EmptyTable, TableTypes
    <2>2. (2 * size) \div 2 = size BY DEF TableTypes
    <2>3. old' \in [0..(size' \div 2 - 1) -> Ids \cup {NoId}]
      BY <1>2, <2>2 DEF InternAndGrow, TableTypes
    <2>4. TableTypes' BY <1>2, <2>1, <2>3, StringsAssumption DEF InternAndGrow, TableTypes
    <2>. QED BY <1>2, <2>4 DEF InternAndGrow, memory, MemoryTypes
  <1>3. CASE SkipEmpty
    <2>1. TableTypes' BY <1>3 DEF SkipEmpty, TableTypes
    <2>. QED BY <1>3, <2>1 DEF SkipEmpty, memory, MemoryTypes
  <1>4. CASE HashAgain
    <2>1. text[old[pos]] \in Strings
      BY <1>4 DEF HashAgain, IInv, Listed, MemoryTypes
    <2>2. Home(text[old[pos]], size) \in 0..(size - 1)
      BY <2>1, HomeIsSlot DEF TableTypes
    <2>3. TableTypes' BY <1>4, <2>2 DEF HashAgain, TableTypes
    <2>. QED BY <1>4, <2>3 DEF HashAgain, memory, MemoryTypes
  <1>5. CASE PlaceFurther
    <2>1. idx' \in Nat /\ idx' < size BY <1>5 DEF PlaceFurther, NextSlot, TableTypes
    <2>2. TableTypes' BY <1>5, <2>1 DEF PlaceFurther, TableTypes
    <2>. QED BY <1>5, <2>2 DEF PlaceFurther, memory, MemoryTypes
  <1>6. CASE Place
    <2>1. old[pos] \in Ids BY <1>6 DEF Place, TableTypes
    <2>2. table' \in [0..(size - 1) -> Ids \cup {NoId}] BY <1>6, <2>1 DEF Place, TableTypes
    <2>3. TableTypes' BY <1>6, <2>2 DEF Place, TableTypes
    <2>. QED BY <1>6, <2>3 DEF Place, memory, MemoryTypes
  <1>7. CASE Rehashed
    <2>1. str \in Strings BY <1>7 DEF Rehashed, TableTypes
    <2>2. Home(str, size) \in 0..(size - 1) BY <2>1, HomeIsSlot DEF TableTypes
    <2>3. TableTypes' BY <1>7, <2>2 DEF Rehashed, TableTypes
    <2>. QED BY <1>7, <2>3 DEF Rehashed, memory, MemoryTypes
  <1>8. CASE Found
    <2>1. table[idx] \in Ids BY <1>8 DEF Found, TableTypes
    <2>2. TableTypes' BY <1>8, StringsAssumption DEF Found, TableTypes
    <2>. QED BY <1>8, <2>1, <2>2 DEF Found, memory, MemoryTypes
  <1>9. CASE ProbeFurther
    <2>1. idx' \in Nat /\ idx' < size BY <1>9 DEF ProbeFurther, NextSlot, TableTypes
    <2>2. TableTypes' BY <1>9, <2>1 DEF ProbeFurther, TableTypes
    <2>. QED BY <1>9, <2>2 DEF ProbeFurther, memory, MemoryTypes
  <1>10. ASSUME NEW c \in Nat, NEW o \in Nat, pc = "probe", Record(c, o),
                used' \in Seq(Nat), used' # <<>>
         PROVE  TypeOK'
    <2>1. Id(c, o) \in Ids BY SizesAssumption DEF Id, Ids
    <2>2. str \in Strings BY <1>10 DEF TableTypes
    <2>3. DOMAIN text' = DOMAIN text \cup {<<c, o>>} BY <1>10 DEF Record
    <2>4. text' \in [DOMAIN text' -> Strings] BY <1>10, <2>2, <2>3 DEF Record, MemoryTypes
    <2>5. DOMAIN text' \subseteq Ids BY <2>3 DEF Ids, MemoryTypes
    <2>6. table' \in [0..(size - 1) -> Ids \cup {NoId}]
      BY <1>10, <2>1 DEF Record, TableTypes
    <2>7. TableTypes' BY <1>10, <2>6, StringsAssumption DEF Record, TableTypes
    <2>. QED BY <1>10, <2>1, <2>4, <2>5, <2>7 DEF Record, MemoryTypes
  <1>11. Len(used) \in Nat \ {0} /\ used[Len(used)] \in Nat BY DEF MemoryTypes
  <1>12. Offset \in Nat BY <1>11 DEF Offset, AlignUp
  <1>13. ASSUME pc = "probe" PROVE Needed \in Nat
    BY <1>13, StringsAssumption DEF Needed, TableTypes
  <1>14. CASE Add
    <2>1. used' \in Seq(Nat) /\ used' # <<>>
      BY <1>11, <1>12, <1>13, <1>14 DEF Add, MemoryTypes
    <2>. QED BY <1>10, <1>11, <1>12, <1>14, <2>1 DEF Add
  <1>15. CASE AddInNewChunk
    <2>1. used' \in Seq(Nat) /\ used' # <<>> BY <1>13, <1>15 DEF AddInNewChunk, MemoryTypes
    <2>. QED BY <1>10, <1>11, <1>15, <2>1 DEF AddInNewChunk
  <1>16. CASE UNCHANGED vars BY <1>16 DEF vars, memory, MemoryTypes, TableTypes
  <1>. QED
    BY <1>1, <1>2, <1>3, <1>4, <1>5, <1>6, <1>7, <1>8, <1>9, <1>14, <1>15, <1>16 DEF Next

---------------------------------------------------------------------------
(* Memory: a new record begins behind the last one of its chunk.           *)
LEMMA RecordEndIsNat ==
  ASSUME TypeOK, NEW p \in DOMAIN text
  PROVE  /\ RecordEnd(p) \in Nat /\ p[1] \in Nat /\ p[2] \in Nat
         /\ p = <<p[1], p[2]>> /\ RecordEnd(p) > p[2] /\ text[p] \in Strings
         /\ Length[text[p]] \in Nat
  <1>1. p \in Ids /\ text[p] \in Strings BY DEF TypeOK, MemoryTypes
  <1>2. Length[text[p]] \in Nat BY <1>1, StringsAssumption
  <1>. QED BY <1>1, <1>2 DEF Ids, RecordEnd

LEMMA OffsetIsBehind ==
  ASSUME TypeOK
  PROVE  /\ Len(used) \in Nat \ {0} /\ used[Len(used)] \in Nat
         /\ Offset \in Nat /\ Offset % 4 = 0 /\ used[Len(used)] <= Offset
  <1>1. Len(used) \in Nat \ {0} /\ used[Len(used)] \in Nat BY DEF TypeOK, MemoryTypes
  <1>. QED BY <1>1 DEF Offset, AlignUp

LEMMA AddStoresApart ==
  ASSUME IInv, Add
  PROVE  RecordsApart' /\ Len(used') = Len(used) /\ <<Len(used) - 1, Offset>> \notin DOMAIN text
  <1>. DEFINE n == Len(used)
  <1>. PICK new : new = <<n - 1, Offset>> OBVIOUS
  <1>0. TypeOK BY DEF IInv
  <1>1. n \in Nat \ {0} /\ used[n] \in Nat /\ Offset \in Nat /\ Offset % 4 = 0 /\ used[n] <= Offset
    BY <1>0, OffsetIsBehind
  <1>2. str \in Strings /\ Length[str] \in Nat
    BY <1>0, StringsAssumption DEF Add, TypeOK, TableTypes
  <1>3. \A p \in DOMAIN text : p[1] = n - 1 => RecordEnd(p) <= Offset
    <2>1. SUFFICES ASSUME NEW p \in DOMAIN text, p[1] = n - 1 PROVE RecordEnd(p) <= Offset
      OBVIOUS
    <2>2. RecordEnd(p) <= used[n] BY <1>1, <2>1 DEF IInv, RecordsApart
    <2>. QED BY <1>0, <1>1, <2>2, RecordEndIsNat
  <1>4. new \notin DOMAIN text
    <2>1. SUFFICES ASSUME new \in DOMAIN text PROVE FALSE OBVIOUS
    <2>2. RecordEnd(new) <= Offset BY <1>1, <1>3, <2>1
    <2>3. RecordEnd(new) > Offset /\ RecordEnd(new) \in Nat BY <1>0, <2>1, RecordEndIsNat
    <2>. QED BY <1>1, <2>2, <2>3
  <1>5. /\ DOMAIN text' = DOMAIN text \cup {new} /\ text'[new] = str
        /\ \A p \in DOMAIN text : text'[p] = text[p]
    BY <1>4 DEF Add, Record
  <1>6. /\ Len(used') = n /\ used'[n] = Offset + Needed
        /\ \A c \in 1..n : c # n => used'[c] = used[c]
    BY <1>0, <1>1 DEF Add, TypeOK, MemoryTypes
  <1>7. RecordEnd(new)' = Offset + Needed /\ Needed \in Nat /\ Needed = Length[str] + 4
    BY <1>1, <1>2, <1>5 DEF RecordEnd, Needed
  <1>8. \A p \in DOMAIN text : RecordEnd(p)' = RecordEnd(p)
    BY <1>5 DEF RecordEnd
  <1>9. ASSUME NEW p \in DOMAIN text'
        PROVE  /\ p[2] % 4 = 0 /\ p[1] < n /\ RecordEnd(p)' <= used'[p[1] + 1]
               /\ RecordEnd(p)' <= Capacity \/ (p[2] = 0 /\ Length[text'[p]] + 4 > Capacity)
    <2>1. CASE p = new
      <3>1. Offset + Needed <= Capacity BY DEF Add, Fits
      <3>. QED BY <1>1, <1>6, <1>7, <2>1, <3>1
    <2>2. CASE p \in DOMAIN text
      <3>1. /\ p[2] % 4 = 0 /\ p[1] < n /\ RecordEnd(p) <= used[p[1] + 1]
            /\ RecordEnd(p) <= Capacity \/ (p[2] = 0 /\ Length[text[p]] + 4 > Capacity)
        BY <2>2 DEF IInv, RecordsApart
      <3>2. RecordEnd(p) \in Nat /\ p[1] \in Nat BY <1>0, <2>2, RecordEndIsNat
      <3>3. RecordEnd(p) <= used'[p[1] + 1]
        <4>1. CASE p[1] = n - 1
          <5>1. p[1] + 1 = n BY <1>1, <4>1
          <5>2. RecordEnd(p) <= Offset BY <1>3, <2>2, <4>1
          <5>3. used'[p[1] + 1] = Offset + Needed BY <1>6, <5>1
          <5>. QED BY <1>1, <1>7, <3>2, <5>2, <5>3
        <4>2. CASE p[1] # n - 1
          <5>1. p[1] + 1 \in 1..n /\ p[1] + 1 # n BY <1>1, <3>1, <3>2, <4>2
          <5>. QED BY <1>6, <3>1, <5>1
        <4>. QED BY <4>1, <4>2
      <3>. QED BY <1>5, <1>8, <2>2, <3>1, <3>3
    <2>. QED BY <1>5, <2>1, <2>2
  <1>10. ASSUME NEW p \in DOMAIN text', NEW q \in DOMAIN text', p[1] = q[1], p # q
         PROVE  RecordEnd(p)' <= q[2] \/ RecordEnd(q)' <= p[2]
    <2>1. CASE p = new /\ q \in DOMAIN text BY <1>3, <1>8, <1>10, <2>1
    <2>2. CASE q = new /\ p \in DOMAIN text BY <1>3, <1>8, <1>10, <2>2
    <2>3. CASE p \in DOMAIN text /\ q \in DOMAIN text
      BY <1>8, <1>10, <2>3 DEF IInv, RecordsApart
    <2>. QED BY <1>5, <1>10, <2>1, <2>2, <2>3
  <1>. QED BY <1>4, <1>6, <1>9, <1>10 DEF RecordsApart

LEMMA NewChunkStoresApart ==
  ASSUME IInv, AddInNewChunk
  PROVE  RecordsApart' /\ Len(used') = Len(used) + 1 /\ <<Len(used), 0>> \notin DOMAIN text
  <1>. DEFINE n == Len(used)
  <1>. PICK new : new = <<n, 0>> OBVIOUS
  <1>0. TypeOK BY DEF IInv
  <1>1. n \in Nat \ {0} /\ Offset \in Nat BY <1>0, OffsetIsBehind
  <1>2. str \in Strings /\ Length[str] \in Nat
    BY <1>0, StringsAssumption DEF AddInNewChunk, TypeOK, TableTypes
  <1>3. \A p \in DOMAIN text : p[1] < n BY DEF IInv, RecordsApart
  <1>4. new \notin DOMAIN text BY <1>1, <1>3
  <1>5. /\ DOMAIN text' = DOMAIN text \cup {new} /\ text'[new] = str
        /\ \A p \in DOMAIN text : text'[p] = text[p]
    BY <1>4 DEF AddInNewChunk, Record
  <1>7. RecordEnd(new)' = Needed /\ Needed \in Nat /\ Needed = Length[str] + 4
    BY <1>1, <1>2, <1>5 DEF RecordEnd, Needed
  <1>6. Len(used') = n + 1 /\ used'[n + 1] = Needed /\ \A c \in 1..n : used'[c] = used[c]
    BY <1>0, <1>1, <1>7 DEF AddInNewChunk, TypeOK, MemoryTypes
  <1>8. \A p \in DOMAIN text : RecordEnd(p)' = RecordEnd(p)
    BY <1>5 DEF RecordEnd
  <1>9. ASSUME NEW p \in DOMAIN text'
        PROVE  /\ p[2] % 4 = 0 /\ p[1] < n + 1 /\ RecordEnd(p)' <= used'[p[1] + 1]
               /\ RecordEnd(p)' <= Capacity \/ (p[2] = 0 /\ Length[text'[p]] + 4 > Capacity)
    <2>1. CASE p = new
      BY <1>1, <1>2, <1>5, <1>6, <1>7, <2>1, SizesAssumption
    <2>2. CASE p \in DOMAIN text
      <3>1. /\ p[2] % 4 = 0 /\ p[1] < n /\ RecordEnd(p) <= used[p[1] + 1]
            /\ RecordEnd(p) <= Capacity \/ (p[2] = 0 /\ Length[text[p]] + 4 > Capacity)
        BY <2>2 DEF IInv, RecordsApart
      <3>2. p[1] \in Nat BY <1>0, <2>2, RecordEndIsNat
      <3>. QED BY <1>1, <1>5, <1>6, <1>8, <2>2, <3>1, <3>2
    <2>. QED BY <1>5, <2>1, <2>2
  <1>10. ASSUME NEW p \in DOMAIN text', NEW q \in DOMAIN text', p[1] = q[1], p # q
         PROVE  RecordEnd(p)' <= q[2] \/ RecordEnd(q)' <= p[2]
    <2>1. p \in DOMAIN text /\ q \in DOMAIN text BY <1>1, <1>3, <1>5, <1>10
    <2>. QED BY <1>8, <1>10, <2>1 DEF IInv, RecordsApart
  <1>. QED BY <1>4, <1>6, <1>9, <1>10 DEF RecordsApart

---------------------------------------------------------------------------
(* Table: a probe that ends at an empty slot has not missed the text.      *)
LEMMA NotStored ==
  ASSUME IInv, pc = "probe", table[idx] = NoId
  PROVE  \A p \in DOMAIN text : text[p] # str
  <1>. DEFINE h == Home(str, size)
  <1>0. TypeOK BY DEF IInv
  <1>1. size \in Nat \ {0} /\ idx \in 0..(size - 1) /\ str \in Strings
    BY <1>0 DEF TypeOK, TableTypes
  <1>2. h \in 0..(size - 1) BY <1>1, HomeIsSlot
  <1>3. SUFFICES ASSUME NEW p \in DOMAIN text, text[p] = str PROVE FALSE OBVIOUS
  <1>4. p \in Ids BY <1>0 DEF TypeOK, MemoryTypes
  <1>5. PICK i \in 0..(size - 1) : table[i] = p BY DEF IInv, Listed, InTable, InOld
  <1>6. table[i] # NoId /\ i # idx BY <1>4, <1>5, NoIdAssumption DEF Ids
  <1>7. i \in Between(h, idx) \/ idx \in Between(h, i)
    BY <1>1, <1>2, <1>6, BetweenSplit
  <1>8. i \notin Between(h, idx) BY <1>3, <1>5 DEF IInv, Probed
  <1>9. idx \notin Between(h, i) BY <1>3, <1>5, <1>6 DEF IInv, Reachable
  <1>. QED BY <1>7, <1>8, <1>9

(* Storing a text that is not there, in the slot its probe ended at, under *)
(* the id that says where its record is, keeps every other text findable.  *)
LEMMA RecordStep ==
  ASSUME IInv, pc = "probe", table[idx] = NoId, TypeOK',
         NEW c \in Nat, NEW o \in Nat, c < ChunkIds,
         <<c, o>> \notin DOMAIN text, Record(c, o)
  PROVE  Reachable' /\ Listed' /\ Probed' /\ StoredOnce'
  <1>. PICK new : new = <<c, o>> OBVIOUS
  <1>0. TypeOK BY DEF IInv
  <1>1. /\ size' = size /\ size \in Nat \ {0} /\ idx \in 0..(size - 1) /\ pc' = "idle"
        /\ table \in [0..(size - 1) -> Ids \cup {NoId}]
    BY <1>0 DEF TypeOK, TableTypes, Record
  <1>2. new \in Ids /\ new # NoId BY NoIdAssumption DEF Ids
  <1>3. /\ DOMAIN text' = DOMAIN text \cup {new} /\ text'[new] = str
        /\ \A p \in DOMAIN text : text'[p] = text[p]
    BY DEF Record
  <1>4. table'[idx] = new /\ \A i \in 0..(size - 1) : i # idx => table'[i] = table[i]
    BY <1>1, IdIsPosition DEF Record
  <1>5. \A p \in DOMAIN text : text[p] # str BY NotStored
  <1>6. StoredOnce' BY <1>3, <1>5 DEF IInv, StoredOnce
  <1>7. Reachable'
    <2>1. SUFFICES ASSUME NEW i \in 0..(size - 1), table'[i] # NoId
                   PROVE  /\ table'[i] \in DOMAIN text'
                          /\ \A j \in Between(Home(text'[table'[i]], size), i) : table'[j] # NoId
      BY <1>1 DEF Reachable, Between, Home
    <2>2. CASE i = idx
      BY <1>1, <1>2, <1>3, <1>4, <2>2, SMTT(30) DEF IInv, Probed, Between
    <2>3. CASE i # idx
      <3>1. table[i] = table'[i] BY <1>4, <2>3
      <3>2. /\ table[i] \in DOMAIN text
            /\ \A j \in Between(Home(text[table[i]], size), i) : table[j] # NoId
        BY <2>1, <3>1 DEF IInv, Reachable
      <3>3. text'[table[i]] = text[table[i]] BY <1>3, <3>2
      <3>4. \A j \in 0..(size - 1) : table[j] # NoId => table'[j] # NoId BY <1>2, <1>4
      <3>. QED BY <1>3, <3>1, <3>2, <3>3, <3>4 DEF Between
    <2>. QED BY <2>2, <2>3
  <1>8. Listed'
    <2>1. SUFFICES ASSUME NEW p \in DOMAIN text'
                   PROVE  \E i \in 0..(size - 1) : table'[i] = p
      BY <1>1 DEF Listed, InTable
    <2>2. CASE p = new BY <1>1, <1>4, <2>2
    <2>3. CASE p \in DOMAIN text
      <3>1. PICK i \in 0..(size - 1) : table[i] = p BY <2>3 DEF IInv, Listed, InTable, InOld
      <3>2. p # NoId BY <1>0, <2>3, NoIdAssumption DEF TypeOK, MemoryTypes, Ids
      <3>. QED BY <1>4, <3>1, <3>2
    <2>. QED BY <1>3, <2>2, <2>3
  <1>9. Probed' BY <1>1 DEF Probed
  <1>. QED BY <1>6, <1>7, <1>8, <1>9

---------------------------------------------------------------------------
(* The steps that store nothing move slots at most.                        *)
Quiet == UNCHANGED <<used, text>>

LEMMA QuietMemory ==
  ASSUME IInv, Quiet
  PROVE  RecordsApart' /\ StoredOnce' /\ Len(used') <= MaxChunks
  BY DEF IInv, Quiet, RecordsApart, StoredOnce, RecordEnd

LEMMA QuietStep ==
  ASSUME IInv, TypeOK',
         \/ \E s \in Strings : Intern(s) \/ InternAndGrow(s)
         \/ SkipEmpty \/ HashAgain \/ PlaceFurther \/ Place \/ Rehashed
         \/ Found \/ ProbeFurther \/ UNCHANGED vars
  PROVE  Quiet /\ Reachable' /\ Listed' /\ Probed'
  <1>0. TypeOK BY DEF IInv
  <1>. /\ size \in Nat \ {0} /\ idx \in Nat /\ pos \in Nat
       /\ table \in [0..(size - 1) -> Ids \cup {NoId}]
       /\ (pc \in {"place", "probe"} => idx \in 0..(size - 1))
       /\ (pc \in {"rehash", "place"} => old \in [0..(size \div 2 - 1) -> Ids \cup {NoId}])
       /\ (pc # "idle" => str \in Strings)
    BY <1>0 DEF TypeOK, TableTypes
  <1>a. Reachable /\ Listed /\ Probed BY DEF IInv
  <1>b. \A p \in DOMAIN text : text[p] \in Strings /\ p \in Ids
    BY <1>0 DEF TypeOK, MemoryTypes
  <1>1. ASSUME NEW s \in Strings, Intern(s) PROVE Quiet /\ Reachable' /\ Listed' /\ Probed'
    <2>1. Between(Home(s, size), Home(s, size)) = {} BY HomeIsSlot, BetweenNone
    <2>2. Probed' BY <1>1, <2>1 DEF Intern, memory, Probed, Between, Home
    <2>. QED BY <1>1, <1>a, <2>2 DEF Intern, memory, Quiet, Reachable, Listed, InTable, InOld, Between, Home
  <1>2. ASSUME NEW s \in Strings, InternAndGrow(s) PROVE Quiet /\ Reachable' /\ Listed' /\ Probed'
    <2>1. Reachable' /\ Probed' BY <1>2 DEF InternAndGrow, EmptyTable, Reachable, Probed
    <2>2. Listed'
      <3>1. \A p \in DOMAIN text : \E i \in 0..(size - 1) : table[i] = p
        BY <1>2, <1>a DEF InternAndGrow, Listed, InTable, InOld
      <3>2. \A i \in 0..(size - 1) : table[i] # NoId => table[i] \in DOMAIN text
        BY <1>a DEF Reachable
      <3>. QED BY <1>2, <3>1, <3>2 DEF InternAndGrow, memory, Listed, InOld
    <2>. QED BY <1>2, <2>1, <2>2 DEF InternAndGrow, memory, Quiet
  <1>3. CASE SkipEmpty
    <2>1. Listed'
      <3>1. \A p \in DOMAIN text : InOld(p) => InOld(p)'
        BY <1>3, <1>b, NoIdAssumption DEF SkipEmpty, InOld, Ids
      <3>. QED BY <1>3, <1>a, <3>1 DEF SkipEmpty, memory, Listed, InTable
    <2>. QED BY <1>3, <1>a, <2>1 DEF SkipEmpty, memory, Quiet, Reachable, Probed, Between, Home
  <1>4. CASE HashAgain
    <2>1. text[old[pos]] \in Strings BY <1>4, <1>a, <1>b DEF HashAgain, Listed
    <2>2. Between(Home(text[old[pos]], size), Home(text[old[pos]], size)) = {}
      BY <2>1, HomeIsSlot, BetweenNone
    <2>3. Probed' BY <1>4, <2>2 DEF HashAgain, memory, Probed, Between, Home
    <2>. QED BY <1>4, <1>a, <2>3 DEF HashAgain, memory, Quiet, Reachable, Listed, InTable, InOld, Between, Home
  <1>5. CASE PlaceFurther
    <2>1. text[old[pos]] \in Strings
      BY <1>0, <1>5, <1>a, <1>b DEF PlaceFurther, Listed, TypeOK, TableTypes
    <2>2. Between(Home(text[old[pos]], size), NextSlot(idx))
            \subseteq Between(Home(text[old[pos]], size), idx) \cup {idx}
      BY <1>5, <2>1, HomeIsSlot, BetweenNext DEF PlaceFurther
    <2>3. Probed' BY <1>5, <1>a, <2>2 DEF PlaceFurther, memory, Probed, Between, Home
    <2>. QED BY <1>5, <1>a, <2>3 DEF PlaceFurther, memory, Quiet, Reachable, Listed, InTable, InOld, Between, Home
  <1>6. CASE Place
    <2>1. old[pos] \in DOMAIN text /\ old[pos] # NoId /\ pos \in DOMAIN old
      BY <1>0, <1>6, <1>a DEF Place, Listed, TypeOK, TableTypes
    <2>2. /\ table'[idx] = old[pos] /\ size' = size /\ UNCHANGED <<used, text, old>>
          /\ \A i \in 0..(size - 1) : i # idx => table'[i] = table[i]
      BY <1>6 DEF Place, memory
    <2>3. \A j \in 0..(size - 1) : table[j] # NoId => table'[j] # NoId BY <2>1, <2>2
    <2>4. Reachable'
      <3>1. SUFFICES ASSUME NEW i \in 0..(size - 1), table'[i] # NoId
                     PROVE  /\ table'[i] \in DOMAIN text
                            /\ \A j \in Between(Home(text[table'[i]], size), i) : table'[j] # NoId
        BY <2>2 DEF Reachable, Between, Home
      <3>2. CASE i = idx BY <1>6, <1>a, <2>1, <2>2, <2>3, <3>2 DEF Place, Probed, Between
      <3>3. CASE i # idx BY <1>a, <2>2, <2>3, <3>1, <3>3 DEF Reachable, Between
      <3>. QED BY <3>2, <3>3
    <2>5. Listed'
      <3>1. ASSUME NEW p \in DOMAIN text PROVE InTable(p)' \/ InOld(p)'
        <4>1. CASE InTable(p)
          <5>1. p # NoId BY <1>b, NoIdAssumption DEF Ids
          <5>2. PICK i \in 0..(size - 1) : table[i] = p BY <4>1 DEF InTable
          <5>3. i # idx BY <1>6, <5>1, <5>2 DEF Place
          <5>. QED BY <2>2, <5>2, <5>3 DEF InTable
        <4>2. CASE InOld(p)
          <5>1. PICK i \in DOMAIN old : i >= pos /\ old[i] = p BY <4>2 DEF InOld
          <5>2. CASE i = pos BY <1>6, <2>2, <5>1, <5>2 DEF InTable, Place
          <5>3. CASE i # pos
            <6>1. i \in Nat /\ i >= pos + 1 BY <1>6, <5>1, <5>3 DEF Place
            <6>. QED BY <1>6, <2>2, <5>1, <6>1 DEF InOld, Place
          <5>. QED BY <5>2, <5>3
        <4>. QED BY <1>a, <4>1, <4>2 DEF Listed
      <3>2. \A i \in DOMAIN old : old[i] # NoId => old[i] \in DOMAIN text
        BY <1>6, <1>a DEF Place, Listed
      <3>. QED BY <2>2, <3>1, <3>2 DEF Listed
    <2>6. Probed' BY <1>6 DEF Place, Probed
    <2>. QED BY <2>2, <2>4, <2>5, <2>6 DEF Quiet
  <1>7. CASE Rehashed
    <2>1. Between(Home(str, size), Home(str, size)) = {} BY <1>7, HomeIsSlot, BetweenNone DEF Rehashed
    <2>2. Probed' BY <1>7, <2>1 DEF Rehashed, memory, Probed, Between, Home
    <2>3. Listed'
      <3>1. \A p \in DOMAIN text : ~InOld(p) BY <1>7 DEF Rehashed, InOld
      <3>. QED BY <1>7, <1>a, <3>1 DEF Rehashed, memory, Listed, InTable
    <2>. QED BY <1>7, <1>a, <2>2, <2>3 DEF Rehashed, memory, Quiet, Reachable, Between, Home
  <1>8. CASE Found
    BY <1>8, <1>a DEF Found, memory, Quiet, Reachable, Listed, InTable, InOld, Probed, Between, Home
  <1>9. CASE ProbeFurther
    <2>1. Between(Home(str, size), NextSlot(idx)) \subseteq Between(Home(str, size), idx) \cup {idx}
      BY <1>9, HomeIsSlot, BetweenNext DEF ProbeFurther
    <2>2. Probed' BY <1>9, <1>a, <2>1 DEF ProbeFurther, Same, memory, Probed, Between, Home
    <2>. QED BY <1>9, <1>a, <2>2 DEF ProbeFurther, memory, Quiet, Reachable, Listed, InTable, InOld, Between, Home
  <1>10. CASE UNCHANGED vars
    BY <1>10, <1>a DEF vars, memory, Quiet, Reachable, Listed, InTable, InOld, Probed, Between, Home
  <1>. QED BY <1>1, <1>2, <1>3, <1>4, <1>5, <1>6, <1>7, <1>8, <1>9, <1>10

---------------------------------------------------------------------------
LEMMA InvariantStep ==
  ASSUME MaxChunks <= ChunkIds, IInv, [Next]_vars
  PROVE  IInv'
  <1>0. TypeOK /\ TypeOK' BY TypeStep DEF IInv
  <1>1. CASE Add
    <2>1. RecordsApart' /\ Len(used') = Len(used) /\ <<Len(used) - 1, Offset>> \notin DOMAIN text
      BY <1>1, AddStoresApart
    <2>2. Len(used) \in Nat \ {0} /\ Offset \in Nat BY <1>0, OffsetIsBehind
    <2>3. Len(used) - 1 \in Nat /\ Len(used) - 1 < ChunkIds
      BY <2>2, SizesAssumption DEF IInv
    <2>4. Reachable' /\ Listed' /\ Probed' /\ StoredOnce'
      BY <1>0, <1>1, <2>1, <2>2, <2>3, RecordStep DEF Add
    <2>. QED BY <1>0, <2>1, <2>4 DEF IInv
  <1>2. CASE AddInNewChunk
    <2>1. RecordsApart' /\ Len(used') = Len(used) + 1 /\ <<Len(used), 0>> \notin DOMAIN text
      BY <1>2, NewChunkStoresApart
    <2>2. Len(used) \in Nat /\ Len(used) < ChunkIds /\ Len(used) + 1 <= MaxChunks
      BY <1>0, <1>2, OffsetIsBehind, SizesAssumption DEF AddInNewChunk
    <2>3. Reachable' /\ Listed' /\ Probed' /\ StoredOnce'
      BY <1>0, <1>2, <2>1, <2>2, RecordStep DEF AddInNewChunk
    <2>. QED BY <1>0, <2>1, <2>2, <2>3 DEF IInv
  <1>3. CASE ~Add /\ ~AddInNewChunk
    <2>1. Quiet /\ Reachable' /\ Listed' /\ Probed'
      BY <1>0, <1>3, QuietStep DEF Next
    <2>. QED BY <1>0, <2>1, QuietMemory DEF IInv
  <1>. QED BY <1>1, <1>2, <1>3

(* The loops of intern(), the table and the memory agree in every state,   *)
(* for any texts, hashes and sizes.                                        *)
THEOREM PoolInOrder ==
  ASSUME MaxChunks <= ChunkIds
  PROVE  Spec => []IInv
  <1>1. Init => IInv BY InitIInv
  <1>2. IInv /\ [Next]_vars => IInv' BY InvariantStep
  <1>. QED BY <1>1, <1>2, PTL DEF Spec

(* No text is stored twice, whatever has collided and however often the    *)
(* table has grown.                                                        *)
THEOREM TextsStoredOnce ==
  ASSUME MaxChunks <= ChunkIds
  PROVE  Spec => []StoredOnce
  <1>1. Spec => []IInv BY PoolInOrder
  <1>2. IInv => StoredOnce BY DEF IInv
  <1>. QED BY <1>1, <1>2, PTL

(* Records never overlap, and only one longer than a chunk leaves it.      *)
THEOREM RecordsStayApart ==
  ASSUME MaxChunks <= ChunkIds
  PROVE  Spec => []RecordsApart
  <1>1. Spec => []IInv BY PoolInOrder
  <1>2. IInv => RecordsApart BY DEF IInv
  <1>. QED BY <1>1, <1>2, PTL

---------------------------------------------------------------------------
(* Every step of intern() is a step of the Interner or none.               *)
LEMMA InternerStep ==
  ASSUME MaxChunks <= ChunkIds, IInv, [Next]_vars
  PROVE  [Abstract!Next]_(Abstract!vars)
  <1>. USE DEF Abstract!vars
  <1>0. TypeOK BY DEF IInv
  <1>1. ASSUME NEW s \in Strings, Intern(s) \/ InternAndGrow(s) PROVE Abstract!Next
    BY <1>0, <1>1 DEF Intern, InternAndGrow, memory, Abstract!Next, Abstract!Ask, TypeOK, TableTypes
  <1>2. CASE Found
    <2>1. table[idx] \in DOMAIN text /\ str # NoString
      BY <1>0, <1>2 DEF Found, IInv, Reachable, TypeOK, TableTypes
    <2>. QED BY <1>2, <2>1 DEF Found, Same, memory, Abstract!Next, Abstract!AnswerKnown
  <1>3. ASSUME NEW c \in Nat, NEW o \in Nat, c < ChunkIds, <<c, o>> \notin DOMAIN text,
               pc = "probe", table[idx] = NoId, Record(c, o)
        PROVE  Abstract!Next
    <2>1. \A p \in DOMAIN text : text[p] # str BY <1>3, NotStored
    <2>2. str # NoString BY <1>0, <1>3 DEF TypeOK, TableTypes
    <2>3. answer' = <<c, o>> /\ answer' \in Ids BY <1>3, IdIsPosition DEF Record, Ids
    <2>. QED BY <1>3, <2>1, <2>2, <2>3 DEF Record, Abstract!Next, Abstract!AnswerNew
  <1>4. CASE Add
    <2>1. <<Len(used) - 1, Offset>> \notin DOMAIN text BY <1>4, AddStoresApart
    <2>2. Len(used) \in Nat \ {0} /\ Offset \in Nat BY <1>0, OffsetIsBehind
    <2>3. Len(used) - 1 \in Nat /\ Len(used) - 1 < ChunkIds
      BY <2>2, SizesAssumption DEF IInv
    <2>. QED BY <1>3, <1>4, <2>1, <2>2, <2>3 DEF Add
  <1>5. CASE AddInNewChunk
    <2>1. <<Len(used), 0>> \notin DOMAIN text BY <1>5, NewChunkStoresApart
    <2>2. Len(used) \in Nat /\ Len(used) < ChunkIds
      BY <1>0, <1>5, OffsetIsBehind, SizesAssumption DEF AddInNewChunk
    <2>. QED BY <1>3, <1>5, <2>1, <2>2 DEF AddInNewChunk
  <1>6. CASE SkipEmpty \/ HashAgain \/ PlaceFurther \/ Place \/ Rehashed
             \/ ProbeFurther \/ UNCHANGED vars
    BY <1>6 DEF SkipEmpty, HashAgain, PlaceFurther, Place, Rehashed, ProbeFurther, vars, memory
  <1>. QED BY <1>1, <1>2, <1>4, <1>5, <1>6 DEF Next

(* The pool is an Interner: the promise the lexer and the parser rely on   *)
(* when they compare identifiers by their ids.                             *)
THEOREM PoolInterns ==
  ASSUME MaxChunks <= ChunkIds
  PROVE  Spec => InternsRight
  <1>1. Init => Abstract!Init BY DEF Init, Abstract!Init, Ids
  <1>2. IInv /\ [Next]_vars => [Abstract!Next]_(Abstract!vars) BY InternerStep
  <1>3. Spec => []IInv BY PoolInOrder
  <1>. QED BY <1>1, <1>2, <1>3, PTL DEF Spec, InternsRight, Abstract!Spec
=============================================================================
