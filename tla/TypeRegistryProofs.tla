------------------------- MODULE TypeRegistryProofs ------------------------
(***************************************************************************)
(* Proofs about TypeRegistry, for any number of types and fields and any   *)
(* calls in any order: every layout is right until a call misuses it.      *)
(***************************************************************************)
EXTENDS TypeRegistry, SequenceTheorems, TLAPS

(* What rounding up gives, for the alignments that occur.                  *)
LEMMA AlignUpRounds ==
  ASSUME NEW n \in Nat, NEW a \in Alignments
  PROVE  /\ AlignUp(n, a) \in Nat /\ AlignUp(n, a) % a = 0
         /\ n <= AlignUp(n, a) /\ AlignUp(n, a) < n + a
  <1>1. CASE a = 1 BY <1>1 DEF AlignUp
  <1>2. CASE a = 2 BY <1>2 DEF AlignUp
  <1>3. CASE a = 4 BY <1>3 DEF AlignUp
  <1>4. CASE a = 8 BY <1>4 DEF AlignUp
  <1>5. CASE a = 16 BY <1>5 DEF AlignUp
  <1>6. CASE a = 32 BY <1>6 DEF AlignUp
  <1>7. CASE a = 64 BY <1>7 DEF AlignUp
  <1>. QED BY <1>1, <1>2, <1>3, <1>4, <1>5, <1>6, <1>7 DEF Alignments

LEMMA WordSize == Word \in Nat /\ Word > 8
  BY DEF Word

(* A size that fits is kept as it is.                                      *)
Sizes == 0..(Word - 1)
LEMMA SizesFit ==
  /\ Word \in Nat /\ Sizes \subseteq Nat
  /\ \A n \in Nat : n % Word \in Sizes /\ (n < Word => n % Word = n)
  BY WordSize DEF Sizes

FieldType == [type : Nat \ {0}, offset : Sizes]

LEMMA InfoTypes ==
  ASSUME TypeOK, NEW t \in 1..Len(types)
  PROVE  /\ types[t] \in TypeInfo
         /\ types[t].size \in Sizes /\ types[t].size \in Nat /\ types[t].alignment \in {1, 4, 8}
         /\ types[t].alignment \in Alignments /\ types[t].fields \in Seq(FieldType)
         /\ Len(types[t].fields) \in Nat
         /\ \A k \in 1..Len(types[t].fields) :
              types[t].fields[k].type \in Nat /\ types[t].fields[k].offset \in Nat
  <1>1. types[t] \in TypeInfo BY DEF TypeOK
  <1>2. /\ types[t].size \in Sizes /\ types[t].alignment \in {1, 4, 8}
        /\ types[t].fields \in Seq(FieldType)
    BY <1>1 DEF TypeInfo, FieldType, Sizes
  <1>3. Len(types[t].fields) \in Nat BY <1>2
  <1>4. \A k \in 1..Len(types[t].fields) : types[t].fields[k] \in FieldType BY <1>2
  <1>. QED BY <1>1, <1>2, <1>3, <1>4, SizesFit DEF Alignments, FieldType

(* A type stays right as long as it, its fields' types and what is         *)
(* complete stay.                                                          *)
LEMMA TypeStaysRight ==
  ASSUME NEW t, TypeRight(t), types'[t] = types[t], Complete(t)' <=> Complete(t),
         Len(types[t].fields) \in Nat,
         \A u : Complete(u) => types'[u] = types[u] /\ Complete(u)'
  PROVE  TypeRight(t)'
  <1>. PICK s : s = types[t] OBVIOUS
  <1>0. \A k \in 1..Len(s.fields) :
          /\ types'[s.fields[k].type] = types[s.fields[k].type]
          /\ Complete(s.fields[k].type)'
    BY DEF TypeRight
  <1>1. \A k \in 1..Len(s.fields) : End(s.fields[k])' = End(s.fields[k])
    BY <1>0 DEF End, Type
  <1>2. \A k \in 1..Len(s.fields) : Type(s.fields[k])' = Type(s.fields[k])
    BY <1>0 DEF Type
  <1>3. \A k \in 1..Len(s.fields) : k # 1 => k - 1 \in 1..Len(s.fields) OBVIOUS
  <1>4. s.fields # <<>> => Len(s.fields) \in 1..Len(s.fields) OBVIOUS
  <1>5. FieldsRight(s) BY DEF TypeRight
  <1>6. FieldsRight(s)' BY <1>1, <1>2, <1>3, <1>5 DEF FieldsRight
  <1>7. EndOfFields(s)' = EndOfFields(s) BY <1>1, <1>4 DEF EndOfFields
  <1>8. IF Complete(t) THEN Padded(s) ELSE EndsWithField(s) BY DEF TypeRight
  <1>9. IF Complete(t)' THEN Padded(s)' ELSE EndsWithField(s)'
    BY <1>7, <1>8 DEF Padded, EndsWithField
  <1>. QED BY <1>0, <1>6, <1>9 DEF TypeRight

(* A power of two among 1, 4, 8 divides the larger ones.                   *)
LEMMA StricterDivides ==
  ASSUME NEW a \in {1, 4, 8}, NEW b \in {1, 4, 8}
  PROVE  /\ (IF b > a THEN b ELSE a) \in {1, 4, 8}
         /\ (IF b > a THEN b ELSE a) % b = 0
         /\ \A c \in {1, 4, 8} : a % c = 0 => (IF b > a THEN b ELSE a) % c = 0
  OBVIOUS

LEMMA InitIInv == Init => IInv
  <1> SUFFICES ASSUME Init PROVE IInv OBVIOUS
  <1>1. /\ Len(types) = 4 /\ open = {} /\ Ids = 1..4
        /\ types[1] = Basic(0, 1) /\ types[2] = Basic(1, 1)
        /\ types[3] = Basic(4, 4) /\ types[4] = Basic(8, 8)
    BY DEF Init, Void, Char, IntType, Pointer, Ids
  <1>2. \A t \in 1..4 : types[t].fields = <<>> BY <1>1 DEF Basic
  <1>3. TypeOK
    <2>1. \A n \in Sizes, a \in {1, 4, 8} : Basic(n, a) \in TypeInfo
      BY DEF Basic, TypeInfo, Sizes
    <2>2. types \in Seq(TypeInfo)
      <3>1. 0 \in Sizes /\ 1 \in Sizes /\ 4 \in Sizes /\ 8 \in Sizes
        BY WordSize DEF Sizes
      <3>. QED BY <2>1, <3>1 DEF Init, Void, Char, IntType, Pointer
    <2>. QED BY <1>1, <2>2 DEF TypeOK, Init
  <1>4. ASSUME NEW t \in 1..4 PROVE TypeRight(t)
    <2>1. FieldsRight(types[t]) /\ EndOfFields(types[t]) = types[t].size
      BY <1>2 DEF FieldsRight, EndOfFields
    <2>2. Padded(types[t]) BY <1>1, <2>1 DEF Basic, Padded
    <2>3. Complete(t) BY <1>1 DEF Complete
    <2>. QED BY <1>2, <2>1, <2>2, <2>3 DEF TypeRight
  <1>. QED BY <1>1, <1>3, <1>4 DEF IInv

---------------------------------------------------------------------------
LEMMA BeginStructStep ==
  ASSUME IInv, BeginStruct
  PROVE  IInv'
  <1>. PICK new : new = Basic(0, 1) OBVIOUS
  <1>0. TypeOK BY DEF IInv
  <1>1. PICK n \in Nat : n = Len(types) BY <1>0 DEF TypeOK
  <1>2. new \in TypeInfo /\ new.fields = <<>> /\ new.size = 0
    BY WordSize DEF Basic, TypeInfo
  <1>3. /\ types' \in Seq(TypeInfo) /\ Len(types') = n + 1 /\ types'[n + 1] = new
        /\ \A t \in 1..n : types'[t] = types[t]
    BY <1>0, <1>1, <1>2 DEF BeginStruct, TypeOK
  <1>4. open' = open \cup {n + 1} /\ misused' = misused /\ Ids = 1..n /\ Ids' = 1..(n + 1)
    BY <1>1, <1>3 DEF BeginStruct, Ids
  <1>5. TypeOK'
    <2>1. open \subseteq 1..n /\ misused \in BOOLEAN BY <1>0, <1>4 DEF TypeOK
    <2>2. open' \subseteq 1..(n + 1) BY <1>4, <2>1
    <2>. QED BY <1>3, <1>4, <2>1, <2>2, Zenon DEF TypeOK
  <1>6. \A t \in 1..n : Complete(t)' <=> Complete(t) BY <1>1, <1>4 DEF Complete
  <1>7. ~Complete(n + 1)' BY <1>4 DEF Complete
  <1>8. \A u : Complete(u) => types'[u] = types[u] /\ Complete(u)'
    BY <1>3, <1>4, <1>6 DEF Complete
  <1>9. ASSUME ~misused, NEW t \in 1..(n + 1) PROVE TypeRight(t)'
    <2>1. CASE t \in 1..n
      <3>1. Len(types[t].fields) \in Nat /\ TypeRight(t)
        BY <1>0, <1>1, <1>4, <1>9, <2>1, InfoTypes DEF IInv
      <3>. QED BY <1>3, <1>6, <1>8, <2>1, <3>1, TypeStaysRight
    <2>2. CASE t = n + 1
      <3>1. types'[t] = new BY <1>3, <2>2
      <3>. QED BY <1>2, <1>7, <2>2, <3>1 DEF TypeRight, FieldsRight, EndsWithField, EndOfFields
    <2>. QED BY <2>1, <2>2
  <1>. QED BY <1>4, <1>5, <1>9 DEF IInv

(* Whatever is called, the struct stays a type.                            *)
LEMMA AddFieldTypes ==
  ASSUME TypeOK, NEW i \in Ids, NEW t \in Ids, AddField(i, t)
  PROVE  TypeOK' /\ types' = [types EXCEPT ![i] = WithField(types[i], t)] /\ Len(types') = Len(types)
         /\ types'[i] = WithField(types[i], t) /\ \A u \in Ids : u # i => types'[u] = types[u]
  <1>. PICK s : s = types[i] OBVIOUS
  <1>. PICK f : f = types[t] OBVIOUS
  <1>. PICK off : off = Offset(s, f) OBVIOUS
  <1>. PICK new : new = [type |-> t, offset |-> off] OBVIOUS
  <1>. PICK r : r = WithField(s, t) OBVIOUS
  <1>1. /\ s \in TypeInfo /\ s.size \in Nat /\ s.alignment \in {1, 4, 8}
        /\ s.fields \in Seq(FieldType)
        /\ f.size \in Nat /\ f.alignment \in {1, 4, 8} /\ f.alignment \in Alignments
    BY InfoTypes DEF Ids
  <1>2. off \in Sizes /\ off \in Nat BY <1>1, AlignUpRounds, SizesFit DEF Offset
  <1>3. r = [size |-> (off + f.size) % Word, alignment |-> Stricter(s, f),
             fields |-> Append(s.fields, new)]
    BY DEF WithField
  <1>4. new \in FieldType BY <1>2 DEF FieldType, Ids
  <1>5. r \in TypeInfo
    <2>1. (off + f.size) % Word \in Sizes
      <3>1. off + f.size \in Nat BY <1>1, <1>2
      <3>. QED BY <3>1, SizesFit, Zenon
    <2>2. Stricter(s, f) \in {1, 4, 8} BY <1>1 DEF Stricter
    <2>3. Append(s.fields, new) \in Seq(FieldType) BY <1>1, <1>4
    <2>. QED BY <1>3, <2>1, <2>2, <2>3 DEF TypeInfo, FieldType, Sizes
  <1>6. types' = [types EXCEPT ![i] = r] /\ open' = open BY DEF AddField
  <1>7. types \in Seq(TypeInfo) /\ i \in 1..Len(types) BY DEF TypeOK, Ids
  <1>8. /\ types' \in Seq(TypeInfo) /\ Len(types') = Len(types)
        /\ \A u \in 1..Len(types) : types'[u] = IF u = i THEN r ELSE types[u]
    BY <1>5, <1>6, <1>7, ExceptSeq
  <1>9. misused' \in BOOLEAN BY DEF AddField
  <1>. QED BY <1>6, <1>7, <1>8, <1>9 DEF TypeOK, Ids

LEMMA AddFieldStep ==
  ASSUME IInv, NEW i \in Ids, NEW t \in Ids, AddField(i, t)
  PROVE  IInv'
  <1>1. TypeOK /\ TypeOK' BY AddFieldTypes DEF IInv
  <1> SUFFICES ASSUME ~misused' PROVE \A u \in Ids' : TypeRight(u)'
    BY <1>1 DEF IInv
  <1>. PICK n \in Nat : n = Len(types) BY <1>1 DEF TypeOK
  <1>. PICK s : s = types[i] OBVIOUS
  <1>. PICK f : f = types[t] OBVIOUS
  <1>. PICK off : off = AlignUp(s.size, f.alignment) OBVIOUS
  <1>. PICK new : new = [type |-> t, offset |-> off] OBVIOUS
  <1>. PICK r : r = WithField(s, t) OBVIOUS
  <1>2. /\ ~misused /\ i \in open /\ Complete(t) /\ off + f.size < Word /\ open' = open
    <2>1. /\ ~misused /\ i \in open /\ Complete(t) /\ open' = open
          /\ ~(AlignUp(s.size, f.alignment) + f.size >= Word)
      BY DEF AddField, Outgrows
    <2>2. off \in Nat /\ f.size \in Nat /\ Word \in Nat
      BY <1>1, InfoTypes, AlignUpRounds, SizesFit DEF Ids
    <2>. QED BY <2>1, <2>2
  <1>3. i \in 1..n /\ t \in 1..n /\ t # i /\ ~Complete(i) /\ \A u \in 1..n : TypeRight(u)
    BY <1>2 DEF Complete, Ids, IInv
  <1>5. /\ s.size \in Nat /\ s.alignment \in {1, 4, 8}
        /\ s.fields \in Seq(FieldType) /\ Len(s.fields) \in Nat
        /\ f.size \in Nat /\ f.alignment \in {1, 4, 8} /\ f.alignment \in Alignments
    BY <1>1, <1>3, InfoTypes
  <1>6. /\ off \in Nat /\ off % f.alignment = 0
        /\ s.size <= off /\ off < s.size + f.alignment
    BY <1>5, AlignUpRounds
  <1>7. /\ r.size = off + f.size /\ r.fields = Append(s.fields, new)
        /\ r.alignment = IF f.alignment > s.alignment THEN f.alignment ELSE s.alignment
    <2>0. Word \in Nat BY SizesFit
    <2>1. off < Word /\ off + f.size \in Nat BY <1>2, <1>5, <1>6, <2>0
    <2>2. off % Word = off /\ (off + f.size) % Word = off + f.size
      BY <1>2, <1>6, <2>1, SizesFit, Zenon
    <2>. QED BY <2>2 DEF WithField, Offset, Stricter
  <1>8. /\ r.alignment \in {1, 4, 8} /\ r.alignment % f.alignment = 0
        /\ \A c \in {1, 4, 8} : s.alignment % c = 0 => r.alignment % c = 0
    BY <1>5, <1>7, StricterDivides
  <1>9. /\ types'[i] = r /\ Len(types') = n /\ Ids' = 1..n /\ Ids = 1..n
        /\ \A u \in 1..n : u # i => types'[u] = types[u]
    BY <1>1, AddFieldTypes DEF Ids
  <1>12. \A u : Complete(u)' <=> Complete(u) BY <1>2, <1>9 DEF Complete
  <1>13. \A u : Complete(u) => types'[u] = types[u] /\ Complete(u)'
    BY <1>3, <1>9, <1>12 DEF Complete
  <1>14. TypeRight(i)'
    <2>. PICK m \in Nat : m = Len(s.fields) BY <1>5
    <2>1. /\ Len(r.fields) = m + 1 /\ r.fields[m + 1] = new
          /\ \A k \in 1..m : r.fields[k] = s.fields[k]
      BY <1>5, <1>7
    <2>2. FieldsRight(s) /\ EndsWithField(s) /\ \A k \in 1..m : Complete(s.fields[k].type)
      BY <1>3 DEF TypeRight
    <2>3. \A k \in 1..m : /\ Type(s.fields[k])' = Type(s.fields[k])
                          /\ End(s.fields[k])' = End(s.fields[k])
      BY <1>13, <2>2 DEF Type, End
    <2>4. Type(new)' = f /\ End(new)' = off + f.size /\ new.offset = off /\ new.type = t
      BY <1>3, <1>9 DEF Type, End
    <2>5. FieldsRight(r)'
      <3>1. SUFFICES ASSUME NEW k \in 1..(m + 1)
                     PROVE  LET g == r.fields[k]
                                before == IF k = 1 THEN 0 ELSE End(r.fields[k - 1])'
                            IN  /\ g.offset % (Type(g)').alignment = 0
                                /\ before <= g.offset /\ g.offset < before + (Type(g)').alignment
                                /\ r.alignment % (Type(g)').alignment = 0
        BY <2>1 DEF FieldsRight
      <3>2. CASE k \in 1..m
        <4>1. k # 1 => k - 1 \in 1..m BY <3>2
        <4>2. LET g == s.fields[k]
                  before == IF k = 1 THEN 0 ELSE End(s.fields[k - 1])
              IN  /\ g.offset % Type(g).alignment = 0
                  /\ before <= g.offset /\ g.offset < before + Type(g).alignment
                  /\ s.alignment % Type(g).alignment = 0
          BY <2>2, <3>2 DEF FieldsRight
        <4>3. Type(s.fields[k]).alignment \in {1, 4, 8}
          BY <1>1, <2>2, <3>2, InfoTypes DEF Complete, Ids, Type
        <4>4. r.fields[k] = s.fields[k] /\ (k # 1 => r.fields[k - 1] = s.fields[k - 1])
          BY <2>1, <3>2, <4>1
        <4>5. /\ Type(r.fields[k])' = Type(s.fields[k])
              /\ k # 1 => End(r.fields[k - 1])' = End(s.fields[k - 1])
          BY <2>3, <3>2, <4>1, <4>4
        <4>6. r.alignment % Type(s.fields[k]).alignment = 0 BY <1>8, <4>2, <4>3
        <4>. QED BY <4>2, <4>4, <4>5, <4>6
      <3>3. CASE k = m + 1
        <4>1. r.fields[k] = new BY <2>1, <3>3
        <4>2. (IF k = 1 THEN 0 ELSE End(r.fields[k - 1])') = s.size
          <5>1. CASE m = 0
            <6>1. s.fields = <<>> BY <1>5, <5>1, EmptySeq
            <6>. QED BY <2>2, <3>3, <5>1, <6>1 DEF EndsWithField
          <5>2. CASE m # 0
            <6>1. m \in 1..m /\ s.fields # <<>> /\ k - 1 = m /\ k # 1 BY <1>5, <3>3, <5>2
            <6>2. End(r.fields[k - 1])' = End(s.fields[m]) BY <2>1, <2>3, <6>1
            <6>. QED BY <2>2, <6>1, <6>2 DEF EndsWithField, EndOfFields
          <5>. QED BY <5>1, <5>2
        <4>. QED BY <1>6, <1>8, <2>4, <4>1, <4>2
      <3>4. k \in 1..m \/ k = m + 1 OBVIOUS
      <3>. QED BY <3>2, <3>3, <3>4
    <2>6. ASSUME NEW k \in 1..(m + 1) PROVE Complete(r.fields[k].type)'
      <3>1. r.fields[k].type = t \/ (k \in 1..m /\ r.fields[k] = s.fields[k]) BY <2>1, <2>4
      <3>. QED BY <1>2, <1>12, <2>2, <3>1, Zenon
    <2>7. EndsWithField(r)'
      <3>1. r.fields # <<>> /\ r.fields[Len(r.fields)] = new BY <2>1
      <3>. QED BY <1>7, <2>4, <3>1 DEF EndsWithField, EndOfFields
    <2>. QED BY <1>3, <1>9, <1>12, <2>1, <2>5, <2>6, <2>7 DEF TypeRight
  <1>15. ASSUME NEW u \in 1..n, u # i PROVE TypeRight(u)'
    <2>1. Len(types[u].fields) \in Nat BY <1>1, <1>9, <1>15, InfoTypes
    <2>. QED BY <1>3, <1>9, <1>12, <1>13, <1>15, <2>1, TypeStaysRight
  <1>. QED BY <1>9, <1>14, <1>15

(* What is a multiple already is not rounded up.                           *)
LEMMA AlignUpStays ==
  ASSUME NEW n \in Nat, NEW a \in {1, 4, 8}, n % a = 0
  PROVE  AlignUp(n, a) = n
  <1>1. CASE a = 1 BY <1>1 DEF AlignUp
  <1>2. CASE a = 4 BY <1>2 DEF AlignUp
  <1>3. CASE a = 8 BY <1>3 DEF AlignUp
  <1>. QED BY <1>1, <1>2, <1>3

LEMMA FinalizeStep ==
  ASSUME IInv, NEW i \in Ids, Finalize(i)
  PROVE  IInv'
  <1>0. TypeOK BY DEF IInv
  <1>1. PICK n \in Nat : n = Len(types) BY <1>0 DEF TypeOK
  <1>. PICK s : s = types[i] OBVIOUS
  <1>. PICK size : size = AlignUp(s.size, s.alignment) OBVIOUS
  <1>. PICK r : r = [s EXCEPT !.size = size % Word] OBVIOUS
  <1>6. /\ s \in TypeInfo /\ s.size \in Nat /\ s.alignment \in {1, 4, 8}
        /\ s.alignment \in Alignments /\ Len(s.fields) \in Nat /\ s.fields \in Seq(FieldType)
    BY <1>0, InfoTypes DEF Ids
  <1>7. /\ size \in Nat /\ size % s.alignment = 0
        /\ s.size <= size /\ size < s.size + s.alignment
    BY <1>6, AlignUpRounds
  <1>8. /\ r \in TypeInfo /\ r.size = size % Word
        /\ r.alignment = s.alignment /\ r.fields = s.fields
    <2>1. size % Word \in 0..(Word - 1) BY <1>7, SizesFit DEF Sizes
    <2>. QED BY <1>6, <2>1 DEF TypeInfo
  <1>9. /\ types' \in Seq(TypeInfo) /\ types'[i] = r /\ Len(types') = n
        /\ \A u \in 1..n : u # i => types'[u] = types[u]
    <2>1. types' = [types EXCEPT ![i] = r] BY DEF Finalize
    <2>2. types \in Seq(TypeInfo) BY <1>0 DEF TypeOK
    <2>3. i \in 1..Len(types) BY DEF Ids
    <2>4. /\ [types EXCEPT ![i] = r] \in Seq(TypeInfo)
          /\ Len([types EXCEPT ![i] = r]) = Len(types)
          /\ \A u \in 1..Len(types) : [types EXCEPT ![i] = r][u] = IF u = i THEN r ELSE types[u]
      BY <1>8, <2>2, <2>3, ExceptSeq
    <2>. QED BY <1>1, <2>1, <2>3, <2>4
  <1>10. Ids = 1..n /\ Ids' = 1..n /\ open' = open \ {i} BY <1>1, <1>9 DEF Ids, Finalize
  <1>11. TypeOK'
    <2>1. misused' \in BOOLEAN BY DEF Finalize
    <2>. QED BY <1>0, <1>9, <1>10, <2>1 DEF TypeOK
  <1> SUFFICES ASSUME ~misused' PROVE \A u \in Ids' : TypeRight(u)'
    BY <1>11 DEF IInv
  <1>12. ~misused /\ size < Word /\ r.size = size /\ TypeRight(i) /\ \A u \in 1..n : TypeRight(u)
    <2>1. ~misused /\ ~(size >= Word) BY DEF Finalize
    <2>2. size < Word BY <1>7, <2>1, SizesFit
    <2>. QED BY <1>7, <1>8, <1>10, <2>1, <2>2, SizesFit DEF IInv
  <1>13. \A u : u # i => (Complete(u)' <=> Complete(u)) BY <1>10 DEF Complete
  <1>14. Complete(i)' BY <1>10 DEF Complete
  <1>15. Complete(i) => r = s
    <2>1. Complete(i) => s.size % s.alignment = 0 BY <1>12 DEF TypeRight, Padded
    <2>2. Complete(i) => size = s.size BY <1>6, <2>1, AlignUpStays
    <2>3. r = [s EXCEPT !.size = size] BY <1>8, <1>12
    <2>4. [s EXCEPT !.size = s.size] = s BY <1>6 DEF TypeInfo
    <2>. QED BY <2>2, <2>3, <2>4
  <1>16. \A u : Complete(u) => types'[u] = types[u] /\ Complete(u)'
    <2>1. ASSUME NEW u, Complete(u) PROVE types'[u] = types[u] /\ Complete(u)'
      <3>1. CASE u = i BY <1>9, <1>14, <1>15, <2>1, <3>1
      <3>2. CASE u # i BY <1>9, <1>10, <1>13, <2>1, <3>2 DEF Complete
      <3>. QED BY <3>1, <3>2
    <2>. QED BY <2>1
  <1>17. TypeRight(i)'
    <2>1. CASE Complete(i)
      <3>1. types'[i] = types[i] BY <1>9, <1>15, <2>1
      <3>. QED BY <1>6, <1>12, <1>14, <1>16, <2>1, <3>1, TypeStaysRight
    <2>2. CASE ~Complete(i)
      <3>1. FieldsRight(s) /\ EndsWithField(s) /\ \A k \in 1..Len(s.fields) : Complete(s.fields[k].type)
        BY <1>12, <2>2 DEF TypeRight
      <3>2. \A k \in 1..Len(s.fields) : /\ Type(s.fields[k])' = Type(s.fields[k])
                                        /\ End(s.fields[k])' = End(s.fields[k])
        BY <1>16, <3>1 DEF Type, End
      <3>3. \A k \in 1..Len(s.fields) : k # 1 => k - 1 \in 1..Len(s.fields) BY <1>6
      <3>4. FieldsRight(r)' BY <1>8, <3>1, <3>2, <3>3 DEF FieldsRight
      <3>5. Padded(r)'
        <4>1. CASE s.fields = <<>>
          <5>1. s.size = 0 BY <3>1, <4>1 DEF EndsWithField
          <5>2. EndOfFields(r)' = r.size BY <1>8, <4>1 DEF EndOfFields
          <5>. QED BY <1>6, <1>7, <1>8, <1>12, <5>2 DEF Padded
        <4>2. CASE s.fields # <<>>
          <5>1. Len(s.fields) \in 1..Len(s.fields) BY <1>6, <4>2, EmptySeq
          <5>2. EndOfFields(r)' = s.size BY <1>8, <3>1, <3>2, <4>2, <5>1 DEF EndOfFields, EndsWithField
          <5>. QED BY <1>7, <1>8, <1>12, <5>2 DEF Padded
        <4>. QED BY <4>1, <4>2
      <3>6. \A k \in 1..Len(r.fields) : Complete(r.fields[k].type)' BY <1>8, <1>16, <3>1
      <3>. QED BY <1>9, <1>14, <3>4, <3>5, <3>6 DEF TypeRight
    <2>. QED BY <2>1, <2>2
  <1>18. ASSUME NEW u \in 1..n, u # i PROVE TypeRight(u)'
    <2>1. Len(types[u].fields) \in Nat BY <1>0, <1>1, <1>18, InfoTypes
    <2>. QED BY <1>9, <1>12, <1>13, <1>16, <1>18, <2>1, TypeStaysRight
  <1>. QED BY <1>10, <1>17, <1>18

LEMMA InvariantStep ==
  ASSUME IInv, [Next]_vars
  PROVE  IInv'
  <1>1. CASE BeginStruct BY <1>1, BeginStructStep
  <1>2. ASSUME NEW s \in Ids, NEW t \in Ids, AddField(s, t) PROVE IInv' BY <1>2, AddFieldStep
  <1>3. ASSUME NEW s \in Ids, Finalize(s) PROVE IInv' BY <1>3, FinalizeStep
  <1>4. CASE UNCHANGED vars
    <2>1. UNCHANGED <<types, open, misused>> BY <1>4 DEF vars
    <2>2. Ids' = Ids /\ \A u : Complete(u)' <=> Complete(u) BY <2>1 DEF Complete, Ids
    <2>3. \A s : /\ FieldsRight(s)' <=> FieldsRight(s)
                 /\ Padded(s)' <=> Padded(s)
                 /\ EndsWithField(s)' <=> EndsWithField(s)
      BY <2>1 DEF FieldsRight, Padded, EndsWithField, EndOfFields, End, Type
    <2>4. \A t : TypeRight(t)' <=> TypeRight(t) BY <2>1, <2>2, <2>3 DEF TypeRight
    <2> QED BY <2>1, <2>2, <2>4 DEF IInv, TypeOK
  <1>. QED BY <1>1, <1>2, <1>3, <1>4 DEF Next

(* Whatever is called, the registry holds types with alignments that       *)
(* align_up is right for; and as long as no call has misused it, every     *)
(* complete type is laid out right, every open struct is so far, and no    *)
(* type of a field has changed behind the struct's back.                   *)
THEOREM RegistryInOrder == Spec => []IInv
  <1>1. IInv /\ [Next]_vars => IInv' BY InvariantStep
  <1>. QED BY <1>1, InitIInv, PTL DEF Spec

(* Sizes, alignments and fields keep their types, whatever is called and   *)
(* however sizes wrap.                                                     *)
THEOREM TypesHold == Spec => []TypeOK
  <1>1. IInv => TypeOK BY DEF IInv
  <1>. QED BY <1>1, RegistryInOrder, PTL

(* The layout of every complete type is that of the C ABI, as long as no   *)
(* call has misused the registry.                                          *)
THEOREM LayoutsAreRight == Spec => []LayoutRight
  <1>1. IInv => LayoutRight BY DEF IInv, LayoutRight, TypeRight
  <1>. QED BY <1>1, RegistryInOrder, PTL
=============================================================================
