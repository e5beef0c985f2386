---------------------------- MODULE TypeRegistry ---------------------------
(***************************************************************************)
(* TypeRegistry: sizes, alignments and field offsets of the C types.  Its  *)
(* comments number the three calls for a struct: begin_struct, a call of   *)
(* add_struct_field for each field, finalize_struct at the closing brace.  *)
(* Nothing holds a caller to it: each call takes any ids.  No caller       *)
(* exists yet.                                                             *)
(***************************************************************************)
EXTENDS Alignment, Sequences

(* Sizes and offsets are kept modulo Word: they have 32 bits.              *)
Word == 65536 * 65536

VARIABLES
  types,   \* a type's id is its position
  open,    \* history: the structs that have not been finalized
  misused  \* history: a field was added to a struct that was not open, or
           \* was of a type that was, or a struct has outgrown a Word

vars == <<types, open, misused>>

Basic(size, alignment) == [size |-> size, alignment |-> alignment, fields |-> <<>>]
Void == Basic(0, 1)
Char == Basic(1, 1)
IntType == Basic(4, 4)
Pointer == Basic(8, 8)

Init == types = <<Void, Char, IntType, Pointer>> /\ open = {} /\ misused = FALSE

---------------------------------------------------------------------------
Ids == 1..Len(types)
Complete(t) == t \in Ids \ open

BeginStruct ==
  /\ types' = Append(types, Basic(0, 1))
  /\ open' = open \cup {Len(types) + 1}
  /\ UNCHANGED misused

(* A struct is aligned as strictly as its strictest field ...              *)
Stricter(struct, field) ==
  IF field.alignment > struct.alignment THEN field.alignment ELSE struct.alignment

(* ... and a field comes at the next offset its own alignment allows.      *)
Offset(struct, field) == AlignUp(struct.size, field.alignment) % Word

WithField(struct, t) ==
  LET field == types[t]
  IN  [size |-> (Offset(struct, field) + field.size) % Word,
       alignment |-> Stricter(struct, field),
       fields |-> Append(struct.fields, [type |-> t, offset |-> Offset(struct, field)])]
Outgrows(struct, field) == AlignUp(struct.size, field.alignment) + field.size >= Word
AddField(s, t) ==
  /\ types' = [types EXCEPT ![s] = WithField(@, t)]
  /\ misused' = (misused \/ s \notin open \/ ~Complete(t) \/ Outgrows(types[s], types[t]))
  /\ UNCHANGED open

Finalize(s) ==
  /\ types' = [types EXCEPT ![s].size = AlignUp(@, types[s].alignment) % Word]
  /\ open' = open \ {s}
  /\ misused' = (misused \/ AlignUp(types[s].size, types[s].alignment) >= Word)

Next ==
  \/ BeginStruct
  \/ \E s, t \in Ids : AddField(s, t)
  \/ \E s \in Ids : Finalize(s)

Spec == Init /\ [][Next]_vars

---------------------------------------------------------------------------
TypeInfo ==
  [size : 0..(Word - 1), alignment : {1, 4, 8},
   fields : Seq([type : Nat \ {0}, offset : 0..(Word - 1)])]

(* The variables keep their types, whatever is called: an alignment is     *)
(* always a power of two, the only ones align_up is right for.             *)
TypeOK ==
  /\ types \in Seq(TypeInfo)
  /\ open \subseteq Ids
  /\ misused \in BOOLEAN

Type(f) == types[f.type]
End(f) == f.offset + Type(f).size

(* Each field lies behind the one before it, at a multiple of its type's   *)
(* alignment and with less than that in between; the struct is aligned for *)
(* all of them.  That holds field by field, while structs are open too.    *)
FieldsRight(s) ==
  \A k \in 1..Len(s.fields) :
    LET f == s.fields[k]
        before == IF k = 1 THEN 0 ELSE End(s.fields[k - 1])
    IN  /\ f.offset % Type(f).alignment = 0
        /\ before <= f.offset /\ f.offset < before + Type(f).alignment
        /\ s.alignment % Type(f).alignment = 0
EndOfFields(s) == IF s.fields = <<>> THEN s.size ELSE End(s.fields[Len(s.fields)])

(* The layout of every complete type is the one of the C ABI: fields as    *)
(* above, and the size their end rounded up to the struct's alignment, so  *)
(* that arrays of it work.  However many structs are open at a time and in *)
(* whatever order they are filled and finalized, even twice, it holds as   *)
(* long as no call misuses the registry.                                   *)
Padded(s) ==
  /\ s.size % s.alignment = 0
  /\ EndOfFields(s) <= s.size /\ s.size < EndOfFields(s) + s.alignment
LayoutRight ==
  ~misused =>
    \A t \in Ids : FieldsRight(types[t]) /\ (Complete(t) => Padded(types[t]))

(* Why: fields are of complete types, and an open struct ends with its     *)
(* last field.                                                             *)
EndsWithField(s) == s.size = EndOfFields(s) /\ (s.fields = <<>> => s.size = 0)
TypeRight(t) ==
  /\ FieldsRight(types[t])
  /\ \A k \in 1..Len(types[t].fields) : Complete(types[t].fields[k].type)
  /\ IF Complete(t) THEN Padded(types[t]) ELSE EndsWithField(types[t])
IInv == TypeOK /\ (~misused => \A t \in Ids : TypeRight(t))
=============================================================================
