--------------------------- MODULE CppFrontProofs --------------------------
(***************************************************************************)
(* Proofs about the C++ front end, for any files, of any length and with   *)
(* any text.                                                               *)
(***************************************************************************)
EXTENDS CppFront, SequenceTheorems, WellFoundedInduction, TLAPS

(* A set of numbers has a least one, and what holds of 0, and of k + 1 if  *)
(* of k, holds of n.                                                       *)
LEMMA LeastExists ==
  ASSUME NEW S \in SUBSET Nat, S # {}
  PROVE  \E k \in S : \A j \in S : ~(j < k)
<1> DEFINE R == {ss \in Nat \X Nat : ss[1] < ss[2]}
<1>1. IsWellFoundedOn(R, Nat)
  BY NatLessThanWellFounded, Zenon DEF OpToRel
<1>2. PICK k \in S : \A j \in S : ~(<<j, k>> \in R)
  <2> HIDE DEF R
  <2> QED BY <1>1, WFMin
<1>3. \A j \in S : ~(j < k)
  BY <1>2
<1> QED BY <1>3

LEMMA Climb ==
  ASSUME NEW n \in Nat, NEW S, 0 \in S, \A k \in 0..(n - 1) : k \in S => k + 1 \in S
  PROVE  n \in S
<1> DEFINE missing == {k \in 0..n : k \notin S}
<1> SUFFICES ASSUME n \notin S PROVE FALSE
  OBVIOUS
<1>1. missing \in SUBSET Nat /\ missing # {}
  OBVIOUS
<1>2. PICK k \in missing : \A j \in missing : ~(j < k)
  <2> HIDE DEF missing
  <2> QED BY <1>1, LeastExists
<1>3. k # 0 /\ k - 1 \in 0..(n - 1) /\ k - 1 < k /\ (k - 1) + 1 = k
  OBVIOUS
<1>4. k - 1 \in S
  BY <1>2, <1>3
<1> QED BY <1>3, <1>4

---------------------------------------------------------------------------
(* The text of a file is a sequence of lexemes.                            *)
IsFlat(seqs, m, f) == f = [i \in 1..m |-> IF i = 1 THEN seqs[i] ELSE f[i - 1] \o seqs[i]]

LEMMA FlatExists ==
  ASSUME NEW seqs, Len(seqs) \in Nat
  PROVE  \E f : IsFlat(seqs, Len(seqs), f)
<1> DEFINE next(f, i) == IF i = 1 THEN seqs[i] ELSE f[i - 1] \o seqs[i]
           S == {m \in 0..Len(seqs) : \E f : f = [i \in 1..m |-> next(f, i)]}
<1>1. 0 \in S
  <2> DEFINE f == [i \in 1..0 |-> <<>>]
  <2>1. f = [i \in 1..0 |-> next(f, i)]
    OBVIOUS
  <2> HIDE DEF f, next
  <2>2. \E h : h = [i \in 1..0 |-> next(h, i)]
    BY <2>1
  <2>3. 0 \in 0..Len(seqs)
    OBVIOUS
  <2> QED BY <2>2, <2>3
<1>2. ASSUME NEW k \in 0..(Len(seqs) - 1), k \in S
      PROVE  k + 1 \in S
  <2>1. PICK f : f = [i \in 1..k |-> next(f, i)]
    <3> HIDE DEF next
    <3> QED BY <1>2
  <2> DEFINE g == [i \in 1..(k + 1) |-> IF i = k + 1 THEN next(f, k + 1) ELSE f[i]]
  <2>2. ASSUME NEW i \in 1..(k + 1)
        PROVE  g[i] = next(g, i)
    <3>1. CASE i = k + 1
      <4>1. g[i] = next(f, k + 1) /\ (k # 0 => g[k] = f[k]) /\ i - 1 = k
        <5> HIDE DEF next
        <5> QED BY <3>1
      <4> HIDE DEF g
      <4> QED BY <3>1, <4>1
    <3>2. CASE i # k + 1
      <4>1. i \in 1..k /\ g[i] = f[i]
        <5> HIDE DEF next
        <5> QED BY <3>2
      <4>2. f[i] = next(f, i)
        <5> HIDE DEF next
        <5> QED BY <2>1, <4>1
      <4>3. i # 1 => g[i - 1] = f[i - 1]
        <5>1. i # 1 => i - 1 \in 1..(k + 1) /\ i - 1 # k + 1
          BY <4>1
        <5> HIDE DEF next
        <5> QED BY <5>1
      <4> HIDE DEF g
      <4> QED BY <4>1, <4>2, <4>3
    <3> QED BY <3>1, <3>2
  <2>3. g = [i \in 1..(k + 1) |-> g[i]]
    <3> HIDE DEF next
    <3> QED OBVIOUS
  <2>4. g = [i \in 1..(k + 1) |-> next(g, i)]
    <3> HIDE DEF g, next
    <3> QED BY <2>2, <2>3
  <2> HIDE DEF g, next
  <2> QED BY <2>4
<1>3. Len(seqs) \in S
  <2> HIDE DEF S
  <2> QED BY <1>1, <1>2, Climb
<1> QED BY <1>3 DEF IsFlat

LEMMA FlatIsSeq ==
  ASSUME NEW T, NEW seqs \in Seq(Seq(T))
  PROVE  FlattenSeq(seqs) \in Seq(T)
<1>1. CASE Len(seqs) = 0
  <2>1. seqs = <<>>
    BY <1>1
  <2> QED BY <1>1, <2>1 DEF FlattenSeq
<1>2. CASE Len(seqs) # 0
  <2> DEFINE f == CHOOSE f : IsFlat(seqs, Len(seqs), f)
             S == {m \in 0..Len(seqs) : m = 0 \/ f[m] \in Seq(T)}
  <2>1. FlattenSeq(seqs) = f[Len(seqs)]
    BY <1>2 DEF FlattenSeq, IsFlat
  <2>2. IsFlat(seqs, Len(seqs), f)
    BY FlatExists
  <2> HIDE DEF f
  <2>3. 0 \in S
    OBVIOUS
  <2>4. ASSUME NEW k \in 0..(Len(seqs) - 1), k \in S
        PROVE  k + 1 \in S
    <3>1. k + 1 \in 1..Len(seqs) /\ k + 1 \in 0..Len(seqs) /\ (k + 1) - 1 = k /\ (k + 1 = 1 <=> k = 0)
      OBVIOUS
    <3>2. f[k + 1] = IF k = 0 THEN seqs[k + 1] ELSE f[k] \o seqs[k + 1]
      BY <2>2, <3>1 DEF IsFlat
    <3>3. seqs[k + 1] \in Seq(T)
      BY <3>1
    <3>4. k # 0 => f[k] \in Seq(T)
      BY <2>4
    <3>5. f[k + 1] \in Seq(T)
      BY <3>2, <3>3, <3>4, ConcatProperties
    <3> QED BY <3>1, <3>5
  <2>5. Len(seqs) \in S
    <3> HIDE DEF S
    <3> QED BY <2>3, <2>4, Climb
  <2> QED BY <1>2, <2>1, <2>5
<1> QED BY <1>1, <1>2

LEMMA TextIsSeq ==
  ASSUME NEW f \in Files
  PROVE  FlattenSeq([i \in DOMAIN f |-> f[i].text]) \in Seq(STRING)
<1> DEFINE Items == [text : Seq(STRING), decl : {f[i].decl : i \in DOMAIN f}]
           texts == [i \in DOMAIN f |-> f[i].text]
<1>1. f \in Seq(Items)
  BY FilesAssumption
<1>2. \A i \in DOMAIN f : f[i] \in Items
  <2> HIDE DEF Items
  <2> QED BY <1>1
<1>3. \A i \in DOMAIN f : f[i].text \in Seq(STRING)
  BY <1>2
<1>4. DOMAIN f = 1..Len(f) /\ Len(f) \in Nat
  <2> HIDE DEF Items
  <2> QED BY <1>1
<1>5. texts \in [1..Len(f) -> Seq(STRING)]
  BY <1>3, <1>4
<1>6. texts \in Seq(Seq(STRING))
  <2> HIDE DEF texts
  <2> QED BY <1>4, <1>5
<1> QED BY <1>6, FlatIsSeq

---------------------------------------------------------------------------
(* The lexer, from any place of a text and in any mode.                    *)
Modes == {"Standard", "Directive"}

LEMMA EndsAtStop ==
  ASSUME text \in Seq(STRING), NEW p \in 1..(Len(text) + 1), NEW stops
  PROVE  LET e == EndsAt(p, stops)
         IN /\ e \in p..(Len(text) + 1)
            /\ e = Len(text) + 1 \/ text[e] \in stops
            /\ \A i \in p..(e - 1) : text[i] \notin stops
<1> DEFINE S == {e \in p..(Len(text) + 1) : e = Len(text) + 1 \/ text[e] \in stops}
           ends(e) == /\ e = Len(text) + 1 \/ text[e] \in stops
                      /\ \A i \in p..(e - 1) : text[i] \notin stops
<1>1. Len(text) \in Nat
  OBVIOUS
<1>2. S \in SUBSET Nat /\ Len(text) + 1 \in S
  BY <1>1
<1>3. PICK e \in S : \A j \in S : ~(j < e)
  <2> HIDE DEF S
  <2> QED BY <1>2, LeastExists
<1>4. e \in p..(Len(text) + 1) /\ ends(e)
  <2>1. ASSUME NEW i \in p..(e - 1), text[i] \in stops
        PROVE  FALSE
    <3>1. i \in S /\ i < e
      BY <1>1, <1>3, <2>1
    <3> QED BY <1>3, <3>1
  <2> QED BY <1>3, <2>1
<1>5. EndsAt(p, stops) = CHOOSE x \in p..(Len(text) + 1) : ends(x)
  BY DEF EndsAt
<1> HIDE DEF ends
<1>6. EndsAt(p, stops) \in p..(Len(text) + 1) /\ ends(EndsAt(p, stops))
  BY <1>4, <1>5
<1> QED BY <1>6 DEF ends

(* A comment is skipped to the end of its line, which is not skipped.      *)
LEMMA SkipsToLineEnd ==
  ASSUME text \in Seq(STRING), NEW p \in 1..(Len(text) + 1)
  PROVE  /\ SkipFrom(p) \in p..(Len(text) + 1)
         /\ SkipFrom(p) = p \/ SkipFrom(p) > Len(text) \/ text[SkipFrom(p)] = "nl"
<1>1. Len(text) \in Nat
  OBVIOUS
<1>2. CASE SkipFrom(p) = p
  BY <1>1, <1>2
<1>3. CASE SkipFrom(p) = EndsAt(p, {"nl"})
  BY <1>1, <1>3, EndsAtStop
<1> QED BY <1>2, <1>3 DEF SkipFrom

LEMMA WordKinds ==
  ASSUME NEW c
  PROVE  /\ WordKind(c) \in Kinds /\ WordKind(c) # "#"
         /\ WordKind(c) = "identifier" => c \in Identifiers
  BY DEF WordKind, Kinds, Punctuation, TypeWords

LEMMA LexAtReads ==
  ASSUME text \in Seq(STRING), NEW p \in 1..(Len(text) + 1), NEW m \in Modes
  PROVE  LET t == LexAt(p, m)
         IN /\ t.kind \in Kinds /\ t.pos \in p..(Len(text) + 1) /\ t.mode \in Modes
            /\ t.kind = "#" => p <= Len(text) /\ text[p] = "#" /\ t.pos = p + 1
            /\ t.mode = "Directive" => m = "Directive" \/ t.kind = "#"
            /\ t.kind = "identifier" => t.pos > 1 /\ text[t.pos - 1] \in Identifiers
<1> DEFINE t == LexAt(p, m)
<1>1. Len(text) \in Nat
  OBVIOUS
<1>2. CASE p > Len(text)
  <2>1. t = [kind |-> "EOF", pos |-> p, mode |-> m]
    BY <1>2 DEF LexAt, Read
  <2> QED BY <1>1, <2>1 DEF Kinds
<1>3. CASE p <= Len(text) /\ m = "Directive" /\ text[p] = "<"
  <2> DEFINE e == EndsAt(p + 1, {">", "nl"})
  <2>1. t = [kind |-> "system", pos |-> Behind(e, ">"), mode |-> "Standard"]
    BY <1>1, <1>3 DEF LexAt, Read
  <2>2. e \in (p + 1)..(Len(text) + 1)
    BY <1>1, <1>3, EndsAtStop
  <2>3. Behind(e, ">") \in p..(Len(text) + 1)
    BY <1>1, <2>2 DEF Behind
  <2> QED BY <2>1, <2>3 DEF Kinds, Modes
<1>4. CASE p <= Len(text) /\ text[p] = "quote"
  <2> DEFINE e == EndsAt(p + 1, {"quote", "nl"})
  <2>1. t = [kind |-> "string", pos |-> Behind(e, "quote"), mode |-> m]
    BY <1>1, <1>4 DEF LexAt, Read
  <2>2. e \in (p + 1)..(Len(text) + 1)
    BY <1>1, <1>4, EndsAtStop
  <2>3. Behind(e, "quote") \in p..(Len(text) + 1)
    BY <1>1, <2>2 DEF Behind
  <2> QED BY <2>1, <2>3 DEF Kinds, Modes
<1>5. CASE p <= Len(text) /\ text[p] = "nl"
  <2>1. t = [kind |-> "newline", pos |-> p + 1, mode |-> m]
    BY <1>1, <1>5 DEF LexAt, Read, Newline
  <2> QED BY <1>1, <1>5, <2>1 DEF Kinds, Modes
<1>6. CASE p <= Len(text) /\ text[p] = "#"
  <2>1. t = [kind |-> "#", pos |-> p + 1, mode |-> "Directive"]
    BY <1>1, <1>6 DEF LexAt, Read
  <2> QED BY <1>1, <1>6, <2>1 DEF Kinds, Modes
<1>7. CASE /\ p <= Len(text) /\ ~(m = "Directive" /\ text[p] = "<")
           /\ text[p] \notin {"quote", "nl", "#"}
  <2>1. t = [kind |-> WordKind(text[p]), pos |-> p + 1, mode |-> m]
    BY <1>1, <1>7 DEF LexAt, Read
  <2>2. p + 1 \in p..(Len(text) + 1) /\ p + 1 > 1 /\ (p + 1) - 1 = p
    BY <1>1, <1>7
  <2>3. t.kind = WordKind(text[p]) /\ t.pos = p + 1 /\ t.mode = m /\ t.pos - 1 = p
    BY <2>1, <2>2
  <2>4. /\ t.kind \in Kinds /\ t.kind # "#"
        /\ t.kind = "identifier" => text[t.pos - 1] \in Identifiers
    BY <2>3, WordKinds
  <2> QED BY <2>2, <2>3, <2>4
<1> QED BY <1>1, <1>2, <1>3, <1>4, <1>5, <1>6, <1>7

(* A token is read at or behind the cursor; `#` only at it, and only `#`   *)
(* brings the lexer into mode Directive.                                   *)
LEMMA LexReads ==
  ASSUME text \in Seq(STRING), NEW p \in 1..(Len(text) + 1), NEW m \in Modes
  PROVE  LET t == Lex(p, m)
         IN /\ t.kind \in Kinds /\ t.pos \in p..(Len(text) + 1) /\ t.mode \in Modes
            /\ t.kind = "#" => p <= Len(text) /\ text[p] = "#" /\ t.pos = p + 1
            /\ t.mode = "Directive" => m = "Directive" \/ t.kind = "#"
            /\ t.kind = "identifier" => t.pos > 1 /\ text[t.pos - 1] \in Identifiers
<1>1. PICK q \in p..(Len(text) + 1) :
        q = SkipFrom(p) /\ (q = p \/ q > Len(text) \/ text[q] = "nl")
  BY SkipsToLineEnd
<1>2. Lex(p, m) = LexAt(q, m) /\ q \in 1..(Len(text) + 1) /\ Len(text) \in Nat
  BY <1>1 DEF Lex
<1>3. PICK t : t = LexAt(q, m)
  OBVIOUS
<1>4. /\ t.kind \in Kinds /\ t.pos \in q..(Len(text) + 1) /\ t.mode \in Modes
      /\ t.kind = "#" => q <= Len(text) /\ text[q] = "#" /\ t.pos = q + 1
      /\ t.mode = "Directive" => m = "Directive" \/ t.kind = "#"
      /\ t.kind = "identifier" => t.pos > 1 /\ text[t.pos - 1] \in Identifiers
  BY <1>2, <1>3, LexAtReads
<1>5. t.kind = "#" => q = p
  BY <1>1, <1>2, <1>4
<1> QED BY <1>2, <1>3, <1>4, <1>5

---------------------------------------------------------------------------
(* The invariant: the lexer is in mode Directive only behind a `#`, and    *)
(* the parser has read the name of what it is declaring.                   *)
NamesRead == {text[i] : i \in 1..(pos - 1)} \cap Identifiers
Declarations == [kind : {"variable", "function"}, name : NamesRead]
FrontInOrder ==
  /\ file \in Files /\ text \in Seq(STRING)
  /\ pos \in 1..(Len(text) + 1) /\ mode \in Modes
  /\ want \in BOOLEAN /\ tok \in Kinds
  /\ pc \in {"unit", "directive", "name", "declarator", "parameters", "body", "block",
             "return", "semicolon"}
  /\ status \in {"running", "done", "rejected", "hung"}
  /\ mode = "Directive" => \E i \in 1..(pos - 1) : text[i] = "#"
  /\ SpinsOnlyAfterDirective
  /\ tok = "identifier" => pos > 1 /\ text[pos - 1] \in Identifiers
  /\ pc \notin {"unit", "directive", "name"} => name \in NamesRead
  /\ decls \in Seq(Declarations)

LEMMA InitFront == Init => FrontInOrder
<1> SUFFICES ASSUME Init PROVE FrontInOrder
  OBVIOUS
<1>1. text \in Seq(STRING) /\ Len(text) \in Nat
  <2>1. file \in Files /\ text = FlattenSeq([i \in DOMAIN file |-> file[i].text])
    BY DEF Init
  <2>2. text \in Seq(STRING)
    BY <2>1, TextIsSeq
  <2> QED BY <2>2
<1>2. <<>> \in Seq(Declarations)
  OBVIOUS
<1>3. pos \in 1..(Len(text) + 1) /\ mode \in Modes /\ tok \in Kinds
  <2>1. 1 \in 1..(Len(text) + 1)
    BY <1>1
  <2>2. "EOF" \in Kinds
    BY DEF Kinds
  <2> QED BY <2>1, <2>2 DEF Init, Modes
<1> QED BY <1>1, <1>2, <1>3 DEF Init, FrontInOrder, SpinsOnlyAfterDirective

(* The cursor goes on: what was behind it still is.                        *)
LEMMA CursorGoesOn ==
  ASSUME FrontInOrder, text' = text, pos' \in pos..(Len(text) + 1)
  PROVE  /\ NamesRead \subseteq NamesRead'
         /\ \A s : s \in Seq(Declarations) => s \in Seq(Declarations')
         /\ (\E i \in 1..(pos - 1) : text[i] = "#") => (\E i \in 1..(pos' - 1) : text'[i] = "#")
<1>0. pos \in Nat /\ pos' \in Nat /\ pos <= pos'
  <2>1. text \in Seq(STRING) /\ pos \in 1..(Len(text) + 1)
    BY DEF FrontInOrder
  <2>2. Len(text) \in Nat
    BY <2>1
  <2> QED BY <2>1, <2>2
<1>1. \A i \in 1..(pos - 1) : i \in 1..(pos' - 1)
  <2>1. \A p, q \in Nat : p <= q => \A i \in 1..(p - 1) : i \in 1..(q - 1)
    OBVIOUS
  <2> QED BY <1>0, <2>1, Zenon
<1>2. NamesRead \subseteq NamesRead'
  BY <1>1 DEF NamesRead
<1>3. Declarations \subseteq Declarations'
  BY <1>2 DEF Declarations
<1>4. \A s : s \in Seq(Declarations) => s \in Seq(Declarations')
  BY <1>3, SeqMonotonic
<1> QED BY <1>1, <1>2, <1>4

LEMMA PullKeeps ==
  ASSUME FrontInOrder, Pull
  PROVE  FrontInOrder'
<1>1. text \in Seq(STRING) /\ pos \in 1..(Len(text) + 1) /\ mode \in Modes /\ Len(text) \in Nat
      /\ "Directive" \in Modes
  BY DEF FrontInOrder, Modes
<1>2. PICK t : t = Lex(pos, mode)
  OBVIOUS
<1>3. /\ t.kind \in Kinds /\ t.pos \in pos..(Len(text) + 1) /\ t.mode \in Modes
      /\ t.kind = "#" => pos <= Len(text) /\ text[pos] = "#" /\ t.pos = pos + 1
      /\ t.mode = "Directive" => mode = "Directive" \/ t.kind = "#"
      /\ t.kind = "identifier" => t.pos > 1 /\ text[t.pos - 1] \in Identifiers
  BY <1>1, <1>2, LexReads
<1>4. CASE PullToken
  <2>1. /\ t.kind # "#" /\ tok' = t.kind /\ want' = FALSE /\ pos' = t.pos /\ mode' = t.mode
        /\ UNCHANGED <<file, text, pc, name, decls, status>> /\ status = "running"
    BY <1>2, <1>4 DEF PullToken, Deliver, Pulling, source, parsing
  <2>2. mode' = "Directive" => \E i \in 1..(pos' - 1) : text'[i] = "#"
    BY <1>3, <2>1, CursorGoesOn DEF FrontInOrder
  <2>3. SpinsOnlyAfterDirective'
    BY <2>1 DEF SpinsOnlyAfterDirective
  <2>4. pos' \in pos..(Len(text) + 1) /\ pos' \in 1..(Len(text') + 1)
    BY <1>1, <1>3, <2>1
  <2>5. tok' = "identifier" => pos' > 1 /\ text'[pos' - 1] \in Identifiers
    BY <1>3, <2>1
  <2>6. (pc' \notin {"unit", "directive", "name"} => name' \in NamesRead')
        /\ decls' \in Seq(Declarations')
    BY <2>1, <2>4, CursorGoesOn DEF FrontInOrder
  <2> QED BY <1>3, <2>1, <2>2, <2>3, <2>4, <2>5, <2>6 DEF FrontInOrder
<1>5. CASE PullDirective
  <2>1. PICK d : d = Lex(t.pos, "Directive")
    OBVIOUS
  <2>2. /\ t.kind = "#" /\ tok' = "#" /\ want' = FALSE /\ pos' = d.pos /\ mode' = d.mode
        /\ UNCHANGED <<file, text, pc, name, decls, status>> /\ status = "running"
    BY <1>2, <1>5, <2>1 DEF PullDirective, Deliver, Pulling, source, parsing
  <2>3. t.pos = pos + 1 /\ text[pos] = "#" /\ t.pos \in 1..(Len(text) + 1)
    BY <1>1, <1>3, <2>2
  <2>4. d.pos \in t.pos..(Len(text) + 1) /\ d.mode \in Modes
    BY <1>1, <2>1, <2>3, LexReads
  <2>5. pos \in 1..(pos' - 1) /\ pos' \in pos..(Len(text) + 1) /\ pos' \in 1..(Len(text) + 1)
    BY <1>1, <2>2, <2>3, <2>4
  <2>6. SpinsOnlyAfterDirective'
    BY <2>2 DEF SpinsOnlyAfterDirective
  <2>7. tok' \in Kinds /\ tok' # "identifier"
    BY <2>2 DEF Kinds
  <2>8. \E i \in 1..(pos' - 1) : text'[i] = "#"
    BY <2>2, <2>3, <2>5
  <2> QED BY <1>1, <2>2, <2>4, <2>5, <2>6, <2>7, <2>8, CursorGoesOn DEF FrontInOrder
<1>6. CASE Spin
  <2>1. status' = "hung" /\ UNCHANGED <<file, text, pos, mode, want, tok, pc, name, decls>>
        /\ (Spins(pos, mode) \/ t.kind = "#")
    BY <1>2, <1>6 DEF Spin, source, lexing, parsing
  <2>4. \E i \in 1..pos : i <= Len(text) /\ text[i] = "#"
    <3>1. CASE Spins(pos, mode)
      <4>1. PICK i \in 1..(pos - 1) : text[i] = "#"
        BY <3>1 DEF Spins, FrontInOrder
      <4>2. i \in 1..pos /\ i <= Len(text)
        BY <1>1
      <4> QED BY <4>1, <4>2
    <3>2. CASE t.kind = "#"
      <4>1. pos \in 1..pos /\ pos <= Len(text) /\ text[pos] = "#"
        BY <1>1, <1>3, <3>2
      <4> QED BY <4>1
    <3> QED BY <2>1, <3>1, <3>2
  <2>5. SpinsOnlyAfterDirective'
    BY <2>1, <2>4 DEF SpinsOnlyAfterDirective
  <2> QED BY <2>1, <2>5 DEF FrontInOrder, NamesRead, Declarations
<1> QED BY <1>4, <1>5, <1>6 DEF Pull

(* The parser does not move the cursor: it goes on, asks for a token,      *)
(* declares, or ends.                                                      *)
LEMMA ParserStays ==
  ASSUME FrontInOrder, UNCHANGED <<file, text, pos, mode, tok>>,
         want' \in BOOLEAN,
         pc' \in {"unit", "directive", "name", "declarator", "parameters", "body", "block",
                  "return", "semicolon"},
         status' \in {"running", "done", "rejected"},
         pc' \notin {"unit", "directive", "name"} => name' \in NamesRead,
         decls' \in Seq(Declarations)
  PROVE  FrontInOrder'
  BY DEF FrontInOrder, NamesRead, Declarations, SpinsOnlyAfterDirective

LEMMA ParseKeeps ==
  ASSUME FrontInOrder, Parse
  PROVE  FrontInOrder'
<1> DEFINE Places == {"unit", "directive", "name", "declarator", "parameters", "body", "block",
                      "return", "semicolon"}
           Named == Places \ {"unit", "directive", "name"}
<1>0. decls \in Seq(Declarations) /\ want \in BOOLEAN /\ pc \in Places
      /\ (pc \in Named => name \in NamesRead)
  BY DEF FrontInOrder
<1>1. ASSUME NEW place, NEW kind \in {"variable", "function"}, NEW last, place \in Named,
             TakeDeclared(place, last, kind)
      PROVE  FrontInOrder'
  <2>1. /\ decls' = Append(decls, [kind |-> kind, name |-> name]) /\ pc' = "unit" /\ pc = place
        /\ want' = TRUE /\ name' = name /\ status = "running"
        /\ UNCHANGED <<file, text, pos, mode, tok, status>>
    BY <1>1 DEF TakeDeclared, At, Advance, Goto, Declare, source, lexing
  <2>2. [kind |-> kind, name |-> name] \in Declarations
    BY <1>0, <1>1, <2>1 DEF Declarations
  <2>3. decls' \in Seq(Declarations)
    BY <1>0, <2>1, <2>2
  <2> QED BY <2>1, <2>3, ParserStays
<1>2. CASE Name
  <2>1. CASE /\ At("name") /\ tok = "identifier" /\ name' = text[pos - 1]
             /\ Advance /\ Goto("declarator") /\ UNCHANGED decls
    <3>1. /\ pc' = "declarator" /\ want' = TRUE /\ name' = text[pos - 1] /\ status = "running"
          /\ UNCHANGED <<file, text, pos, mode, tok, status, decls>> /\ tok = "identifier"
      BY <2>1 DEF At, Advance, Goto, source, lexing
    <3>2. pos - 1 \in 1..(pos - 1) /\ text[pos - 1] \in Identifiers
      BY <3>1 DEF FrontInOrder
    <3>3. name' \in NamesRead
      BY <3>1, <3>2 DEF NamesRead
    <3> QED BY <1>0, <3>1, <3>3, ParserStays
  <2>2. CASE At("name") /\ Reject
    <3>1. status' = "rejected" /\ UNCHANGED <<file, text, pos, mode, tok, want, pc, name, decls>>
      BY <2>2 DEF Reject, source, lexing, parsing
    <3> QED BY <1>0, <3>1, ParserStays
  <2> QED BY <1>2, <2>1, <2>2 DEF Name
<1>3. CASE \/ TakeDeclared("declarator", "semicolon", "variable")
           \/ TakeDeclared("body", "semicolon", "function")
           \/ TakeDeclared("block", "rbrace", "function")
  BY <1>1, <1>3
<1>4. CASE Reject \/ UnitEnd
  <2>1. status' \in {"rejected", "done"}
        /\ UNCHANGED <<file, text, pos, mode, tok, want, pc, name, decls>>
    BY <1>4 DEF Reject, UnitEnd, source, lexing, parsing
  <2> QED BY <1>0, <2>1, ParserStays
<1>5. ASSUME UNCHANGED <<file, text, pos, mode, tok, status, name, decls>>, status = "running",
             want' \in BOOLEAN, pc' \in Places, pc' \in Named => pc \in Named
      PROVE  FrontInOrder'
  BY <1>0, <1>5, ParserStays
<1>6. CASE Unit
  BY <1>4, <1>5, <1>6 DEF Unit, Take, At, Advance, Goto, GoOn, source, lexing
<1>7. CASE Rest
  BY <1>0, <1>5, <1>7 DEF Rest, Take, At, Advance, Goto, GoOn, source, lexing
<1>8. CASE Declarator
  BY <1>3, <1>4, <1>5, <1>8 DEF Declarator, Take, At, Advance, Goto, GoOn, source, lexing
<1>9. CASE Parameters
  BY <1>4, <1>5, <1>9 DEF Parameters, Take, At, Advance, Goto, GoOn, source, lexing
<1>10. CASE Body
  BY <1>3, <1>4, <1>5, <1>10 DEF Body, Take, At, Advance, Goto, GoOn, source, lexing
<1>11. CASE Block
  BY <1>3, <1>4, <1>5, <1>11 DEF Block, Take, At, Advance, Goto, GoOn, source, lexing
<1>12. CASE Return
  BY <1>4, <1>5, <1>12 DEF Return, Take, At, Advance, Goto, GoOn, source, lexing
<1> QED BY <1>2, <1>6, <1>7, <1>8, <1>9, <1>10, <1>11, <1>12 DEF Parse

LEMMA FrontStaysInOrder == Spec => []FrontInOrder
<1>1. FrontInOrder /\ [Next]_vars => FrontInOrder'
  <2>1. ASSUME FrontInOrder, UNCHANGED vars
        PROVE  FrontInOrder'
    BY <2>1 DEF FrontInOrder, NamesRead, Declarations, SpinsOnlyAfterDirective, vars, source,
                lexing, parsing
  <2> QED BY <2>1, PullKeeps, ParseKeeps DEF Next
<1> QED BY <1>1, InitFront, PTL DEF Spec

(* The variables keep their types; the cursor never passes the end.        *)
THEOREM TypesHold == Spec => []TypeOK
<1>1. FrontInOrder => TypeOK
  <2> SUFFICES ASSUME FrontInOrder PROVE TypeOK
    OBVIOUS
  <2>1. \A i \in DOMAIN decls : decls[i] \in Declarations
    BY DEF FrontInOrder
  <2>2. \A i \in DOMAIN decls : decls[i].kind \in {"variable", "function"}
    BY <2>1 DEF Declarations
  <2> QED BY <2>2 DEF FrontInOrder, TypeOK, Modes
<1> QED BY <1>1, FrontStaysInOrder, PTL

(* The lexer fails to come back from a comment only if the text has a `#`  *)
(* at the cursor or before it.                                             *)
THEOREM HangsBehindDirective == Spec => []SpinsOnlyAfterDirective
<1>1. FrontInOrder => SpinsOnlyAfterDirective
  BY DEF FrontInOrder
<1> QED BY <1>1, FrontStaysInOrder, PTL

(* Whatever the file, nothing is declared under a name that the parser has *)
(* not read as an identifier.                                              *)
DeclaredNamesRead == \A i \in DOMAIN decls : decls[i].name \in NamesRead
THEOREM NamesAreRead == Spec => []DeclaredNamesRead
<1>1. FrontInOrder => DeclaredNamesRead
  <2> SUFFICES ASSUME FrontInOrder, NEW i \in DOMAIN decls PROVE decls[i].name \in NamesRead
    BY DEF DeclaredNamesRead
  <2>1. decls[i] \in Declarations
    BY DEF FrontInOrder
  <2> QED BY <2>1 DEF Declarations
<1> QED BY <1>1, FrontStaysInOrder, PTL

---------------------------------------------------------------------------
(* Where the items of a file are in its text: b[k] lexemes belong to the   *)
(* first k items, which make the declarations d[k].                        *)
IsLayout(b) ==
  /\ b \in [0..Len(file) -> 0..Len(text)] /\ b[0] = 0 /\ b[Len(file)] = Len(text)
  /\ \A k \in DOMAIN file :
       /\ b[k] = b[k - 1] + Len(file[k].text)
       /\ \A o \in 1..Len(file[k].text) : text[b[k - 1] + o] = file[k].text[o]
IsDeclared(d) ==
  d = [n \in 0..Len(file) |->
         IF n = 0 THEN <<>>
         ELSE IF file[n].decl = NoDecl THEN d[n - 1]
         ELSE Append(d[n - 1], file[n].decl)]

LEMMA FlatLayout ==
  ASSUME NEW T, NEW seqs \in Seq(Seq(T))
  PROVE  \E b \in [0..Len(seqs) -> 0..Len(FlattenSeq(seqs))] :
           /\ b[0] = 0 /\ b[Len(seqs)] = Len(FlattenSeq(seqs))
           /\ \A k \in 1..Len(seqs) :
                /\ b[k] = b[k - 1] + Len(seqs[k])
                /\ \A o \in 1..Len(seqs[k]) : FlattenSeq(seqs)[b[k - 1] + o] = seqs[k][o]
<1>1. CASE Len(seqs) = 0
  <2>1. seqs = <<>> /\ FlattenSeq(seqs) = seqs
    BY <1>1 DEF FlattenSeq
  <2> DEFINE b == [k \in 0..0 |-> 0]
  <2>2. b \in [0..0 -> 0..0] /\ b[0] = 0
    OBVIOUS
  <2> HIDE DEF b
  <2> QED BY <2>1, <2>2
<1>2. CASE Len(seqs) # 0
  <2> DEFINE f == CHOOSE f : IsFlat(seqs, Len(seqs), f)
             b == [k \in 0..Len(seqs) |-> IF k = 0 THEN 0 ELSE Len(f[k])]
             lies(m) ==
               /\ m # 0 => f[m] \in Seq(T)
               /\ \A k \in 0..m : b[k] \in 0..b[m]
               /\ \A k \in 1..m :
                    /\ b[k] = b[k - 1] + Len(seqs[k])
                    /\ \A o \in 1..Len(seqs[k]) : f[m][b[k - 1] + o] = seqs[k][o]
             S == {m \in 0..Len(seqs) : lies(m)}
  <2>1. FlattenSeq(seqs) = f[Len(seqs)]
    BY <1>2 DEF FlattenSeq, IsFlat
  <2>2. IsFlat(seqs, Len(seqs), f)
    BY FlatExists
  <2>3. b[0] = 0 /\ \A k \in 1..Len(seqs) : b[k] = Len(f[k])
    <3> HIDE DEF f
    <3> QED OBVIOUS
  <2>4. DOMAIN b = 0..Len(seqs) /\ b = [k \in 0..Len(seqs) |-> b[k]]
    <3> HIDE DEF f
    <3> QED OBVIOUS
  <2> HIDE DEF f, b
  <2>5. 0 \in S
    <3>1. lies(0)
      BY <2>3
    <3> HIDE DEF lies
    <3> QED BY <3>1
  <2>6. ASSUME NEW m \in 0..(Len(seqs) - 1), lies(m)
        PROVE  lies(m + 1)
    <3>1. m + 1 \in 1..Len(seqs) /\ (m + 1) - 1 = m /\ (m + 1 = 1 <=> m = 0)
      OBVIOUS
    <3>2. f[m + 1] = IF m = 0 THEN seqs[m + 1] ELSE f[m] \o seqs[m + 1]
      BY <2>2, <3>1 DEF IsFlat
    <3>3. seqs[m + 1] \in Seq(T)
      BY <3>1
    <3>4. PICK g : g = IF m = 0 THEN <<>> ELSE f[m]
      OBVIOUS
    <3>5. g \in Seq(T) /\ Len(g) = b[m]
      <4>1. CASE m = 0
        BY <2>3, <3>4, <4>1
      <4>2. CASE m # 0
        <5>1. m \in 1..Len(seqs) /\ g = f[m]
          BY <3>4, <4>2
        <5> QED BY <2>3, <2>6, <4>2, <5>1
      <4> QED BY <4>1, <4>2
    <3>6. f[m + 1] = g \o seqs[m + 1]
      <4>1. CASE m = 0
        <5>1. g = <<>> /\ f[m + 1] = seqs[m + 1]
          BY <3>2, <3>4, <4>1
        <5> QED BY <3>3, <5>1, ConcatEmptySeq
      <4>2. CASE m # 0
        BY <3>2, <3>4, <4>2
      <4> QED BY <4>1, <4>2
    <3>7. PICK w, h : w = seqs[m + 1] /\ h = f[m + 1]
      OBVIOUS
    <3>8. /\ h \in Seq(T) /\ Len(h) = Len(g) + Len(w)
          /\ \A i \in 1..Len(g) : h[i] = g[i]
          /\ \A o \in 1..Len(w) : h[Len(g) + o] = w[o]
      <4>1. h = g \o w /\ w \in Seq(T)
        BY <3>3, <3>6, <3>7
      <4>2. \A i \in 1..Len(g) + Len(w) : h[i] = IF i <= Len(g) THEN g[i] ELSE w[i - Len(g)]
        BY <3>5, <4>1, ConcatProperties
      <4>3. h \in Seq(T) /\ Len(h) = Len(g) + Len(w) /\ Len(g) \in Nat /\ Len(w) \in Nat
        <5>1. g \o w \in Seq(T) /\ Len(g \o w) = Len(g) + Len(w)
          BY <3>5, <4>1, ConcatProperties, Zenon
        <5>2. Len(g) \in Nat /\ Len(w) \in Nat
          BY <3>5, <4>1
        <5> QED BY <4>1, <5>1, <5>2, Zenon
      <4>4. \A o \in 1..Len(w) : Len(g) + o \in 1..Len(g) + Len(w) /\ ~(Len(g) + o <= Len(g))
                                 /\ (Len(g) + o) - Len(g) = o
        BY <4>3
      <4>5. \A i \in 1..Len(g) : i \in 1..Len(g) + Len(w) /\ i <= Len(g)
        BY <4>3
      <4> QED BY <4>2, <4>3, <4>4, <4>5
    <3>9. b[m + 1] = b[m] + Len(w) /\ b[m] \in Nat /\ Len(w) \in Nat
      BY <2>3, <3>1, <3>3, <3>5, <3>7, <3>8
    <3>10. \A k \in 0..(m + 1) : b[k] \in 0..b[m + 1]
      <4> SUFFICES ASSUME NEW k \in 0..(m + 1) PROVE b[k] \in 0..b[m + 1]
        OBVIOUS
      <4>1. CASE k = m + 1
        BY <3>9, <4>1
      <4>2. CASE k \in 0..m
        <5>1. b[k] \in 0..b[m]
          BY <2>6, <4>2
        <5> QED BY <3>9, <5>1
      <4> QED BY <4>1, <4>2
    <3>11. ASSUME NEW k \in 1..(m + 1)
           PROVE  /\ b[k] = b[k - 1] + Len(seqs[k])
                  /\ \A o \in 1..Len(seqs[k]) : f[m + 1][b[k - 1] + o] = seqs[k][o]
      <4>1. CASE k = m + 1
        <5>1. b[k - 1] = Len(g) /\ seqs[k] = w /\ b[k] = b[m] + Len(w) /\ b[k - 1] = b[m]
          BY <3>1, <3>5, <3>7, <3>9, <4>1
        <5> QED BY <3>7, <3>8, <5>1
      <4>2. CASE k \in 1..m
        <5>1. m # 0 /\ g = f[m]
          BY <3>4, <4>2
        <5>2. /\ b[k] = b[k - 1] + Len(seqs[k])
              /\ \A o \in 1..Len(seqs[k]) : g[b[k - 1] + o] = seqs[k][o]
          BY <2>6, <4>2, <5>1
        <5>3. b[k] \in 0..b[m] /\ b[k - 1] \in 0..b[m]
          <6>1. k \in 0..m /\ k - 1 \in 0..m
            BY <4>2
          <6> QED BY <2>6, <6>1
        <5>4. k \in 1..Len(seqs) /\ Len(seqs[k]) \in Nat
          BY <4>2
        <5>5. \A o \in 1..Len(seqs[k]) : b[k - 1] + o \in 1..Len(g)
          <6>1. PICK n \in Nat : n = Len(seqs[k])
            BY <5>4
          <6>2. b[k] = b[k - 1] + n /\ b[k] \in 0..b[m] /\ b[k - 1] \in Nat /\ Len(g) = b[m]
                /\ b[m] \in Nat
            BY <3>5, <3>9, <5>2, <5>3, <6>1
          <6>3. \A x, y, z \in Nat : x + n <= z => \A o \in 1..n : x + o \in 1..z
            OBVIOUS
          <6>4. b[k - 1] + n <= b[m]
            BY <6>2
          <6> QED BY <6>1, <6>2, <6>3, <6>4
        <5> QED BY <3>7, <3>8, <5>2, <5>5
      <4> QED BY <4>1, <4>2
    <3>12. m + 1 # 0 => f[m + 1] \in Seq(T)
      BY <3>7, <3>8
    <3> QED BY <3>10, <3>11, <3>12
  <2>7. Len(seqs) \in S
    <3>1. \A m \in 0..(Len(seqs) - 1) : m \in S => m + 1 \in S
      <4>1. \A m \in 0..(Len(seqs) - 1) : m \in 0..Len(seqs) /\ m + 1 \in 0..Len(seqs)
        OBVIOUS
      <4> HIDE DEF lies
      <4> QED BY <2>6, <4>1
    <3> HIDE DEF S
    <3> QED BY <2>5, <3>1, Climb
  <2>8. lies(Len(seqs)) /\ Len(seqs) \in 1..Len(seqs)
    <3> HIDE DEF lies
    <3> QED BY <1>2, <2>7
  <2>9. b[Len(seqs)] = Len(FlattenSeq(seqs))
    BY <2>1, <2>3, <2>8
  <2>10. b \in [0..Len(seqs) -> 0..Len(FlattenSeq(seqs))]
    BY <2>4, <2>8, <2>9
  <2> QED BY <2>1, <2>3, <2>8, <2>9, <2>10
<1> QED BY <1>1, <1>2

(* The items of a file, and their texts.                                   *)
LEMMA FileIsSeq ==
  ASSUME NEW f \in Files
  PROVE  /\ Len(f) \in Nat /\ DOMAIN f = 1..Len(f)
         /\ \A k \in 1..Len(f) : f[k].text \in Seq(STRING) /\ Len(f[k].text) \in Nat
<1> DEFINE Items == [text : Seq(STRING), decl : {f[i].decl : i \in DOMAIN f}]
<1>1. f \in Seq(Items)
  BY FilesAssumption
<1>2. Len(f) \in Nat /\ DOMAIN f = 1..Len(f) /\ \A k \in 1..Len(f) : f[k] \in Items
  <2> HIDE DEF Items
  <2> QED BY <1>1
<1>3. \A k \in 1..Len(f) : f[k].text \in Seq(STRING)
  BY <1>2
<1>4. \A s \in Seq(STRING) : Len(s) \in Nat
  OBVIOUS
<1> QED BY <1>2, <1>3, <1>4

LaidOut == \E b : IsLayout(b)
LEMMA InitLaidOut == Init => LaidOut
<1> SUFFICES ASSUME Init PROVE LaidOut
  OBVIOUS
<1> DEFINE texts == [i \in DOMAIN file |-> file[i].text]
<1>1. file \in Files /\ text = FlattenSeq(texts)
  BY DEF Init
<1>2. Len(file) \in Nat /\ DOMAIN file = 1..Len(file)
      /\ \A k \in 1..Len(file) : file[k].text \in Seq(STRING)
  BY <1>1, FileIsSeq
<1>3. /\ texts \in [1..Len(file) -> Seq(STRING)] /\ DOMAIN texts = 1..Len(file)
      /\ \A k \in 1..Len(file) : texts[k] = file[k].text
  BY <1>2
<1> HIDE DEF texts
<1>4. texts \in Seq(Seq(STRING)) /\ Len(texts) = Len(file)
  BY <1>2, <1>3
<1>5. PICK b \in [0..Len(texts) -> 0..Len(FlattenSeq(texts))] :
        /\ b[0] = 0 /\ b[Len(texts)] = Len(FlattenSeq(texts))
        /\ \A k \in 1..Len(texts) :
             /\ b[k] = b[k - 1] + Len(texts[k])
             /\ \A o \in 1..Len(texts[k]) : FlattenSeq(texts)[b[k - 1] + o] = texts[k][o]
  BY <1>4, FlatLayout
<1>6. \A k \in 1..Len(file) :
        /\ b[k] = b[k - 1] + Len(file[k].text)
        /\ \A o \in 1..Len(file[k].text) : text[b[k - 1] + o] = file[k].text[o]
  BY <1>1, <1>3, <1>4, <1>5
<1>7. IsLayout(b)
  BY <1>1, <1>2, <1>4, <1>5, <1>6 DEF IsLayout
<1> QED BY <1>7 DEF LaidOut

LEMMA DeclaredExists ==
  ASSUME file \in Files
  PROVE  \E d : IsDeclared(d)
<1> DEFINE next(d, n) ==
             IF n = 0 THEN <<>>
             ELSE IF file[n].decl = NoDecl THEN d[n - 1]
             ELSE Append(d[n - 1], file[n].decl)
           S == {m \in 0..Len(file) : \E d : d = [n \in 0..m |-> next(d, n)]}
<1>0. Len(file) \in Nat
  BY FileIsSeq
<1>1. 0 \in S
  <2> DEFINE d == [n \in 0..0 |-> <<>>]
  <2>1. d = [n \in 0..0 |-> next(d, n)]
    OBVIOUS
  <2> HIDE DEF d, next
  <2>2. \E h : h = [n \in 0..0 |-> next(h, n)]
    BY <2>1
  <2>3. 0 \in 0..Len(file)
    BY <1>0
  <2> QED BY <2>2, <2>3
<1>2. ASSUME NEW k \in 0..(Len(file) - 1), k \in S
      PROVE  k + 1 \in S
  <2>1. PICK f : f = [n \in 0..k |-> next(f, n)]
    <3> HIDE DEF next
    <3> QED BY <1>2
  <2> DEFINE g == [n \in 0..(k + 1) |-> IF n = k + 1 THEN next(f, k + 1) ELSE f[n]]
  <2>2. ASSUME NEW n \in 0..(k + 1)
        PROVE  g[n] = next(g, n)
    <3>1. CASE n = k + 1
      <4>1. g[n] = next(f, k + 1) /\ g[k] = f[k] /\ n - 1 = k /\ (k + 1) - 1 = k
        <5> HIDE DEF next
        <5> QED BY <1>0, <3>1
      <4> HIDE DEF g
      <4> QED BY <3>1, <4>1
    <3>2. CASE n # k + 1
      <4>1. n \in 0..k /\ g[n] = f[n]
        <5> HIDE DEF next
        <5> QED BY <1>0, <3>2
      <4>2. f[n] = next(f, n)
        <5> HIDE DEF next
        <5> QED BY <2>1, <4>1
      <4>3. n # 0 => g[n - 1] = f[n - 1]
        <5>1. n # 0 => n - 1 \in 0..(k + 1) /\ n - 1 # k + 1
          BY <1>0, <4>1
        <5> HIDE DEF next
        <5> QED BY <5>1
      <4> HIDE DEF g
      <4> QED BY <4>1, <4>2, <4>3
    <3> QED BY <3>1, <3>2
  <2>3. g = [n \in 0..(k + 1) |-> g[n]]
    <3> HIDE DEF next
    <3> QED OBVIOUS
  <2>4. g = [n \in 0..(k + 1) |-> next(g, n)]
    <3> HIDE DEF g, next
    <3> QED BY <2>2, <2>3
  <2>5. k + 1 \in 0..Len(file)
    BY <1>0
  <2> HIDE DEF g, next
  <2> QED BY <2>4, <2>5
<1>3. Len(file) \in S
  <2> HIDE DEF S
  <2> QED BY <1>0, <1>1, <1>2, Climb
<1> QED BY <1>3 DEF IsDeclared

LEMMA DeclaredIs ==
  ASSUME NEW d, IsDeclared(d), file \in Files
  PROVE  /\ d[0] = <<>>
         /\ \A k \in 1..Len(file) :
              d[k] = IF file[k].decl = NoDecl THEN d[k - 1] ELSE Append(d[k - 1], file[k].decl)
<1>1. Len(file) \in Nat
  BY FileIsSeq
<1>2. \A k \in 0..Len(file) :
        d[k] = IF k = 0 THEN <<>>
               ELSE IF file[k].decl = NoDecl THEN d[k - 1]
               ELSE Append(d[k - 1], file[k].decl)
  BY DEF IsDeclared
<1>3. 0 \in 0..Len(file) /\ \A k \in 1..Len(file) : k \in 0..Len(file) /\ k # 0
  BY <1>1
<1> QED BY <1>2, <1>3

---------------------------------------------------------------------------
(* What the lexer reads at the lexemes that well-formed items are made of. *)
Token(c) == IF c = "nl" THEN "newline" ELSE WordKind(c)

LEMMA IdentifiersApart ==
  ASSUME NEW c \in Identifiers
  PROVE  /\ c \notin TypeWords /\ c \notin Punctuation
         /\ c \notin {"0", "1", "include", "return", "nl", "#", "//", "quote"}
  BY IdentifiersAssumption

LEMMA Tokens ==
  ASSUME NEW c
  PROVE  /\ Token(c) \notin {"EOF", "#", "system", "string"}
         /\ \A s \in {"lparen", "rparen", "lbrace", "rbrace", "semicolon", "return"} :
              Token(c) = s <=> c = s
         /\ c \in TypeWords => Token(c) = "type"
         /\ c \in Identifiers => Token(c) = "identifier"
<1>1. CASE c \in Identifiers
  <2>1. /\ c \notin TypeWords /\ c \notin Punctuation
        /\ c \notin {"0", "1", "include", "return", "nl", "#", "//", "quote"}
    BY <1>1, IdentifiersApart
  <2>2. Token(c) = "identifier"
    BY <1>1, <2>1 DEF Token, WordKind
  <2> QED BY <2>1, <2>2 DEF Punctuation
<1>2. CASE c \notin Identifiers
  BY <1>2 DEF Token, WordKind, Punctuation, TypeWords
<1> QED BY <1>1, <1>2

LEMMA LexPlain ==
  ASSUME text \in Seq(STRING), NEW p \in 1..Len(text), NEW m \in Modes,
         text[p] \notin {"quote", "#", "//"}, ~(m = "Directive" /\ text[p] = "<")
  PROVE  Lex(p, m) = Read(Token(text[p]), p + 1, m) /\ ~Spins(p, m)
<1>1. Len(text) \in Nat /\ SkipFrom(p) = p /\ ~(p > Len(text))
  BY DEF SkipFrom
<1>2. LexAt(p, m) = Read(Token(text[p]), p + 1, m)
  BY <1>1 DEF LexAt, Newline, Token
<1> QED BY <1>1, <1>2 DEF Lex, Spins

LEMMA LexEnd ==
  ASSUME text \in Seq(STRING), NEW p, p = Len(text) + 1, NEW m \in Modes
  PROVE  Lex(p, m) = Read("EOF", p, m)
<1>1. Len(text) \in Nat /\ p > Len(text) /\ ~(p <= Len(text))
  OBVIOUS
<1>2. SkipFrom(p) = p
  BY <1>1 DEF SkipFrom
<1>3. LexAt(p, m) = Read("EOF", p, m)
  BY <1>1 DEF LexAt
<1> QED BY <1>2, <1>3 DEF Lex

LEMMA EndsAtIs ==
  ASSUME text \in Seq(STRING), NEW p \in 1..(Len(text) + 1), NEW stops,
         NEW e \in p..Len(text), text[e] \in stops, \A i \in p..(e - 1) : text[i] \notin stops
  PROVE  EndsAt(p, stops) = e
<1>1. PICK x \in p..(Len(text) + 1) :
        /\ x = EndsAt(p, stops)
        /\ x = Len(text) + 1 \/ text[x] \in stops
        /\ \A i \in p..(x - 1) : text[i] \notin stops
  BY EndsAtStop
<1>2. Len(text) \in Nat
  OBVIOUS
<1>3. ~(x < e)
  BY <1>1, <1>2
<1>4. ~(e < x)
  BY <1>1, <1>2
<1> QED BY <1>1, <1>2, <1>3, <1>4

LEMMA LexComment ==
  ASSUME text \in Seq(STRING), NEW p \in 1..Len(text), NEW e \in (p + 1)..Len(text),
         text[p] = "//", text[e] = "nl", \A i \in p..(e - 1) : text[i] # "nl"
  PROVE  Lex(p, "Standard") = Read("newline", e + 1, "Standard")
<1>1. Len(text) \in Nat /\ p \in 1..(Len(text) + 1) /\ e \in p..Len(text)
  OBVIOUS
<1>2. EndsAt(p, {"nl"}) = e
  BY <1>1, EndsAtIs
<1>3. SkipFrom(p) = e
  BY <1>1, <1>2 DEF SkipFrom
<1>4. LexAt(e, "Standard") = Read("newline", e + 1, "Standard")
  BY <1>1 DEF LexAt, Newline
<1> QED BY <1>3, <1>4 DEF Lex

LEMMA LexHeader ==
  ASSUME text \in Seq(STRING), NEW p \in 1..Len(text), p + 2 <= Len(text)
  PROVE  /\ text[p] = "<" /\ text[p + 1] \notin {">", "nl"} /\ text[p + 2] = ">"
              => Lex(p, "Directive") = Read("system", p + 3, "Standard")
         /\ text[p] = "quote" /\ text[p + 1] \notin {"quote", "nl"} /\ text[p + 2] = "quote"
              => Lex(p, "Directive") = Read("string", p + 3, "Directive")
<1>1. /\ Len(text) \in Nat /\ p + 1 \in 1..(Len(text) + 1) /\ p + 2 \in (p + 1)..Len(text)
      /\ (p + 1)..((p + 2) - 1) = {p + 1} /\ (p + 2) + 1 = p + 3 /\ ~(p > Len(text))
  OBVIOUS
<1>2. ASSUME NEW close \in {">", "quote"}, text[p + 1] \notin {close, "nl"}, text[p + 2] = close
      PROVE  Behind(EndsAt(p + 1, {close, "nl"}), close) = p + 3
  <2>1. EndsAt(p + 1, {close, "nl"}) = p + 2
    <3>1. \A i \in (p + 1)..((p + 2) - 1) : text[i] \notin {close, "nl"}
      BY <1>1, <1>2
    <3>2. text[p + 2] \in {close, "nl"}
      BY <1>2
    <3> QED BY <1>1, <3>1, <3>2, EndsAtIs
  <2> QED BY <1>1, <1>2, <2>1 DEF Behind
<1>3. text[p] \in {"<", "quote"} => SkipFrom(p) = p
  BY DEF SkipFrom
<1>4. ASSUME text[p] = "<", text[p + 1] \notin {">", "nl"}, text[p + 2] = ">"
      PROVE  Lex(p, "Directive") = Read("system", p + 3, "Standard")
  BY <1>1, <1>2, <1>3, <1>4 DEF Lex, LexAt
<1>5. ASSUME text[p] = "quote", text[p + 1] \notin {"quote", "nl"}, text[p + 2] = "quote"
      PROVE  Lex(p, "Directive") = Read("string", p + 3, "Directive")
  BY <1>1, <1>2, <1>3, <1>5 DEF Lex, LexAt
<1> QED BY <1>4, <1>5

---------------------------------------------------------------------------
(* The invariant behind WellFormedAccepted and DeclarationsFound: with a   *)
(* file of well-formed items the parser is where the cursor is in one of   *)
(* them, it has declared what the items before make, and mode Directive is *)
(* the stale one of a quoted include, but for the rest of a directive.     *)
Declaration(x) == Variable(x) \/ Prototype(x) \/ Function(x)

(* Inside declaration x, of which o lexemes are parsed.                    *)
Within(x, o) ==
  /\ Declaration(x)
  /\ \/ pc = "name" /\ o = 1
     \/ /\ name = x.text[2]
        /\ \/ pc = "declarator" /\ o = 2
           \/ pc = "parameters" /\ ~Variable(x) /\ o = 3
           \/ pc = "body" /\ ~Variable(x) /\ o = 4
           \/ /\ Function(x) /\ o \in 5..(Len(x.text) - 1)
              /\ \/ pc = "block"
                 \/ pc = "return" /\ o > 5 /\ x.text[o] = "return"
                 \/ pc = "semicolon" /\ o + 1 < Len(x.text) /\ x.text[o + 1] = "semicolon"

(* At item x, with s lexemes before it: before the next token is read, and *)
(* with the token read.                                                    *)
ReadingIn(x, s) ==
  \/ pc = "directive" /\ Include(x) /\ pos = s + 3 /\ tok = "#" /\ mode = "Directive"
  \/ pc = "directive" /\ Include(x) /\ pos = s + 6 /\ tok \in {"system", "string"}
  \/ \E o \in 1..(Len(x.text) - 1) : pos = s + o + 1 /\ Within(x, o)
HoldingIn(x, s) ==
  \/ pc = "unit" /\ Include(x) /\ pos = s + 3 /\ tok = "#" /\ mode = "Directive"
  \/ pc = "unit" /\ Declaration(x) /\ pos = s + 2 /\ tok = "type"
  \/ pc = "directive" /\ Include(x) /\ pos = s + 6 /\ tok \in {"system", "string"}
  \/ \E o \in 1..(Len(x.text) - 1) :
       pos = s + o + 2 /\ Within(x, o) /\ tok = Token(x.text[o + 1])
Reading(b, d) ==
  \/ pc = "unit" /\ \E k \in 0..Len(file) : pos = b[k] + 1 /\ decls = d[k]
  \/ \E k \in 1..Len(file) : decls = d[k - 1] /\ ReadingIn(file[k], b[k - 1])
Holding(b, d) ==
  \/ /\ tok = "newline" /\ pc \in {"unit", "directive"}
     /\ \E k \in 0..Len(file) : pos = b[k] + 1 /\ decls = d[k]
  \/ tok = "EOF" /\ pc = "unit" /\ decls = d[Len(file)]
  \/ \E k \in 1..Len(file) : decls = d[k - 1] /\ HoldingIn(file[k], b[k - 1])

Stale ==
  \E i \in 1..(pos - 1) :
    /\ text[i] = "quote" /\ Header(i)
    /\ \A j \in i..(pos - 1) : text[j] = "<" => ~Header(j)
Opened == tok = "#" /\ ((pc = "unit" /\ ~want) \/ (pc = "directive" /\ want))
ModeKept == mode = "Directive" => Opened \/ Stale

InItem(b, d) ==
  /\ status # "rejected"
  /\ status = "hung" => CommentCaught
  /\ status = "done" => decls = d[Len(file)]
  /\ status = "running" =>
       ModeKept /\ (want => Reading(b, d)) /\ (~want => Holding(b, d))
Given(b, d) == IsLayout(b) /\ IsDeclared(d) /\ WellFormed /\ ~LessMisread

LEMMA ItemAt ==
  ASSUME FrontInOrder, NEW b, IsLayout(b), NEW k \in 1..Len(file)
  PROVE  /\ b[k - 1] \in Nat /\ b[k] \in Nat /\ Len(file[k].text) \in Nat /\ Len(text) \in Nat
         /\ b[k] = b[k - 1] + Len(file[k].text) /\ b[k] <= Len(text)
         /\ k \in 0..Len(file) /\ k - 1 \in 0..Len(file)
         /\ \A o \in 1..Len(file[k].text) :
              text[b[k - 1] + o] = file[k].text[o] /\ b[k - 1] + o \in 1..Len(text)
<1>1. file \in Files /\ text \in Seq(STRING)
  BY DEF FrontInOrder
<1>2. Len(file) \in Nat /\ DOMAIN file = 1..Len(file) /\ Len(file[k].text) \in Nat
      /\ Len(text) \in Nat
  BY <1>1, FileIsSeq
<1>3. k \in 0..Len(file) /\ k - 1 \in 0..Len(file)
  BY <1>2
<1>4. b[k] \in 0..Len(text) /\ b[k - 1] \in 0..Len(text)
  BY <1>3 DEF IsLayout
<1>5. /\ b[k] = b[k - 1] + Len(file[k].text)
      /\ \A o \in 1..Len(file[k].text) : text[b[k - 1] + o] = file[k].text[o]
  BY <1>2 DEF IsLayout
<1>6. \A o \in 1..Len(file[k].text) : b[k - 1] + o \in 1..Len(text)
  <2>1. PICK n \in Nat : n = Len(file[k].text)
    BY <1>2
  <2>2. b[k - 1] \in Nat /\ Len(text) \in Nat /\ b[k - 1] + n <= Len(text)
    BY <1>2, <1>4, <1>5, <2>1
  <2>3. \A s, t \in Nat : s + n <= t => \A o \in 1..n : s + o \in 1..t
    OBVIOUS
  <2> QED BY <2>1, <2>2, <2>3, Zenon
<1>7. b[k - 1] \in Nat /\ b[k] \in Nat /\ b[k] <= Len(text)
  BY <1>2, <1>4
<1> QED BY <1>2, <1>3, <1>5, <1>6, <1>7, Zenon

LEMMA ItemIs ==
  ASSUME FrontInOrder, WellFormed, NEW k \in 1..Len(file)
  PROVE  LET x == file[k]
         IN Empty(x) \/ Comment(x) \/ Include(x) \/ Declaration(x)
<1>1. DOMAIN file = 1..Len(file)
  BY FileIsSeq DEF FrontInOrder
<1> QED BY <1>1 DEF WellFormed, Declaration

(* The lexemes of a declaration.                                           *)
LEMMA DeclarationText ==
  ASSUME NEW x, Declaration(x), Len(x.text) \in Nat
  PROVE  /\ Len(x.text) >= 3 /\ x.text[1] \in TypeWords /\ x.text[2] \in Identifiers
         /\ x.decl \in [kind : {"variable", "function"}, name : Identifiers]
         /\ Variable(x) => /\ Len(x.text) = 3 /\ x.text[3] = "semicolon"
                           /\ x.decl = [kind |-> "variable", name |-> x.text[2]]
         /\ ~Variable(x) => /\ Len(x.text) >= 5 /\ x.text[3] = "lparen" /\ x.text[4] = "rparen"
                            /\ x.decl = [kind |-> "function", name |-> x.text[2]]
         /\ ~Variable(x) /\ ~Function(x) => Len(x.text) = 5 /\ x.text[5] = "semicolon"
         /\ Function(x) => ~Variable(x) /\ Len(x.text) > 5 /\ x.text[5] = "lbrace"
<1>1. ASSUME NEW kind \in {"variable", "function"}, Declares(x, kind)
      PROVE  /\ x.text[1] \in TypeWords /\ x.text[2] \in Identifiers
             /\ x.decl = [kind |-> kind, name |-> x.text[2]]
             /\ x.decl \in [kind : {"variable", "function"}, name : Identifiers]
  <2>1. /\ x.text[1] \in TypeWords /\ x.text[2] \in Identifiers
        /\ x.decl = [kind |-> kind, name |-> x.text[2]]
    BY <1>1 DEF Declares
  <2>2. [kind |-> kind, name |-> x.text[2]] \in [kind : {"variable", "function"},
                                                 name : Identifiers]
    BY <2>1
  <2> QED BY <2>1, <2>2
<1>2. CASE Variable(x)
  <2>1. Len(x.text) = 3 /\ x.text[3] = "semicolon" /\ Declares(x, "variable") /\ ~Function(x)
    BY <1>2 DEF Variable, Function
  <2> QED BY <1>1, <1>2, <2>1
<1>3. CASE Prototype(x)
  <2>1. /\ Len(x.text) = 5 /\ x.text[5] = "semicolon" /\ Declares(x, "function")
        /\ ~Function(x) /\ ~Variable(x) /\ x.text[3] = "lparen" /\ x.text[4] = "rparen"
    BY <1>3 DEF Prototype, Function, Variable, Signature
  <2> QED BY <1>1, <2>1
<1>4. CASE Function(x)
  <2>1. /\ Len(x.text) > 5 /\ x.text[5] = "lbrace" /\ Declares(x, "function")
        /\ ~Variable(x) /\ x.text[3] = "lparen" /\ x.text[4] = "rparen"
    BY <1>4 DEF Function, Variable, Signature
  <2> QED BY <1>1, <1>4, <2>1
<1> QED BY <1>2, <1>3, <1>4 DEF Declaration

LEMMA FunctionText ==
  ASSUME NEW x, Function(x), Len(x.text) \in Nat
  PROVE  /\ Len(x.text) > 5 /\ x.text[5] = "lbrace" /\ x.text[Len(x.text)] = "rbrace"
         /\ \A i \in 6..(Len(x.text) - 1) :
              /\ x.text[i] \notin {"lbrace", "rbrace", "#", "//", "quote", "include"}
              /\ x.text[i] = "return" =>
                   x.text[i + 1] = "semicolon" \/ (i + 2 < Len(x.text) /\ x.text[i + 2] = "semicolon")
  BY DEF Function

(* What follows inside a declaration is read as it is.                     *)
LEMMA WithinPlain ==
  ASSUME NEW x, NEW o, Within(x, o), Len(x.text) \in Nat
  PROVE  /\ o \in 1..(Len(x.text) - 1)
         /\ x.text[o + 1] \notin {"quote", "#", "//"}
         /\ x.text[o + 1] = "<" => x.text[o] # "include"
<1>1. PICK n \in Nat : n = Len(x.text)
  OBVIOUS
<1>2. Declaration(x)
  BY DEF Within
<1>3. CASE Function(x) /\ o \in 5..(n - 1)
  <2>1. CASE o + 1 = n
    <3>1. x.text[n] = "rbrace" /\ n > 5
      BY <1>1, <1>3, FunctionText
    <3> QED BY <1>1, <1>3, <2>1, <3>1
  <2>2. CASE o + 1 \in 6..(n - 1)
    <3>1. x.text[o + 1] \notin {"quote", "#", "//"}
      BY <1>1, <1>3, <2>2, FunctionText
    <3>2. x.text[o] # "include"
      <4>1. CASE o = 5
        BY <1>1, <1>3, <4>1, FunctionText
      <4>2. CASE o \in 6..(n - 1)
        BY <1>1, <1>3, <4>2, FunctionText
      <4> QED BY <1>3, <4>1, <4>2
    <3> QED BY <1>1, <1>3, <3>1, <3>2
  <2> QED BY <1>3, <2>1, <2>2
<1>4. CASE ~(Function(x) /\ o \in 5..(n - 1))
  <2>1. o = 1 \/ o = 2 \/ (~Variable(x) /\ o \in {3, 4})
    BY <1>1, <1>4 DEF Within
  <2>2. CASE o = 1
    <3>1. x.text[2] \in Identifiers /\ n >= 3
      BY <1>1, <1>2, <2>2, DeclarationText
    <3>2. o + 1 = 2 /\ o \in 1..(n - 1)
      BY <3>1, <2>2
    <3>3. /\ x.text[2] \notin Punctuation
          /\ x.text[2] \notin {"0", "1", "include", "return", "nl", "#", "//", "quote"}
      BY <3>1, IdentifiersApart
    <3> QED BY <1>1, <3>1, <3>2, <3>3 DEF Punctuation
  <2>3. CASE o = 2
    <3>1. x.text[3] \in {"lparen", "semicolon"} /\ n >= 3
      BY <1>1, <1>2, <2>3, DeclarationText
    <3>2. o + 1 = 3 /\ o \in 1..(n - 1)
      BY <3>1, <2>3
    <3> QED BY <1>1, <3>1, <3>2
  <2>4. CASE ~Variable(x) /\ o = 3
    <3>1. x.text[4] = "rparen" /\ n >= 5
      BY <1>1, <1>2, <2>4, DeclarationText
    <3>2. o + 1 = 4 /\ o \in 1..(n - 1)
      BY <3>1, <2>4
    <3> QED BY <1>1, <3>1, <3>2
  <2>5. CASE ~Variable(x) /\ o = 4
    <3>1. x.text[5] \in {"lbrace", "semicolon"} /\ n >= 5
      BY <1>1, <1>2, <2>5, DeclarationText
    <3>2. o + 1 = 5 /\ o \in 1..(n - 1)
      BY <3>1, <2>5
    <3> QED BY <1>1, <3>1, <3>2
  <2> QED BY <2>1, <2>2, <2>3, <2>4, <2>5
<1> QED BY <1>3, <1>4

---------------------------------------------------------------------------
(* A token is read: the lexer spins, or what it reads at the cursor is     *)
(* delivered.                                                              *)
LEMMA PullReads ==
  ASSUME Pull, NEW t, t = Lex(pos, mode), t.kind # "#"
  PROVE  /\ status = "running" /\ want
         /\ UNCHANGED <<file, text, pc, name, decls>>
         /\ \/ status' = "hung" /\ Spins(pos, mode)
            \/ /\ status' = "running" /\ want' = FALSE /\ ~Spins(pos, mode)
               /\ tok' = t.kind /\ pos' = t.pos /\ mode' = t.mode
<1>1. CASE PullToken
  BY <1>1 DEF PullToken, Pulling, Deliver, source, parsing
<1>2. CASE PullDirective
  BY <1>2 DEF PullDirective
<1>3. CASE Spin
  BY <1>3 DEF Spin, Pulling, source, parsing
<1> QED BY <1>1, <1>2, <1>3 DEF Pull

(* The cursor moves on by one lexeme, or by more of which none is a `<`.   *)
LEMMA StaleMoves ==
  ASSUME FrontInOrder, Stale, text' = text, pos' \in pos..(Len(text) + 1),
         \A j \in pos..(pos' - 1) : text[j] = "<" => ~Header(j)
  PROVE  Stale'
<1>1. PICK i \in 1..(pos - 1) :
        /\ text[i] = "quote" /\ Header(i)
        /\ \A j \in i..(pos - 1) : text[j] = "<" => ~Header(j)
  BY DEF Stale
<1>2. pos \in Nat /\ pos' \in Nat /\ pos <= pos'
  <2>1. Len(text) \in Nat /\ pos \in 1..(Len(text) + 1)
    BY DEF FrontInOrder
  <2> QED BY <2>1
<1>3. i \in 1..(pos' - 1) /\ \A j \in i..(pos' - 1) : j \in i..(pos - 1) \/ j \in pos..(pos' - 1)
  <2>1. \A q, r \in Nat : q <= r => \A h \in 1..(q - 1) :
          h \in 1..(r - 1) /\ \A j \in h..(r - 1) : j \in h..(q - 1) \/ j \in q..(r - 1)
    OBVIOUS
  <2> QED BY <1>2, <2>1, Zenon
<1>4. \A j : Header(j)' <=> Header(j)
  BY DEF Header
<1>5. /\ text'[i] = "quote" /\ Header(i)'
      /\ \A j \in i..(pos' - 1) : text'[j] = "<" => ~Header(j)'
  BY <1>1, <1>3, <1>4
<1> QED BY <1>3, <1>5 DEF Stale

(* In mode Directive a `<` that starts no header is misread.               *)
LEMMA MisreadLess ==
  ASSUME FrontInOrder, Stale, ~LessMisread, pos \in 1..Len(text), ~Header(pos)
  PROVE  text[pos] # "<"
<1> SUFFICES ASSUME text[pos] = "<" PROVE FALSE
  OBVIOUS
<1>1. PICK i \in 1..(pos - 1) :
        /\ text[i] = "quote" /\ Header(i)
        /\ \A j \in i..(pos - 1) : text[j] = "<" => ~Header(j)
  BY DEF Stale
<1>2. Len(text) \in Nat /\ DOMAIN text = 1..Len(text)
  BY DEF FrontInOrder
<1>3. i \in DOMAIN text /\ pos \in DOMAIN text /\ i < pos
      /\ \A j \in i..pos : j \in i..(pos - 1) \/ j = pos
  BY <1>2
<1> QED BY <1>1, <1>3 DEF LessMisread

(* A comment met in mode Directive is caught.                              *)
LEMMA CatchesComment ==
  ASSUME FrontInOrder, Stale, pos \in 1..Len(text), text[pos] = "//"
  PROVE  CommentCaught
<1>1. PICK i \in 1..(pos - 1) :
        /\ text[i] = "quote" /\ Header(i)
        /\ \A j \in i..(pos - 1) : text[j] = "<" => ~Header(j)
  BY DEF Stale
<1>2. Len(text) \in Nat /\ DOMAIN text = 1..Len(text)
  BY DEF FrontInOrder
<1>3. i \in DOMAIN text /\ pos \in DOMAIN text /\ i < pos
      /\ \A j \in i..pos : j \in i..(pos - 1) \/ j = pos
  BY <1>2
<1> QED BY <1>1, <1>3 DEF CommentCaught

(* A plain lexeme is one token.                                            *)
LEMMA PullsPlain ==
  ASSUME FrontInOrder, Pull, ~LessMisread, pos \in 1..Len(text),
         text[pos] \notin {"quote", "#", "//"}, text[pos] = "<" => ~Header(pos),
         mode = "Directive" => Stale
  PROVE  /\ UNCHANGED <<file, text, pc, name, decls>>
         /\ status' = "running" /\ want' = FALSE
         /\ tok' = Token(text[pos]) /\ pos' = pos + 1 /\ mode' = mode
         /\ mode' = "Directive" => Stale'
<1>1. Lex(pos, mode) = Read(Token(text[pos]), pos + 1, mode)
  <2>1. ~(mode = "Directive" /\ text[pos] = "<")
    BY MisreadLess
  <2> QED BY <2>1, LexPlain DEF FrontInOrder
<1>2. PICK t : t = Lex(pos, mode)
  OBVIOUS
<1>3. t.kind = Token(text[pos]) /\ t.pos = pos + 1 /\ t.mode = mode /\ t.kind # "#"
  BY <1>1, <1>2, Tokens DEF Read
<1>4. ASSUME text' = text, pos' = pos + 1, mode = "Directive"
      PROVE  Stale'
  <2>1. pos' \in pos..(Len(text) + 1) /\ pos..(pos' - 1) = {pos}
    <3>1. Len(text) \in Nat
      BY DEF FrontInOrder
    <3> QED BY <1>4, <3>1
  <2> QED BY <1>4, <2>1, StaleMoves
<1>5. ~Spins(pos, mode)
  BY DEF Spins
<1> QED BY <1>2, <1>3, <1>4, <1>5, PullReads

(* The same inside a declaration.                                          *)
LEMMA PullsWithin ==
  ASSUME FrontInOrder, Pull, NEW b, NEW d, Given(b, d), NEW k \in 1..Len(file), NEW o,
         Within(file[k], o), pos = b[k - 1] + o + 1, decls = d[k - 1], want, status = "running",
         ModeKept
  PROVE  InItem(b, d)'
<1>s. PICK s : s = b[k - 1]
  OBVIOUS
<1>x. PICK x : x = file[k]
  OBVIOUS
<1>n. PICK n : n = Len(x.text)
  OBVIOUS
<1>1. /\ s = b[k - 1] /\ x = file[k] /\ n = Len(x.text)
      /\ s \in Nat /\ n \in Nat /\ Len(text) \in Nat
      /\ \A i \in 1..n : text[s + i] = x.text[i] /\ s + i \in 1..Len(text)
  <2>1. /\ b[k - 1] \in Nat /\ Len(file[k].text) \in Nat /\ Len(text) \in Nat
        /\ \A i \in 1..Len(file[k].text) :
             text[b[k - 1] + i] = file[k].text[i] /\ b[k - 1] + i \in 1..Len(text)
    <3>1. IsLayout(b)
      BY DEF Given
    <3> QED BY <3>1, ItemAt, ZenonT(30)
  <2> QED BY <1>s, <1>x, <1>n, <2>1, ZenonT(30)
<1>2. /\ o \in 1..(n - 1) /\ x.text[o + 1] \notin {"quote", "#", "//"}
      /\ x.text[o + 1] = "<" => x.text[o] # "include"
  BY <1>1, WithinPlain, SMTT(30)
<1>3. pos = s + (o + 1) /\ o + 1 \in 1..n /\ o \in 1..n /\ pos - 1 = s + o /\ pos + 1 = s + o + 2
  <2>1. pos = s + o + 1 /\ o \in Nat /\ s \in Nat /\ n \in Nat /\ o \in 1..(n - 1)
    BY <1>1, <1>2
  <2> QED BY <2>1
<1>4. pos \in 1..Len(text) /\ text[pos] = x.text[o + 1] /\ text[pos - 1] = x.text[o]
  BY <1>1, <1>3
<1>5. text[pos] = "<" => ~Header(pos)
  BY <1>2, <1>4 DEF Header
<1>6. pc \notin {"unit", "directive"}
  BY DEF Within
<1>7. mode = "Directive" => Stale
  BY <1>6 DEF ModeKept, Opened
<1>8. /\ UNCHANGED <<file, text, pc, name, decls>>
      /\ status' = "running" /\ want' = FALSE
      /\ tok' = Token(text[pos]) /\ pos' = pos + 1 /\ mode' = mode
      /\ mode' = "Directive" => Stale'
  BY <1>2, <1>4, <1>5, <1>7, PullsPlain DEF Given
<1>9. Within(file[k], o)'
  BY <1>8 DEF Within
<1>10. tok' = Token(file'[k].text[o + 1]) /\ pos' = b[k - 1] + o + 2 /\ o \in 1..(Len(file'[k].text) - 1)
       /\ k \in 1..Len(file') /\ decls' = d[k - 1]
  BY <1>1, <1>2, <1>3, <1>4, <1>8
<1>11. HoldingIn(file[k], b[k - 1])'
  BY <1>9, <1>10 DEF HoldingIn
<1>12. Holding(b, d)'
  BY <1>10, <1>11 DEF Holding
<1>13. ModeKept'
  BY <1>8 DEF ModeKept
<1> QED BY <1>8, <1>12, <1>13 DEF InItem

(* Between two items.                                                      *)
LEMMA NothingDeclared ==
  ASSUME FrontInOrder, NEW b, NEW d, Given(b, d), NEW k \in 1..Len(file), file[k].decl = NoDecl
  PROVE  d[k] = d[k - 1]
  BY DeclaredIs DEF Given, FrontInOrder

LEMMA HoldsNewline ==
  ASSUME NEW b, NEW d, NEW k \in 0..Len(file), file' = file,
         status' = "running", want' = FALSE, tok' = "newline", pos' = b[k] + 1, decls' = d[k],
         pc' \in {"unit", "directive"}, mode' = "Directive" => Stale'
  PROVE  InItem(b, d)'
<1>1. k \in 0..Len(file')
  OBVIOUS
<1>2. Holding(b, d)'
  BY <1>1 DEF Holding
<1> QED BY <1>2 DEF InItem, ModeKept

LEMMA HoldsIn ==
  ASSUME NEW b, NEW d, NEW k \in 1..Len(file), file' = file, decls' = d[k - 1],
         status' = "running", want' = FALSE, ModeKept', HoldingIn(file[k], b[k - 1])'
  PROVE  InItem(b, d)'
<1>1. k \in 1..Len(file')
  OBVIOUS
<1>2. Holding(b, d)'
  BY <1>1 DEF Holding
<1> QED BY <1>2 DEF InItem

LEMMA PullsEmpty ==
  ASSUME FrontInOrder, Pull, NEW b, NEW d, Given(b, d), NEW k \in 1..Len(file), Empty(file[k]),
         pc = "unit", pos = b[k - 1] + 1, decls = d[k - 1], mode = "Directive" => Stale
  PROVE  InItem(b, d)'
<1>s. PICK s : s = b[k - 1]
  OBVIOUS
<1>1. /\ s \in Nat /\ Len(file[k].text) = 1 /\ file[k].text[1] = "nl" /\ file[k].decl = NoDecl
  BY <1>s, ItemAt DEF Given, Empty
<1>2. b[k] = s + 1 /\ k \in 0..Len(file) /\ text[s + 1] = "nl" /\ s + 1 \in 1..Len(text)
  <2>1. 1 \in 1..Len(file[k].text)
    BY <1>1
  <2> QED BY <1>s, <1>1, <2>1, ItemAt DEF Given
<1>3. pos \in 1..Len(text) /\ text[pos] = "nl"
  BY <1>s, <1>2
<1>4. /\ UNCHANGED <<file, text, pc, name, decls>>
      /\ status' = "running" /\ want' = FALSE
      /\ tok' = Token(text[pos]) /\ pos' = pos + 1 /\ mode' = mode
      /\ mode' = "Directive" => Stale'
  BY <1>3, PullsPlain DEF Given
<1>5. tok' = "newline" /\ pos' = b[k] + 1 /\ decls' = d[k]
  BY <1>s, <1>1, <1>2, <1>3, <1>4, NothingDeclared DEF Token
<1> QED BY <1>2, <1>4, <1>5, HoldsNewline

LEMMA PullsComment ==
  ASSUME FrontInOrder, Pull, NEW b, NEW d, Given(b, d), NEW k \in 1..Len(file), Comment(file[k]),
         pc = "unit", pos = b[k - 1] + 1, decls = d[k - 1], mode = "Directive" => Stale
  PROVE  InItem(b, d)'
<1>s. PICK s : s = b[k - 1]
  OBVIOUS
<1>x. PICK x : x = file[k].text
  OBVIOUS
<1>n. PICK n : n = Len(x)
  OBVIOUS
<1>1. /\ s \in Nat /\ n \in Nat /\ Len(text) \in Nat /\ b[k] = s + n /\ k \in 0..Len(file)
      /\ \A i \in 1..n : text[s + i] = x[i] /\ s + i \in 1..Len(text)
  <2>1. /\ b[k - 1] \in Nat /\ Len(file[k].text) \in Nat /\ Len(text) \in Nat
        /\ b[k] = b[k - 1] + Len(file[k].text) /\ k \in 0..Len(file)
        /\ \A i \in 1..Len(file[k].text) :
             text[b[k - 1] + i] = file[k].text[i] /\ b[k - 1] + i \in 1..Len(text)
    <3>1. IsLayout(b)
      BY DEF Given
    <3> QED BY <3>1, ItemAt, ZenonT(30)
  <2> QED BY <1>s, <1>x, <1>n, <2>1, ZenonT(30)
<1>2. /\ n > 1 /\ x[1] = "//" /\ x[n] = "nl" /\ file[k].decl = NoDecl
      /\ \A i \in 1..(n - 1) : x[i] # "nl"
  BY <1>x, <1>n DEF Comment
<1>3. pos = s + 1 /\ pos \in 1..Len(text) /\ text[pos] = "//"
  <2>1. 1 \in 1..n
    BY <1>1, <1>2
  <2> QED BY <1>s, <1>1, <1>2, <2>1
<1>4. CASE mode = "Standard"
  <2>1. s + n \in (pos + 1)..Len(text) /\ text[s + n] = "nl"
    <3>1. n \in 1..n
      BY <1>1, <1>2
    <3>2. s + n \in 1..Len(text) /\ text[s + n] = "nl"
      BY <1>1, <1>2, <3>1
    <3> QED BY <1>1, <1>2, <1>3, <3>2
  <2>2. ASSUME NEW i \in pos..((s + n) - 1)
        PROVE  text[i] # "nl"
    <3>1. i - s \in 1..(n - 1) /\ i - s \in 1..n /\ s + (i - s) = i
      BY <1>1, <1>3
    <3> QED BY <1>1, <1>2, <3>1
  <2>3. Lex(pos, mode) = Read("newline", (s + n) + 1, "Standard")
    BY <1>3, <1>4, <2>1, <2>2, LexComment DEF FrontInOrder
  <2>4. PICK t : t = Lex(pos, mode)
    OBVIOUS
  <2>5. t.kind = "newline" /\ t.pos = b[k] + 1 /\ t.mode = "Standard"
    BY <1>1, <2>3, <2>4 DEF Read
  <2>6. /\ UNCHANGED <<file, text, pc, name, decls>>
        /\ status' = "running" /\ want' = FALSE
        /\ tok' = "newline" /\ pos' = b[k] + 1 /\ mode' = "Standard"
    <3>1. ~Spins(pos, mode)
      BY <1>4 DEF Spins
    <3> QED BY <2>4, <2>5, <3>1, PullReads
  <2>7. decls' = d[k]
    BY <1>2, <2>6, NothingDeclared
  <2> QED BY <1>1, <2>6, <2>7, HoldsNewline
<1>5. CASE mode = "Directive"
  <2>1. Spins(pos, mode)
    BY <1>1, <1>3, <1>5 DEF Spins
  <2>2. status' = "hung" /\ text' = text
    BY <2>1 DEF Pull, PullToken, PullDirective, Spin, source
  <2>3. CommentCaught
    BY <1>3, <1>5, CatchesComment
  <2>4. CommentCaught'
    BY <2>2, <2>3 DEF CommentCaught, Header
  <2> QED BY <2>2, <2>4 DEF InItem
<1> QED BY <1>4, <1>5 DEF FrontInOrder, Modes

(* The six lexemes of an include.                                          *)
HeaderBehind(s) ==
  \/ text[s + 3] = "<" /\ text[s + 4] \notin {">", "nl"} /\ text[s + 5] = ">"
  \/ text[s + 3] = "quote" /\ text[s + 4] \notin {"quote", "nl"} /\ text[s + 5] = "quote"

LEMMA IncludeAt ==
  ASSUME FrontInOrder, NEW b, NEW d, Given(b, d), NEW k \in 1..Len(file), Include(file[k]),
         NEW s, s = b[k - 1]
  PROVE  /\ s \in Nat /\ Len(text) \in Nat /\ s + 6 <= Len(text) /\ b[k] = s + 6
         /\ d[k] = d[k - 1] /\ k \in 0..Len(file)
         /\ text[s + 1] = "#" /\ text[s + 2] = "include" /\ text[s + 6] = "nl"
         /\ HeaderBehind(s)
<1>1. PICK x : x = file[k].text
  OBVIOUS
<1>2. /\ Len(x) = 6 /\ x[1] = "#" /\ x[2] = "include" /\ x[6] = "nl" /\ file[k].decl = NoDecl
      /\ \/ x[3] = "<" /\ x[4] \notin {">", "nl"} /\ x[5] = ">"
         \/ x[3] = "quote" /\ x[4] \notin {"quote", "nl"} /\ x[5] = "quote"
  BY <1>1 DEF Include
<1>3. /\ s \in Nat /\ Len(text) \in Nat /\ b[k] = s + 6 /\ b[k] <= Len(text) /\ k \in 0..Len(file)
      /\ \A i \in 1..6 : text[s + i] = x[i]
  <2>1. /\ s \in Nat /\ Len(text) \in Nat /\ b[k] = s + Len(x) /\ b[k] <= Len(text)
        /\ k \in 0..Len(file) /\ \A i \in 1..Len(x) : text[s + i] = x[i]
    BY <1>1, ItemAt DEF Given
  <2> QED BY <1>2, <2>1
<1>4. /\ text[s + 1] = x[1] /\ text[s + 2] = x[2] /\ text[s + 3] = x[3]
      /\ text[s + 4] = x[4] /\ text[s + 5] = x[5] /\ text[s + 6] = x[6]
  BY <1>3
<1>5. HeaderBehind(s)
  BY <1>2, <1>4 DEF HeaderBehind
<1> QED BY <1>2, <1>3, <1>4, <1>5, NothingDeclared, SMTT(30)

LEMMA PullsHash ==
  ASSUME FrontInOrder, Pull, NEW b, NEW d, Given(b, d), NEW k \in 1..Len(file), Include(file[k]),
         pc = "unit", pos = b[k - 1] + 1, decls = d[k - 1]
  PROVE  InItem(b, d)'
<1>s. PICK s : s = b[k - 1]
  OBVIOUS
<1>1. /\ s \in Nat /\ Len(text) \in Nat /\ s + 6 <= Len(text)
      /\ text[s + 1] = "#" /\ text[s + 2] = "include"
  BY <1>s, IncludeAt
<1>2. pos = s + 1 /\ pos + 1 = s + 2 /\ pos + 1 \in 1..Len(text) /\ ~(pos > Len(text))
  <2>1. pos = s + 1
    BY <1>s
  <2> QED BY <1>1, <2>1
<1>3. Lex(pos, mode) = Read("#", pos + 1, "Directive")
  <2>1. SkipFrom(pos) = pos
    BY <1>1, <1>2 DEF SkipFrom
  <2>2. LexAt(pos, mode) = Read("#", pos + 1, "Directive")
    BY <1>1, <1>2 DEF LexAt
  <2> QED BY <2>1, <2>2 DEF Lex
<1>4. Lex(pos + 1, "Directive") = Read(Token("include"), (pos + 1) + 1, "Directive")
  <2>1. text[pos + 1] = "include" /\ text \in Seq(STRING) /\ "Directive" \in Modes
    BY <1>1, <1>2 DEF FrontInOrder, Modes
  <2> QED BY <1>2, <2>1, LexPlain
<1>5. PICK hash : hash = Lex(pos, mode)
  OBVIOUS
<1>6. hash.kind = "#" /\ hash.pos = pos + 1
  BY <1>3, <1>5 DEF Read
<1>7. PICK t : t = Lex(hash.pos, "Directive")
  OBVIOUS
<1>8. t.pos = s + 3 /\ t.mode = "Directive"
  BY <1>1, <1>2, <1>4, <1>6, <1>7 DEF Read
<1>9. CASE PullDirective
  <2>1. /\ tok' = "#" /\ want' = FALSE /\ pos' = t.pos /\ mode' = t.mode /\ status' = "running"
        /\ UNCHANGED <<file, text, pc, name, decls>>
    BY <1>5, <1>7, <1>9 DEF PullDirective, Deliver, Pulling, source, parsing
  <2>2. ModeKept'
    BY <2>1 DEF ModeKept, Opened
  <2>3. Include(file[k])'
    BY <2>1 DEF Include
  <2>4. HoldingIn(file[k], b[k - 1])'
    BY <1>s, <1>8, <2>1, <2>3 DEF HoldingIn
  <2> QED BY <2>1, <2>2, <2>4, HoldsIn
<1>10. CASE PullToken
  BY <1>5, <1>6, <1>10 DEF PullToken
<1>11. CASE Spin
  <2>1. ~Spins(pos, mode) /\ ~Spins(hash.pos, "Directive")
    BY <1>1, <1>2, <1>6 DEF Spins
  <2> QED BY <1>5, <1>11, <2>1 DEF Spin
<1> QED BY <1>9, <1>10, <1>11 DEF Pull

LEMMA PullsHeader ==
  ASSUME FrontInOrder, Pull, NEW b, NEW d, Given(b, d), NEW k \in 1..Len(file), Include(file[k]),
         pc = "directive", pos = b[k - 1] + 3, mode = "Directive", decls = d[k - 1]
  PROVE  InItem(b, d)'
<1>s. PICK s : s = b[k - 1]
  OBVIOUS
<1>1. /\ s \in Nat /\ Len(text) \in Nat /\ s + 6 <= Len(text) /\ text[s + 2] = "include"
      /\ HeaderBehind(s)
  BY <1>s, IncludeAt
<1>2. pos = s + 3
  BY <1>s
<1>3. /\ pos \in 1..Len(text) /\ pos + 2 <= Len(text) /\ pos + 1 = s + 4 /\ pos + 2 = s + 5
      /\ pos + 3 = s + 6 /\ pos - 1 = s + 2 /\ pos > 1
  <2>1. \A i, n \in Nat : i + 6 <= n =>
          /\ i + 3 \in 1..n /\ (i + 3) + 2 <= n /\ (i + 3) + 1 = i + 4 /\ (i + 3) + 2 = i + 5
          /\ (i + 3) + 3 = i + 6 /\ (i + 3) - 1 = i + 2 /\ i + 3 > 1
    OBVIOUS
  <2> QED BY <1>1, <1>2, <2>1, Zenon
<1>4. PICK t : t = Lex(pos, mode)
  OBVIOUS
<1>5. /\ text[pos] = "<" /\ text[pos + 1] \notin {">", "nl"} /\ text[pos + 2] = ">"
           => Lex(pos, "Directive") = Read("system", pos + 3, "Standard")
      /\ text[pos] = "quote" /\ text[pos + 1] \notin {"quote", "nl"} /\ text[pos + 2] = "quote"
           => Lex(pos, "Directive") = Read("string", pos + 3, "Directive")
  BY <1>3, LexHeader DEF FrontInOrder
<1>6. /\ t.kind \in {"system", "string"} /\ t.pos = s + 6
      /\ t.kind = "system" => t.mode = "Standard"
      /\ t.kind = "string" => text[s + 3] = "quote" /\ text[s + 5] = "quote"
  <2>1. CASE text[s + 3] = "<" /\ text[s + 4] \notin {">", "nl"} /\ text[s + 5] = ">"
    <3>1. Lex(pos, "Directive") = Read("system", pos + 3, "Standard")
      BY <1>2, <1>3, <1>5, <2>1
    <3> QED BY <1>3, <1>4, <3>1, SMTT(30) DEF Read
  <2>2. CASE text[s + 3] = "quote" /\ text[s + 4] \notin {"quote", "nl"} /\ text[s + 5] = "quote"
    <3>1. Lex(pos, "Directive") = Read("string", pos + 3, "Directive")
      BY <1>2, <1>3, <1>5, <2>2
    <3>2. t.kind = "string" /\ t.pos = s + 6
      BY <1>3, <1>4, <3>1, SMTT(30) DEF Read
    <3> QED BY <2>2, <3>2
  <2> QED BY <1>1, <2>1, <2>2 DEF HeaderBehind
<1>7. /\ UNCHANGED <<file, text, pc, name, decls>>
      /\ status' = "running" /\ want' = FALSE
      /\ tok' = t.kind /\ pos' = t.pos /\ mode' = t.mode
  <2>1. ~Spins(pos, mode)
    BY <1>1, <1>2 DEF Spins, HeaderBehind
  <2> QED BY <1>4, <1>6, <2>1, PullReads
<1>8. tok' \in {"system", "string"} /\ pos' = s + 6
  BY <1>6, <1>7
<1>9. ModeKept'
  <2>1. CASE t.kind = "system"
    <3>1. mode' = "Standard"
      BY <1>6, <1>7, <2>1
    <3> QED BY <3>1 DEF ModeKept
  <2>2. CASE t.kind = "string"
    <3>1. text[s + 3] = "quote" /\ text[s + 5] = "quote"
      BY <1>6, <2>2
    <3>2. s + 3 > 1 /\ (s + 3) - 1 = s + 2 /\ (s + 4) - 1 = s + 3
          /\ s + 3 \in 1..((s + 6) - 1) /\ (s + 3)..((s + 6) - 1) = {s + 3, s + 4, s + 5}
      BY <1>1
    <3>3. Header(s + 3) /\ ~Header(s + 4)
      BY <1>1, <3>1, <3>2 DEF Header
    <3>4. \A j : Header(j)' <=> Header(j)
      BY <1>7 DEF Header
    <3>5. \A j \in (s + 3)..(pos' - 1) : text'[j] = "<" => ~Header(j)'
      BY <1>7, <1>8, <3>1, <3>2, <3>3, <3>4
    <3>6. s + 3 \in 1..(pos' - 1) /\ text'[s + 3] = "quote" /\ Header(s + 3)'
      BY <1>7, <1>8, <3>1, <3>2, <3>3, <3>4
    <3>7. Stale'
      BY <3>5, <3>6 DEF Stale
    <3> QED BY <3>7 DEF ModeKept
  <2> QED BY <1>6, <2>1, <2>2
<1>10. Include(file[k])' /\ pc' = "directive"
  BY <1>7 DEF Include
<1>11. HoldingIn(file[k], b[k - 1])'
  BY <1>s, <1>8, <1>10 DEF HoldingIn
<1> QED BY <1>7, <1>9, <1>11, HoldsIn

LEMMA PullsLineEnd ==
  ASSUME FrontInOrder, Pull, NEW b, NEW d, Given(b, d), NEW k \in 1..Len(file), Include(file[k]),
         pc = "directive", pos = b[k - 1] + 6, decls = d[k - 1], mode = "Directive" => Stale
  PROVE  InItem(b, d)'
<1>s. PICK s : s = b[k - 1]
  OBVIOUS
<1>1. /\ s \in Nat /\ Len(text) \in Nat /\ s + 6 <= Len(text) /\ text[s + 6] = "nl"
      /\ b[k] = s + 6 /\ d[k] = d[k - 1] /\ k \in 0..Len(file)
  BY <1>s, IncludeAt
<1>2. pos = s + 6 /\ text[pos] = "nl"
  BY <1>s, <1>1
<1>3. pos \in 1..Len(text)
  BY <1>1, <1>2
<1>4. /\ UNCHANGED <<file, text, pc, name, decls>>
      /\ status' = "running" /\ want' = FALSE
      /\ tok' = Token(text[pos]) /\ pos' = pos + 1 /\ mode' = mode
      /\ mode' = "Directive" => Stale'
  BY <1>2, <1>3, PullsPlain DEF Given
<1>5. tok' = "newline" /\ pos' = b[k] + 1 /\ decls' = d[k]
  BY <1>1, <1>2, <1>4 DEF Token
<1> QED BY <1>1, <1>4, <1>5, HoldsNewline

LEMMA PullsType ==
  ASSUME FrontInOrder, Pull, NEW b, NEW d, Given(b, d), NEW k \in 1..Len(file),
         Declaration(file[k]), pc = "unit", pos = b[k - 1] + 1, decls = d[k - 1],
         mode = "Directive" => Stale
  PROVE  InItem(b, d)'
<1>s. PICK s : s = b[k - 1]
  OBVIOUS
<1>x. PICK x : x = file[k].text
  OBVIOUS
<1>1. /\ s \in Nat /\ Len(x) \in Nat /\ Len(x) >= 3 /\ x[1] \in TypeWords
      /\ \A i \in 1..Len(x) : text[s + i] = x[i] /\ s + i \in 1..Len(text)
  <2>1. /\ s \in Nat /\ Len(x) \in Nat
        /\ \A i \in 1..Len(x) : text[s + i] = x[i] /\ s + i \in 1..Len(text)
    <3>1. IsLayout(b)
      BY DEF Given
    <3>2. /\ b[k - 1] \in Nat /\ Len(file[k].text) \in Nat
          /\ \A i \in 1..Len(file[k].text) :
               text[b[k - 1] + i] = file[k].text[i] /\ b[k - 1] + i \in 1..Len(text)
      BY <3>1, ItemAt, ZenonT(30)
    <3> QED BY <1>s, <1>x, <3>2, ZenonT(30)
  <2> QED BY <1>x, <2>1, DeclarationText
<1>2. pos = s + 1 /\ pos \in 1..Len(text) /\ text[pos] \in TypeWords
  <2>1. 1 \in 1..Len(x)
    BY <1>1
  <2> QED BY <1>s, <1>1, <2>1
<1>3. text[pos] \notin {"quote", "#", "//", "<"}
  BY <1>2 DEF TypeWords
<1>4. /\ UNCHANGED <<file, text, pc, name, decls>>
      /\ status' = "running" /\ want' = FALSE
      /\ tok' = Token(text[pos]) /\ pos' = pos + 1 /\ mode' = mode
      /\ mode' = "Directive" => Stale'
  BY <1>2, <1>3, PullsPlain DEF Given
<1>5. tok' = "type" /\ pos' = s + 2
  <2>1. tok' = "type" /\ pos' = pos + 1
    BY <1>2, <1>4, Tokens
  <2> QED BY <1>1, <1>2, <2>1
<1>6. Declaration(file[k])' /\ pc' = "unit" /\ decls' = d[k - 1]
  BY <1>4 DEF Declaration, Variable, Prototype, Function, Signature, Declares
<1>7. HoldingIn(file[k], b[k - 1])'
  BY <1>s, <1>5, <1>6 DEF HoldingIn
<1>8. ModeKept'
  BY <1>4 DEF ModeKept
<1> QED BY <1>4, <1>6, <1>7, <1>8, HoldsIn

LEMMA PullsEnd ==
  ASSUME FrontInOrder, Pull, NEW b, NEW d, Given(b, d), pc = "unit", pos = b[Len(file)] + 1,
         decls = d[Len(file)], mode = "Directive" => Stale
  PROVE  InItem(b, d)'
<1>1. pos = Len(text) + 1 /\ text \in Seq(STRING) /\ mode \in Modes /\ Len(text) \in Nat
  BY DEF Given, IsLayout, FrontInOrder
<1>2. PICK t : t = Lex(pos, mode)
  OBVIOUS
<1>3. t.kind = "EOF" /\ t.pos = pos /\ t.mode = mode
  <2>1. Lex(pos, mode) = Read("EOF", pos, mode)
    BY <1>1, LexEnd
  <2> QED BY <1>2, <2>1 DEF Read
<1>4. /\ UNCHANGED <<file, text, pc, name, decls>>
      /\ status' = "running" /\ want' = FALSE /\ tok' = "EOF" /\ pos' = pos /\ mode' = mode
  <2>1. ~Spins(pos, mode)
    BY <1>1 DEF Spins
  <2> QED BY <1>2, <1>3, <2>1, PullReads
<1>5. mode' = "Directive" => Stale'
  BY <1>4 DEF Stale, Header
<1>6. Holding(b, d)'
  BY <1>4 DEF Holding
<1> QED BY <1>4, <1>5, <1>6 DEF InItem, ModeKept

LEMMA PullKeepsItem ==
  ASSUME FrontInOrder, Pull, NEW b, NEW d, Given(b, d), InItem(b, d)
  PROVE  InItem(b, d)'
<1>1. status = "running" /\ want
  BY DEF Pull, PullToken, PullDirective, Spin, Pulling
<1>2. Reading(b, d) /\ ModeKept
  BY <1>1 DEF InItem
<1>3. Len(file) \in Nat
  BY FileIsSeq DEF FrontInOrder
<1>4. CASE pc = "unit" /\ \E k \in 0..Len(file) : pos = b[k] + 1 /\ decls = d[k]
  <2>1. PICK k \in 0..Len(file) : pos = b[k] + 1 /\ decls = d[k]
    BY <1>4
  <2>2. mode = "Directive" => Stale
    BY <1>1, <1>2, <1>4 DEF ModeKept, Opened
  <2>3. CASE k = Len(file)
    BY <1>4, <2>1, <2>2, <2>3, PullsEnd
  <2>4. CASE k # Len(file)
    <3>1. PICK j \in 1..Len(file) : k = j - 1
      <4>1. \A n \in Nat : \A i \in 0..n : i # n => i + 1 \in 1..n /\ i = (i + 1) - 1
        OBVIOUS
      <4>2. k + 1 \in 1..Len(file) /\ k = (k + 1) - 1
        BY <1>3, <2>4, <4>1
      <4> QED BY <4>2
    <3>2. Empty(file[j]) \/ Comment(file[j]) \/ Include(file[j]) \/ Declaration(file[j])
      BY ItemIs DEF Given
    <3>3. pos = b[j - 1] + 1 /\ decls = d[j - 1]
      BY <2>1, <3>1
    <3> QED BY <1>4, <2>2, <3>2, <3>3, PullsEmpty, PullsComment, PullsHash, PullsType
  <2> QED BY <2>3, <2>4
<1>5. ASSUME NEW k \in 1..Len(file), decls = d[k - 1], ReadingIn(file[k], b[k - 1])
      PROVE  InItem(b, d)'
  <2>1. CASE pc = "directive" /\ Include(file[k]) /\ pos = b[k - 1] + 3 /\ mode = "Directive"
    BY <1>5, <2>1, PullsHeader
  <2>2. CASE pc = "directive" /\ Include(file[k]) /\ pos = b[k - 1] + 6 /\ tok \in {"system", "string"}
    <3>1. mode = "Directive" => Stale
      BY <1>2, <2>2 DEF ModeKept, Opened
    <3> QED BY <1>5, <2>2, <3>1, PullsLineEnd
  <2>3. ASSUME NEW o, pos = b[k - 1] + o + 1, Within(file[k], o)
        PROVE  InItem(b, d)'
    BY <1>1, <1>2, <1>5, <2>3, PullsWithin
  <2> QED BY <1>5, <2>1, <2>2, <2>3 DEF ReadingIn
<1> QED BY <1>2, <1>4, <1>5 DEF Reading

---------------------------------------------------------------------------
(* The parser goes on to the next item, or inside the one it is in.        *)
LEMMA ReadsBetween ==
  ASSUME NEW b, NEW d, NEW k \in 0..Len(file), UNCHANGED <<file, text, pos, mode>>,
         status' = "running", want' = TRUE, pc' = "unit", pos = b[k] + 1, decls' = d[k],
         mode = "Directive" => Stale
  PROVE  InItem(b, d)'
<1>1. mode' = "Directive" => Stale'
  BY DEF Stale, Header
<1>2. Reading(b, d)'
  BY DEF Reading
<1> QED BY <1>1, <1>2 DEF InItem, ModeKept

LEMMA ReadsIn ==
  ASSUME NEW b, NEW d, NEW k \in 1..Len(file), file' = file, decls' = d[k - 1],
         status' = "running", want' = TRUE, ModeKept', ReadingIn(file[k], b[k - 1])'
  PROVE  InItem(b, d)'
<1>1. k \in 1..Len(file')
  OBVIOUS
<1>2. Reading(b, d)'
  BY <1>1 DEF Reading
<1> QED BY <1>2 DEF InItem

LEMMA UnitKeepsItem ==
  ASSUME FrontInOrder, NEW b, NEW d, Given(b, d), InItem(b, d), Unit
  PROVE  InItem(b, d)'
<1>1. At("unit")
  BY DEF Unit, UnitEnd, Take
<1>2. status = "running" /\ ~want /\ pc = "unit" /\ ModeKept /\ Holding(b, d)
  BY <1>1 DEF At, InItem
<1>3. ASSUME NEW kind, NEW next, Take("unit", {kind}, next)
      PROVE  /\ tok = kind /\ want' = TRUE /\ status' = "running" /\ pc' = next
             /\ UNCHANGED <<file, text, pos, mode, tok, name, decls>>
  BY <1>2, <1>3 DEF Take, Advance, Goto, GoOn, source, lexing
<1>4. CASE tok = "newline" /\ \E k \in 0..Len(file) : pos = b[k] + 1 /\ decls = d[k]
  <2>1. PICK k \in 0..Len(file) : pos = b[k] + 1 /\ decls = d[k]
    BY <1>4
  <2>2. Take("unit", {"newline"}, "unit")
    BY <1>4 DEF Unit, UnitEnd, Take
  <2>3. mode = "Directive" => Stale
    BY <1>2, <1>4 DEF ModeKept, Opened
  <2> QED BY <1>3, <2>1, <2>2, <2>3, ReadsBetween
<1>5. CASE tok = "EOF" /\ decls = d[Len(file)]
  <2>1. UnitEnd
    BY <1>5 DEF Unit, Take
  <2>2. status' = "done" /\ UNCHANGED <<file, decls>>
    BY <2>1 DEF UnitEnd, source, parsing
  <2> QED BY <1>5, <2>2 DEF InItem
<1>6. ASSUME NEW k \in 1..Len(file), decls = d[k - 1], Include(file[k]), pos = b[k - 1] + 3,
             tok = "#", mode = "Directive"
      PROVE  InItem(b, d)'
  <2>1. Take("unit", {"#"}, "directive")
    BY <1>6 DEF Unit, UnitEnd, Take
  <2>2. /\ want' = TRUE /\ status' = "running" /\ pc' = "directive"
        /\ UNCHANGED <<file, text, pos, mode, tok, name, decls>>
    BY <1>3, <2>1
  <2>3. ModeKept'
    BY <1>6, <2>2 DEF ModeKept, Opened
  <2>4. Include(file[k])'
    BY <1>6, <2>2 DEF Include
  <2>5. ReadingIn(file[k], b[k - 1])'
    BY <1>6, <2>2, <2>4 DEF ReadingIn
  <2> QED BY <1>6, <2>2, <2>3, <2>5, ReadsIn
<1>7. ASSUME NEW k \in 1..Len(file), decls = d[k - 1], Declaration(file[k]), pos = b[k - 1] + 2,
             tok = "type"
      PROVE  InItem(b, d)'
  <2>1. Take("unit", {"type"}, "name")
    BY <1>7 DEF Unit, UnitEnd, Take
  <2>2. /\ want' = TRUE /\ status' = "running" /\ pc' = "name"
        /\ UNCHANGED <<file, text, pos, mode, tok, name, decls>>
    BY <1>3, <2>1
  <2>3. mode = "Directive" => Stale
    BY <1>2, <1>7 DEF ModeKept, Opened
  <2>4. ModeKept'
    BY <2>2, <2>3 DEF ModeKept, Stale, Header
  <2>5. Declaration(file[k])'
    BY <1>7, <2>2 DEF Declaration, Variable, Prototype, Function, Signature, Declares
  <2>6. Within(file[k], 1)'
    BY <2>2, <2>5 DEF Within
  <2>7. 1 \in 1..(Len(file'[k].text) - 1) /\ pos' = b[k - 1] + 1 + 1
    <3>1. b[k - 1] \in Nat /\ Len(file[k].text) \in Nat
      BY ItemAt DEF Given
    <3>2. Len(file[k].text) >= 3
      BY <1>7, <3>1, DeclarationText
    <3> QED BY <1>7, <2>2, <3>1, <3>2
  <2>8. ReadingIn(file[k], b[k - 1])'
    BY <2>6, <2>7 DEF ReadingIn
  <2> QED BY <1>7, <2>2, <2>4, <2>8, ReadsIn
<1>8. ASSUME NEW k \in 1..Len(file), decls = d[k - 1], HoldingIn(file[k], b[k - 1])
      PROVE  InItem(b, d)'
  <2>1. \A o : ~Within(file[k], o)
    BY <1>2 DEF Within
  <2> QED BY <1>2, <1>6, <1>7, <1>8, <2>1 DEF HoldingIn
<1> QED BY <1>2, <1>4, <1>5, <1>8 DEF Holding

LEMMA RestKeepsItem ==
  ASSUME FrontInOrder, NEW b, NEW d, Given(b, d), InItem(b, d), Rest
  PROVE  InItem(b, d)'
<1>1. At("directive")
  BY DEF Rest, Take
<1>2. status = "running" /\ ~want /\ pc = "directive" /\ ModeKept /\ Holding(b, d)
  BY <1>1 DEF At, InItem
<1>3. CASE tok = "newline" /\ \E k \in 0..Len(file) : pos = b[k] + 1 /\ decls = d[k]
  <2>1. PICK k \in 0..Len(file) : pos = b[k] + 1 /\ decls = d[k]
    BY <1>3
  <2>2. Take("directive", {"newline"}, "unit")
    BY <1>3 DEF Rest
  <2>3. /\ want' = TRUE /\ status' = "running" /\ pc' = "unit"
        /\ UNCHANGED <<file, text, pos, mode, tok, name, decls>>
    BY <1>2, <2>2 DEF Take, Advance, Goto, GoOn, source, lexing
  <2>4. mode = "Directive" => Stale
    BY <1>2, <1>3 DEF ModeKept, Opened
  <2> QED BY <2>1, <2>3, <2>4, ReadsBetween
<1>4. ASSUME NEW k \in 1..Len(file), decls = d[k - 1], HoldingIn(file[k], b[k - 1])
      PROVE  InItem(b, d)'
  <2>1. \A o : ~Within(file[k], o)
    BY <1>2 DEF Within
  <2>2. Include(file[k]) /\ pos = b[k - 1] + 6 /\ tok \in {"system", "string"}
    BY <1>2, <1>4, <2>1 DEF HoldingIn
  <2>3. /\ want' = TRUE /\ status' = "running" /\ pc' = "directive"
        /\ UNCHANGED <<file, text, pos, mode, tok, name, decls>>
    BY <1>2, <2>2 DEF Rest, Take, Advance, Goto, GoOn, source, lexing
  <2>4. mode = "Directive" => Stale
    BY <1>2, <2>2 DEF ModeKept, Opened
  <2>5. ModeKept'
    BY <2>3, <2>4 DEF ModeKept, Stale, Header
  <2>6. Include(file[k])'
    BY <2>2, <2>3 DEF Include
  <2>7. ReadingIn(file[k], b[k - 1])'
    BY <2>2, <2>3, <2>6 DEF ReadingIn
  <2> QED BY <1>4, <2>3, <2>5, <2>7, ReadsIn
<1> QED BY <1>2, <1>3, <1>4 DEF Holding

HeldWithin(b, d) ==
  \E k \in 1..Len(file), o \in Nat :
    /\ Len(file[k].text) \in Nat /\ o \in 1..(Len(file[k].text) - 1)
    /\ decls = d[k - 1] /\ pos = b[k - 1] + o + 2 /\ Within(file[k], o)
    /\ tok = Token(file[k].text[o + 1])

LEMMA HoldsWithin ==
  ASSUME FrontInOrder, NEW b, NEW d, Given(b, d), InItem(b, d), status = "running", ~want,
         pc \notin {"unit", "directive"}
  PROVE  ModeKept /\ HeldWithin(b, d)
<1>1. ModeKept /\ Holding(b, d)
  BY DEF InItem
<1>2. PICK k \in 1..Len(file) : decls = d[k - 1] /\ HoldingIn(file[k], b[k - 1])
  BY <1>1 DEF Holding
<1>3. PICK o \in 1..(Len(file[k].text) - 1) :
        pos = b[k - 1] + o + 2 /\ Within(file[k], o) /\ tok = Token(file[k].text[o + 1])
  BY <1>2 DEF HoldingIn
<1>4. Len(file[k].text) \in Nat
  BY ItemAt DEF Given
<1>5. o \in Nat
  BY <1>4
<1> QED BY <1>1, <1>2, <1>3, <1>4, <1>5 DEF HeldWithin

LEMMA GoesOnWithin ==
  ASSUME FrontInOrder, NEW b, NEW d, Given(b, d), ModeKept, pc \notin {"unit", "directive"},
         NEW k \in 1..Len(file), NEW o \in Nat, decls = d[k - 1], pos = b[k - 1] + o + 2,
         o + 1 < Len(file[k].text), Within(file[k], o + 1)', want' = TRUE, status' = "running",
         UNCHANGED <<file, text, pos, mode, tok, decls>>
  PROVE  InItem(b, d)'
<1>1. b[k - 1] \in Nat /\ Len(file[k].text) \in Nat
  BY ItemAt DEF Given
<1>2. pos' = b[k - 1] + (o + 1) + 1 /\ o + 1 \in 1..(Len(file'[k].text) - 1)
  <2>1. \A s, i, n \in Nat : i + 1 < n => s + i + 2 = s + (i + 1) + 1 /\ i + 1 \in 1..(n - 1)
    OBVIOUS
  <2>2. b[k - 1] + o + 2 = b[k - 1] + (o + 1) + 1 /\ o + 1 \in 1..(Len(file[k].text) - 1)
    BY <1>1, <2>1, Zenon
  <2>3. file'[k] = file[k] /\ pos' = pos
    OBVIOUS
  <2> QED BY <2>2, <2>3, Zenon
<1>3. ReadingIn(file[k], b[k - 1])'
  BY <1>2 DEF ReadingIn
<1>4. mode = "Directive" => Stale
  BY DEF ModeKept, Opened
<1>5. ModeKept'
  BY <1>4 DEF ModeKept, Stale, Header
<1> QED BY <1>3, <1>5, ReadsIn

LEMMA DeclaresItem ==
  ASSUME FrontInOrder, NEW b, NEW d, Given(b, d), ModeKept, pc \notin {"unit", "directive"},
         NEW k \in 1..Len(file), NEW o \in Nat, decls = d[k - 1], pos = b[k - 1] + o + 2,
         o + 1 = Len(file[k].text), Declaration(file[k]), name = file[k].text[2],
         NEW kind, file[k].decl = [kind |-> kind, name |-> file[k].text[2]],
         NEW place, NEW last, TakeDeclared(place, last, kind)
  PROVE  InItem(b, d)'
<1>1. /\ b[k - 1] \in Nat /\ Len(file[k].text) \in Nat /\ b[k] = b[k - 1] + Len(file[k].text)
      /\ k \in 0..Len(file)
  BY ItemAt DEF Given
<1>2. pos = b[k] + 1
  <2>1. \A s, i \in Nat : s + i + 2 = s + (i + 1) + 1
    OBVIOUS
  <2>2. b[k - 1] + o + 2 = b[k - 1] + (o + 1) + 1
    BY <1>1, <2>1, Zenon
  <2> QED BY <1>1, <2>2, Zenon
<1>3. /\ decls' = Append(decls, [kind |-> kind, name |-> name]) /\ pc' = "unit" /\ want' = TRUE
      /\ status' = "running" /\ UNCHANGED <<file, text, pos, mode>>
  BY DEF TakeDeclared, At, Advance, Goto, Declare, source, lexing
<1>4. file[k].decl # NoDecl
  <2>1. file[k].decl \in [kind : {"variable", "function"}, name : Identifiers]
    BY <1>1, DeclarationText
  <2> QED BY <2>1, NoDeclAssumption
<1>5. d[k] = Append(d[k - 1], file[k].decl)
  BY <1>4, DeclaredIs DEF Given, FrontInOrder
<1>6. decls' = d[k]
  BY <1>3, <1>5
<1>7. mode = "Directive" => Stale
  BY DEF ModeKept, Opened
<1> QED BY <1>1, <1>2, <1>3, <1>6, <1>7, ReadsBetween

LEMMA NameKeepsItem ==
  ASSUME FrontInOrder, NEW b, NEW d, Given(b, d), InItem(b, d), Name
  PROVE  InItem(b, d)'
<1>1. status = "running" /\ ~want /\ pc = "name"
  BY DEF Name, At
<1>2. ModeKept /\ HeldWithin(b, d)
  BY <1>1, HoldsWithin
<1>3. PICK k \in 1..Len(file), o \in Nat :
        /\ Len(file[k].text) \in Nat /\ o \in 1..(Len(file[k].text) - 1)
        /\ decls = d[k - 1] /\ pos = b[k - 1] + o + 2 /\ Within(file[k], o)
        /\ tok = Token(file[k].text[o + 1])
  BY <1>2 DEF HeldWithin
<1>4. o = 1 /\ Declaration(file[k])
  BY <1>1, <1>3 DEF Within
<1>5. file[k].text[2] \in Identifiers /\ Len(file[k].text) >= 3
  BY <1>3, <1>4, DeclarationText
<1>6. tok = "identifier"
  BY <1>3, <1>4, <1>5, Tokens
<1>7. /\ name' = text[pos - 1] /\ pc' = "declarator" /\ want' = TRUE /\ status' = "running"
      /\ UNCHANGED <<file, text, pos, mode, tok, decls>>
  BY <1>1, <1>6 DEF Name, Reject, Advance, Goto, source, lexing
<1>8. name' = file[k].text[2]
  <2>1. b[k - 1] \in Nat /\ \A i \in 1..Len(file[k].text) : text[b[k - 1] + i] = file[k].text[i]
    BY ItemAt DEF Given
  <2>2. 2 \in 1..Len(file[k].text)
    BY <1>3, <1>5
  <2>3. pos - 1 = b[k - 1] + 2
    BY <1>3, <1>4, <2>1
  <2> QED BY <1>7, <2>1, <2>2, <2>3
<1>9. Declaration(file[k])'
  BY <1>4, <1>7 DEF Declaration, Variable, Prototype, Function, Signature, Declares
<1>10. Within(file[k], o + 1)'
  <2>1. o + 1 = 2
    BY <1>4
  <2> QED BY <1>7, <1>8, <1>9, <2>1 DEF Within
<1>11. o + 1 < Len(file[k].text)
  BY <1>3, <1>4, <1>5
<1> QED BY <1>1, <1>2, <1>3, <1>7, <1>10, <1>11, GoesOnWithin

(* The parser takes a token inside a declaration that it has the name of.  *)
LEMMA TakesWithin ==
  ASSUME FrontInOrder, NEW b, NEW d, Given(b, d), ModeKept, status = "running",
         pc \notin {"unit", "directive", "name"},
         NEW k \in 1..Len(file), NEW o \in Nat, decls = d[k - 1], pos = b[k - 1] + o + 2,
         Within(file[k], o), o + 1 < Len(file[k].text), Advance, GoOn,
         \/ pc' = "parameters" /\ ~Variable(file[k]) /\ o + 1 = 3
         \/ pc' = "body" /\ ~Variable(file[k]) /\ o + 1 = 4
         \/ /\ Function(file[k]) /\ o + 1 \in 5..(Len(file[k].text) - 1)
            /\ \/ pc' = "block"
               \/ pc' = "return" /\ o + 1 > 5 /\ file[k].text[o + 1] = "return"
               \/ /\ pc' = "semicolon" /\ (o + 1) + 1 < Len(file[k].text)
                  /\ file[k].text[(o + 1) + 1] = "semicolon"
  PROVE  InItem(b, d)'
<1>1. /\ want' = TRUE /\ status' = "running"
      /\ UNCHANGED <<file, text, pos, mode, tok, name, decls>>
  BY DEF Advance, GoOn, source, lexing
<1>2. Declaration(file[k]) /\ name = file[k].text[2]
  BY DEF Within
<1>3. /\ Declaration(file[k])' /\ name' = file'[k].text[2]
      /\ (Variable(file[k])' <=> Variable(file[k])) /\ (Function(file[k])' <=> Function(file[k]))
  BY <1>1, <1>2 DEF Declaration, Variable, Prototype, Function, Signature, Declares
<1>4. Within(file[k], o + 1)'
  BY <1>1, <1>3 DEF Within
<1> QED BY <1>1, <1>4, GoesOnWithin

LEMMA DeclaratorKeepsItem ==
  ASSUME FrontInOrder, NEW b, NEW d, Given(b, d), InItem(b, d), Declarator
  PROVE  InItem(b, d)'
<1>1. status = "running" /\ ~want /\ pc = "declarator"
  BY DEF Declarator, Take, TakeDeclared, At
<1>2. ModeKept /\ HeldWithin(b, d)
  BY <1>1, HoldsWithin
<1>3. PICK k \in 1..Len(file), o \in Nat :
        /\ Len(file[k].text) \in Nat /\ o \in 1..(Len(file[k].text) - 1)
        /\ decls = d[k - 1] /\ pos = b[k - 1] + o + 2 /\ Within(file[k], o)
        /\ tok = Token(file[k].text[o + 1])
  BY <1>2 DEF HeldWithin
<1>4. o = 2 /\ o + 1 = 3 /\ Declaration(file[k]) /\ name = file[k].text[2]
  BY <1>1, <1>3 DEF Within
<1>5. CASE Variable(file[k])
  <2>1. /\ Len(file[k].text) = 3 /\ file[k].text[3] = "semicolon"
        /\ file[k].decl = [kind |-> "variable", name |-> file[k].text[2]]
    BY <1>3, <1>4, <1>5, DeclarationText
  <2>2. tok = "semicolon"
    BY <1>3, <1>4, <2>1, Tokens
  <2>3. TakeDeclared("declarator", "semicolon", "variable")
    BY <2>2 DEF Declarator, Take
  <2> QED BY <1>1, <1>2, <1>3, <1>4, <2>1, <2>3, DeclaresItem
<1>6. CASE ~Variable(file[k])
  <2>1. Len(file[k].text) >= 5 /\ file[k].text[3] = "lparen"
    BY <1>3, <1>4, <1>6, DeclarationText
  <2>2. tok = "lparen"
    BY <1>3, <1>4, <2>1, Tokens
  <2>3. Advance /\ GoOn /\ pc' = "parameters"
    BY <2>2 DEF Declarator, Take, TakeDeclared, Goto
  <2>4. o + 1 < Len(file[k].text)
    BY <1>3, <1>4, <2>1
  <2> QED BY <1>1, <1>2, <1>3, <1>4, <1>6, <2>3, <2>4, TakesWithin
<1> QED BY <1>5, <1>6

LEMMA ParametersKeepItem ==
  ASSUME FrontInOrder, NEW b, NEW d, Given(b, d), InItem(b, d), Parameters
  PROVE  InItem(b, d)'
<1>1. status = "running" /\ ~want /\ pc = "parameters"
  BY DEF Parameters, Take, At
<1>2. ModeKept /\ HeldWithin(b, d)
  BY <1>1, HoldsWithin
<1>3. PICK k \in 1..Len(file), o \in Nat :
        /\ Len(file[k].text) \in Nat /\ o \in 1..(Len(file[k].text) - 1)
        /\ decls = d[k - 1] /\ pos = b[k - 1] + o + 2 /\ Within(file[k], o)
        /\ tok = Token(file[k].text[o + 1])
  BY <1>2 DEF HeldWithin
<1>4. o = 3 /\ o + 1 = 4 /\ Declaration(file[k]) /\ ~Variable(file[k])
  BY <1>1, <1>3 DEF Within
<1>5. Len(file[k].text) >= 5 /\ file[k].text[4] = "rparen"
  BY <1>3, <1>4, DeclarationText
<1>6. tok = "rparen"
  BY <1>3, <1>4, <1>5, Tokens
<1>7. Advance /\ GoOn /\ pc' = "body"
  BY <1>6 DEF Parameters, Take, Goto
<1>8. o + 1 < Len(file[k].text)
  BY <1>3, <1>4, <1>5
<1> QED BY <1>1, <1>2, <1>3, <1>4, <1>7, <1>8, TakesWithin

LEMMA BodyKeepsItem ==
  ASSUME FrontInOrder, NEW b, NEW d, Given(b, d), InItem(b, d), Body
  PROVE  InItem(b, d)'
<1>1. status = "running" /\ ~want /\ pc = "body"
  BY DEF Body, Take, TakeDeclared, At
<1>2. ModeKept /\ HeldWithin(b, d)
  BY <1>1, HoldsWithin
<1>3. PICK k \in 1..Len(file), o \in Nat :
        /\ Len(file[k].text) \in Nat /\ o \in 1..(Len(file[k].text) - 1)
        /\ decls = d[k - 1] /\ pos = b[k - 1] + o + 2 /\ Within(file[k], o)
        /\ tok = Token(file[k].text[o + 1])
  BY <1>2 DEF HeldWithin
<1>4. /\ o = 4 /\ o + 1 = 5 /\ Declaration(file[k]) /\ ~Variable(file[k])
      /\ name = file[k].text[2]
  BY <1>1, <1>3 DEF Within
<1>5. CASE ~Function(file[k])
  <2>1. /\ Len(file[k].text) = 5 /\ file[k].text[5] = "semicolon"
        /\ file[k].decl = [kind |-> "function", name |-> file[k].text[2]]
    BY <1>3, <1>4, <1>5, DeclarationText
  <2>2. tok = "semicolon"
    BY <1>3, <1>4, <2>1, Tokens
  <2>3. TakeDeclared("body", "semicolon", "function")
    BY <2>2 DEF Body, Take
  <2> QED BY <1>1, <1>2, <1>3, <1>4, <2>1, <2>3, DeclaresItem
<1>6. CASE Function(file[k])
  <2>1. Len(file[k].text) > 5 /\ file[k].text[5] = "lbrace"
    BY <1>3, <1>6, FunctionText
  <2>2. tok = "lbrace"
    BY <1>3, <1>4, <2>1, Tokens
  <2>3. Advance /\ GoOn /\ pc' = "block"
    BY <2>2 DEF Body, Take, TakeDeclared, Goto
  <2>4. o + 1 < Len(file[k].text) /\ o + 1 \in 5..(Len(file[k].text) - 1)
    BY <1>3, <1>4, <2>1
  <2> QED BY <1>1, <1>2, <1>3, <1>6, <2>3, <2>4, TakesWithin
<1> QED BY <1>5, <1>6

LEMMA BlockKeepsItem ==
  ASSUME FrontInOrder, NEW b, NEW d, Given(b, d), InItem(b, d), Block
  PROVE  InItem(b, d)'
<1>1. status = "running" /\ ~want /\ pc = "block"
  BY DEF Block, Take, TakeDeclared, At
<1>2. ModeKept /\ HeldWithin(b, d)
  BY <1>1, HoldsWithin
<1>3. PICK k \in 1..Len(file), o \in Nat :
        /\ Len(file[k].text) \in Nat /\ o \in 1..(Len(file[k].text) - 1)
        /\ decls = d[k - 1] /\ pos = b[k - 1] + o + 2 /\ Within(file[k], o)
        /\ tok = Token(file[k].text[o + 1])
  BY <1>2 DEF HeldWithin
<1>x. PICK x, n : x = file[k].text /\ n = Len(file[k].text)
  OBVIOUS
<1>4. /\ Function(file[k]) /\ Declaration(file[k]) /\ o \in 5..(n - 1) /\ n \in Nat
      /\ name = x[2]
  BY <1>1, <1>3, <1>x DEF Within
<1>5. /\ n > 5 /\ x[n] = "rbrace"
      /\ \A i \in 6..(n - 1) : x[i] # "rbrace"
      /\ file[k].decl = [kind |-> "function", name |-> x[2]]
  <2>1. n > 5 /\ x[n] = "rbrace" /\ \A i \in 6..(n - 1) : x[i] # "rbrace"
    BY <1>4, <1>x, FunctionText
  <2>2. file[k].decl = [kind |-> "function", name |-> file[k].text[2]]
    BY <1>3, <1>4, DeclarationText
  <2> QED BY <1>x, <2>1, <2>2
<1>6. tok # "EOF" /\ (tok = "rbrace" <=> x[o + 1] = "rbrace") /\ (tok = "return" <=> x[o + 1] = "return")
  BY <1>3, <1>x, Tokens
<1>7. o + 1 = n \/ (o + 1 < n /\ o + 1 \in 6..(n - 1) /\ o + 1 \in 5..(n - 1) /\ o + 1 > 5)
  BY <1>4
<1>8. CASE o + 1 = n
  <2>1. tok = "rbrace"
    BY <1>5, <1>6, <1>8
  <2>2. TakeDeclared("block", "rbrace", "function")
    BY <2>1 DEF Block, Take
  <2> QED BY <1>1, <1>2, <1>3, <1>4, <1>5, <1>8, <1>x, <2>2, DeclaresItem
<1>9. CASE o + 1 < n /\ o + 1 \in 6..(n - 1) /\ o + 1 \in 5..(n - 1) /\ o + 1 > 5
  <2>1. tok # "rbrace"
    BY <1>5, <1>6, <1>9
  <2>2. /\ Advance /\ GoOn
        /\ pc' = "block" \/ (pc' = "return" /\ x[o + 1] = "return")
    BY <1>6, <2>1 DEF Block, Take, TakeDeclared, Goto
  <2> QED BY <1>1, <1>2, <1>3, <1>4, <1>9, <1>x, <2>2, TakesWithin
<1> QED BY <1>7, <1>8, <1>9

LEMMA ReturnKeepsItem ==
  ASSUME FrontInOrder, NEW b, NEW d, Given(b, d), InItem(b, d), Return
  PROVE  InItem(b, d)'
<1>1. status = "running" /\ ~want /\ pc \in {"return", "semicolon"}
  BY DEF Return, Take, At
<1>2. ModeKept /\ HeldWithin(b, d)
  BY <1>1, HoldsWithin
<1>3. PICK k \in 1..Len(file), o \in Nat :
        /\ Len(file[k].text) \in Nat /\ o \in 1..(Len(file[k].text) - 1)
        /\ decls = d[k - 1] /\ pos = b[k - 1] + o + 2 /\ Within(file[k], o)
        /\ tok = Token(file[k].text[o + 1])
  BY <1>2 DEF HeldWithin
<1>x. PICK x, n : x = file[k].text /\ n = Len(file[k].text)
  OBVIOUS
<1>4. /\ Function(file[k]) /\ o \in 5..(n - 1) /\ n \in Nat
      /\ pc = "return" => o > 5 /\ x[o] = "return"
      /\ pc = "semicolon" => o + 1 < n /\ x[o + 1] = "semicolon"
  BY <1>1, <1>3, <1>x DEF Within
<1>5. /\ n > 5 /\ x[n] = "rbrace"
      /\ \A i \in 6..(n - 1) :
           x[i] = "return" => x[i + 1] = "semicolon" \/ (i + 2 < n /\ x[i + 2] = "semicolon")
  BY <1>4, <1>x, FunctionText
<1>6. tok = "semicolon" <=> x[o + 1] = "semicolon"
  BY <1>3, <1>x, Tokens
<1>7. o + 1 < n => o + 1 \in 5..(n - 1)
  BY <1>4
<1>8. CASE pc = "semicolon"
  <2>1. tok = "semicolon" /\ o + 1 < n
    BY <1>4, <1>6, <1>8
  <2>2. Advance /\ GoOn /\ pc' = "block"
    BY <1>8, <2>1 DEF Return, Take, At, Goto
  <2> QED BY <1>1, <1>2, <1>3, <1>4, <1>7, <1>x, <2>1, <2>2, TakesWithin
<1>9. CASE pc = "return" /\ tok = "semicolon"
  <2>1. x[o + 1] = "semicolon" /\ o + 1 # n
    BY <1>5, <1>6, <1>9
  <2>2. o + 1 < n
    BY <1>4, <2>1
  <2>3. Advance /\ GoOn /\ pc' = "block"
    BY <1>9 DEF Return, Take, At, Goto
  <2> QED BY <1>1, <1>2, <1>3, <1>4, <1>7, <1>x, <2>2, <2>3, TakesWithin
<1>10. CASE pc = "return" /\ tok # "semicolon"
  <2>1. o \in 6..(n - 1) /\ x[o] = "return" /\ x[o + 1] # "semicolon"
    BY <1>4, <1>6, <1>10
  <2>2. o + 2 < n /\ x[o + 2] = "semicolon"
    BY <1>5, <2>1
  <2>3. (o + 1) + 1 < n /\ (o + 1) + 1 = o + 2 /\ o + 1 < n
    BY <1>4, <2>2
  <2>4. Advance /\ GoOn /\ pc' = "semicolon"
    BY <1>10 DEF Return, Take, At, Goto
  <2>5. x[(o + 1) + 1] = "semicolon"
    BY <2>2, <2>3
  <2> QED BY <1>1, <1>2, <1>3, <1>4, <1>7, <1>x, <2>3, <2>4, <2>5, TakesWithin
<1> QED BY <1>1, <1>8, <1>9, <1>10

---------------------------------------------------------------------------
(* For the layout of the file, and what its items declare.                 *)
ItemsInOrder == \A b, d : Given(b, d) => InItem(b, d)

LEMMA InitItems == Init => ItemsInOrder
<1> SUFFICES ASSUME Init, NEW b, NEW d, Given(b, d) PROVE InItem(b, d)
  BY DEF ItemsInOrder
<1>1. file \in Files /\ Len(file) \in Nat
  BY FileIsSeq DEF Init
<1>2. b[0] = 0 /\ d[0] = <<>> /\ 0 \in 0..Len(file)
  BY <1>1, DeclaredIs DEF Given, IsLayout
<1>3. /\ pc = "unit" /\ pos = b[0] + 1 /\ decls = d[0] /\ want /\ mode = "Standard"
      /\ status = "running"
  <2>1. /\ pc = "unit" /\ pos = 1 /\ decls = <<>> /\ want /\ mode = "Standard"
        /\ status = "running"
    BY Zenon DEF Init
  <2>2. 0 + 1 = 1
    OBVIOUS
  <2> QED BY <1>2, <2>1, <2>2
<1>4. Reading(b, d)
  BY <1>2, <1>3 DEF Reading
<1> QED BY <1>3, <1>4 DEF InItem, ModeKept

LEMMA FileStays ==
  ASSUME [Next]_vars
  PROVE  UNCHANGED <<file, text>>
<1>1. CASE Next
  BY <1>1 DEF Next, Pull, PullToken, PullDirective, Spin, Parse, Unit, UnitEnd, Rest, Name,
              Declarator, Parameters, Body, Block, Return, Take, TakeDeclared, Reject, Advance,
              source
<1>2. CASE UNCHANGED vars
  BY <1>2 DEF vars, source
<1> QED BY <1>1, <1>2

LEMMA NextItems ==
  ASSUME FrontInOrder, ItemsInOrder, [Next]_vars
  PROVE  ItemsInOrder'
<1>1. UNCHANGED <<file, text>>
  BY FileStays
<1> SUFFICES ASSUME NEW b, NEW d, Given(b, d)' PROVE InItem(b, d)'
  BY DEF ItemsInOrder
<1>2. Given(b, d)
  <2>1. IsLayout(b)' /\ IsDeclared(d)' /\ WellFormed' /\ ~LessMisread'
    BY DEF Given
  <2>2. IsLayout(b)
    BY <1>1, <2>1 DEF IsLayout
  <2>3. IsDeclared(d)
    BY <1>1, <2>1 DEF IsDeclared
  <2>4. WellFormed
    BY <1>1, <2>1 DEF WellFormed, Empty, Comment, Include, Variable, Prototype, Function, Signature,
                      Declares
  <2>5. ~LessMisread
    BY <1>1, <2>1 DEF LessMisread, Header
  <2> QED BY <2>2, <2>3, <2>4, <2>5 DEF Given
<1>3. InItem(b, d)
  BY <1>2 DEF ItemsInOrder
<1>4. CASE Pull
  BY <1>2, <1>3, <1>4, PullKeepsItem
<1>5. CASE Parse
  BY <1>2, <1>3, <1>5, UnitKeepsItem, RestKeepsItem, NameKeepsItem, DeclaratorKeepsItem,
     ParametersKeepItem, BodyKeepsItem, BlockKeepsItem, ReturnKeepsItem DEF Parse
<1>6. CASE UNCHANGED vars
  <2>1. UNCHANGED <<file, text, pos, mode, want, tok, pc, name, decls, status>>
    BY <1>6 DEF vars, source, lexing, parsing
  <2>2. \A x, o : Within(x, o)' <=> Within(x, o)
    BY <2>1 DEF Within, Declaration, Variable, Prototype, Function, Signature, Declares
  <2>3. \A x, s : (ReadingIn(x, s)' <=> ReadingIn(x, s)) /\ (HoldingIn(x, s)' <=> HoldingIn(x, s))
    BY <2>1, <2>2 DEF ReadingIn, HoldingIn, Include, Declaration, Variable, Prototype, Function,
                      Signature, Declares
  <2>4. (Reading(b, d) => Reading(b, d)') /\ (Holding(b, d) => Holding(b, d)')
    BY <2>1, <2>3 DEF Reading, Holding
  <2>5. (ModeKept => ModeKept') /\ (CommentCaught => CommentCaught')
    BY <2>1 DEF ModeKept, Opened, Stale, CommentCaught, Header
  <2> QED BY <1>3, <2>1, <2>4, <2>5 DEF InItem
<1> QED BY <1>4, <1>5, <1>6 DEF Next

LEMMA ItemsStayInOrder == Spec => [](FrontInOrder /\ LaidOut /\ ItemsInOrder)
<1>1. LaidOut /\ [Next]_vars => LaidOut'
  <2> SUFFICES ASSUME LaidOut, [Next]_vars PROVE LaidOut'
    OBVIOUS
  <2>1. PICK b : IsLayout(b)
    BY DEF LaidOut
  <2>2. IsLayout(b)'
    BY <2>1, FileStays DEF IsLayout
  <2> QED BY <2>2 DEF LaidOut
<1>2. FrontInOrder /\ ItemsInOrder /\ [Next]_vars => ItemsInOrder'
  BY NextItems
<1> QED BY <1>1, <1>2, InitLaidOut, InitItems, FrontStaysInOrder, PTL DEF Spec

LEMMA WellFormedIsGiven ==
  ASSUME FrontInOrder, LaidOut, ItemsInOrder, WellFormed, ~LessMisread
  PROVE  \E b, d : Given(b, d) /\ InItem(b, d)
<1>1. PICK b : IsLayout(b)
  BY DEF LaidOut
<1>2. PICK d : IsDeclared(d)
  BY DeclaredExists DEF FrontInOrder
<1> QED BY <1>1, <1>2 DEF Given, ItemsInOrder

(* A file of well-formed items, however many and however long, is not      *)
(* rejected unless an operator `<` follows a quoted include; with none the *)
(* lexer hangs only at a comment behind one.                               *)
THEOREM AcceptsWellFormed == Spec => []WellFormedAccepted
<1>1. FrontInOrder /\ LaidOut /\ ItemsInOrder => WellFormedAccepted
  BY WellFormedIsGiven DEF WellFormedAccepted, InItem
<1> QED BY <1>1, ItemsStayInOrder, PTL

(* With the same exception, a well-formed file that is parsed to its end   *)
(* has yielded exactly the declarations of its items, in their order.      *)
THEOREM FindsDeclarations == Spec => []DeclarationsFound
<1>1. FrontInOrder /\ LaidOut /\ ItemsInOrder => DeclarationsFound
  <2> SUFFICES ASSUME FrontInOrder, LaidOut, ItemsInOrder, WellFormed, ~LessMisread, status = "done"
               PROVE  decls = Declared
    BY DEF DeclarationsFound
  <2>1. PICK e : Declared = e[Len(file)] /\ IsDeclared(e)
    <3> DEFINE e == CHOOSE e : IsDeclared(e)
    <3>1. IsDeclared(e)
      BY DeclaredExists DEF FrontInOrder
    <3>2. Declared = e[Len(file)]
      BY DEF Declared, IsDeclared
    <3> HIDE DEF e
    <3> QED BY <3>1, <3>2
  <2>2. PICK b : IsLayout(b)
    BY DEF LaidOut
  <2>3. InItem(b, e)
    BY <2>1, <2>2 DEF ItemsInOrder, Given
  <2> QED BY <2>1, <2>3 DEF InItem
<1> QED BY <1>1, ItemsStayInOrder, PTL
=============================================================================
