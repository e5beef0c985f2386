------------------------------ MODULE CppFront -----------------------------
(***************************************************************************)
(* The C++ front end that Builder::compile_target runs on a source file:   *)
(* the Parser asks the Preprocessor for one token at a time, which asks    *)
(* the Lexer.  The Lexer's mode (how it reads a `<`) is changed by the     *)
(* Lexer, and by the Preprocessor behind the Parser's back.                *)
(*                                                                         *)
(* A file is a sequence of items, an item a piece of text together with    *)
(* the declaration it makes.  Text is a sequence of lexemes, of which      *)
(* brackets and semicolons go by the names of their tokens; blanks, which  *)
(* only separate, are left out.                                            *)
(***************************************************************************)
EXTENDS Naturals, Sequences, SequencesExt

CONSTANTS
  Files,          \* the source files: sequences of items
  Identifiers,    \* the words that are no keywords
  NoDecl          \* `decl` of an item that declares nothing

TypeWords == {"int", "char", "void", "float", "double", "bool"}
Punctuation == {"lbrace", "rbrace", "lparen", "rparen", "semicolon", "<", ">"}

ASSUME FilesAssumption ==
  \A f \in Files : f \in Seq([text : Seq(STRING), decl : {f[i].decl : i \in DOMAIN f}])
ASSUME IdentifiersAssumption ==
  \A c \in Identifiers :
    c \notin TypeWords \cup Punctuation \cup {"0", "1", "include", "return", "nl", "#", "//", "quote"}
ASSUME NoDeclAssumption == NoDecl \notin [kind : {"variable", "function"}, name : Identifiers]

VARIABLES
  file,     \* the items of the file being compiled
  text,     \* its lexemes
  pos,      \* Lexer::cursor
  mode,     \* Lexer::mode
  want,     \* the Parser waits for a token
  tok,      \* Parser::current_tok
  pc,       \* where the Parser is
  name,     \* name_id of the declaration being parsed
  decls,    \* declarations of the translation unit so far
  status    \* how the compilation of the file goes

source == <<file, text>>
lexing == <<pos, mode>>
parsing == <<pc, name, decls>>
vars == <<source, lexing, want, tok, parsing, status>>

Init ==
  /\ file \in Files
  /\ text = FlattenSeq([i \in DOMAIN file |-> file[i].text])
  /\ pos = 1 /\ mode = "Standard"
  /\ want = TRUE /\ tok = "EOF"
  /\ pc = "unit" /\ name = "" /\ decls = <<>>
  /\ status = "running"

---------------------------------------------------------------------------
(* Lexer::next_token as a function: the token read at p in mode m, and the *)
(* cursor and the mode after it.                                           *)

(* The keyword table finds keywords before identifiers: `include` is one.  *)
WordKind(c) ==
  CASE c \in TypeWords -> "type"
    [] c \in {"include", "return"} -> c
    [] c \in Identifiers -> "identifier"
    [] c \in {"0", "1"} -> "number"
    [] c \in Punctuation -> c
    [] OTHER -> "unknown"

EndsAt(p, stops) ==
  CHOOSE e \in p..(Len(text) + 1) :
    /\ e = Len(text) + 1 \/ text[e] \in stops
    /\ \A i \in p..(e - 1) : text[i] \notin stops

(* Behind a quoted text: its closing quote is taken along, a line end not. *)
BehindAlways(e, close) == e + 1
Behind(e, close) == IF e <= Len(text) /\ text[e] = close THEN e + 1 ELSE e

(* Comments are skipped in mode Standard.                                  *)
SkipFrom(p) == IF p <= Len(text) /\ text[p] = "//" THEN EndsAt(p, {"nl"}) ELSE p

(* In mode Directive the loop over a comment's characters is left at once, *)
(* and the loop around it finds the same comment again, forever.           *)
SpinsInAnyMode(p, m) == p <= Len(text) /\ text[p] = "//"
Spins(p, m) == m = "Directive" /\ p <= Len(text) /\ text[p] = "//"

Read(kind, next, m) == [kind |-> kind, pos |-> next, mode |-> m]
NewlineNotTaken(p, m) == Read("newline", p, m)
Newline(p, m) == Read("newline", p + 1, m)
LexAt(p, m) ==
  IF p > Len(text) THEN Read("EOF", p, m)
  ELSE IF m = "Directive" /\ text[p] = "<"
    THEN Read("system", Behind(EndsAt(p + 1, {">", "nl"}), ">"), "Standard")
  ELSE IF text[p] = "quote"
    THEN Read("string", Behind(EndsAt(p + 1, {"quote", "nl"}), "quote"), m)
  ELSE IF text[p] = "nl" THEN Newline(p, m)
  ELSE IF text[p] = "#" THEN Read("#", p + 1, "Directive")
  ELSE Read(WordKind(text[p]), p + 1, m)
Lex(p, m) == LexAt(SkipFrom(p), m)

---------------------------------------------------------------------------
(* Preprocessor::next_token.  After a `#` it reads the name of the         *)
(* directive.  As `include` comes as a keyword and not as an identifier,   *)
(* it knows no directive: it hands the `#` on, and the name is lost.       *)
Pulling == status = "running" /\ want

Deliver(kind) == tok' = kind /\ want' = FALSE

PullToken ==
  /\ Pulling /\ ~Spins(pos, mode)
  /\ LET t == Lex(pos, mode)
     IN /\ t.kind # "#"
        /\ Deliver(t.kind)
        /\ pos' = t.pos /\ mode' = t.mode
  /\ UNCHANGED <<source, parsing, status>>

PullDirective ==
  /\ Pulling /\ ~Spins(pos, mode)
  /\ LET hash == Lex(pos, mode)
         directive == Lex(hash.pos, "Directive")
     IN /\ hash.kind = "#"
        /\ ~Spins(hash.pos, "Directive")
        /\ Deliver("#")
        /\ pos' = directive.pos /\ mode' = directive.mode
  /\ UNCHANGED <<source, parsing, status>>

(* The lexer does not come back.                                           *)
Spin ==
  /\ Pulling
  /\ \/ Spins(pos, mode)
     \/ Lex(pos, mode).kind = "#" /\ Spins(Lex(pos, mode).pos, "Directive")
  /\ status' = "hung"
  /\ UNCHANGED <<source, lexing, want, tok, parsing>>

---------------------------------------------------------------------------
(* The Parser.  Every step but the last looks at current_tok; Advance asks *)
(* for the next one.                                                       *)
At(place) == status = "running" /\ ~want /\ pc = place
Advance == want' = TRUE /\ UNCHANGED <<source, lexing, tok, status>>
Goto(place) == pc' = place
GoOn == UNCHANGED <<name, decls>>
Reject == status' = "rejected" /\ UNCHANGED <<source, lexing, want, tok, parsing>>

Take(place, kinds, next) ==
  /\ At(place) /\ tok \in kinds
  /\ Advance /\ Goto(next) /\ GoOn

Declare(kind, declared) == decls' = Append(decls, [kind |-> kind, name |-> declared])
TakeDeclared(place, last, kind) ==
  /\ At(place) /\ tok = last
  /\ Declare(kind, name)
  /\ Advance /\ Goto("unit") /\ UNCHANGED name

(* parse_translation_unit                                                  *)
UnitEnd ==
  /\ At("unit") /\ tok = "EOF"
  /\ status' = "done"
  /\ UNCHANGED <<source, lexing, want, tok, parsing>>
Unit ==
  \/ UnitEnd
  \/ Take("unit", {"newline"}, "unit")
  \/ Take("unit", {"#"}, "directive")
  \/ Take("unit", {"type"}, "name")
  \/ At("unit") /\ tok \notin {"EOF", "newline", "#", "type"} /\ Reject

(* parse_directive: up to the end of the line.                             *)
RestToEndOfFile ==
  \/ At("directive") /\ tok # "EOF" /\ Advance /\ Goto("directive") /\ GoOn
  \/ At("directive") /\ tok = "EOF" /\ Goto("unit") /\ GoOn
     /\ UNCHANGED <<source, lexing, want, tok, status>>
Rest ==
  \/ At("directive") /\ tok \notin {"newline", "EOF"} /\ Advance /\ Goto("directive") /\ GoOn
  \/ Take("directive", {"newline"}, "unit")
  \/ At("directive") /\ tok = "EOF" /\ Goto("unit") /\ GoOn
     /\ UNCHANGED <<source, lexing, want, tok, status>>

(* parse_declaration                                                       *)
Name ==
  \/ /\ At("name") /\ tok = "identifier"
     /\ name' = text[pos - 1]
     /\ Advance /\ Goto("declarator") /\ UNCHANGED decls
  \/ At("name") /\ tok # "identifier" /\ Reject
Declarator ==
  \/ Take("declarator", {"lparen"}, "parameters")
  \/ TakeDeclared("declarator", "semicolon", "variable")
  \/ At("declarator") /\ tok \notin {"lparen", "semicolon"} /\ Reject
Parameters ==
  \/ Take("parameters", {"rparen"}, "body")
  \/ At("parameters") /\ tok # "rparen" /\ Reject
Body ==
  \/ Take("body", {"lbrace"}, "block")
  \/ TakeDeclared("body", "semicolon", "function")
  \/ At("body") /\ tok \notin {"lbrace", "semicolon"} /\ Reject

(* parse_block and parse_statement: what is no return is passed over token *)
(* by token.                                                               *)
Block ==
  \/ TakeDeclared("block", "rbrace", "function")
  \/ Take("block", {"return"}, "return")
  \/ At("block") /\ tok \notin {"rbrace", "return", "EOF"} /\ Advance /\ Goto("block") /\ GoOn
  \/ At("block") /\ tok = "EOF" /\ Reject
ReturnAlwaysValue ==
  \/ At("return") /\ Advance /\ Goto("semicolon") /\ GoOn
  \/ Take("semicolon", {"semicolon"}, "block")
  \/ At("semicolon") /\ tok # "semicolon" /\ Reject
Return ==
  \/ Take("return", {"semicolon"}, "block")
  \/ At("return") /\ tok # "semicolon" /\ Advance /\ Goto("semicolon") /\ GoOn
  \/ Take("semicolon", {"semicolon"}, "block")
  \/ At("semicolon") /\ tok # "semicolon" /\ Reject

Pull == PullToken \/ PullDirective \/ Spin
Parse == Unit \/ Rest \/ Name \/ Declarator \/ Parameters \/ Body \/ Block \/ Return
Next == Pull \/ Parse

(* One thread: it goes on until the file is done, rejected, or never.      *)
Spec == Init /\ [][Next]_vars /\ WF_vars(Next)

---------------------------------------------------------------------------
Kinds == {"EOF", "newline", "#", "system", "string", "type", "identifier", "number",
          "include", "return", "unknown"} \cup Punctuation

(* The variables keep their types; the cursor never passes the end.        *)
TypeOK ==
  /\ file \in Files
  /\ pos \in 1..(Len(text) + 1)
  /\ mode \in {"Standard", "Directive"}
  /\ want \in BOOLEAN /\ tok \in Kinds
  /\ pc \in {"unit", "directive", "name", "declarator", "parameters", "body", "block",
             "return", "semicolon"}
  /\ \A i \in DOMAIN decls : decls[i].kind \in {"variable", "function"}
  /\ status \in {"running", "done", "rejected", "hung"}

(* A well-formed file: of empty lines, comments, includes, variables,      *)
(* prototypes and functions without nested blocks, in any order.           *)
Empty(x) == x.text = <<"nl">> /\ x.decl = NoDecl
Comment(x) ==
  LET n == Len(x.text)
  IN /\ n > 1 /\ x.text[1] = "//" /\ x.text[n] = "nl" /\ x.decl = NoDecl
     /\ \A i \in 1..(n - 1) : x.text[i] # "nl"
Include(x) ==
  /\ Len(x.text) = 6 /\ x.text[1] = "#" /\ x.text[2] = "include" /\ x.text[6] = "nl"
  /\ x.decl = NoDecl
  /\ \/ x.text[3] = "<" /\ x.text[4] \notin {">", "nl"} /\ x.text[5] = ">"
     \/ x.text[3] = "quote" /\ x.text[4] \notin {"quote", "nl"} /\ x.text[5] = "quote"

Declares(x, kind) ==
  /\ x.text[1] \in TypeWords /\ x.text[2] \in Identifiers
  /\ x.decl = [kind |-> kind, name |-> x.text[2]]
Variable(x) == Len(x.text) = 3 /\ Declares(x, "variable") /\ x.text[3] = "semicolon"
Signature(x) == Declares(x, "function") /\ x.text[3] = "lparen" /\ x.text[4] = "rparen"
Prototype(x) == Len(x.text) = 5 /\ Signature(x) /\ x.text[5] = "semicolon"
Function(x) ==
  LET n == Len(x.text)
  IN /\ n > 5 /\ Signature(x) /\ x.text[5] = "lbrace" /\ x.text[n] = "rbrace"
     /\ \A i \in 6..(n - 1) :
          /\ x.text[i] \notin {"lbrace", "rbrace", "#", "//", "quote", "include"}
          /\ x.text[i] = "return" =>
               x.text[i + 1] = "semicolon" \/ (i + 2 < n /\ x.text[i + 2] = "semicolon")

WellFormed ==
  \A i \in DOMAIN file :
    LET x == file[i]
    IN Empty(x) \/ Comment(x) \/ Include(x) \/ Variable(x) \/ Prototype(x) \/ Function(x)

Declared ==
  LET declared[n \in 0..Len(file)] ==
        IF n = 0 THEN <<>>
        ELSE IF file[n].decl = NoDecl THEN declared[n - 1]
        ELSE Append(declared[n - 1], file[n].decl)
  IN declared[Len(file)]

(* A quoted include leaves the lexer in Directive mode, up to the next     *)
(* include with <...> or the next `<` that is an operator, which it then   *)
(* takes for the start of a header name.  A comment until then catches it. *)
Header(k) == k > 1 /\ text[k - 1] = "include"
LessMisread ==
  \E i, j \in DOMAIN text :
    /\ i < j
    /\ text[i] = "quote" /\ Header(i)
    /\ text[j] = "<" /\ ~Header(j)
    /\ \A k \in i..j : text[k] = "<" => ~Header(k)
CommentCaught ==
  \E i, j \in DOMAIN text :
    /\ i < j
    /\ text[i] = "quote" /\ Header(i)
    /\ text[j] = "//"
    /\ \A k \in i..j : text[k] = "<" => ~Header(k)

(* No directive breaks the code behind it but in two ways: a file of well- *)
(* formed items is not rejected unless an operator `<` follows a quoted    *)
(* include, and with none the lexer comes back unless a comment does.      *)
WellFormedAccepted ==
  WellFormed /\ ~LessMisread =>
    status # "rejected" /\ (status = "hung" => CommentCaught)

(* A well-formed file that is parsed to its end yields its declarations,   *)
(* all of them, in order, and no other, unless a `<` was misread.          *)
DeclarationsFound == WellFormed /\ ~LessMisread /\ status = "done" => decls = Declared

(* A comment stops the lexer for good only behind a directive.             *)
SpinsOnlyAfterDirective ==
  status = "hung" => \E i \in 1..pos : i <= Len(text) /\ text[i] = "#"

(* Every file is done, rejected or, behind a directive, never lexed to     *)
(* its end; the parser's own loops end.                                    *)
FileEnds == <>(status # "running")

---------------------------------------------------------------------------
(* "If we were in directive mode, it ends at the new line" (Lexer), "The   *)
(* lexer itself resets the mode to Standard when it gets to the newline"   *)
(* (Parser): behind a newline the mode is Standard.                        *)
ModeEndsWithLine == ~want /\ tok = "newline" => mode = "Standard"
=============================================================================
