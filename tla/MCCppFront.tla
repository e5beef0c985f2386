----------------------------- MODULE MCCppFront ----------------------------
(* CppFront on all files of up to three items.                             *)
EXTENDS CppFront

Item(lexemes, decl) == [text |-> lexemes, decl |-> decl]
Fun(n) == [kind |-> "function", name |-> n]
Var(n) == [kind |-> "variable", name |-> n]

(* The head of the definition of a function.                               *)
Opening(type, n) == <<type, n, "lparen", "rparen", "lbrace">>

MCItems == {
  Item(<<"int", "f", "semicolon">>, Var("f")),
  Item(<<"void", "g", "lparen", "rparen", "semicolon">>, Fun("g")),
  Item(Opening("int", "f") \o <<"return", "1", "semicolon", "rbrace">>, Fun("f")),
  Item(Opening("void", "g") \o <<"nl", "f", "semicolon", "return", "semicolon", "rbrace">>,
       Fun("g")),
  Item(Opening("void", "g") \o <<"f", "<", "g", "semicolon", "rbrace">>, Fun("g")),
  Item(<<"nl">>, NoDecl),
  Item(<<"//", "f", "nl">>, NoDecl),
  Item(<<"#", "include", "<", "g", ">", "nl">>, NoDecl),
  Item(<<"#", "include", "quote", "g", "quote", "nl">>, NoDecl),
  Item(<<"#", "nl">>, NoDecl),
  Item(<<"#">>, NoDecl),
  Item(<<"int">>, NoDecl),
  Item(<<"f">>, NoDecl),
  Item(<<"lparen">>, NoDecl),
  Item(<<"lbrace">>, NoDecl),
  Item(<<"rbrace">>, NoDecl),
  Item(<<"void", "g", "lparen">>, NoDecl),
  Item(<<"void", "g", "lparen", "rparen">>, NoDecl),
  Item(Opening("void", "g"), NoDecl),
  Item(Opening("void", "g") \o <<"return", "1">>, NoDecl),
  Item(<<"<">>, NoDecl),
  Item(<<"quote">>, NoDecl)}
MCFiles == UNION {[1..n -> MCItems] : n \in 0..3}
=============================================================================
