------------------------------- MODULE MCScopes ----------------------------
(* Scopes with one variable name, one namespace, one function name in it,  *)
(* one target and an imported context, which has a function of that name   *)
(* too.                                                                    *)
EXTENDS Scopes

CONSTANTS x, n, f, t, exe, v, w, own, lib

MCOffered == [c \in {own, lib} |-> IF c = own THEN {} ELSE {<<n, f>>}]
MCPredefined == Put(Empty, <<exe>>, v)
=============================================================================
