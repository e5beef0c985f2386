---------------------------- MODULE MCProjectLoad --------------------------
(* ProjectLoad with build.yacs (targets a and b) and one other file        *)
(* (target c, the goal), which can be imported and fetched, also by itself. *)
EXTENDS ProjectLoad, TLC

CONSTANTS a, b, c, main, lib

MCNames == {a, b, c}
MCFiles == {main, lib}
MCMaxDepends == (a :> 1) @@ (b :> 1) @@ (c :> 2)
MCDeclares == (main :> <<a, b>>) @@ (lib :> <<c>>)
=============================================================================
