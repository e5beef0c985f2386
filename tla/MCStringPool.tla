---------------------------- MODULE MCStringPool ---------------------------
(* StringPool with texts of every length a chunk of 16 bytes tells apart   *)
(* (one too long for it), most of which collide in a table that starts     *)
(* with two slots and has to grow to four and to eight.                    *)
EXTENDS StringPool, TLC

CONSTANTS none, x, y, word, other, long

MCStrings == {none, x, y, word, other, long}
MCLength == none :> 0 @@ x :> 1 @@ y :> 1 @@ word :> 4 @@ other :> 5 @@ long :> 13
MCHash == none :> 3 @@ x :> 7 @@ y :> 7 @@ word :> 3 @@ other :> 6 @@ long :> 0
=============================================================================
