------------------------------ MODULE MCCompile ----------------------------
(* Compile with two directories: `x` can be in both, `y` in the second is  *)
(* another name of the x of the first.  Chunks of eight bytes at multiples *)
(* of four; objects larger than a chunk, and objects aligned beyond what   *)
(* operator new gives.                                                     *)
EXTENDS Compile, TLC

CONSTANTS x, y, own, shared

MCFiles == {own, shared}
MCNames == {x, y}
MCResolves == [p \in (1..2) \X MCNames |->
  CASE p = <<1, x>> -> own [] p = <<2, x>> -> shared [] p = <<1, y>> -> NoFile [] p = <<2, y>> -> own]
MCSourceLists == {<<x, y>>, <<y, x, x>>, <<x, NotAString>>}
MCDescriptors == {3, 4}

MCSizes == {3, 10}
MCAligns == {1, 4, 8}
MCAddresses == {4, 12, 16}
=============================================================================
