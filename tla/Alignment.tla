------------------------------ MODULE Alignment ----------------------------
(* Rounding up to a multiple, as Arena::align_forward and                  *)
(* TypeRegistry::align_up do with a bit mask: n + a - 1 & ~(a - 1), which  *)
(* is the next multiple of a for the powers of two, and for them only.     *)
EXTENDS Naturals

(* The alignments that occur: up to that of a cache line.                  *)
Alignments == {1, 2, 4, 8, 16, 32, 64}

AlignUp(n, a) == ((n + a - 1) \div a) * a
=============================================================================
