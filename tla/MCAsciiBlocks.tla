---------------------------- MODULE MCAsciiBlocks ---------------------------
(***************************************************************************)
(* Instances of AsciiBlocks for TLC: up to nine blocks of two bytes, that  *)
(* is two groups of four and a block more, with up to two bytes that are   *)
(* not ASCII anywhere.                                                     *)
(***************************************************************************)
EXTENDS AsciiBlocks

MCSources == {[i \in 1..18 |-> IF i \in {a, b} THEN 200 ELSE 127] : a, b \in 0..18}
=============================================================================
