-------------------------- MODULE MCAsciiPrefixLen --------------------------
(***************************************************************************)
(* Instances of AsciiPrefixLen for TLC: words of two bytes, up to two      *)
(* groups of four words and a bit, with up to two bytes that are not ASCII *)
(* anywhere.                                                               *)
(***************************************************************************)
EXTENDS AsciiPrefixLen

MCSources ==
  {[i \in 1..len |-> IF i \in {a, b} THEN 200 ELSE 127] : len \in 0..19, a, b \in 0..19}
=============================================================================
