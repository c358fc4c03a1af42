------------------------- MODULE MCReferenceDecoder -------------------------
(***************************************************************************)
(* Instances of ReferenceDecoder for TLC: every arrangement of length      *)
(* classes in up to six bytes, and of the bytes at which the encoding      *)
(* changes its answer in two bytes before and after a few others.          *)
(***************************************************************************)
EXTENDS ReferenceDecoder

Classes == {65, 128, 194, 225, 241}
Edges == {0, 127, 128, 143, 144, 159, 160, 191, 192, 193, 194, 223,
          224, 225, 237, 239, 240, 241, 244, 245, 255}

MCSources ==
  UNION {[1..len -> Classes] : len \in 0..6} \cup
  {<< a, b, 128, c >> : a, b \in Edges, c \in {65, 128}} \cup
  {<< c, 225, a, b >> : a, b \in Edges, c \in {65, 241}}
=============================================================================
