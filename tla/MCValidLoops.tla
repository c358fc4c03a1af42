---------------------------- MODULE MCValidLoops ----------------------------
(***************************************************************************)
(* Instances of ValidLoops for TLC, with registers of their real size and  *)
(* two blocks.                                                             *)
(***************************************************************************)
EXTENDS ValidLoops

\* The bytes at which a comparison or a range changes its answer.
Edges == {127, 128, 143, 144, 159, 160, 191, 193, 194, 223,
          224, 225, 237, 240, 241, 244, 245, 255}
Classes == {65, 128, 194, 225, 241}

\* w at byte k of otherwise ASCII bytes, two blocks in all.
Placed(k, w) == [i \in 1..(2 * W) |-> IF i - k \in DOMAIN w THEN w[i - k] ELSE 65]

\* Pairs of edge bytes across the end of the first block; class arrangements
\* across its end and its middle; each class and a byte that is too large in
\* every lane of two blocks.
MCSources ==
  {Placed(W - 1, w) : w \in [1..2 -> Edges]} \cup
  {Placed(W - 2, w) : w \in [1..3 -> Classes]} \cup
  {Placed(W \div 2 - 1, w) : w \in [1..3 -> Classes]} \cup
  {Placed(k, << b >>) : k \in 0..(2 * W - 1), b \in Classes \cup {255}}

\* All zero, or all ones.
MCLeft(kernel) == {[r \in Scratch(kernel) |-> Every(b)] : b \in {0, 255}}
=============================================================================
