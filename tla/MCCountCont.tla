----------------------------- MODULE MCCountCont ----------------------------
(***************************************************************************)
(* Instances of CountCont for TLC: up to three blocks of four bytes.       *)
(***************************************************************************)
EXTENDS CountCont

\* Neighbours of the continuation range, in every arrangement of a block and
\* its neighbour bytes.
MCSources ==
  {[i \in 1..12 |-> IF i \in 4..9 THEN w[i - 3] ELSE 191] : w \in [1..6 -> {127, 128, 191, 192}]}
=============================================================================
