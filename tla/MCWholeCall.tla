----------------------------- MODULE MCWholeCall ----------------------------
(***************************************************************************)
(* Instances of WholeCall for TLC: blocks of four bytes, eight for AVX2,   *)
(* words of two; inputs with a full group of four blocks and more.         *)
(***************************************************************************)
EXTENDS WholeCall

\* Machines the kernels were written for, one of each driver with kernels and
\* block size, and POWER8, on which ppc64le's driver uses none.
V2 == {"SSSE3", "SSE41", "POPCNT"}
Kinds ==
  {[arch |-> "amd64", isa |-> f] : f \in {V2, V2 \cup {"AVX2"}}} \cup
  {[arch |-> a, isa |-> {}] : a \in {"arm64", "s390x"}} \cup
  {[arch |-> "ppc64le", isa |-> f] : f \in {{}, {"POWER9"}}}

Classes == {65, 128, 194, 225, 241}

\* w at byte k of len otherwise ASCII bytes.
Placed(len, k, w) == [i \in 1..len |-> IF i - k \in DOMAIN w THEN w[i - k] ELSE 65]

\* Class arrangements in less than a block, in the first block of two, at the
\* end of a group of four blocks and across the last cut after a fifth, for
\* both block sizes (with fewer classes in the longest input).
MCSources ==
  UNION {{Placed(at[1], at[2], w) : w \in [1..3 -> Classes]} :
           at \in {<<3, 0>>, <<9, 1>>, <<22, 14>>}} \cup
  UNION {{Placed(at[1], at[2], w) : w \in [1..3 -> Classes \ {225}]} :
           at \in {<<41, 30>>, <<41, 38>>}}
=============================================================================
