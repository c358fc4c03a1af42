----------------------------- MODULE MCDrivers ------------------------------
(***************************************************************************)
(* Instances of Drivers for TLC: blocks of four bytes, eight for AVX2.     *)
(***************************************************************************)
EXTENDS Drivers

\* Machines the kernels were written for.  POPCNT came to x86-64 after
\* SSE4.1 and before AVX2; POWER8 has VSX but not LXVB16X.
V2 == {"SSSE3", "SSE41", "POPCNT"}
Supported ==
  {[arch |-> "amd64", isa |-> f] : f \in {V2 \ {"POPCNT"}, V2, V2 \cup {"AVX2"}}} \cup
  {[arch |-> a, isa |-> {}] : a \in {"arm64", "s390x", "ppc64le", "generic"}} \cup
  {[arch |-> "ppc64le", isa |-> {"POWER9"}]}

\* x86-64 processors older than SSE4.1, which Go supports (GOAMD64=v1).
Baseline == {[arch |-> "amd64", isa |-> f] : f \in {{}, {"POPCNT"}, {"SSSE3"}}}
Every == Supported \cup Baseline

Classes == {65, 128, 194, 225, 241}
Edges == {127, 128, 143, 144, 159, 160, 191, 192, 193, 194,
          224, 225, 237, 240, 241, 244, 245, 255}

\* w at byte k of len otherwise ASCII bytes.
Placed(len, k, w) == [i \in 1..len |-> IF i - k \in DOMAIN w THEN w[i - k] ELSE 65]

\* Every arrangement of length classes in four bytes: at the end of an input
\* of whole blocks, across the last cut of a longer one, and in an input of
\* one block and a byte; pairs of edge bytes across the cut; inputs shorter
\* than a block.
MCSources ==
  {Placed(8, 4, w) : w \in [1..4 -> Classes]} \cup
  {Placed(10, 5, w) : w \in [1..4 -> Classes]} \cup
  {Placed(11, 7, w) : w \in [1..4 -> Classes]} \cup
  {Placed(5, 1, w) : w \in [1..4 -> Classes]} \cup
  {Placed(9, 7, w) : w \in [1..2 -> Edges]} \cup
  {Placed(len, 0, w) : len \in 0..3, w \in [1..2 -> Edges]}

\* What the comment on runeStart says it returns: "the largest index <= i in
\* p that begins a rune (i.e. is not a UTF-8 continuation byte)" of the last
\* three, or i if there is none (utf8_amd64.go:44-48).
RuneStartAsDocumented ==
  (pc = "split") =>
    LET near == {i \in 0..end : i >= end - 3 /\ i < Len(q) /\ ~ IsCont(At(q, i))}
    IN  runeStart(q, end) = IF near = {} THEN end ELSE CHOOSE i \in near : \A j \in near : j <= i
=============================================================================
