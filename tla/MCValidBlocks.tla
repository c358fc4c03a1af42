---------------------------- MODULE MCValidBlocks ---------------------------
(***************************************************************************)
(* Instances of ValidBlocks for TLC: registers of four lanes, up to three  *)
(* blocks.                                                                 *)
(***************************************************************************)
EXTENDS ValidBlocks

\* One byte of each length class: ASCII, continuation, and the leads of two,
\* three and four bytes whose second byte is unrestricted.
Classes == {65, 128, 194, 225, 241}

\* The bytes at which any comparison of the kernel or any range of the
\* encoding changes its answer.
Edges == {0, 127, 128, 143, 144, 159, 160, 191, 192, 193, 194, 223,
          224, 225, 237, 239, 240, 241, 244, 245, 255}

\* w at byte k of otherwise ASCII bytes, two blocks in all.
Placed(k, w) == [i \in 1..8 |-> IF i - k \in DOMAIN w THEN w[i - k] ELSE 65]

\* Every arrangement of length classes in the five bytes around the seam, and
\* in the four bytes up to it and past it (a lead of four at lane 1).
ClassSources ==
  {Placed(2, w) : w \in [1..5 -> Classes]} \cup {Placed(1, w) : w \in [1..4 -> Classes]}
\* Every pair of edge bytes within a block, across the seam and after it.
EdgeSources == {Placed(k, w) : k \in {1, 3, 4}, w \in [1..2 -> Edges]}
\* Malformed patterns repeated over three blocks, where carries feed carries.
PeriodicSources == {[i \in 1..12 |-> w[(i % 3) + 1]] : w \in [1..3 -> Classes]}

MCSources == ClassSources \cup EdgeSources \cup PeriodicSources

\* What the generator says of the amd64 kernels: "A final check on the
\* carried-continuation vector rejects an incomplete trailing sequence, so the
\* validated prefix always ends on a rune boundary" (utf8_gen.go:13-15).
EndsOnRuneBoundary ==
  (pc = "done" /\ ret = 1 /\ port \in {"SSE", "AVX2"}) => ~ Expected(src, n * W)
=============================================================================
