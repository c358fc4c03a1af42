------------------------------ MODULE CountCont -----------------------------
(***************************************************************************)
(* countContSSE, countContAVX2, countCont (NEON), countContVSX and         *)
(* countContVX: the number of continuation bytes in n blocks of src.       *)
(*                                                                         *)
(* Each block becomes a vector with all bits set in the lanes that hold a  *)
(* continuation byte (AND 0xC0, compare with 0x80).  The ports count those *)
(* lanes in different ways.                                                *)
(***************************************************************************)
EXTENDS Utf8

CONSTANTS W, Sources
ASSUME WAssumption == W \in 2..256 /\ W % 2 = 0
ASSUME SourcesAssumption == Sources \subseteq Seq(Byte)

VARIABLES
  port, src, n,   \* which kernel, and its arguments
  si,             \* bytes the source pointer has moved
  cx,             \* iterations left
  acc,            \* the 64-bit accumulator
  pc, ret

vars == << port, src, n, si, cx, acc, pc, ret >>

Ports == {"SSE", "AVX2", "NEON", "VSX", "VX"}

Marked(k, from, to) == {i \in from..(to - 1) : IsCont(At(src, k + i))}

\* What one block adds.  SSE and AVX2 count the mask bits (PMOVMSKB, POPCNTL);
\* VX masks the lanes to 1 and sums them (VSUMB, VSUMQF).
MaskBits(k) == Cardinality(Marked(k, 0, W))
\* VSX masks the lanes to 1 and adds the population counts of two doublewords.
Doublewords(k) == Cardinality(Marked(k, 0, W \div 2)) + Cardinality(Marked(k, W \div 2, W))
\* NEON adds up the lanes themselves, 255 each, into a 16-bit lane (VUADDLV).
WideSumByte(k) == (255 * Cardinality(Marked(k, 0, W))) % 256     \* (VADDV)
WideSum(k) == (255 * Cardinality(Marked(k, 0, W))) % 65536

BlockCount(k) ==
  CASE port \in {"SSE", "AVX2", "VX"} -> MaskBits(k)
    [] port = "VSX"  -> Doublewords(k)
    [] port = "NEON" -> WideSum(k)

\* The caller passes at least one block; all loops but the NEON one decrement
\* before they test.
Init ==
  /\ port \in Ports
  /\ src \in Sources
  /\ n \in 1..Len(src) /\ n * W <= Len(src)
  /\ si = 0 /\ cx = n /\ acc = 0
  /\ pc = "loop" /\ ret = 0

MoreLate(left) == left + 1 # 0          \* (tested before the decrement)
More(left) == left # 0
Iterate ==
  /\ pc = "loop"
  /\ acc' = acc + BlockCount(si)
  /\ si' = si + W
  /\ cx' = cx - 1
  /\ pc' = IF More(cx') THEN "loop" ELSE "exit"
  /\ UNCHANGED << port, src, n, ret >>

\* NEON divides the sum of 255s by 255 (UDIV), once.
TotalRaw == acc                         \* (without the division)
Total == IF port = "NEON" THEN acc \div 255 ELSE acc
Return ==
  /\ pc = "exit"
  /\ ret' = Total
  /\ pc' = "done"
  /\ UNCHANGED << port, src, n, si, cx, acc >>

Next == Iterate \/ Return
Spec == Init /\ [][Next]_vars /\ WF_vars(Next)

-----------------------------------------------------------------------------
(* Properties                                                              *)

TypeOK ==
  /\ port \in Ports /\ src \in Seq(Byte)
  /\ n \in 1..Len(src) /\ n * W <= Len(src)
  /\ cx \in 0..n /\ si = (n - cx) * W
  /\ acc \in 0..(255 * n * W) /\ ret \in 0..(n * W)
  /\ pc \in {"loop", "exit", "done"}
  /\ pc = "loop" <=> cx > 0

\* The accumulator holds the continuation bytes consumed so far, each worth
\* 255 on NEON: the 16-bit lane the block is summed into never wraps.
AccExact ==
  acc = Cardinality(Conts(src, si)) * (IF port = "NEON" THEN 255 ELSE 1)

\* The declarations promise the number of continuation bytes in the first n
\* blocks (utf8_amd64.go:21-28, utf8_arm64.go:13-16), not of the others.
ContCount(s, k) == Cardinality(Conts(s, k * W))
Promise == INSTANCE KernelCall WITH
             Answers <- ContCount, pc <- IF pc = "done" THEN "done" ELSE "call"
KeepsPromise == Promise!Spec
=============================================================================
