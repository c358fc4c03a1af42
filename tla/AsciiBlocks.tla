----------------------------- MODULE AsciiBlocks ----------------------------
(***************************************************************************)
(* asciiBlocksSSE, asciiBlocksAVX2, asciiBlocks (NEON) and asciiBlocksVX:  *)
(* how many leading blocks of src, out of n, are pure ASCII.               *)
(*                                                                         *)
(* A fast loop ORs four blocks and tests the high bits once; the first     *)
(* group that has one, and the last n % 4 blocks, are gone over block by   *)
(* block.  The NEON load moves the pointer past the group before the test  *)
(* (VLD1.P 64), so that port takes it back on the way to the second loop.  *)
(***************************************************************************)
EXTENDS Utf8

CONSTANTS W, Sources
ASSUME WAssumption == W \in 2..65534 /\ W % 2 = 0    \* two halves, one 16-bit sum
ASSUME SourcesAssumption == Sources \subseteq Seq(Byte)

VARIABLES
  port, src, n,   \* which kernel, and its arguments
  si,             \* bytes the source pointer has moved
  count,          \* blocks found to be ASCII
  groups,         \* groups of four left in the fast loop
  left,           \* blocks left in the second loop
  pc, ret

vars == << port, src, n, si, count, groups, left, pc, ret >>

Ports == {"SSE", "AVX2", "NEON", "VX"}

\* The lanes that have a high bit after m blocks at byte k were ORed together.
HighLanes(k, m) ==
  {i \in 0..(W - 1) : \E j \in 0..(m - 1) : ~ IsAscii(At(src, k + j * W + i))}

\* The first doubleword of a register ORed with the second.  (The variant
\* forgets the second.)
FoldedFirst(lanes) == {i \in 0..(W \div 2 - 1) : i \in lanes}
Folded(lanes) == {i \in 0..(W \div 2 - 1) : i \in lanes \/ i + W \div 2 \in lanes}

\* How the ports ask for a high bit in a group: SSE and AVX2 gather them
\* (PMOVMSKB), NEON and VX fold the register and mask it with 0x80.  For a
\* single block NEON shifts the bits down and adds them up (VUADDLV).
GroupClear(k) ==
  IF port \in {"SSE", "AVX2"} THEN HighLanes(k, 4) = {} ELSE Folded(HighLanes(k, 4)) = {}
BlockClear(k) ==
  CASE port \in {"SSE", "AVX2"} -> HighLanes(k, 1) = {}
    [] port = "VX"              -> Folded(HighLanes(k, 1)) = {}
    [] port = "NEON"            -> Cardinality(HighLanes(k, 1)) % 65536 = 0

GroupsUp(m) == (m + 3) \div 4           \* (rounded up)
Groups(m) == m \div 4

Init ==
  /\ port \in Ports
  /\ src \in Sources
  /\ n \in 1..Len(src) /\ n * W <= Len(src)
  /\ si = 0 /\ count = 0 /\ left = 0 /\ ret = 0
  /\ groups = Groups(n)
  /\ pc = IF groups = 0 THEN "tail" ELSE "loop4"

\* Where a group with a high bit leads.  (The variant leaves the pointer
\* behind the group.)
AfterGroupTail == "tail"
AfterGroup == IF port = "NEON" THEN "back" ELSE "tail"

Group ==
  /\ pc = "loop4"
  /\ IF GroupClear(si)
     THEN /\ si' = si + 4 * W
          /\ count' = count + 4
          /\ groups' = groups - 1
          /\ pc' = IF groups' # 0 THEN "loop4" ELSE "tail"
     ELSE /\ si' = IF port = "NEON" THEN si + 4 * W ELSE si
          /\ pc' = AfterGroup
          /\ UNCHANGED << count, groups >>
  /\ UNCHANGED << port, src, n, left, ret >>

Back ==
  /\ pc = "back"
  /\ si' = si - 4 * W
  /\ pc' = "tail"
  /\ UNCHANGED << port, src, n, count, groups, left, ret >>

Remainder ==
  /\ pc = "tail"
  /\ left' = n - count
  /\ pc' = IF left' = 0 THEN "exit" ELSE "loop1"
  /\ UNCHANGED << port, src, n, si, count, groups, ret >>

One ==
  /\ pc = "loop1"
  /\ IF BlockClear(si)
     THEN /\ si' = si + W
          /\ count' = count + 1
          /\ left' = left - 1
          /\ pc' = IF left' # 0 THEN "loop1" ELSE "exit"
     ELSE pc' = "exit" /\ UNCHANGED << si, count, left >>
  /\ UNCHANGED << port, src, n, groups, ret >>

Return ==
  /\ pc = "exit"
  /\ ret' = count
  /\ pc' = "done"
  /\ UNCHANGED << port, src, n, si, count, groups, left >>

Next == Group \/ Back \/ Remainder \/ One \/ Return
Spec == Init /\ [][Next]_vars /\ WF_vars(Next)

-----------------------------------------------------------------------------
(* Properties                                                              *)

TypeOK ==
  /\ port \in Ports /\ src \in Seq(Byte)
  /\ n \in 1..Len(src) /\ n * W <= Len(src)
  /\ count \in 0..n /\ groups \in 0..n /\ left \in 0..n
  /\ si \in 0..Len(src)
  /\ pc \in {"loop4", "back", "tail", "loop1", "exit", "done"}
  /\ ret \in 0..n

\* The loads of both loops stay within the n blocks of the call, although the
\* fast loop counts groups, the second one blocks, and the pointer is moved
\* by both.
LoadsInBounds ==
  /\ pc = "loop4" => si + 4 * W <= n * W
  /\ pc = "loop1" => si + W <= n * W

\* Where a block or a group is about to be loaded, the blocks counted are the
\* blocks passed, and they are all ASCII.
CountedPrefix ==
  pc \in {"loop4", "tail", "loop1", "exit", "done"} =>
    si = count * W /\ AllAscii(src, si)

Leading(s, m) == LeadingAscii(s, m, W)
Promise == INSTANCE KernelCall WITH
             Answers <- Leading, pc <- IF pc = "done" THEN "done" ELSE "call"

\* The declarations promise the number of leading ASCII blocks
\* (utf8_amd64.go:30-37, utf8_arm64.go:19-26): not fewer, because a group that
\* fails may still begin with some.
KeepsPromise == Promise!Spec
=============================================================================
