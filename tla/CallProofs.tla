---------------------------- MODULE CallProofs ------------------------------
(***************************************************************************)
(* A call of the package, on whatever machine and with whatever block      *)
(* size, computes what the standard library does.                          *)
(*                                                                         *)
(* The first part is about Drivers: a kernel is a step that answers as its *)
(* declaration says.  The second is about WholeCall, with the kernels      *)
(* inside.  No load leaves the argument, every kernel is called as it has  *)
(* to be, and it answers what Drivers takes for its answer; so a call with *)
(* its kernels inside does what the first part says of one without.        *)
(***************************************************************************)
EXTENDS WholeCall, Lemmas

BigPC == {"prefix", "dispatch", "ascii", "validate", "count", "split", "scalar",
          "done", "sigill"}
Before == {"prefix", "dispatch", "ascii", "validate", "count"}
InKernels == {"ascii", "validate", "count", "split"}

\* The runes of p before byte k of the slice at work.
RunesBelow(k) == base + Cardinality(StartsBelow(q, k))

\* The shape of the state.
Shape ==
  /\ machine \in Machines /\ op \in SliceOps \cup StringOps /\ p \in Seq(Byte)
  /\ base \in 0..Len(p) /\ from \in 0..Len(q) /\ acc \in 0..Len(p)
  /\ width \in {0, B, 2 * B} /\ blocks \in 0..Len(p)
  /\ pc \in BigPC /\ result \in Nat

\* What was stripped off p is ASCII, and only runeCount goes on after it.
Stripped ==
  /\ AllAscii(p, base)
  /\ base # 0 => op = "runeCount"
  /\ op \in StringOps => pc \in {"scalar", "done"} /\ from = 0
  /\ pc = "prefix" => base = 0

\* What is counted before the last kernel has answered.
NotYetCut ==
  pc \in Before => from = 0 /\ acc = (IF op = "runeCount" THEN base ELSE 0)

\* A kernel is called with the block size chosen for the slice.
Chosen == pc \in InKernels => width = BlockWidth(Len(q)) /\ width # 0

\* What the validator has established.
Judged == pc \in {"count", "split"} => StructOK(q, end)

\* What is counted at the cut, and that it is a clean one.
Counted ==
  /\ op # "runeCount" => acc = 0
  /\ pc = "split" /\ op = "runeCount" => acc = RunesBelow(runeStart(q, end))
  /\ pc = "scalar" => CleanCut(q, from)
  /\ pc = "scalar" /\ op = "runeCount" => acc = RunesBelow(from)
  /\ pc = "count" => op = "runeCount"

Answered == pc = "done" => result = Answer(op, p)

\* The inductive invariant.
Inv == Shape /\ Stripped /\ NotYetCut /\ KernelBounds /\ Chosen /\ Judged /\ Counted /\ Answered

-----------------------------------------------------------------------------
(* The slice at work                                                       *)

\* The slice at work is the suffix behind a stripped ASCII prefix, hence behind a
\* cut.
LEMMA SliceFacts ==
  ASSUME Shape, Stripped
  PROVE  /\ p \in Seq(Byte) /\ Len(p) \in Nat /\ base \in Nat /\ base <= Len(p)
         /\ q \in Seq(Byte) /\ Len(q) \in Nat /\ Len(q) = Len(p) - base
         /\ Cut(p, base) /\ Cardinality(StartsBelow(p, base)) = base
         /\ \A i \in StartsBelow(p, base) : RuneOk(p, i)
         /\ base = 0 => q = p
<1>1. p \in Seq(Byte) /\ Len(p) \in Nat /\ base \in 0..Len(p) /\ base \in Nat /\ base <= Len(p)
  BY AtByte DEF Shape
<1>2. q \in Seq(Byte) /\ Len(q) = Len(p) - base
  BY <1>1, SuffixFacts DEF q
<1>3. Len(q) \in Nat
  BY <1>1, <1>2
<1>4. /\ Cut(p, base) /\ Cardinality(StartsBelow(p, base)) = base
      /\ \A i \in StartsBelow(p, base) : RuneOk(p, i)
  BY <1>1, AsciiStarts DEF Stripped
<1>5. base = 0 => q = p
  BY <1>1, SuffixZero DEF q
<1> QED
  BY <1>1, <1>2, <1>3, <1>4, <1>5

\* The blocks of a kernel call are bytes of the slice, four at least.
LEMMA EndFacts ==
  ASSUME Shape, Stripped, KernelBounds, Chosen, pc \in InKernels
  PROVE  /\ end \in 0..Len(q) /\ end \in Nat /\ end >= 4
         /\ blocks \in Nat /\ blocks >= 1 /\ width \in Nat /\ width >= 4
<1>1. /\ B \in Nat /\ B >= 4 /\ blocks \in Nat /\ width \in {B, 2 * B}
      /\ blocks >= 1 /\ end <= Len(q) /\ Len(q) \in Nat
  BY BAssumption, SliceFacts DEF Shape, KernelBounds, Chosen, InKernels
<1>2. width \in Nat /\ width >= 4
  BY <1>1
<1>3. 1 * width <= blocks * width /\ blocks * width \in Nat
  BY <1>1, <1>2, MulMono
<1> QED
  BY <1>1, <1>2, <1>3 DEF end

\* Behind blocks without a structural error, runeStart finds the last byte that
\* is no continuation byte: a lead that still waits is at most three bytes back.
LEMMA RuneStartLead ==
  ASSUME NEW s \in Seq(Byte), NEW e \in 0..Len(s), e >= 4, StructOK(s, e)
  PROVE  /\ runeStart(s, e) \in 0..(e - 1)
         /\ ~ IsCont(At(s, runeStart(s, e)))
         /\ \A j \in (runeStart(s, e) + 1)..(e - 1) : IsCont(At(s, j))
<1> DEFINE Stop(j) == /\ j <= e /\ \A d \in 1..j : IsCont(At(s, e - d))
                      /\ j = 3 \/ j = e \/ ~ IsCont(At(s, e - j - 1))
           k == Skipped(s, e)
<1>1. Len(s) \in Nat /\ e \in Nat /\ e <= Len(s)
  BY AtByte
<1>2. \E j \in 0..3 : Stop(j)
  <2>1. CASE ~ IsCont(At(s, e - 0 - 1))
    BY <1>1, <2>1
  <2>2. CASE IsCont(At(s, e - 1)) /\ ~ IsCont(At(s, e - 1 - 1))
    BY <1>1, <2>2
  <2>3. CASE IsCont(At(s, e - 1)) /\ IsCont(At(s, e - 2)) /\ ~ IsCont(At(s, e - 2 - 1))
    BY <1>1, <2>3
  <2>4. CASE IsCont(At(s, e - 1)) /\ IsCont(At(s, e - 2)) /\ IsCont(At(s, e - 3))
    BY <1>1, <2>4
  <2>5. e - 0 - 1 = e - 1 /\ e - 1 - 1 = e - 2 /\ e - 2 - 1 = e - 3
    BY <1>1
  <2> QED
    BY <2>1, <2>2, <2>3, <2>4, <2>5
<1>3. k \in 0..3 /\ Stop(k)
  BY <1>2, Zenon DEF Skipped
<1> HIDE DEF k
<1>4. runeStart(s, e) = (e - k) - 1 /\ (e - k) - 1 \in 0..(e - 1) /\ e - k - 1 = (e - k) - 1
  BY <1>1, <1>3 DEF runeStart, k
<1>5. ASSUME NEW j \in ((e - k) - 1 + 1)..(e - 1) PROVE IsCont(At(s, j))
  <2>1. e - j \in 1..k /\ e - (e - j) = j
    BY <1>1, <1>3
  <2> QED
    BY <1>3, <2>1
<1>6. ~ IsCont(At(s, (e - k) - 1))
  <2>1. CASE k # 3
    BY <1>1, <1>3, <1>4, <2>1
  <2>2. CASE k = 3
    <3>1. IsCont(At(s, e - 1)) /\ IsCont(At(s, e - 2)) /\ IsCont(At(s, e - 3))
      BY <1>3, <2>2
    <3>2. e - 1 \in 0..(e - 1)
      BY <1>1
    <3>3. PICK d \in 1..3 : SeqLen(At(s, (e - 1) - d)) > d
      BY <3>1, <3>2 DEF StructOK, ByteOk, Expected
    <3>4. \A i \in 1..4 : e - i \in Index(s) /\ At(s, e - i) \in Byte
      BY <1>1, AtByte DEF Index
    <3>5. ~ IsCont(At(s, (e - 1) - d))
      <4>1. (e - 1) - d = e - (d + 1) /\ d + 1 \in 1..4
        BY <1>1
      <4> QED
        BY <3>3, <3>4, <4>1, LeadLengths
    <3>6. (e - 1) - 1 = e - 2 /\ (e - 1) - 2 = e - 3 /\ (e - 1) - 3 = (e - 3) - 1
      BY <1>1
    <3> QED
      BY <2>2, <3>1, <3>5, <3>6
  <2> QED
    BY <2>1, <2>2
<1> QED
  BY <1>4, <1>5, <1>6

\* So runeStart cuts cleanly, and countValidPrefix counts what is before it.
LEMMA RuneStartCut ==
  ASSUME NEW s \in Seq(Byte), NEW e \in 0..Len(s), e >= 4, StructOK(s, e)
  PROVE  /\ runeStart(s, e) \in 0..Len(s)
         /\ CleanCut(s, runeStart(s, e))
         /\ Cardinality(StartsBelow(s, runeStart(s, e)))
              = (e - Cardinality(Conts(s, e))) - 1
<1>1. Len(s) \in Nat
  BY AtByte
<1> QED
  BY <1>1, RuneStartLead, LastLeadClean, LastLeadCount

\* A clean cut of the slice is a cut of p.
LEMMA CleanCutOfP ==
  ASSUME Shape, Stripped, NEW k, CleanCut(q, k)
  PROVE  /\ RunesBelow(k) = Cardinality(StartsBelow(p, base + k))
         /\ RunesBelow(k) \in 0..Len(p)
         /\ RuneCount(p) = RunesBelow(k) + RuneCount(Suffix(q, k))
         /\ Valid(p) <=> Valid(Suffix(q, k))
<1>1. /\ p \in Seq(Byte) /\ Len(p) \in Nat /\ base \in Nat /\ base <= Len(p)
      /\ q \in Seq(Byte) /\ Len(q) \in Nat /\ Len(q) = Len(p) - base
      /\ Cut(p, base) /\ Cardinality(StartsBelow(p, base)) = base
      /\ \A i \in StartsBelow(p, base) : RuneOk(p, i)
  BY SliceFacts
<1>2. k \in 0..Len(q) /\ Cut(q, k) /\ \A i \in StartsBelow(q, k) : RuneOk(q, i)
  BY DEF CleanCut, Cut
<1>3. RunesBelow(k) = Cardinality(StartsBelow(p, base + k))
  <2>1. k \in 0..Len(Suffix(p, base))
    BY <1>2 DEF q
  <2>2. Cardinality(StartsBelow(p, base + k))
          = Cardinality(StartsBelow(p, base)) + Cardinality(StartsBelow(Suffix(p, base), k))
    BY <1>1, <2>1, StartsSplit
  <2> QED
    BY <1>1, <2>2 DEF RunesBelow, q
<1>4. base + k \in 0..Len(p)
  BY <1>1, <1>2
<1>5. RunesBelow(k) \in 0..Len(p)
  <2>1. Cardinality(StartsBelow(p, base + k)) \in 0..(base + k)
    BY <1>1, <1>4, StartsBelowFinite
  <2> QED
    BY <1>1, <1>3, <1>4, <2>1
<1>6. RuneCount(p) = base + RuneCount(q)
  BY <1>1, RuneCountSplit DEF q
<1>7. RuneCount(q) = Cardinality(StartsBelow(q, k)) + RuneCount(Suffix(q, k))
  BY <1>1, <1>2, RuneCountSplit
<1>8. Cardinality(StartsBelow(q, k)) \in Nat /\ RuneCount(Suffix(q, k)) \in Nat
  <2>1. Cardinality(StartsBelow(q, k)) \in 0..k /\ k \in Nat
    BY <1>1, <1>2, StartsBelowFinite
  <2>2. Suffix(q, k) \in Seq(Byte)
    BY <1>1, <1>2, SuffixFacts
  <2>3. RuneCount(Suffix(q, k)) \in Nat
    BY <2>2, CountIsNat
  <2> QED
    BY <2>1, <2>3
<1>9. RuneCount(p) = RunesBelow(k) + RuneCount(Suffix(q, k))
  BY <1>1, <1>6, <1>7, <1>8 DEF RunesBelow
<1>10. Valid(p) <=> Valid(q)
  BY <1>1, ValidSplit DEF q
<1>11. Valid(q) <=> Valid(Suffix(q, k))
  BY <1>1, <1>2, ValidSplit
<1> QED
  BY <1>3, <1>5, <1>9, <1>10, <1>11
-----------------------------------------------------------------------------
(* One lemma per action                                                    *)

\* The invariant holds when the call begins.
LEMMA InitInv == Init => Inv
<1> SUFFICES ASSUME Init PROVE Inv
  OBVIOUS
<1>1. /\ p \in Seq(Byte) /\ Len(p) \in Nat /\ base = 0 /\ acc = 0 /\ from = 0
      /\ blocks = 0 /\ width = 0 /\ result = 0
      /\ machine \in Machines /\ op \in SliceOps \cup StringOps
      /\ pc \in {"scalar", "prefix", "dispatch"} /\ (op \in StringOps => pc = "scalar")
  <2>1. p \in Seq(Byte) /\ Len(p) \in Nat
    BY SourcesAssumption, AtByte DEF Init
  <2>2. pc \in {"scalar", "prefix", "dispatch"} /\ (op \in StringOps => pc = "scalar")
    BY DEF Init, SliceOps, StringOps
  <2> QED
    BY <2>1, <2>2 DEF Init
<1>2. q = p
  BY <1>1, SuffixZero DEF q
<1>3. Shape
  BY <1>1, <1>2 DEF Shape, BigPC
<1>4. Stripped
  BY <1>1 DEF Stripped, AllAscii
<1>5. CleanCut(q, 0) /\ RunesBelow(0) = 0
  BY <1>1, <1>2, CleanZero DEF RunesBelow
<1>6. NotYetCut /\ KernelBounds /\ Chosen /\ Judged /\ Answered
  BY <1>1 DEF NotYetCut, KernelBounds, Chosen, Judged, Answered, InKernels
<1>7. Counted
  BY <1>1, <1>5 DEF Counted
<1> QED
  BY <1>3, <1>4, <1>6, <1>7 DEF Inv

\* A trap changes nothing but where the call is.
LEMMA TrapInv == Inv /\ Trap => Inv'
<1> SUFFICES ASSUME Inv, Trap PROVE Inv'
  OBVIOUS
<1>1. /\ UNCHANGED << machine, op, p, base, width, blocks, acc, from, result >>
      /\ pc' = "sigill" /\ q' = q /\ end' = end /\ pc \in {"ascii", "validate", "count"}
  BY DEF Trap, q, end
<1>2. Shape'
  BY <1>1 DEF Inv, Shape, BigPC
<1>3. Stripped'
  BY <1>1 DEF Inv, Stripped, AllAscii
<1> QED
  BY <1>1, <1>2, <1>3
     DEF Inv, NotYetCut, KernelBounds, Chosen, Judged, Counted, Answered, InKernels, Before

\* ppc64le: the prefix is all of p, which answers the call, or it is stripped.
LEMMA AsciiPrefixInv == Inv /\ AsciiPrefix => Inv'
<1> SUFFICES ASSUME Inv, AsciiPrefix PROVE Inv'
  OBVIOUS
<1> DEFINE k == asciiPrefixLen(p)
<1>1. /\ p \in Seq(Byte) /\ Len(p) \in Nat /\ base = 0 /\ from = 0 /\ pc = "prefix"
      /\ acc = 0 /\ q = p /\ op \in SliceOps
      /\ UNCHANGED << machine, op, p, width, blocks, from >>
  BY SliceFacts DEF Inv, Shape, Stripped, NotYetCut, Before, AsciiPrefix, AsciiPrefixGives
<1>2. k \in 0..Len(p) /\ AllAscii(p, k)
  <2>1. k \in 0..Len(p) /\ AllAscii(p, k * 1)
    BY <1>1, LeadingAsciiExact DEF asciiPrefixLen
  <2>2. k * 1 = k
    BY <1>1, <2>1
  <2> QED
    BY <2>1, <2>2
<1> HIDE DEF k
<1>3. CASE k = Len(p)
  <2>1. /\ base' = 0 /\ acc' = 0 /\ pc' = "done" /\ q' = q
        /\ result' = IF op = "valid" THEN 1 ELSE Len(p)
    BY <1>1, <1>3 DEF AsciiPrefix, AsciiPrefixGives, Finish, k, q
  <2>2. Valid(p) /\ RuneCount(p) = Len(p)
    BY <1>1, <1>2, <1>3, AsciiValid
  <2>3. Answered'
    BY <1>1, <2>1, <2>2 DEF Answered, Answer, SliceOps
  <2>4. Shape'
    BY <1>1, <2>1 DEF Inv, Shape, BigPC
  <2>5. Stripped'
    BY <1>1, <2>1 DEF Inv, Stripped, AllAscii, SliceOps, StringOps
  <2> QED
    BY <1>1, <2>1, <2>3, <2>4, <2>5
       DEF Inv, NotYetCut, KernelBounds, Chosen, Judged, Counted, InKernels, Before
<1>4. CASE k # Len(p)
  <2>1. /\ base' = (IF op = "valid" THEN 0 ELSE k) /\ acc' = base'
        /\ pc' = "dispatch" /\ result' = result
    BY <1>1, <1>4 DEF AsciiPrefix, AsciiPrefixGives, k
  <2>2. op \in {"valid", "runeCount"} /\ base' \in 0..Len(p) /\ AllAscii(p, base')
    BY <1>1, <1>2, <2>1 DEF SliceOps, AllAscii
  <2>3. Stripped'
    BY <1>1, <2>1, <2>2 DEF Inv, Stripped, AllAscii, StringOps
  <2>4. 0 \in 0..Len(q')
    <3>1. Len(q') \in Nat
      BY <1>1, <2>2, SuffixFacts DEF q
    <3> QED
      BY <3>1
  <2>5. Shape'
    BY <1>1, <2>1, <2>2, <2>4 DEF Inv, Shape, BigPC
  <2> QED
    BY <1>1, <2>1, <2>2, <2>3, <2>5
       DEF Inv, NotYetCut, KernelBounds, Chosen, Judged, Counted, Answered, InKernels, Before
<1> QED
  BY <1>3, <1>4

\* The block size is one of the two the kernels have, and the slice has a block.
LEMMA WidthFits ==
  ASSUME NEW len \in Nat
  PROVE  /\ BlockWidth(len) \in {0, B, 2 * B}
         /\ BlockWidth(len) # 0 => len >= BlockWidth(len)
BY BAssumption DEF BlockWidth

\* The dispatch leaves the slice to the library, or chooses whole blocks of it.
LEMMA DispatchInv == Inv /\ Dispatch => Inv'
<1> SUFFICES ASSUME Inv, Dispatch PROVE Inv'
  OBVIOUS
<1> DEFINE w == BlockWidth(Len(q))
           m == Whole(Len(q), w)
<1>1. /\ UNCHANGED << machine, op, p, base, acc, from, result >> /\ q' = q
      /\ width' = w /\ blocks' = (IF w = 0 THEN 0 ELSE m)
      /\ pc' \in {"scalar", "validate", "ascii"}
      /\ pc' = "scalar" <=> w = 0
  BY DEF Dispatch, q
<1>2. /\ Len(q) \in Nat /\ Len(p) \in Nat /\ Len(q) <= Len(p) /\ pc = "dispatch" /\ from = 0
      /\ acc = (IF op = "runeCount" THEN base ELSE 0) /\ q \in Seq(Byte) /\ base \in Nat
  BY SliceFacts DEF Inv, NotYetCut, Before, Dispatch
<1>3. w \in {0, B, 2 * B} /\ (w # 0 => Len(q) >= w)
  BY <1>2, WidthFits
<1>4. BlockWidth(Len(q))' = w
  BY <1>1 DEF BlockWidth, hasAVX2, hasPOPCNT, hasVSX
<1> HIDE DEF w
<1>5. w # 0 => m \in 1..Len(q) /\ m * w <= Len(q)
  <2> SUFFICES ASSUME w # 0 PROVE m \in 1..Len(q) /\ m * w <= Len(q)
    OBVIOUS
  <2>1. w \in Nat /\ w >= 1
    BY <1>3, BAssumption
  <2> QED
    BY <1>2, <1>3, <2>1, WholeBlocks DEF Whole
<1> HIDE DEF m
<1>6. blocks' \in 0..Len(p) /\ width' \in {0, B, 2 * B}
  BY <1>1, <1>2, <1>3, <1>5
<1>7. Shape'
  BY <1>1, <1>6 DEF Inv, Shape, BigPC
<1>8. Stripped'
  BY <1>1, <1>2 DEF Inv, Stripped, AllAscii
<1>9. KernelBounds'
  BY <1>1, <1>2, <1>5 DEF KernelBounds, end
<1>10. Chosen'
  BY <1>1, <1>4 DEF Chosen, InKernels
<1>11. CleanCut(q, 0) /\ RunesBelow(0) = base
  BY <1>2, CleanZero DEF RunesBelow
<1>12. RunesBelow(0)' = RunesBelow(0)
  BY <1>1 DEF RunesBelow
<1>13. Counted'
  BY <1>1, <1>2, <1>11, <1>12 DEF Inv, Counted
<1> QED
  BY <1>1, <1>2, <1>7, <1>8, <1>9, <1>10, <1>13 DEF Inv, NotYetCut, Judged, Answered, Before
\* If all blocks are ASCII, their end is a clean cut and every byte is a rune.
LEMMA AsciiScanInv == Inv /\ AsciiScan => Inv'
<1> SUFFICES ASSUME Inv, AsciiScan PROVE Inv'
  OBVIOUS
<1> DEFINE k == LeadingAscii(q, blocks, width)
<1>1. /\ UNCHANGED << machine, op, p, base, width, blocks, result >> /\ q' = q /\ end' = end
      /\ pc = "ascii" /\ pc' = (IF k = blocks THEN "scalar" ELSE "validate")
      /\ from' = (IF k = blocks THEN end ELSE from)
      /\ acc' = (IF k = blocks THEN (IF op = "valid" THEN acc ELSE acc + end) ELSE acc)
  BY DEF AsciiScan, AsciiScanGives, q, end
<1>2. /\ end \in 0..Len(q) /\ end \in Nat /\ blocks \in Nat /\ width \in Nat
      /\ q \in Seq(Byte) /\ Len(q) \in Nat /\ op \in SliceOps /\ base \in Nat
      /\ acc = (IF op = "runeCount" THEN base ELSE 0) /\ from = 0
  <2>1. op \in SliceOps
    BY <1>1 DEF Inv, Shape, Stripped
  <2> QED
    BY <1>1, <2>1, SliceFacts, EndFacts DEF Inv, InKernels, NotYetCut, Before
<1>3. k = blocks => AllAscii(q, end)
  BY <1>2, LeadingAsciiExact DEF end
<1> HIDE DEF k
<1>4. CASE k = blocks
  <2>1. CleanCut(q, end) /\ Cardinality(StartsBelow(q, end)) = end
    BY <1>2, <1>3, <1>4, AsciiStarts DEF CleanCut
  <2>2. from' = end /\ acc' = (IF op = "runeCount" THEN base + end ELSE 0) /\ pc' = "scalar"
    BY <1>1, <1>2, <1>4 DEF SliceOps
  <2>3. RunesBelow(end) = base + end /\ RunesBelow(end) \in 0..Len(p)
    BY <2>1, CleanCutOfP DEF Inv, RunesBelow
  <2>4. Counted'
    <3>1. RunesBelow(from)' = RunesBelow(end) /\ CleanCut(q, from)'
      BY <1>1, <2>1, <2>2 DEF RunesBelow
    <3> QED
      BY <1>1, <2>2, <2>3, <3>1 DEF Counted
  <2>5. Shape'
    BY <1>1, <1>2, <2>2, <2>3 DEF Inv, Shape, BigPC
  <2>6. Stripped'
    BY <1>1, <1>2, <1>4 DEF Inv, Stripped, AllAscii, SliceOps, StringOps
  <2> QED
    BY <1>1, <2>2, <2>4, <2>5, <2>6
       DEF Inv, NotYetCut, KernelBounds, Chosen, Judged, Answered, InKernels, Before
<1>5. CASE k # blocks
  <2>1. from' = from /\ acc' = acc /\ pc' = "validate"
    BY <1>1, <1>5
  <2>2. BlockWidth(Len(q))' = BlockWidth(Len(q))
    BY <1>1 DEF BlockWidth, hasAVX2, hasPOPCNT, hasVSX
  <2>3. Shape'
    BY <1>1, <2>1 DEF Inv, Shape, BigPC
  <2>4. Stripped'
    BY <1>1, <1>2, <2>1 DEF Inv, Stripped, AllAscii, SliceOps, StringOps
  <2>5. Counted'
    BY <1>1, <2>1 DEF Inv, Counted
  <2> QED
    BY <1>1, <2>1, <2>2, <2>3, <2>4, <2>5
       DEF Inv, NotYetCut, KernelBounds, Chosen, Judged, Answered, InKernels, Before
<1> QED
  BY <1>4, <1>5

\* If the validator refuses the blocks, the slice is not valid; if it does not, the
\* blocks have no structural error.
LEMMA ValidateInv == Inv /\ Validate => Inv'
<1> SUFFICES ASSUME Inv, Validate PROVE Inv'
  OBVIOUS
<1>1. /\ UNCHANGED << machine, op, p, base, width, blocks, acc, from >> /\ q' = q /\ end' = end
      /\ pc = "validate" /\ op \in SliceOps /\ op \in {"valid", "runeCount"}
  BY DEF Validate, ValidateGives, q, end, Inv, Shape, Stripped, SliceOps
<1>2. /\ end \in 0..Len(q) /\ end \in Nat /\ end >= 4 /\ q \in Seq(Byte) /\ Len(q) \in Nat
      /\ p \in Seq(Byte) /\ Len(p) \in Nat
      /\ acc = (IF op = "runeCount" THEN base ELSE 0) /\ from = 0 /\ base \in Nat
      /\ base # 0 => op = "runeCount"
      /\ base = 0 => q = p
  BY <1>1, SliceFacts, EndFacts DEF Inv, InKernels, NotYetCut, Before, Stripped
<1>3. BlockWidth(Len(q))' = BlockWidth(Len(q))
  BY <1>1 DEF BlockWidth, hasAVX2, hasPOPCNT, hasVSX
<1>4. Stripped'
  <2>1. op \notin StringOps
    BY <1>1 DEF StringOps
  <2>2. pc' # "prefix"
    BY DEF Validate, ValidateGives, Finish, Refused
  <2> QED
    BY <1>1, <2>1, <2>2 DEF Inv, Stripped, AllAscii
<1>5. CASE StructOK(q, end)
  <2>1. pc' = (IF op = "valid" THEN "split" ELSE "count") /\ result' = result
    BY <1>5 DEF Validate, ValidateGives
  <2>2. Shape'
    BY <1>1, <2>1 DEF Inv, Shape, BigPC
  <2>3. Judged'
    BY <1>1, <1>5 DEF Judged, StructOK
  <2>4. Counted'
    BY <1>1, <2>1 DEF Inv, Counted
  <2> QED
    BY <1>1, <1>3, <1>4, <2>1, <2>2, <2>3, <2>4
       DEF Inv, NotYetCut, KernelBounds, Chosen, Answered, InKernels, Before
<1>6. CASE ~ StructOK(q, end) /\ op = "valid"
  <2>1. pc' = "done" /\ result' = 0
    BY <1>6 DEF Validate, ValidateGives, Finish
  <2>2. ~ Valid(q)
    BY <1>2, <1>6, ValidStruct DEF StructOK, Index
  <2>3. Answered'
    BY <1>1, <1>2, <1>6, <2>1, <2>2 DEF Answered, Answer
  <2>4. Shape'
    BY <1>1, <2>1 DEF Inv, Shape, BigPC
  <2> QED
    BY <1>1, <1>4, <2>1, <2>3, <2>4
       DEF Inv, NotYetCut, KernelBounds, Chosen, Judged, Counted, InKernels, Before
<1>7. CASE ~ StructOK(q, end) /\ op = "runeCount"
  <2>1. pc' = "scalar" /\ result' = result
    BY <1>1, <1>7 DEF Validate, ValidateGives, Refused
  <2>2. CleanCut(q, 0) /\ RunesBelow(0) = base
    BY <1>2, CleanZero DEF RunesBelow
  <2>3. RunesBelow(from)' = RunesBelow(0) /\ CleanCut(q, from)'
    BY <1>1, <1>2, <2>2 DEF RunesBelow
  <2>4. Counted'
    BY <1>1, <1>2, <1>7, <2>1, <2>2, <2>3 DEF Counted
  <2>5. Shape'
    BY <1>1, <2>1 DEF Inv, Shape, BigPC
  <2> QED
    BY <1>1, <1>4, <2>1, <2>4, <2>5
       DEF Inv, NotYetCut, KernelBounds, Chosen, Judged, Answered, InKernels, Before
<1> QED
  BY <1>1, <1>5, <1>6, <1>7

\* The arithmetic on the kernel's count gives the runes before the cut that
\* runeStart is going to make.
LEMMA CountInv == Inv /\ Count => Inv'
<1> SUFFICES ASSUME Inv, Count PROVE Inv'
  OBVIOUS
<1>1. /\ UNCHANGED << machine, op, p, base, width, blocks, from, result >> /\ q' = q /\ end' = end
      /\ pc = "count" /\ pc' = "split" /\ op = "runeCount"
      /\ acc' = acc + prefixRunes(Cardinality(Conts(q, end)))
  BY DEF Count, CountGives, q, end, Inv, Counted
<1>2. /\ end \in 0..Len(q) /\ end \in Nat /\ end >= 4 /\ q \in Seq(Byte) /\ Len(q) \in Nat
      /\ acc = base /\ StructOK(q, end)
  BY <1>1, SliceFacts, EndFacts DEF Inv, InKernels, NotYetCut, Before, Judged
<1>3. CleanCut(q, runeStart(q, end)) /\ acc' = RunesBelow(runeStart(q, end))
  BY <1>1, <1>2, RuneStartCut DEF RunesBelow, prefixRunes
<1>4. acc' \in 0..Len(p)
  BY <1>3, CleanCutOfP DEF Inv
<1>5. Shape'
  BY <1>1, <1>4 DEF Inv, Shape, BigPC
<1>6. Stripped' /\ BlockWidth(Len(q))' = BlockWidth(Len(q))
  BY <1>1 DEF Inv, Stripped, AllAscii, StringOps, BlockWidth, hasAVX2, hasPOPCNT, hasVSX
<1>7. RunesBelow(runeStart(q, end))' = RunesBelow(runeStart(q, end))
  BY <1>1 DEF RunesBelow
<1>8. Counted' /\ Judged'
  BY <1>1, <1>2, <1>3, <1>7 DEF Counted, Judged
<1> QED
  BY <1>1, <1>5, <1>6, <1>8
     DEF Inv, NotYetCut, KernelBounds, Chosen, Answered, InKernels, Before

\* The cut behind judged blocks is clean.
LEMMA SplitInv == Inv /\ Split => Inv'
<1> SUFFICES ASSUME Inv, Split PROVE Inv'
  OBVIOUS
<1>1. /\ UNCHANGED << machine, op, p, base, width, blocks, acc, result >> /\ q' = q
      /\ pc = "split" /\ pc' = "scalar" /\ from' = runeStart(q, end)
  BY DEF Split, q
<1>2. /\ end \in 0..Len(q) /\ end \in Nat /\ end >= 4 /\ q \in Seq(Byte) /\ Len(q) \in Nat
      /\ StructOK(q, end) /\ op \notin StringOps
  BY <1>1, SliceFacts, EndFacts DEF Inv, InKernels, Judged, Stripped
<1>3. CleanCut(q, from') /\ from' \in 0..Len(q)
  BY <1>1, <1>2, RuneStartCut
<1>4. Shape'
  BY <1>1, <1>3 DEF Inv, Shape, BigPC
<1>5. Stripped'
  BY <1>1, <1>2 DEF Inv, Stripped, AllAscii
<1>6. RunesBelow(from)' = RunesBelow(runeStart(q, end))
  BY <1>1 DEF RunesBelow
<1>7. CleanCut(q, from)'
  BY <1>1, <1>3
<1>8. Counted'
  BY <1>1, <1>6, <1>7 DEF Inv, Counted
<1> QED
  BY <1>1, <1>4, <1>5, <1>8
     DEF Inv, NotYetCut, KernelBounds, Chosen, Judged, Answered, InKernels, Before

\* The library's answer on what is left completes the answer on p.
LEMMA ScalarInv == Inv /\ Scalar => Inv'
<1> SUFFICES ASSUME Inv, Scalar PROVE Inv'
  OBVIOUS
<1>1. /\ UNCHANGED << machine, op, p, base, width, blocks, acc, from >> /\ q' = q
      /\ pc = "scalar" /\ pc' = "done" /\ result' = acc + Answer(op, Suffix(q, from))
  BY DEF Scalar, Finish, Left, q
<1>2. /\ CleanCut(q, from) /\ op \in SliceOps \cup StringOps /\ p \in Seq(Byte)
      /\ q \in Seq(Byte) /\ from \in 0..Len(q) /\ acc \in Nat
      /\ op # "runeCount" => acc = 0 /\ base = 0 /\ q = p
      /\ op \in StringOps => from = 0
      /\ op = "runeCount" => acc = RunesBelow(from)
  <2>1. acc \in Nat
    BY SliceFacts DEF Inv, Shape
  <2> QED
    BY <1>1, <2>1, SliceFacts DEF Inv, Shape, Stripped, Counted
<1>3. Suffix(q, from) \in Seq(Byte)
  BY <1>2, SuffixFacts
<1>4. result' = Answer(op, p)
  <2>1. CASE op \in {"valid", "validString"}
    BY <1>1, <1>2, <2>1, CleanCutOfP DEF Inv, Answer
  <2>2. CASE op = "runeCount"
    BY <1>1, <1>2, <2>2, CleanCutOfP DEF Inv, Answer
  <2>3. CASE op = "runeCountInString"
    <3>1. Suffix(q, from) = p
      BY <1>2, <2>3, SuffixZero DEF StringOps
    <3>2. RuneCount(p) \in Nat
      BY <1>2, CountIsNat
    <3> QED
      BY <1>1, <1>2, <2>3, <3>1, <3>2 DEF Answer
  <2> QED
    BY <1>2, <2>1, <2>2, <2>3 DEF SliceOps, StringOps
<1>5. result' \in Nat
  <2>1. RuneCount(p) \in Nat
    BY <1>2, CountIsNat, AtByte
  <2> QED
    BY <1>4, <2>1 DEF Answer
<1>6. Shape'
  BY <1>1, <1>5 DEF Inv, Shape, BigPC
<1>7. Stripped'
  BY <1>1 DEF Inv, Stripped, AllAscii
<1>8. Answered'
  BY <1>1, <1>4 DEF Answered
<1> QED
  BY <1>1, <1>6, <1>7, <1>8
     DEF Inv, NotYetCut, KernelBounds, Chosen, Judged, Counted, InKernels, Before

\* A stuttering step changes nothing.
LEMMA StutterInv == Inv /\ UNCHANGED vars => Inv'
<1> SUFFICES ASSUME Inv, UNCHANGED vars PROVE Inv'
  OBVIOUS
<1>1. /\ UNCHANGED << machine, op, p, base, width, blocks, acc, from, pc, result >>
      /\ q' = q /\ end' = end
  BY DEF vars, q, end
<1>2. RunesBelow(from)' = RunesBelow(from) /\ BlockWidth(Len(q))' = BlockWidth(Len(q))
      /\ RunesBelow(runeStart(q, end))' = RunesBelow(runeStart(q, end))
  BY <1>1 DEF RunesBelow, BlockWidth, hasAVX2, hasPOPCNT, hasVSX
<1>3. Shape' /\ Stripped' /\ NotYetCut' /\ KernelBounds' /\ Answered'
  BY <1>1 DEF Inv, Shape, Stripped, NotYetCut, KernelBounds, Answered
<1>4. Chosen' /\ Judged' /\ Counted'
  BY <1>1, <1>2 DEF Inv, Chosen, Judged, Counted
<1> QED
  BY <1>3, <1>4 DEF Inv

-----------------------------------------------------------------------------
(* Theorems                                                                *)

\* The invariant holds in every run, on every machine, with every block size from
\* four bytes on and every slice.
THEOREM DriversInvariance == Safety => []Inv
<1>1. Inv /\ [Next]_vars => Inv'
  BY TrapInv, AsciiPrefixInv, DispatchInv, AsciiScanInv, ValidateInv, CountInv, SplitInv,
     ScalarInv, StutterInv DEF Next
<1> QED
  BY InitInv, <1>1, PTL DEF Safety

\* The state keeps its shape; no index and no count leaves p.
THEOREM DriversTypeCorrect == Safety => []TypeOK
<1>1. Inv => TypeOK
  BY DEF Inv, Shape, Counted, TypeOK, BigPC
<1> QED
  BY DriversInvariance, <1>1, PTL

\* Every kernel is called with at least one block, and with blocks that are bytes
\* of the slice.
THEOREM KernelsStayInSlice == Safety => []KernelBounds
<1>1. Inv => KernelBounds
  BY DEF Inv
<1> QED
  BY DriversInvariance, <1>1, PTL

\* What valid and runeCount leave to the standard library begins at a rune, and
\* everything before is well formed.
THEOREM CutsAtRunes == Safety => []CutAtRune
<1>1. Inv => CutAtRune
  <2> SUFFICES ASSUME Inv, pc = "scalar"
               PROVE  /\ from = Len(q) \/ from \in Starts(q)
                      /\ \A i \in Starts(q) : i < from => RuneOk(q, i)
    BY DEF CutAtRune
  <2>1. Cut(q, from) /\ (\A i \in StartsBelow(q, from) : RuneOk(q, i)) /\ Len(q) \in Nat
    BY SliceFacts DEF Inv, Counted, CleanCut
  <2> QED
    BY <2>1 DEF Cut, Starts, StartsBelow, Index
<1> QED
  BY DriversInvariance, <1>1, PTL

\* runeCount has then counted the runes of p before the cut, no rune twice and
\* none too few.
THEOREM CountsOnce == Safety => []CountedOnce
<1>1. Inv => CountedOnce
  <2> SUFFICES ASSUME Inv, pc = "scalar", op = "runeCount"
               PROVE  acc = Cardinality({i \in Starts(p) : i < base + from})
    BY DEF CountedOnce
  <2>1. acc = Cardinality(StartsBelow(p, base + from))
    BY CleanCutOfP DEF Inv, Counted
  <2> QED
    BY <2>1 DEF StartsBelow
<1> QED
  BY DriversInvariance, <1>1, PTL

\* The instance of the documented interface speaks of the same functions.
LEMMA SameAnswer ==
  ASSUME NEW o, NEW s
  PROVE  API!Answer(o, s) = Answer(o, s)
<1>1. ASSUME NEW j PROVE API!SeqLen(At(s, j)) = SeqLen(At(s, j)) /\ API!At(s, j) = At(s, j)
  BY DEF API!SeqLen, SeqLen, API!At, At
<1>2. ASSUME NEW j PROVE API!RuneOk(s, j) <=> RuneOk(s, j)
  BY <1>1 DEF API!RuneOk, RuneOk, API!SecondBytes, SecondBytes, API!IsCont, IsCont, API!At, At,
              API!SeqLen, SeqLen
<1>3. ASSUME NEW j PROVE API!IsStart(s, j) <=> IsStart(s, j)
  BY <1>1, <1>2 DEF API!IsStart, IsStart
<1>4. API!Starts(s) = Starts(s)
  BY <1>3 DEF API!Starts, Starts, API!Index, Index
<1>5. (API!Valid(s) <=> Valid(s)) /\ API!RuneCount(s) = RuneCount(s)
  <2>1. API!Cardinality(Starts(s)) = Cardinality(Starts(s))
    BY DEF API!Cardinality, Cardinality
  <2> QED
    BY <1>2, <1>4, <2>1 DEF API!Valid, Valid, API!RuneCount, RuneCount
<1> QED
  BY <1>5 DEF API!Answer, Answer

\* Whatever machine a call runs on: if it returns, it returns what unicode/utf8
\* returns (utf8.go:6-7).
THEOREM ReturnsRight == Safety => RightIfReturned
<1>1. Init => API!Init
  <2> SUFFICES ASSUME Init PROVE API!Init
    OBVIOUS
  <2>1. p \in Seq(Byte) /\ op \in SliceOps \cup StringOps
    BY SourcesAssumption DEF Init
  <2>2. pc # "done"
    BY DEF Init
  <2> QED
    BY <2>1, <2>2 DEF API!Init, API!Byte, Byte, API!SliceOps, SliceOps, API!StringOps, StringOps
<1>2. Inv /\ Inv' /\ [Next]_vars => [API!Return]_(API!vars)
  <2> SUFFICES ASSUME Inv, Inv', [Next]_vars
               PROVE  API!Return \/ UNCHANGED API!vars
    OBVIOUS
  <2>1. UNCHANGED << op, p >> /\ (pc = "done" => UNCHANGED << pc, result >>)
    BY DEF Next, vars, Trap, AsciiPrefix, AsciiPrefixGives, Dispatch, AsciiScan, AsciiScanGives,
           Validate, ValidateGives, Count, CountGives, Split, Scalar
  <2>2. CASE pc # "done" /\ pc' = "done"
    <3>1. result' = Answer(op, p)
      BY <2>1, <2>2 DEF Inv, Answered
    <3> QED
      BY <2>1, <2>2, <3>1, SameAnswer DEF API!Return
  <2>3. CASE pc # "done" /\ pc' # "done"
    BY <2>1, <2>3 DEF API!vars
  <2>4. CASE pc = "done"
    BY <2>1, <2>4 DEF API!vars
  <2> QED
    BY <2>2, <2>3, <2>4
<1> QED
  BY DriversInvariance, <1>1, <1>2, PTL DEF Safety, RightIfReturned, API!Safety

\* The generations of processors: one that has AVX2 has POPCNT and what came
\* before it.
NestedFeatures ==
  \A m \in Machines :
    "AVX2" \in m.isa => {"SSSE3", "SSE41", "POPCNT"} \subseteq m.isa

\* What valid uses on amd64 without asking for it.
HasSSE41 ==
  \A m \in Machines : m.arch = "amd64" => {"SSSE3", "SSE41"} \subseteq m.isa

\* No kernel is called whose instructions the dispatch has not asked for, the
\* SSE validator aside.
LEMMA GatedKernels ==
  ASSUME NestedFeatures, Inv, pc \in {"ascii", "validate", "count"},
         pc = "validate" => machine.arch # "amd64" \/ {"SSSE3", "SSE41"} \subseteq machine.isa
  PROVE  Executable(pc)
<1>1. /\ machine \in Machines
      /\ width = BlockWidth(Len(q)) /\ width # 0 /\ (pc = "count" => op = "runeCount")
  BY DEF Inv, Shape, Chosen, Counted, InKernels
<1>2. "AVX2" \in machine.isa => "POPCNT" \in machine.isa
  BY <1>1 DEF NestedFeatures
<1>3. B \in Nat /\ B # 2 * B
  BY BAssumption
<1>4. CASE machine.arch = "amd64" /\ width = 2 * B
  <2>1. "AVX2" \in machine.isa
    BY <1>1, <1>3, <1>4 DEF BlockWidth, hasAVX2
  <2> QED
    BY <1>2, <1>4, <2>1 DEF Executable, Needs
<1>5. CASE machine.arch = "amd64" /\ width = B
  <2>1. op = "valid" \/ "POPCNT" \in machine.isa
    BY <1>1, <1>3, <1>5 DEF BlockWidth, hasPOPCNT
  <2> QED
    BY <1>1, <1>3, <1>5, <2>1 DEF Executable, Needs
<1>6. CASE machine.arch = "ppc64le"
  <2>1. "POWER9" \in machine.isa
    BY <1>1, <1>6 DEF BlockWidth, hasVSX
  <2> QED
    BY <1>6, <2>1 DEF Executable, Needs
<1>7. CASE machine.arch \notin {"amd64", "ppc64le"}
  BY <1>7 DEF Executable, Needs
<1>8. width \in {B, 2 * B}
  BY <1>1 DEF Inv, Shape
<1> QED
  BY <1>4, <1>5, <1>6, <1>7, <1>8

\* On processors with SSE4.1, wherever AVX2 implies the older extensions, no call
\* ends with an instruction the CPU lacks.
THEOREM NeverTraps == NestedFeatures /\ HasSSE41 /\ Safety => []NoIllegalInstruction
<1>1. Init => NoIllegalInstruction
  BY DEF Init, NoIllegalInstruction
<1>2. ASSUME NestedFeatures, HasSSE41, Inv, [Next]_vars, NoIllegalInstruction
      PROVE  NoIllegalInstruction'
  <2>1. ~ Trap
    <3> SUFFICES ASSUME Trap PROVE FALSE
      OBVIOUS
    <3>1. machine.arch # "amd64" \/ {"SSSE3", "SSE41"} \subseteq machine.isa
      BY <1>2 DEF Inv, Shape, HasSSE41
    <3> QED
      BY <1>2, <3>1, GatedKernels DEF Trap
  <2> QED
    BY <1>2, <2>1
       DEF NoIllegalInstruction, Next, vars, AsciiPrefix, AsciiPrefixGives, Dispatch,
           AsciiScan, AsciiScanGives, Validate, ValidateGives, Count, CountGives, Split, Scalar,
           Finish, Refused
<1> QED
  <2> SUFFICES ASSUME NestedFeatures, HasSSE41 PROVE Safety => []NoIllegalInstruction
    OBVIOUS
  <2>1. Inv /\ [Next]_vars /\ NoIllegalInstruction => NoIllegalInstruction'
    BY <1>2
  <2> QED
    BY DriversInvariance, <1>1, <2>1, PTL DEF Safety

-----------------------------------------------------------------------------
(* Processors without the extensions of the SSE validator                  *)

Ungated ==
  /\ machine.arch = "amd64" /\ ~ {"SSSE3", "SSE41"} \subseteq machine.isa
  /\ op = "valid" \/ (op = "runeCount" /\ hasPOPCNT)

BlocksAscii == AllAscii(p, (Len(p) \div B) * B)

TrapInvariant ==
  /\ base # 0 \/ pc = "prefix" => machine.arch = "ppc64le"
  /\ pc \in InKernels => blocks = Whole(Len(q), width)
  /\ Ungated => pc \notin {"count", "split"}
  /\ Ungated /\ pc = "validate" => ~ BlocksAscii
  /\ Ungated /\ pc \in {"scalar", "done"} => BlocksAscii
  /\ pc = "sigill" => Ungated /\ ~ BlocksAscii

\* On such a processor the blocks are B wide, and they are all of p that fits.
LEMMA UngatedWidth ==
  ASSUME NestedFeatures, Inv, TrapInvariant, Ungated
  PROVE  /\ q = p /\ base = 0
         /\ BlockWidth(Len(q)) = (IF Len(p) >= B THEN B ELSE 0)
         /\ pc \in InKernels => width = B /\ end = (Len(p) \div B) * B
<1>1. base = 0 /\ q = p
  BY SliceFacts DEF Inv, TrapInvariant, Ungated
<1>2. ~ hasAVX2
  BY DEF Inv, Shape, NestedFeatures, Ungated, hasAVX2
<1>3. BlockWidth(Len(q)) = (IF Len(p) >= B THEN B ELSE 0)
  BY <1>1, <1>2 DEF BlockWidth, Ungated
<1>4. ASSUME pc \in InKernels PROVE width = B /\ end = (Len(p) \div B) * B
  <2>1. width = B
    BY <1>3, <1>4 DEF Inv, Chosen
  <2> QED
    BY <1>1, <1>4, <2>1 DEF TrapInvariant, Whole, end
<1> QED
  BY <1>1, <1>3, <1>4

\* A trap is the SSE validator on such a processor.
LEMMA TrapIsUngated ==
  ASSUME NestedFeatures, Inv, Trap
  PROVE  pc = "validate" /\ Ungated
<1>1. pc = "validate" /\ machine.arch = "amd64" /\ ~ {"SSSE3", "SSE41"} \subseteq machine.isa
  BY GatedKernels DEF Trap
<1>2. ~ hasAVX2
  BY <1>1 DEF Inv, Shape, NestedFeatures, hasAVX2
<1>3. BlockWidth(Len(q)) # 0
  BY <1>1 DEF Inv, Chosen, InKernels
<1>4. op = "valid" \/ hasPOPCNT
  BY <1>1, <1>2, <1>3 DEF BlockWidth
<1>5. op \in {"valid", "runeCount"}
  BY <1>1 DEF Inv, Shape, Stripped, SliceOps
<1> QED
  BY <1>1, <1>4, <1>5 DEF Ungated

\* Every step keeps the account of the traps.
LEMMA TrapInvariantKept ==
  ASSUME NestedFeatures, Inv, Inv', TrapInvariant, [Next]_vars
  PROVE  TrapInvariant'
<1>1. /\ UNCHANGED << machine, op, p >> /\ (Ungated' <=> Ungated) /\ (BlocksAscii' <=> BlocksAscii)
  <2>1. UNCHANGED << machine, op, p >>
    BY DEF Next, vars, Trap, AsciiPrefix, AsciiPrefixGives, Dispatch, AsciiScan, AsciiScanGives,
           Validate, ValidateGives, Count, CountGives, Split, Scalar
  <2> QED
    BY <2>1 DEF Ungated, BlocksAscii, AllAscii, hasPOPCNT
<1> DEFINE Kernels == pc' \in InKernels => blocks' = Whole(Len(q'), width')
<1>2. CASE Trap
  <2>1. base' = base /\ pc' = "sigill" /\ Ungated /\ ~ BlocksAscii
    BY <1>2, TrapIsUngated DEF Trap, TrapInvariant
  <2> QED
    BY <1>1, <2>1 DEF TrapInvariant, InKernels
<1>3. CASE AsciiPrefix
  <2>1. machine.arch = "ppc64le" /\ pc' \in {"done", "dispatch"}
    BY <1>3 DEF TrapInvariant, AsciiPrefix, AsciiPrefixGives, Finish
  <2>2. ~ Ungated
    BY <2>1 DEF Ungated
  <2> QED
    BY <1>1, <2>1, <2>2 DEF TrapInvariant, InKernels
<1>4. CASE Dispatch
  <2>1. /\ base' = base /\ q' = q /\ width' = BlockWidth(Len(q))
        /\ pc' = "scalar" <=> width' = 0
        /\ pc' \in {"scalar", "validate", "ascii"}
        /\ pc' = "validate" => machine.arch = "ppc64le"
        /\ width' # 0 => blocks' = Whole(Len(q), width')
    BY <1>4 DEF Dispatch, q
  <2>2. ASSUME Ungated, pc' = "scalar" PROVE BlocksAscii
    <3>1. Len(p) \in Nat /\ B \in Nat /\ B >= 4 /\ Len(p) < B
      BY <2>1, <2>2, UngatedWidth, SliceFacts, BAssumption DEF Inv
    <3>2. (Len(p) \div B) * B = 0
      <4>1. /\ Len(p) \div B \in 0..Len(p) /\ (Len(p) \div B) * B \in 0..Len(p)
        BY <3>1, WholeBlocks
      <4>2. ~ (Len(p) \div B >= 1)
        BY <3>1, <4>1, MulMono
      <4> QED
        BY <3>1, <4>1, <4>2
    <3> QED
      BY <3>2 DEF BlocksAscii, AllAscii
  <2>3. pc' = "validate" => ~ Ungated
    BY <2>1 DEF Ungated
  <2>4. base # 0 => machine.arch = "ppc64le"
    BY DEF TrapInvariant
  <2>5. Kernels
    BY <2>1 DEF InKernels
  <2>6. pc' \notin {"prefix", "count", "split", "done", "sigill"}
    BY <2>1
  <2> QED
    BY <1>1, <2>1, <2>2, <2>3, <2>4, <2>5, <2>6 DEF TrapInvariant
<1>5. CASE AsciiScan
  <2>1. /\ base' = base /\ q' = q /\ width' = width /\ blocks' = blocks
        /\ pc = "ascii"
        /\ pc' = IF LeadingAscii(q, blocks, width) = blocks THEN "scalar" ELSE "validate"
    BY <1>5 DEF AsciiScan, AsciiScanGives, q
  <2>2. /\ blocks \in Nat /\ width \in Nat
    BY <2>1, EndFacts DEF Inv, InKernels
  <2>3. LeadingAscii(q, blocks, width) = blocks <=> AllAscii(q, end)
    <3> DEFINE k == LeadingAscii(q, blocks, width)
    <3>1. k \in 0..blocks /\ AllAscii(q, k * width)
          /\ (k < blocks => ~ AllAscii(q, (k + 1) * width))
      BY <2>2, LeadingAsciiExact
    <3> HIDE DEF k
    <3>2. ASSUME k # blocks PROVE ~ AllAscii(q, blocks * width)
      <4>1. k + 1 \in Nat /\ k + 1 <= blocks /\ k < blocks
        BY <2>2, <3>1, <3>2
      <4>2. (k + 1) * width \in Nat /\ blocks * width \in Nat /\ (k + 1) * width <= blocks * width
        BY <2>2, <4>1, MulMono
      <4>3. 0..((k + 1) * width - 1) \subseteq 0..(blocks * width - 1)
        BY <4>2
      <4> QED
        BY <3>1, <4>1, <4>3 DEF AllAscii
    <3> QED
      BY <3>1, <3>2 DEF end, k
  <2>4. Ungated => (BlocksAscii <=> AllAscii(q, end))
    BY <2>1, UngatedWidth DEF BlocksAscii, InKernels
  <2>5. pc' \in {"scalar", "validate"} /\ (pc' = "scalar" <=> AllAscii(q, end))
    BY <2>1, <2>3
  <2>6. base # 0 => machine.arch = "ppc64le"
    BY DEF TrapInvariant
  <2>7. Kernels
    BY <2>1 DEF TrapInvariant, InKernels
  <2> QED
    BY <1>1, <2>1, <2>4, <2>5, <2>6, <2>7 DEF TrapInvariant
<1>6. CASE Validate
  <2>1. /\ base' = base /\ q' = q /\ width' = width /\ blocks' = blocks
        /\ pc = "validate" /\ pc' \in {"split", "count", "done", "scalar"} /\ Executable("validate")
    BY <1>6 DEF Validate, ValidateGives, q, Finish, Refused
  <2>2. ~ Ungated
    <3> SUFFICES ASSUME Ungated PROVE FALSE
      OBVIOUS
    <3>1. width = B /\ B # 2 * B
      BY <2>1, UngatedWidth, BAssumption DEF InKernels
    <3> QED
      BY <2>1, <3>1 DEF Ungated, Executable, Needs
  <2>3. Kernels
    BY <2>1 DEF TrapInvariant, InKernels
  <2> QED
    BY <1>1, <2>1, <2>2, <2>3 DEF TrapInvariant
<1>7. CASE Count \/ Split \/ Scalar
  <2>1. /\ base' = base /\ q' = q /\ width' = width /\ blocks' = blocks
        /\ pc \in {"count", "split", "scalar"} /\ pc' \in {"split", "scalar", "done"}
        /\ pc' = "split" => pc = "count"
        /\ Ungated => pc = "scalar"
        /\ pc = "scalar" => pc' = "done"
    BY <1>7 DEF Count, CountGives, Split, Scalar, q, Finish, TrapInvariant
  <2>2. Kernels
    BY <2>1 DEF TrapInvariant, InKernels
  <2> QED
    BY <1>1, <2>1, <2>2 DEF TrapInvariant
<1>8. CASE UNCHANGED vars
  <2>1. q' = q /\ base' = base /\ width' = width /\ blocks' = blocks /\ pc' = pc
    BY <1>8 DEF vars, q
  <2> QED
    BY <1>1, <2>1 DEF TrapInvariant
<1> QED
  BY <1>2, <1>3, <1>4, <1>5, <1>6, <1>7, <1>8 DEF Next

\* Where AVX2 implies the older extensions, the calls that trap are exactly those
\* the property names: on amd64 without SSSE3 or SSE4.1, a byte in the blocks
\* that is not ASCII, and Valid, or RuneCount with POPCNT.
THEOREM TrapsExactlyThere == NestedFeatures /\ Safety => []TrapsWhereUngated
<1> SUFFICES ASSUME NestedFeatures PROVE Safety => []TrapsWhereUngated
  OBVIOUS
<1>1. Init => TrapInvariant
  <2> SUFFICES ASSUME Init PROVE TrapInvariant
    OBVIOUS
  <2>1. /\ base = 0 /\ pc \in {"scalar", "prefix", "dispatch"}
        /\ pc = "prefix" => machine.arch = "ppc64le"
        /\ pc = "scalar" => op \in StringOps
    BY DEF Init, SliceOps, StringOps
  <2>2. pc = "scalar" => ~ Ungated
    BY <2>1 DEF Ungated, StringOps
  <2> QED
    BY <2>1, <2>2 DEF TrapInvariant, InKernels
<1>2. Inv /\ Inv' /\ TrapInvariant /\ [Next]_vars => TrapInvariant'
  BY TrapInvariantKept
<1>3. TrapInvariant => TrapsWhereUngated
  <2> SUFFICES ASSUME TrapInvariant, pc \in {"done", "sigill"}
               PROVE  pc = "sigill" <=> Ungated /\ ~ BlocksAscii
    BY DEF TrapsWhereUngated, Ungated, BlocksAscii
  <2> QED
    BY DEF TrapInvariant
<1> QED
  BY DriversInvariance, <1>1, <1>2, <1>3, PTL DEF Safety
-----------------------------------------------------------------------------
(***************************************************************************)
(* The kernels inside.                                                     *)
(*                                                                         *)
(* A step of a kernel is first reduced to what it does to the registers,   *)
(* the pointer and the counters (ValidStep, AsciiStep, CountStep), with    *)
(* the block size as a parameter, so that the two instances of each kernel *)
(* are one case.                                                           *)
(***************************************************************************)

-----------------------------------------------------------------------------
(* The kernels' steps, as far as the pointer and the counters go           *)

\* The loop of the validator and of the count.
LoopStep(w) ==
  /\ UNCHANGED << port, src, n >>
  /\ \/ /\ kpc = "loop"
        /\ si' = si + w /\ cx' = cx - 1
        /\ kpc' = (IF cx' # 0 THEN "loop" ELSE "exit")
        /\ kret' = kret
     \/ /\ kpc = "exit" /\ kpc' = "done"
        /\ UNCHANGED << si, cx >>

\* The validator loads a block and judges it.
Judging(w) == Block(w, port, Load(w, src, si), prev)
ValidStep(w) ==
  /\ LoopStep(w)
  /\ kpc = "loop" => prev' = Judging(w).regs /\ err' = err \cup Judging(w).bad
  /\ kpc = "exit" => UNCHANGED << prev, err >> /\ kret' = IF err = {} THEN 1 ELSE 0

\* What a port adds to the count for one continuation byte.
Weight == IF port = "NEON" THEN 255 ELSE 1

CountStep(w) ==
  /\ LoopStep(w)
  /\ kpc = "loop" => sum' = sum + Cardinality(ContsIn(src, si, 0, w)) * Weight
  /\ kpc = "exit" => sum' = sum /\ kret' = IF port = "NEON" THEN sum \div 255 ELSE sum

\* The two loops of the ASCII scan, which pass what is ASCII.
GroupStep(w) ==
  /\ kpc = "loop4" /\ AsciiFrom(src, si, 4 * w)
  /\ si' = si + 4 * w /\ count' = count + 4 /\ groups' = groups - 1
  /\ kpc' = (IF groups' # 0 THEN "loop4" ELSE "tail")
  /\ UNCHANGED << left, kret >>
GroupStop(w) ==
  /\ kpc = "loop4"
  /\ \/ kpc' = "back" /\ si' = si + 4 * w
     \/ kpc' = "tail" /\ si' = si
  /\ UNCHANGED << count, groups, left, kret >>
BackStep(w) ==
  /\ kpc = "back" /\ kpc' = "tail" /\ si' = si - 4 * w
  /\ UNCHANGED << count, groups, left, kret >>
RestStep ==
  /\ kpc = "tail" /\ left' = n - count
  /\ kpc' = (IF left' = 0 THEN "exit" ELSE "loop1")
  /\ UNCHANGED << si, count, groups, kret >>
OneStep(w) ==
  /\ kpc = "loop1" /\ AsciiFrom(src, si, 1 * w)
  /\ si' = si + w /\ count' = count + 1 /\ left' = left - 1
  /\ kpc' = (IF left' # 0 THEN "loop1" ELSE "exit")
  /\ UNCHANGED << groups, kret >>
OneStop(w) ==
  /\ kpc = "loop1" /\ kpc' = "exit" /\ ~ AsciiFrom(src, si, 1 * w)
  /\ UNCHANGED << si, count, groups, left, kret >>
ScanReturn ==
  /\ kpc = "exit" /\ kpc' = "done" /\ kret' = count
  /\ UNCHANGED << si, count, groups, left >>

AsciiStep(w) ==
  /\ UNCHANGED << port, src, n >>
  /\ \/ GroupStep(w) \/ GroupStop(w) \/ BackStep(w)
     \/ RestStep \/ OneStep(w) \/ OneStop(w) \/ ScanReturn

\* The two instances of the validator have the block function of Kernels: their
\* definitions are the same, to the last operator.
LEMMA SameNarrow ==
  /\ \A w, port_, raw, regs : NarrowValid!Block(w, port_, raw, regs) = Block(w, port_, raw, regs)
  /\ \A w, s, k : NarrowValid!Load(w, s, k) = Load(w, s, k)
<1>1. \A port_ : NarrowValid!Code(port_) = Code(port_)
  BY DEF NarrowValid!Code, Code, NarrowValid!SSE, SSE, NarrowValid!AVX2, AVX2,
         NarrowValid!NEON, NEON, NarrowValid!VSX, VSX, NarrowValid!VX, VX,
         NarrowValid!Table, Table, NarrowValid!Twice, Twice, NarrowValid!contLen, contLen,
         NarrowValid!initMins, initMins, NarrowValid!secMins, secMins,
         NarrowValid!contLenB, contLenB, NarrowValid!initMinsB, initMinsB,
         NarrowValid!secMinsB, secMinsB, NarrowValid!contLenN, contLenN,
         NarrowValid!initMinsN, initMinsN, NarrowValid!secMinsN, secMinsN,
         NarrowValid!contLen_p, contLen_p, NarrowValid!initMins_p, initMins_p,
         NarrowValid!secMins_p, secMins_p, NarrowValid!contLen_z, contLen_z,
         NarrowValid!initMins_z, initMins_z, NarrowValid!secMins_z, secMins_z
<1>2. ASSUME NEW w, NEW isa, NEW raw, NEW regs, NEW x,
             x = NarrowValid!ValidateBlock(w, isa, raw, regs)
      PROVE  x = ValidateBlock(w, isa, raw, regs)
  BY <1>2, Zenon DEF NarrowValid!ValidateBlock, ValidateBlock, NarrowValid!High, High,
         NarrowValid!HighByWord, HighByWord, NarrowValid!HighByByte, HighByByte,
         NarrowValid!Look, Look, NarrowValid!Lookup, Lookup, NarrowValid!LookupHalves,
         LookupHalves, NarrowValid!Shift, Shift, NarrowValid!ShiftIn, ShiftIn,
         NarrowValid!ShiftInHalves, ShiftInHalves, NarrowValid!Sub, Sub,
         NarrowValid!SubSat, SubSat, NarrowValid!SubMin, SubMin, NarrowValid!Least, Least,
         NarrowValid!AddB, AddB, NarrowValid!Lane, Lane, NarrowValid!Half, Half,
         NarrowValid!Signed, Signed, NarrowValid!GtS, GtS
<1>3. \A w, s, k : NarrowValid!Load(w, s, k) = Load(w, s, k)
  BY DEF NarrowValid!Load, Load, NarrowValid!Lane, Lane, NarrowValid!At, At
<1> QED
  BY <1>1, <1>2, <1>3 DEF NarrowValid!Block, Block
\* Likewise the instance with registers of twice the width.
LEMMA SameWide ==
  /\ \A w, port_, raw, regs : WideValid!Block(w, port_, raw, regs) = Block(w, port_, raw, regs)
  /\ \A w, s, k : WideValid!Load(w, s, k) = Load(w, s, k)
<1>1. \A port_ : WideValid!Code(port_) = Code(port_)
  BY DEF WideValid!Code, Code, WideValid!SSE, SSE, WideValid!AVX2, AVX2, WideValid!NEON,
         NEON, WideValid!VSX, VSX, WideValid!VX, VX, WideValid!Table, Table,
         WideValid!Twice, Twice, WideValid!contLen, contLen, WideValid!initMins, initMins,
         WideValid!secMins, secMins, WideValid!contLenB, contLenB, WideValid!initMinsB,
         initMinsB, WideValid!secMinsB, secMinsB, WideValid!contLenN, contLenN,
         WideValid!initMinsN, initMinsN, WideValid!secMinsN, secMinsN,
         WideValid!contLen_p, contLen_p, WideValid!initMins_p, initMins_p,
         WideValid!secMins_p, secMins_p, WideValid!contLen_z, contLen_z,
         WideValid!initMins_z, initMins_z, WideValid!secMins_z, secMins_z
<1>2. ASSUME NEW w, NEW isa, NEW raw, NEW regs, NEW x,
             x = WideValid!ValidateBlock(w, isa, raw, regs)
      PROVE  x = ValidateBlock(w, isa, raw, regs)
  BY <1>2, Zenon DEF WideValid!ValidateBlock, ValidateBlock, WideValid!High, High,
         WideValid!HighByWord, HighByWord, WideValid!HighByByte, HighByByte,
         WideValid!Look, Look, WideValid!Lookup, Lookup, WideValid!LookupHalves,
         LookupHalves, WideValid!Shift, Shift, WideValid!ShiftIn, ShiftIn,
         WideValid!ShiftInHalves, ShiftInHalves, WideValid!Sub, Sub, WideValid!SubSat,
         SubSat, WideValid!SubMin, SubMin, WideValid!Least, Least, WideValid!AddB, AddB,
         WideValid!Lane, Lane, WideValid!Half, Half, WideValid!Signed, Signed,
         WideValid!GtS, GtS
<1>3. \A w, s, k : WideValid!Load(w, s, k) = Load(w, s, k)
  BY DEF WideValid!Load, Load, WideValid!Lane, Lane, WideValid!At, At
<1> QED
  BY <1>1, <1>2, <1>3 DEF WideValid!Block, Block

\* An iteration of the validator, of either block size, is a step of the loop that
\* judges a block; the result is 1 if no block was refused.
LEMMA ValidSteps ==
  /\ NarrowValid!Next => ValidStep(B)
  /\ WideValid!Next => ValidStep(2 * B)
<1>1. NarrowValid!Next => ValidStep(B)
  <2>1. NarrowValid!This = Judging(B)
    BY SameNarrow DEF NarrowValid!This, Judging
  <2>2. ASSUME NarrowValid!Iterate PROVE ValidStep(B)
    <3>1. /\ kpc = "loop" /\ LoopStep(B)
          /\ prev' = Judging(B).regs /\ err' = err \cup Judging(B).bad
      BY <2>1, <2>2 DEF NarrowValid!Iterate, NarrowValid!Continue, LoopStep
    <3> QED
      BY <3>1 DEF ValidStep
  <2>3. ASSUME NarrowValid!Return PROVE ValidStep(B)
    BY <2>3 DEF NarrowValid!Return, ValidStep, LoopStep
  <2> QED
    BY <2>2, <2>3 DEF NarrowValid!Next
<1>2. WideValid!Next => ValidStep(2 * B)
  <2>1. WideValid!This = Judging(2 * B)
    BY SameWide DEF WideValid!This, Judging
  <2>2. ASSUME WideValid!Iterate PROVE ValidStep(2 * B)
    <3>1. /\ kpc = "loop" /\ LoopStep(2 * B)
          /\ prev' = Judging(2 * B).regs /\ err' = err \cup Judging(2 * B).bad
      BY <2>1, <2>2 DEF WideValid!Iterate, WideValid!Continue, LoopStep
    <3> QED
      BY <3>1 DEF ValidStep
  <2>3. ASSUME WideValid!Return PROVE ValidStep(2 * B)
    BY <2>3 DEF WideValid!Return, ValidStep, LoopStep
  <2> QED
    BY <2>2, <2>3 DEF WideValid!Next
<1> QED
  BY <1>1, <1>2

\* A block marks lanes of the register.
LEMMA BadLanes == \A w : Judging(w).bad \subseteq 0..(w - 1)
BY DEF Judging, Block, ValidateBlock, Lane

PortNames == {"SSE", "AVX2", "NEON", "VSX", "VX"}

\* Sizes of registers.
LEMMA RegisterSizes ==
  /\ B \in Nat /\ B >= 2 /\ B \div 2 \in Nat /\ B \div 2 <= B /\ 2 * (B \div 2) = B /\ B <= 256
  /\ 2 * B \in Nat /\ 2 * B >= 2 /\ (2 * B) \div 2 \in Nat /\ (2 * B) \div 2 <= 2 * B
  /\ 2 * ((2 * B) \div 2) = 2 * B /\ 2 * B <= 256
BY BAssumption, HalvesAssumption

\* Folded or not, a register has a high bit exactly if one of the bytes loaded is
\* not ASCII.
LEMMA LaneTests ==
  ASSUME NEW s, NEW k \in Nat, NEW m \in {1, 4}, NEW w \in Nat, w >= 2,
         NEW h \in Nat, 2 * h = w
  PROVE  /\ HighIn(s, k, m, w) = {} <=> AsciiFrom(s, k, m * w)
         /\ FoldIn(HighIn(s, k, m, w), h) = {} <=> AsciiFrom(s, k, m * w)
<1> DEFINE lanes == HighIn(s, k, m, w)
<1>1. lanes = {} <=> AsciiFrom(s, k, m * w)
  BY LanesClear
<1>2. lanes \subseteq 0..(2 * h - 1)
  BY DEF HighIn
<1> HIDE DEF lanes
<1>3. FoldIn(lanes, h) = {} <=> lanes = {}
  BY <1>2, FoldedClear
<1> QED
  BY <1>1, <1>3 DEF lanes

\* Or the lanes are added up, in 16 bits.
Word16(x) == x % 65536

\* The sum is zero exactly if no byte is beyond ASCII.
LEMMA LaneSum ==
  ASSUME NEW s, NEW k \in Nat, NEW w \in Nat, w >= 2, w <= 256
  PROVE  Word16(Cardinality(HighIn(s, k, 1, w))) = 0 <=> AsciiFrom(s, k, 1 * w)
<1> DEFINE lanes == HighIn(s, k, 1, w)
           c == Cardinality(lanes)
<1>1. lanes = {} <=> AsciiFrom(s, k, 1 * w)
  BY LanesClear
<1>2. lanes \subseteq 0..(w - 1)
  BY DEF HighIn
<1> HIDE DEF lanes
<1>3. c \in 0..w /\ (c = 0 <=> lanes = {})
  BY <1>2, LanesNumber
<1> HIDE DEF c
<1>4. \A x \in 0..256 : Word16(x) = x
  BY DEF Word16
<1>5. Word16(c) = c
  BY <1>3, <1>4
<1>6. Word16(c) = 0 <=> lanes = {}
  BY <1>3, <1>5, Zenon
<1> QED
  BY <1>1, <1>6, Zenon DEF lanes, c

\* The steps of the ASCII scan, of either block size.
LEMMA AsciiSteps ==
  ASSUME si \in Nat, port \in PortNames \ {"VSX"}
  PROVE  /\ NarrowAscii!Next => AsciiStep(B)
         /\ WideAscii!Next => AsciiStep(2 * B)
<1>1. NarrowAscii!Next => AsciiStep(B)
  <2> DEFINE w == B
             h == B \div 2
  <2>1. w \in Nat /\ w >= 2 /\ w <= 256 /\ h \in Nat /\ 2 * h = w
    BY RegisterSizes
  <2>2. /\ \A m : NarrowAscii!HighLanes(si, m) = HighIn(src, si, m, w)
        /\ \A lanes : NarrowAscii!Folded(lanes) = FoldIn(lanes, h)
        /\ \A S : NarrowAscii!Cardinality(S) = Cardinality(S)
    BY DEF NarrowAscii!HighLanes, HighIn, NarrowAscii!IsAscii, IsAscii, NarrowAscii!At, At,
           NarrowAscii!Folded, FoldIn, NarrowAscii!Cardinality, Cardinality
  <2> HIDE DEF w, h
  <2>3. ASSUME NEW m \in {1, 4}
        PROVE  /\ NarrowAscii!HighLanes(si, m) = {} <=> AsciiFrom(src, si, m * w)
               /\ NarrowAscii!Folded(NarrowAscii!HighLanes(si, m)) = {}
                     <=> AsciiFrom(src, si, m * w)
    <3>1. /\ HighIn(src, si, m, w) = {} <=> AsciiFrom(src, si, m * w)
          /\ FoldIn(HighIn(src, si, m, w), h) = {} <=> AsciiFrom(src, si, m * w)
      BY <2>1, LaneTests, Zenon
    <3> QED
      BY <2>2, <3>1, Zenon
  <2>4. NarrowAscii!GroupClear(si) <=> AsciiFrom(src, si, 4 * w)
    BY <2>3 DEF NarrowAscii!GroupClear
  <2>5. NarrowAscii!BlockClear(si) <=> AsciiFrom(src, si, 1 * w)
    <3>1. CASE port = "SSE"
      BY <2>3, <3>1 DEF NarrowAscii!BlockClear
    <3>2. CASE port = "AVX2"
      BY <2>3, <3>2 DEF NarrowAscii!BlockClear
    <3>3. CASE port = "VX"
      BY <2>3, <3>3 DEF NarrowAscii!BlockClear
    <3>4. CASE port = "NEON"
      <4>1. NarrowAscii!BlockClear(si)
              <=> Word16(NarrowAscii!Cardinality(NarrowAscii!HighLanes(si, 1))) = 0
        BY <3>4 DEF NarrowAscii!BlockClear, Word16
      <4>2. Word16(Cardinality(HighIn(src, si, 1, w))) = 0 <=> AsciiFrom(src, si, 1 * w)
        BY <2>1, LaneSum
      <4> QED
        BY <2>2, <4>1, <4>2, Zenon
    <3> QED
      BY <3>1, <3>2, <3>3, <3>4 DEF PortNames
  <2> QED
    BY <2>4, <2>5
       DEF NarrowAscii!Next, NarrowAscii!Group, NarrowAscii!Back, NarrowAscii!Remainder, NarrowAscii!One,
           NarrowAscii!Return, NarrowAscii!AfterGroup, AsciiStep, GroupStep, GroupStop, BackStep,
           RestStep, OneStep, OneStop, ScanReturn, w
<1>2. WideAscii!Next => AsciiStep(2 * B)
  <2> DEFINE w == 2 * B
             h == (2 * B) \div 2
  <2>1. w \in Nat /\ w >= 2 /\ w <= 256 /\ h \in Nat /\ 2 * h = w
    BY RegisterSizes
  <2>2. /\ \A m : WideAscii!HighLanes(si, m) = HighIn(src, si, m, w)
        /\ \A lanes : WideAscii!Folded(lanes) = FoldIn(lanes, h)
        /\ \A S : WideAscii!Cardinality(S) = Cardinality(S)
    BY DEF WideAscii!HighLanes, HighIn, WideAscii!IsAscii, IsAscii, WideAscii!At, At,
           WideAscii!Folded, FoldIn, WideAscii!Cardinality, Cardinality
  <2> HIDE DEF w, h
  <2>3. ASSUME NEW m \in {1, 4}
        PROVE  /\ WideAscii!HighLanes(si, m) = {} <=> AsciiFrom(src, si, m * w)
               /\ WideAscii!Folded(WideAscii!HighLanes(si, m)) = {} <=> AsciiFrom(src, si, m * w)
    <3>1. /\ HighIn(src, si, m, w) = {} <=> AsciiFrom(src, si, m * w)
          /\ FoldIn(HighIn(src, si, m, w), h) = {} <=> AsciiFrom(src, si, m * w)
      BY <2>1, LaneTests, Zenon
    <3> QED
      BY <2>2, <3>1, Zenon
  <2>4. WideAscii!GroupClear(si) <=> AsciiFrom(src, si, 4 * w)
    BY <2>3 DEF WideAscii!GroupClear
  <2>5. WideAscii!BlockClear(si) <=> AsciiFrom(src, si, 1 * w)
    <3>1. CASE port = "SSE"
      BY <2>3, <3>1 DEF WideAscii!BlockClear
    <3>2. CASE port = "AVX2"
      BY <2>3, <3>2 DEF WideAscii!BlockClear
    <3>3. CASE port = "VX"
      BY <2>3, <3>3 DEF WideAscii!BlockClear
    <3>4. CASE port = "NEON"
      <4>1. WideAscii!BlockClear(si)
              <=> Word16(WideAscii!Cardinality(WideAscii!HighLanes(si, 1))) = 0
        BY <3>4 DEF WideAscii!BlockClear, Word16
      <4>2. Word16(Cardinality(HighIn(src, si, 1, w))) = 0 <=> AsciiFrom(src, si, 1 * w)
        BY <2>1, LaneSum
      <4> QED
        BY <2>2, <4>1, <4>2, Zenon
    <3> QED
      BY <3>1, <3>2, <3>3, <3>4 DEF PortNames
  <2> QED
    BY <2>4, <2>5
       DEF WideAscii!Next, WideAscii!Group, WideAscii!Back, WideAscii!Remainder, WideAscii!One,
           WideAscii!Return, WideAscii!AfterGroup, AsciiStep, GroupStep, GroupStop, BackStep,
           RestStep, OneStep, OneStop, ScanReturn, w
<1> QED
  BY <1>1, <1>2

\* However a port counts the marked lanes of a register, it adds their number, or
\* 255 times that.
LEMMA LaneCounts ==
  ASSUME NEW s, NEW k, NEW w \in Nat, w <= 256, NEW h \in Nat, h <= w
  PROVE  LET c == Cardinality(ContsIn(s, k, 0, w))
         IN  /\ c \in Nat
             /\ Cardinality(ContsIn(s, k, 0, h)) + Cardinality(ContsIn(s, k, h, w)) = c
             /\ (255 * c) % 65536 = c * 255
<1>1. Cardinality(ContsIn(s, k, 0, w)) \in Nat
  <2>1. Cardinality(ContsIn(s, k, 0, w)) \in 0..w
    BY ContsInFinite
  <2> QED
    BY <2>1
<1> QED
  BY <1>1, ContsInHalves, WeighedFits

\* The steps of the count, of either block size.
LEMMA CountSteps ==
  ASSUME port \in PortNames
  PROVE  /\ NarrowCount!Next => CountStep(B)
         /\ WideCount!Next => CountStep(2 * B)
<1>1. NarrowCount!Next => CountStep(B)
  <2> SUFFICES ASSUME NarrowCount!Next PROVE CountStep(B)
    OBVIOUS
  <2> DEFINE c == Cardinality(ContsIn(src, si, 0, B))
  <2>1. /\ c \in Nat /\ (255 * c) % 65536 = c * 255
        /\ Cardinality(ContsIn(src, si, 0, B \div 2)) + Cardinality(ContsIn(src, si, B \div 2, B)) = c
    BY RegisterSizes, LaneCounts
  <2>2. /\ \A a, b : NarrowCount!Marked(si, a, b) = ContsIn(src, si, a, b)
        /\ \A S : NarrowCount!Cardinality(S) = Cardinality(S)
    BY DEF NarrowCount!Marked, ContsIn, NarrowCount!IsCont, IsCont, NarrowCount!At, At,
           NarrowCount!Cardinality, Cardinality
  <2>3. NarrowCount!MaskBits(si) = c /\ NarrowCount!Doublewords(si) = c
        /\ NarrowCount!WideSum(si) = c * 255
    BY <2>1, <2>2 DEF NarrowCount!MaskBits, NarrowCount!Doublewords, NarrowCount!WideSum
  <2> HIDE DEF c
  <2>4. c * 1 = c
    BY <2>1
  <2>5. NarrowCount!BlockCount(si) = c * Weight
    BY <2>3, <2>4 DEF NarrowCount!BlockCount, Weight, PortNames
  <2>6. CASE NarrowCount!Iterate
    BY <2>5, <2>6 DEF NarrowCount!Iterate, NarrowCount!More, CountStep, LoopStep, c
  <2>7. CASE NarrowCount!Return
    BY <2>7 DEF NarrowCount!Return, NarrowCount!Total, CountStep, LoopStep
  <2> QED
    BY <2>6, <2>7 DEF NarrowCount!Next
<1>2. WideCount!Next => CountStep(2 * B)
  <2> SUFFICES ASSUME WideCount!Next PROVE CountStep(2 * B)
    OBVIOUS
  <2> DEFINE c == Cardinality(ContsIn(src, si, 0, 2 * B))
             h == (2 * B) \div 2
  <2>1. /\ c \in Nat /\ (255 * c) % 65536 = c * 255
        /\ Cardinality(ContsIn(src, si, 0, h)) + Cardinality(ContsIn(src, si, h, 2 * B)) = c
    BY RegisterSizes, LaneCounts
  <2>2. /\ \A a, b : WideCount!Marked(si, a, b) = ContsIn(src, si, a, b)
        /\ \A S : WideCount!Cardinality(S) = Cardinality(S)
    BY DEF WideCount!Marked, ContsIn, WideCount!IsCont, IsCont, WideCount!At, At,
           WideCount!Cardinality, Cardinality
  <2>3. WideCount!MaskBits(si) = c /\ WideCount!Doublewords(si) = c
        /\ WideCount!WideSum(si) = c * 255
    BY <2>1, <2>2 DEF WideCount!MaskBits, WideCount!Doublewords, WideCount!WideSum
  <2> HIDE DEF c
  <2>4. c * 1 = c
    BY <2>1
  <2>5. WideCount!BlockCount(si) = c * Weight
    BY <2>3, <2>4 DEF WideCount!BlockCount, Weight, PortNames
  <2>6. CASE WideCount!Iterate
    BY <2>5, <2>6 DEF WideCount!Iterate, WideCount!More, CountStep, LoopStep, c
  <2>7. CASE WideCount!Return
    BY <2>7 DEF WideCount!Return, WideCount!Total, CountStep, LoopStep
  <2> QED
    BY <2>6, <2>7 DEF WideCount!Next
<1> QED
  BY <1>1, <1>2

\* The three loops of asciiPrefixLen take ASCII bytes off what is left, and the last
\* one ends where there is none.
Stuck == Len(rest) > 0 => ~ IsAscii(At(rest, 0))
PrefixStep ==
  /\ src' = src
  /\ \/ /\ kpc \in {"quads", "words", "bytes"} /\ kret' = kret
        /\ \/ /\ \E size \in 1..Len(rest) : AllAscii(rest, size) /\ rest' = Suffix(rest, size)
              /\ kpc' = kpc
           \/ rest' = rest /\ kpc' \in {"words", "bytes"}
           \/ rest' = rest /\ kpc' = "exit" /\ Stuck
     \/ /\ kpc = "exit" /\ kpc' = "done"
        /\ rest' = rest
        /\ kret' = Len(src) - Len(rest)

\* Each of its steps is such a step.
LEMMA PrefixSteps ==
  ASSUME rest \in Seq(Byte), Prefix!Next
  PROVE  PrefixStep
<1>1. Len(rest) \in Nat /\ B \div 2 \in Nat /\ B \div 2 >= 1
  BY AtByte, BAssumption
<1>2. ASSUME NEW here \in {"quads", "words", "bytes"}, NEW size \in Nat \ {0},
             NEW next \in {"words", "bytes", "exit"}, next = "exit" => size = 1,
             Prefix!Scan(here, size, next)
      PROVE  PrefixStep
  <2>1. Prefix!Suffix(rest, size) = Suffix(rest, size)
    BY DEF Prefix!Suffix, Suffix
  <2>2. Prefix!AllAscii(rest, size) <=> AllAscii(rest, size)
    BY DEF Prefix!AllAscii, AllAscii, Prefix!IsAscii, IsAscii, Prefix!At, At
  <2>3. CASE Len(rest) >= size /\ AllAscii(rest, size)
    <3>1. size \in 1..Len(rest)
      BY <1>1, <2>3
    <3> QED
      BY <1>2, <2>1, <2>2, <2>3, <3>1 DEF Prefix!Scan, PrefixStep
  <2>4. CASE ~ (Len(rest) >= size /\ AllAscii(rest, size))
    <3>1. /\ src' = src /\ rest' = rest /\ kret' = kret /\ kpc = here /\ kpc' = next
      BY <1>2, <2>2, <2>4 DEF Prefix!Scan
    <3>2. next = "exit" => Stuck
      BY <1>1, <1>2, <2>4 DEF Stuck, AllAscii
    <3> QED
      BY <3>1, <3>2 DEF PrefixStep
  <2> QED
    BY <2>3, <2>4
<1>3. CASE Prefix!Quads
  <2>1. 4 * (B \div 2) \in Nat \ {0}
    BY <1>1
  <2> QED
    BY <1>2, <1>3, <2>1 DEF Prefix!Quads
<1>4. CASE Prefix!Words
  BY <1>1, <1>2, <1>4 DEF Prefix!Words
<1>5. CASE Prefix!Bytes
  BY <1>2, <1>5 DEF Prefix!Bytes
<1>6. CASE Prefix!Return
  BY <1>6 DEF Prefix!Return, Prefix!Taken, PrefixStep
<1> QED
  BY <1>3, <1>4, <1>5, <1>6 DEF Prefix!Next

-----------------------------------------------------------------------------
(* The invariant                                                           *)

KernelPC == {"prefix", "ascii", "validate", "count"}

\* What the driver has decided, whatever the kernels answered.
Control ==
  /\ machine \in Machines /\ op \in SliceOps \cup StringOps /\ p \in Seq(Byte)
  /\ base \in 0..Len(p) /\ width \in {0, B, 2 * B} /\ blocks \in Nat
  /\ pc \in BigPC
  /\ pc = "prefix" => base = 0
  /\ pc \in InKernels =>
       /\ width # 0 /\ width = BlockWidth(Len(q))
       /\ machine.arch \in {"amd64", "arm64", "s390x", "ppc64le"}
  /\ pc = "ascii" => machine.arch # "ppc64le"
  /\ KernelBounds

\* The pointer stays inside p, in and between the kernels.
Frame ==
  /\ kpc # "idle" => pc \in KernelPC
  /\ si \in Nat /\ base + si <= Len(p)
  /\ pc \in {"prefix", "dispatch"} => si = 0 /\ err = {}
  /\ rest \in Seq(Byte) /\ err \subseteq 0..(width - 1) /\ kret \in Nat /\ sum \in Nat

\* asciiPrefixLen takes bytes off p.
PrefixFrame ==
  kpc # "idle" /\ pc = "prefix" =>
    /\ src = p /\ Len(rest) <= Len(p)
    /\ kpc \in {"quads", "words", "bytes", "exit", "done"}
    /\ kpc = "done" => kret \in 0..Len(p)

\* The other kernels run on the driver's slice,
SliceFrame ==
  kpc # "idle" /\ pc # "prefix" => src = q /\ n = blocks /\ port = Kernel

\* the validator and the count with a countdown of blocks,
LoopFrame ==
  kpc # "idle" /\ pc \in {"validate", "count"} =>
    /\ kpc \in {"loop", "exit", "done"}
    /\ cx \in 0..n /\ si = (n - cx) * width
    /\ kpc = "loop" <=> cx > 0

\* and the ASCII scan with its groups, then its blocks.
ScanFrame ==
  kpc # "idle" /\ pc = "ascii" =>
    /\ kpc \in {"loop4", "back", "tail", "loop1", "exit", "done"}
    /\ count \in 0..n
    /\ kpc # "back" => si = count * width
    /\ kpc = "back" => si = (count + 4) * width /\ count + 4 <= n
    /\ kpc = "loop4" => groups \in Nat /\ groups >= 1 /\ count + 4 * groups <= n
    /\ kpc = "loop1" => left >= 1 /\ left = n - count

WholeInv == Control /\ Frame /\ PrefixFrame /\ SliceFrame /\ LoopFrame /\ ScanFrame

\* The slice, and the blocks of it the kernels are asked about.
LEMMA SliceSizes ==
  ASSUME Control
  PROVE  /\ Len(p) \in Nat /\ base \in Nat /\ base <= Len(p) /\ width \in Nat /\ blocks \in Nat
         /\ q \in Seq(Byte) /\ Len(q) \in Nat /\ Len(q) = Len(p) - base
         /\ pc \in InKernels => width >= 4 /\ blocks >= 1 /\ blocks * width \in Nat
                                /\ blocks * width <= Len(q) /\ blocks <= Len(q)
<1>1. /\ Len(p) \in Nat /\ base \in 0..Len(p) /\ p \in Seq(Byte) /\ B \in Nat /\ B >= 4
      /\ width \in {0, B, 2 * B} /\ blocks \in Nat
  BY AtByte, BAssumption DEF Control
<1>2. q \in Seq(Byte) /\ Len(q) = Len(p) - base
  BY <1>1, SuffixFacts DEF q
<1>3. width \in Nat /\ base \in Nat /\ base <= Len(p) /\ Len(q) \in Nat
  BY <1>1, <1>2
<1>4. ASSUME pc \in InKernels
      PROVE  /\ width >= 4 /\ blocks >= 1 /\ blocks * width \in Nat
             /\ blocks * width <= Len(q) /\ blocks <= Len(q)
  <2>1. width >= 4 /\ blocks >= 1 /\ blocks * width <= Len(q)
    BY <1>1, <1>4 DEF Control, KernelBounds, InKernels, end
  <2>2. width * blocks = blocks * width /\ 1 * blocks = blocks
    BY <1>1, <1>3
  <2>3. 1 * blocks <= width * blocks /\ width * blocks \in Nat
    BY <1>1, <1>3, <2>1, MulMono
  <2> QED
    BY <1>1, <1>3, <2>1, <2>2, <2>3
<1> QED
  BY <1>1, <1>2, <1>3, <1>4

\* No call has begun.
LEMMA WholeInitInv == WholeInit => WholeInv
<1> SUFFICES ASSUME WholeInit PROVE WholeInv
  OBVIOUS
<1>1. /\ p \in Seq(Byte) /\ Len(p) \in Nat /\ base = 0 /\ blocks = 0 /\ width = 0
      /\ machine \in Machines /\ op \in SliceOps \cup StringOps
      /\ pc \in {"scalar", "prefix", "dispatch"}
      /\ si = 0 /\ err = {} /\ rest = << >> /\ kret = 0 /\ sum = 0 /\ kpc = "idle"
  <2>1. p \in Seq(Byte) /\ Len(p) \in Nat
    BY SourcesAssumption, AtByte DEF WholeInit, Init
  <2> QED
    BY <2>1 DEF WholeInit, Init
<1>2. Control
  BY <1>1 DEF Control, BigPC, InKernels, KernelBounds
<1>3. Frame
  BY <1>1 DEF Frame
<1> QED
  BY <1>1, <1>2, <1>3 DEF WholeInv, PrefixFrame, SliceFrame, LoopFrame, ScanFrame

\* While the driver waits, the slice, the blocks and the kernel are the same.
LEMMA DriverKept ==
  ASSUME UNCHANGED driver
  PROVE  /\ UNCHANGED << machine, op, p, base, width, blocks, pc >>
         /\ q' = q /\ end' = end /\ Kernel' = Kernel
         /\ Control => Control'
<1>1. UNCHANGED << machine, op, p, base, width, blocks, pc >>
  BY DEF driver, vars
<1>2. q' = q /\ end' = end
  BY <1>1 DEF q, end
<1>3. Kernel' = Kernel
  BY <1>1, <1>2 DEF Kernel, hasAVX2
<1>4. BlockWidth(Len(q))' = BlockWidth(Len(q))
  BY <1>1, <1>2 DEF BlockWidth, hasAVX2, hasPOPCNT, hasVSX
<1> QED
  BY <1>1, <1>2, <1>3, <1>4 DEF Control, KernelBounds

\* A kernel begins at the start of its slice.
LEMMA CallKeeps == WholeInv /\ Call => WholeInv'
<1> SUFFICES ASSUME WholeInv, Call PROVE WholeInv'
  OBVIOUS
<1>1. /\ UNCHANGED << machine, op, p, base, width, blocks, pc >> /\ q' = q /\ Kernel' = Kernel
      /\ Control' /\ Control
  <2>1. UNCHANGED driver
    BY DEF Call, CallPrefix, CallAscii, CallValidate, CallCount, Calling
  <2> QED
    BY <2>1, DriverKept DEF WholeInv
<1>2. /\ Len(p) \in Nat /\ p \in Seq(Byte) /\ base \in Nat /\ base <= Len(p)
      /\ width \in Nat /\ blocks \in Nat
      /\ pc \in InKernels => width >= 4 /\ blocks >= 1
  BY <1>1, SliceSizes DEF Control
<1>3. /\ rest \in Seq(Byte) /\ err \subseteq 0..(width - 1) /\ sum \in Nat
      /\ pc \in {"prefix", "dispatch"} => err = {}
  BY DEF WholeInv, Frame
<1>4. CASE CallPrefix
  BY <1>1, <1>2, <1>3, <1>4
     DEF CallPrefix, Entered, WholeInv, Frame, PrefixFrame, SliceFrame, LoopFrame, ScanFrame, KernelPC
<1>5. CASE CallAscii
  <2>1. /\ pc = "ascii" /\ src' = q /\ n' = blocks /\ port' = Kernel /\ si' = 0 /\ kret' = 0
        /\ groups' = blocks \div 4 /\ count' = 0
        /\ kpc' = (IF groups' = 0 THEN "tail" ELSE "loop4")
        /\ UNCHANGED << err, sum, rest >>
    BY <1>5 DEF CallAscii, Calling, Entered, Argument, NarrowAscii!Groups
  <2>2. groups' \in Nat /\ 4 * groups' <= blocks /\ 0 * width = 0
    BY <1>2, <2>1
  <2>3. Frame'
    BY <1>1, <1>2, <1>3, <2>1 DEF Frame, KernelPC
  <2>4. ScanFrame'
    BY <1>1, <1>2, <2>1, <2>2 DEF ScanFrame
  <2> QED
    BY <1>1, <2>1, <2>3, <2>4 DEF WholeInv, PrefixFrame, SliceFrame, LoopFrame
<1>6. CASE CallValidate \/ CallCount
  <2>1. /\ pc \in {"validate", "count"} /\ src' = q /\ n' = blocks /\ port' = Kernel
        /\ si' = 0 /\ kret' = 0 /\ cx' = blocks /\ kpc' = "loop"
        /\ err' = err \/ err' = {}
        /\ sum' = sum \/ sum' = 0
        /\ rest' = rest
    BY <1>6 DEF CallValidate, CallCount, Calling, Entered, Argument
  <2>2. (blocks - blocks) * width = 0 /\ blocks > 0
    BY <1>2, <2>1 DEF InKernels
  <2>3. Frame'
    <3>1. err' \subseteq 0..(width - 1)
      BY <1>3, <2>1
    <3>2. sum' \in Nat
      BY <1>3, <2>1
    <3>3. si' \in Nat /\ base + si' <= Len(p) /\ pc \notin {"prefix", "dispatch"}
      BY <1>2, <2>1
    <3> QED
      BY <1>1, <1>3, <2>1, <3>1, <3>2, <3>3 DEF Frame, KernelPC
  <2>4. LoopFrame'
    BY <1>1, <1>2, <2>1, <2>2 DEF LoopFrame
  <2> QED
    BY <1>1, <2>1, <2>3, <2>4 DEF WholeInv, PrefixFrame, SliceFrame, ScanFrame
<1> QED
  BY <1>4, <1>5, <1>6 DEF Call

\* asciiPrefixLen reads no pointer; what is left gets shorter.
LEMMA RunPrefixKeeps == WholeInv /\ RunPrefix => WholeInv'
<1> SUFFICES ASSUME WholeInv, RunPrefix PROVE WholeInv'
  OBVIOUS
<1>1. /\ UNCHANGED << machine, op, p, base, width, blocks, pc >> /\ q' = q /\ Kernel' = Kernel
      /\ Control' /\ Control
  BY DriverKept DEF WholeInv, RunPrefix, Running
<1>2. /\ pc = "prefix" /\ kpc # "idle" /\ si = 0 /\ rest \in Seq(Byte) /\ src = p
      /\ Len(rest) <= Len(p) /\ UNCHANGED << si, err, sum >>
  BY DEF WholeInv, Frame, PrefixFrame, RunPrefix, Running
<1>3. PrefixStep
  BY <1>2, PrefixSteps DEF RunPrefix
<1>4. Len(p) \in Nat /\ Len(rest) \in Nat
  BY <1>1, <1>2, AtByte DEF Control
<1>5. rest' \in Seq(Byte) /\ Len(rest') <= Len(rest) /\ kret' \in Nat
      /\ (kpc' = "done" => kret' \in 0..Len(p))
  <2>1. ASSUME NEW size \in 1..Len(rest), rest' = Suffix(rest, size)
        PROVE  rest' \in Seq(Byte) /\ Len(rest') <= Len(rest)
    <3>1. size \in 0..Len(rest)
      BY <1>4, <2>1
    <3>2. rest' \in Seq(Byte) /\ Len(rest') = Len(rest) - size
      BY <1>2, <2>1, <3>1, SuffixFacts
    <3> QED
      BY <1>4, <2>1, <3>2
  <2>2. rest' \in Seq(Byte) /\ Len(rest') <= Len(rest)
    BY <1>2, <1>3, <1>4, <2>1 DEF PrefixStep
  <2>3. kret \in Nat
    BY DEF WholeInv, Frame
  <2>4. Len(src) - Len(rest) \in 0..Len(p)
    BY <1>2, <1>4
  <2> QED
    BY <1>3, <2>2, <2>3, <2>4 DEF PrefixStep
<1>6. Frame'
  BY <1>1, <1>2, <1>5 DEF WholeInv, Frame, KernelPC
<1>7. PrefixFrame'
  <2>1. Len(rest') \in Nat
    BY <1>5, AtByte
  <2> QED
    BY <1>1, <1>2, <1>3, <1>4, <1>5, <2>1 DEF PrefixFrame, PrefixStep
<1> QED
  BY <1>1, <1>2, <1>6, <1>7 DEF WholeInv, SliceFrame, LoopFrame, ScanFrame

\* The slice has n blocks, and the pointer has none behind it that is not among
\* them.
LEMMA RunSizes ==
  ASSUME WholeInv, kpc # "idle", pc \in {"ascii", "validate", "count"}
  PROVE  /\ n = blocks /\ n \in Nat /\ n >= 1 /\ width \in Nat /\ width >= 4
         /\ base \in Nat /\ Len(p) \in Nat
         /\ \A a \in Nat : /\ a * width \in Nat
                           /\ (a + 1) * width = a * width + width
                           /\ (a + 4) * width = a * width + 4 * width
                           /\ a <= n => base + a * width <= Len(p)
<1>1. /\ n = blocks /\ n \in Nat /\ n >= 1 /\ width \in Nat /\ width >= 4
      /\ base \in Nat /\ Len(p) \in Nat /\ Len(q) \in Nat /\ Len(q) = Len(p) - base
      /\ n * width <= Len(q) /\ n * width \in Nat
  BY SliceSizes DEF WholeInv, SliceFrame, InKernels
<1>2. ASSUME NEW a \in Nat
      PROVE  /\ a * width \in Nat
             /\ (a + 1) * width = a * width + width
             /\ (a + 4) * width = a * width + 4 * width
             /\ a <= n => base + a * width <= Len(p)
  <2>1. a * width \in Nat /\ (a + 1) * width = a * width + width
        /\ (a + 4) * width = a * width + 4 * width
    BY <1>1
  <2>2. a <= n => a * width <= n * width
    BY <1>1, MulMono
  <2> QED
    BY <1>1, <2>1, <2>2
<1> QED
  BY <1>1, <1>2

\* The width in use is one of the two the kernels are instances for, and that of the
\* kernel which the driver names.
LEMMA TwoWidths ==
  ASSUME WholeInv, pc \in InKernels
  PROVE  /\ width = B \/ (width # B /\ width = 2 * B)
         /\ BlockOf(Kernel) = width
         /\ kpc # "idle" => BlockOf(port) = width
<1>1. B # 2 * B /\ width = BlockWidth(Len(q)) /\ width \in {B, 2 * B}
  BY BAssumption DEF WholeInv, Control
<1>2. machine.arch \in {"amd64", "arm64", "s390x", "ppc64le"} /\ pc # "prefix"
  BY DEF WholeInv, Control, InKernels
<1>3. width = 2 * B <=> machine.arch = "amd64" /\ hasAVX2 /\ Len(q) >= 2 * B
  <2>1. CASE machine.arch = "amd64" /\ hasAVX2 /\ Len(q) >= 2 * B
    <3>1. BlockWidth(Len(q)) = 2 * B
      BY <2>1 DEF BlockWidth
    <3> QED
      BY <1>1, <2>1, <3>1
  <2>2. CASE ~ (machine.arch = "amd64" /\ hasAVX2 /\ Len(q) >= 2 * B)
    <3>1. BlockWidth(Len(q)) \in {0, B}
      BY <1>2, <2>2 DEF BlockWidth
    <3>2. 0 # 2 * B
      BY BAssumption
    <3> QED
      BY <1>1, <2>2, <3>1, <3>2
  <2> QED
    BY <2>1, <2>2
<1>4. Kernel = "AVX2" <=> machine.arch = "amd64" /\ hasAVX2 /\ Len(q) >= 2 * B
  BY <1>2 DEF Kernel
<1>5. BlockOf(Kernel) = width
  BY <1>1, <1>3, <1>4 DEF BlockOf
<1>6. kpc # "idle" => port = Kernel
  BY <1>2 DEF WholeInv, SliceFrame
<1> QED
  BY <1>1, <1>5, <1>6

\* A block passed is a block less to go.
LEMMA LoopKeeps ==
  ASSUME WholeInv, pc \in {"validate", "count"}, kpc \notin {"idle", "done"},
         UNCHANGED driver, LoopStep(width)
  PROVE  /\ si' \in Nat /\ base + si' <= Len(p)
         /\ LoopFrame' /\ SliceFrame' /\ kpc' # "idle"
<1>1. /\ UNCHANGED << machine, op, p, base, width, blocks, pc >> /\ q' = q /\ Kernel' = Kernel
  BY DriverKept
<1>2. /\ UNCHANGED << port, src, n >> /\ src = q /\ n = blocks /\ port = Kernel
      /\ kpc \in {"loop", "exit", "done"} /\ cx \in 0..n /\ si = (n - cx) * width
      /\ kpc = "loop" <=> cx > 0
  BY DEF LoopStep, WholeInv, SliceFrame, LoopFrame
<1>3. n \in Nat /\ width \in Nat /\ base \in Nat /\ cx \in Nat /\ cx <= n /\ n - cx \in Nat
      /\ Len(p) \in Nat
  <2>1. n \in Nat /\ width \in Nat /\ base \in Nat /\ Len(p) \in Nat
    BY RunSizes
  <2> QED
    BY <1>2, <2>1
<1>4. CASE kpc = "loop"
  <2>1. /\ si' = si + width /\ cx' = cx - 1 /\ kpc' = (IF cx' # 0 THEN "loop" ELSE "exit")
    BY <1>4 DEF LoopStep
  <2>2. cx' \in 0..n /\ n - cx' = (n - cx) + 1 /\ n - cx' \in Nat /\ n - cx' <= n
        /\ (kpc' = "loop" <=> cx' > 0) /\ kpc' \in {"loop", "exit", "done"}
    BY <1>2, <1>3, <1>4, <2>1
  <2>3. si' = (n - cx') * width
    <3>1. ((n - cx) + 1) * width = (n - cx) * width + width
      BY <1>2, <1>3, RunSizes
    <3> QED
      BY <1>2, <2>1, <2>2, <3>1
  <2>4. (n - cx') * width \in Nat /\ base + (n - cx') * width <= Len(p)
    BY <1>2, <2>2, RunSizes
  <2>5. LoopFrame'
    BY <1>1, <1>2, <2>2, <2>3 DEF LoopFrame
  <2>6. SliceFrame'
    BY <1>1, <1>2 DEF SliceFrame
  <2> QED
    BY <2>2, <2>3, <2>4, <2>5, <2>6
<1>5. CASE kpc = "exit"
  <2>1. kpc' = "done" /\ UNCHANGED << si, cx >>
    BY <1>5 DEF LoopStep
  <2>2. si' \in Nat /\ base + si' <= Len(p)
    BY <2>1 DEF WholeInv, Frame
  <2>3. LoopFrame'
    BY <1>1, <1>2, <1>5, <2>1 DEF LoopFrame
  <2>4. SliceFrame'
    BY <1>1, <1>2 DEF SliceFrame
  <2> QED
    BY <2>1, <2>2, <2>3, <2>4
<1> QED
  BY <1>2, <1>4, <1>5

\* The validator on its blocks.
LEMMA RunValidateKeeps == WholeInv /\ RunValidate => WholeInv'
<1> SUFFICES ASSUME WholeInv, RunValidate PROVE WholeInv'
  OBVIOUS
<1>1. /\ UNCHANGED << machine, op, p, base, width, blocks, pc >> /\ UNCHANGED driver /\ Control'
      /\ pc = "validate" /\ kpc \notin {"idle", "done"} /\ UNCHANGED << sum, rest >>
  BY DriverKept DEF WholeInv, RunValidate, Running
<1>2. ValidStep(width)
  BY <1>1, TwoWidths, ValidSteps DEF RunValidate, InKernels
<1>3. si' \in Nat /\ base + si' <= Len(p) /\ LoopFrame' /\ SliceFrame' /\ kpc' # "idle"
  BY <1>1, <1>2, LoopKeeps DEF ValidStep
<1>4. err' \subseteq 0..(width - 1)
  <2>1. err \subseteq 0..(width - 1) /\ Judging(width).bad \subseteq 0..(width - 1)
    BY BadLanes DEF WholeInv, Frame
  <2> QED
    BY <1>2, <2>1 DEF ValidStep, LoopStep
<1>5. kret' \in Nat
  <2>1. kret \in Nat
    BY DEF WholeInv, Frame
  <2> QED
    BY <1>2, <2>1 DEF ValidStep, LoopStep
<1>6. Frame'
  BY <1>1, <1>3, <1>4, <1>5 DEF WholeInv, Frame, KernelPC
<1> QED
  BY <1>1, <1>3, <1>6 DEF WholeInv, PrefixFrame, ScanFrame

\* So are those of the count.
LEMMA CountsSteps ==
  ASSUME WholeInv, RunCount
  PROVE  CountStep(width)
<1>1. pc = "count" /\ kpc # "idle"
  BY DEF RunCount, Running
<1>2. port \in PortNames
  BY <1>1 DEF WholeInv, SliceFrame, Control, InKernels, Kernel, PortNames
<1> QED
  BY <1>1, <1>2, TwoWidths, CountSteps DEF RunCount, InKernels

\* The count on its blocks.
LEMMA RunCountKeeps == WholeInv /\ RunCount => WholeInv'
<1> SUFFICES ASSUME WholeInv, RunCount PROVE WholeInv'
  OBVIOUS
<1>1. /\ UNCHANGED << machine, op, p, base, width, blocks, pc >> /\ UNCHANGED driver /\ Control'
      /\ pc = "count" /\ kpc \notin {"idle", "done"} /\ UNCHANGED << err, rest >>
  BY DriverKept DEF WholeInv, RunCount, Running
<1>3. CountStep(width)
  BY CountsSteps
<1>4. si' \in Nat /\ base + si' <= Len(p) /\ LoopFrame' /\ SliceFrame' /\ kpc' # "idle"
  BY <1>1, <1>3, LoopKeeps DEF CountStep
<1>5. sum' \in Nat /\ kret' \in Nat
  <2>1. sum \in Nat /\ kret \in Nat /\ sum \div 255 \in Nat
    BY DEF WholeInv, Frame
  <2>2. sum' \in Nat
    <3>1. Cardinality(ContsIn(src, si, 0, width)) \in Nat
      <4>1. width \in Nat /\ 0 <= width
        BY <1>1, RunSizes
      <4>2. Cardinality(ContsIn(src, si, 0, width)) \in 0..width
        BY <4>1, ContsInFinite
      <4> QED
        BY <4>1, <4>2
    <3> QED
      BY <1>1, <1>3, <2>1, <3>1 DEF CountStep, LoopStep, Weight
  <2>3. kret' \in Nat
    BY <1>3, <2>1 DEF CountStep, LoopStep
  <2> QED
    BY <2>2, <2>3
<1>6. Frame'
  BY <1>1, <1>4, <1>5 DEF WholeInv, Frame, KernelPC
<1> QED
  BY <1>1, <1>4, <1>6 DEF WholeInv, PrefixFrame, ScanFrame


\* A group passed is four blocks passed; the pointer is at most one group ahead of
\* the count, and only until it is taken back.
LEMMA ScanKeeps ==
  ASSUME WholeInv, pc = "ascii", kpc \notin {"idle", "done"}, UNCHANGED driver, AsciiStep(width)
  PROVE  /\ si' \in Nat /\ base + si' <= Len(p) /\ kret' \in Nat
         /\ ScanFrame' /\ SliceFrame' /\ kpc' # "idle"
<1>1. /\ UNCHANGED << machine, op, p, base, width, blocks, pc >> /\ q' = q /\ Kernel' = Kernel
  BY DriverKept
<1>2. /\ UNCHANGED << port, src, n >> /\ src = q /\ n = blocks /\ port = Kernel
      /\ count \in 0..n /\ kret \in Nat /\ si \in Nat
      /\ kpc # "back" => si = count * width
      /\ kpc = "back" => si = (count + 4) * width /\ count + 4 <= n
      /\ kpc = "loop4" => groups \in Nat /\ groups >= 1 /\ count + 4 * groups <= n
      /\ kpc = "loop1" => left >= 1 /\ left = n - count
  BY DEF AsciiStep, WholeInv, Frame, SliceFrame, ScanFrame
<1>3. n \in Nat /\ width \in Nat /\ base \in Nat /\ count \in Nat /\ count <= n
      /\ Len(p) \in Nat
  BY <1>2, RunSizes
<1>4. SliceFrame'
  BY <1>1, <1>2 DEF SliceFrame
<1> DEFINE bytes(m) == m * width
<1>5. /\ bytes(count) \in Nat /\ 4 * width \in Nat
      /\ bytes(count + 1) = bytes(count) + width
      /\ bytes(count + 4) = bytes(count) + 4 * width
      /\ base + bytes(count) <= Len(p)
      /\ count + 1 <= n => base + bytes(count + 1) <= Len(p)
      /\ count + 4 <= n => base + bytes(count + 4) <= Len(p)
  <2>1. count + 1 \in Nat /\ count + 4 \in Nat /\ 4 * width \in Nat
    BY <1>3
  <2> QED
    BY <1>3, <2>1, RunSizes
<1>6. /\ kpc # "back" => si = bytes(count)
      /\ kpc = "back" => si = bytes(count + 4) /\ count + 4 <= n
  BY <1>2
<1> DEFINE Kept == /\ count' \in 0..n /\ kret' \in Nat
                   /\ si' \in Nat /\ base + si' <= Len(p)
                   /\ kpc' \in {"loop4", "back", "tail", "loop1", "exit", "done"}
                   /\ kpc' # "back" => si' = bytes(count')
                   /\ kpc' = "back" => si' = bytes(count' + 4) /\ count' + 4 <= n
                   /\ kpc' = "loop4" => /\ groups' \in Nat /\ groups' >= 1
                                        /\ count' + 4 * groups' <= n
                   /\ kpc' = "loop1" => left' >= 1 /\ left' = n - count'
<1> HIDE DEF bytes
<1>7. ASSUME GroupStep(width) PROVE Kept
  <2>1. /\ groups \in Nat /\ groups >= 1 /\ count + 4 * groups <= n /\ si = bytes(count)
        /\ si' = si + 4 * width /\ count' = count + 4 /\ groups' = groups - 1 /\ kret' = kret
        /\ kpc' = (IF groups' # 0 THEN "loop4" ELSE "tail")
    BY <1>2, <1>6, <1>7 DEF GroupStep
  <2>2. count + 4 <= n
    BY <1>3, <2>1
  <2>3. si' = bytes(count') /\ si' \in Nat /\ base + si' <= Len(p)
    BY <1>3, <1>5, <2>1, <2>2
  <2>4. count' \in 0..n /\ groups' \in Nat /\ count' + 4 * groups' <= n
    BY <1>3, <2>1, <2>2
  <2>5. kpc' = "loop4" => groups' >= 1
    BY <2>1, <2>4
  <2> QED
    BY <1>2, <2>1, <2>3, <2>4, <2>5
<1>8. ASSUME GroupStop(width) PROVE Kept
  <2>1. /\ groups \in Nat /\ groups >= 1 /\ count + 4 * groups <= n /\ si = bytes(count)
        /\ count' = count /\ kret' = kret
        /\ \/ kpc' = "back" /\ si' = si + 4 * width
           \/ kpc' = "tail" /\ si' = si
    BY <1>2, <1>6, <1>8 DEF GroupStop
  <2>2. count + 4 <= n
    BY <1>3, <2>1
  <2>3. /\ si' \in Nat /\ base + si' <= Len(p)
        /\ kpc' = "back" => si' = bytes(count + 4)
        /\ kpc' = "tail" => si' = bytes(count)
    BY <1>3, <1>5, <2>1, <2>2
  <2> QED
    BY <1>2, <2>1, <2>2, <2>3
<1>9. ASSUME BackStep(width) PROVE Kept
  BY <1>2, <1>3, <1>5, <1>6, <1>9 DEF BackStep
<1>10. ASSUME RestStep PROVE Kept
  BY <1>2, <1>3, <1>5, <1>6, <1>10 DEF RestStep
<1>11. ASSUME OneStep(width) PROVE Kept
  <2>1. /\ left >= 1 /\ left = n - count /\ si = bytes(count)
        /\ si' = si + width /\ count' = count + 1 /\ left' = left - 1 /\ kret' = kret
        /\ kpc' = (IF left' # 0 THEN "loop1" ELSE "exit")
    BY <1>2, <1>6, <1>11 DEF OneStep
  <2>2. count + 1 <= n
    BY <1>3, <2>1
  <2>3. si' = bytes(count') /\ si' \in Nat /\ base + si' <= Len(p)
    BY <1>3, <1>5, <2>1, <2>2
  <2>4. count' \in 0..n /\ left' = n - count' /\ (kpc' = "loop1" => left' >= 1)
    BY <1>3, <2>1, <2>2
  <2> QED
    BY <1>2, <2>1, <2>3, <2>4
<1>12. ASSUME OneStop(width) PROVE Kept
  BY <1>2, <1>3, <1>5, <1>6, <1>12 DEF OneStop
<1>13. ASSUME ScanReturn PROVE Kept
  BY <1>2, <1>3, <1>5, <1>6, <1>13 DEF ScanReturn
<1>14. Kept
  BY <1>7, <1>8, <1>9, <1>10, <1>11, <1>12, <1>13 DEF AsciiStep
<1> QED
  BY <1>1, <1>2, <1>4, <1>14 DEF ScanFrame, bytes

\* The scan's steps are steps on the blocks of the driver.
LEMMA ScanSteps ==
  ASSUME WholeInv, RunAscii
  PROVE  AsciiStep(width)
<1>1. pc = "ascii" /\ kpc # "idle" /\ si \in Nat
  BY DEF RunAscii, Running, WholeInv, Frame
<1>2. port \in PortNames \ {"VSX"}
  BY <1>1 DEF WholeInv, SliceFrame, Control, InKernels, Kernel, PortNames
<1> QED
  BY <1>1, <1>2, TwoWidths, AsciiSteps DEF RunAscii, InKernels

\* The scan on its blocks.
LEMMA RunAsciiKeeps == WholeInv /\ RunAscii => WholeInv'
<1> SUFFICES ASSUME WholeInv, RunAscii PROVE WholeInv'
  OBVIOUS
<1>1. /\ UNCHANGED << machine, op, p, base, width, blocks, pc >> /\ UNCHANGED driver /\ Control'
      /\ pc = "ascii" /\ kpc \notin {"idle", "done"} /\ UNCHANGED << err, sum, rest >>
  BY DriverKept DEF WholeInv, RunAscii, Running
<1>2. AsciiStep(width)
  BY <1>1, ScanSteps
<1>3. /\ si' \in Nat /\ base + si' <= Len(p) /\ kret' \in Nat
      /\ ScanFrame' /\ SliceFrame' /\ kpc' # "idle"
  BY <1>1, <1>2, ScanKeeps
<1>4. Frame'
  BY <1>1, <1>3 DEF WholeInv, Frame, KernelPC
<1> QED
  BY <1>1, <1>3, <1>4 DEF WholeInv, PrefixFrame, LoopFrame

\* A driver that has a result goes on with the same slice; only ppc64le's goes on
\* with the tail of p, and then the pointer has not moved yet.
LEMMA ReturnKeeps == WholeInv /\ Return => WholeInv'
<1> SUFFICES ASSUME WholeInv, Return PROVE WholeInv'
  OBVIOUS
<1>1. /\ kpc = "done" /\ kpc' = "idle" /\ UNCHANGED << si, err, sum, rest, kret >>
  BY DEF Return
<1>2. Control /\ Frame /\ Len(p) \in Nat
  BY SliceSizes DEF WholeInv
<1>3. CASE AsciiPrefixGives(kret)
  <2>1. /\ UNCHANGED << machine, op, p, width, blocks >> /\ pc = "prefix" /\ base = 0
        /\ pc' \in {"dispatch", "done"} /\ base' \in {0, kret}
    BY <1>2, <1>3 DEF AsciiPrefixGives, Finish, Control
  <2>2. kret \in 0..Len(p) /\ si = 0 /\ err = {}
    BY <1>1, <2>1 DEF WholeInv, PrefixFrame, Frame
  <2>3. base' \in 0..Len(p) /\ base' + si' <= Len(p)
    BY <1>1, <1>2, <2>1, <2>2
  <2>4. Control'
    BY <1>2, <2>1, <2>3 DEF Control, BigPC, InKernels, KernelBounds
  <2>5. Frame'
    BY <1>1, <1>2, <2>1, <2>2, <2>3 DEF Frame
  <2> QED
    BY <1>1, <2>4, <2>5 DEF WholeInv, PrefixFrame, SliceFrame, LoopFrame, ScanFrame
<1>4. CASE AsciiScanGives(kret) \/ ValidateGives(kret) \/ CountGives(kret)
  <2>1. /\ UNCHANGED << machine, op, p, base, width, blocks >>
        /\ pc \in {"ascii", "validate", "count"}
        /\ pc' \in {"scalar", "validate", "count", "split", "done"}
    BY <1>4 DEF AsciiScanGives, ValidateGives, CountGives, Finish, Refused
  <2>2. q' = q /\ end' = end /\ BlockWidth(Len(q))' = BlockWidth(Len(q))
    BY <2>1 DEF q, end, BlockWidth, hasAVX2, hasPOPCNT, hasVSX
  <2>3. Control'
    BY <1>2, <2>1, <2>2 DEF Control, BigPC, InKernels, KernelBounds
  <2>4. Frame'
    BY <1>1, <1>2, <2>1 DEF Frame
  <2> QED
    BY <1>1, <2>3, <2>4 DEF WholeInv, PrefixFrame, SliceFrame, LoopFrame, ScanFrame
<1> QED
  BY <1>3, <1>4 DEF Return

\* Between the kernels the driver only chooses blocks that fit, once, before the
\* pointer has moved.
LEMMA GoKeeps == WholeInv /\ Go => WholeInv'
<1> SUFFICES ASSUME WholeInv, Go PROVE WholeInv'
  OBVIOUS
<1>1. kpc = "idle" /\ UNCHANGED << kpc, si, err, sum, rest, kret >>
  BY DEF Go, frame
<1>2. /\ Control /\ Frame /\ Len(p) \in Nat /\ base \in Nat /\ q \in Seq(Byte) /\ Len(q) \in Nat
  BY SliceSizes DEF WholeInv
<1>3. CASE Trap \/ Split \/ Scalar
  <2>1. /\ UNCHANGED << machine, op, p, base, width, blocks >>
        /\ pc' \in {"sigill", "scalar", "done"}
    BY <1>3 DEF Trap, Split, Scalar, Finish
  <2>2. Control'
    BY <1>2, <2>1 DEF Control, BigPC, InKernels, KernelBounds
  <2>3. Frame'
    BY <1>1, <1>2, <2>1 DEF Frame
  <2> QED
    BY <1>1, <2>2, <2>3 DEF WholeInv, PrefixFrame, SliceFrame, LoopFrame, ScanFrame
<1>4. CASE Dispatch
  <2> DEFINE w == BlockWidth(Len(q))
  <2>1. /\ UNCHANGED << machine, op, p, base >> /\ q' = q /\ pc = "dispatch"
        /\ width' = w /\ blocks' = (IF w = 0 THEN 0 ELSE Whole(Len(q), w))
        /\ pc' \in {"scalar", "validate", "ascii"}
        /\ pc' = "scalar" <=> w = 0
        /\ pc' = "ascii" => machine.arch # "ppc64le"
    BY <1>4 DEF Dispatch, q
  <2>2. w = BlockWidth(Len(q))'
    BY <1>4, <2>1 DEF Dispatch, BlockWidth, hasAVX2, hasPOPCNT, hasVSX
  <2>3. w \in {0, B, 2 * B} /\ (w # 0 => Len(q) >= w)
    BY <1>2, WidthFits
  <2>4. w # 0 => machine.arch \in {"amd64", "arm64", "s390x", "ppc64le"}
    BY DEF BlockWidth
  <2> HIDE DEF w
  <2>5. blocks' \in Nat /\ (w # 0 => blocks' >= 1 /\ end' <= Len(q))
    <3>1. CASE w = 0
      BY <2>1, <3>1
    <3>2. CASE w # 0
      <4>1. w \in Nat /\ w >= 1
        BY <2>3, <3>2, BAssumption
      <4>2. blocks' = Len(q) \div w
        BY <2>1, <3>2 DEF Whole
      <4> QED
        BY <1>2, <2>1, <2>3, <3>2, <4>1, <4>2, WholeBlocks DEF end
    <3> QED
      BY <3>1, <3>2
  <2>6. Control'
    BY <1>2, <2>1, <2>2, <2>3, <2>4, <2>5 DEF Control, BigPC, InKernels, KernelBounds
  <2>7. Frame'
    BY <1>1, <1>2, <2>1 DEF Frame
  <2> QED
    BY <1>1, <2>6, <2>7 DEF WholeInv, PrefixFrame, SliceFrame, LoopFrame, ScanFrame
<1> QED
  BY <1>3, <1>4 DEF Go

\* A step of anything else.
LEMMA WholeStutter == WholeInv /\ UNCHANGED << driver, frame >> => WholeInv'
<1> SUFFICES ASSUME WholeInv, UNCHANGED << driver, frame >> PROVE WholeInv'
  OBVIOUS
<1>1. /\ UNCHANGED << machine, op, p, base, width, blocks, pc >> /\ q' = q /\ Kernel' = Kernel
      /\ Control'
  BY DriverKept DEF WholeInv
<1>2. UNCHANGED << port, src, n, si, cx, prev, err, count, groups, left, sum, rest, kpc, kret >>
  BY DEF frame
<1>3. Frame' /\ PrefixFrame' /\ SliceFrame'
  BY <1>1, <1>2 DEF WholeInv, Frame, PrefixFrame, SliceFrame
<1>4. LoopFrame' /\ ScanFrame'
  BY <1>1, <1>2 DEF WholeInv, LoopFrame, ScanFrame
<1> QED
  BY <1>1, <1>3, <1>4 DEF WholeInv

\* The invariant holds throughout.
THEOREM WholeInvariance == WholeSpec => []WholeInv
<1>1. WholeInv /\ [WholeNext]_<< driver, frame >> => WholeInv'
  BY CallKeeps, RunPrefixKeeps, RunAsciiKeeps, RunValidateKeeps, RunCountKeeps, ReturnKeeps,
     GoKeeps, WholeStutter DEF WholeNext, Run
<1> QED
  BY WholeInitInv, <1>1, PTL DEF WholeSpec

\* No kernel, in any call on any machine, reads a byte outside the argument of the
\* package.
THEOREM LoadsStayInside == WholeSpec => []LoadsInside
<1>1. WholeInv => LoadsInside
  <2> SUFFICES ASSUME WholeInv PROVE LoadsInside
    OBVIOUS
  <2>1. base \in Nat /\ Len(p) \in Nat /\ si \in Nat /\ base + si <= Len(p)
    BY SliceSizes DEF WholeInv, Frame
  <2>2. CASE kpc \in {"loop4", "loop", "loop1"}
    <3>1. pc \in {"ascii", "validate", "count"}
      BY <2>2 DEF WholeInv, Frame, KernelPC, PrefixFrame
    <3>2. BlockOf(port) = width
      BY <2>2, <3>1, TwoWidths DEF InKernels
    <3>3. CASE kpc = "loop4"
      <4>1. /\ count \in 0..n /\ groups \in Nat /\ groups >= 1 /\ count + 4 * groups <= n
            /\ si = count * width
        BY <3>1, <3>3 DEF WholeInv, ScanFrame, LoopFrame
      <4>2. count \in Nat /\ count + 4 <= n /\ count + 4 \in Nat /\ width \in Nat
        <5>1. n \in Nat /\ width \in Nat
          BY <2>2, <3>1, RunSizes
        <5> QED
          BY <4>1, <5>1
      <4>3. /\ (count + 4) * width = count * width + 4 * width
            /\ base + (count + 4) * width <= Len(p)
        BY <2>2, <3>1, <4>2, RunSizes
      <4> DEFINE here == count * width
      <4>4. here \in Nat /\ base + here + 4 * width <= Len(p) /\ si = here
        BY <2>1, <4>1, <4>2, <4>3
      <4> HIDE DEF here
      <4> QED
        BY <2>1, <3>3, <3>2, <4>2, <4>4 DEF LoadsInside
    <3>4. CASE kpc \in {"loop", "loop1"}
      <4> DEFINE m == IF kpc = "loop" THEN n - cx ELSE count
      <4>1. n \in Nat /\ width \in Nat
        BY <2>2, <3>1, RunSizes
      <4>2. m \in Nat /\ m + 1 <= n /\ si = m * width /\ m + 1 \in Nat
        BY <3>1, <3>4, <4>1 DEF WholeInv, ScanFrame, LoopFrame
      <4> HIDE DEF m
      <4>3. (m + 1) * width = m * width + width /\ base + (m + 1) * width <= Len(p)
        BY <2>2, <3>1, <4>2, RunSizes
      <4>4. base + si + width <= Len(p)
        BY <2>1, <4>1, <4>2, <4>3
      <4> QED
        BY <3>4, <3>2, <4>4 DEF LoadsInside
    <3> QED
      BY <2>2, <3>3, <3>4
  <2>3. CASE kpc \notin {"loop4", "loop", "loop1"}
    BY <2>1, <2>3 DEF LoadsInside
  <2> QED
    BY <2>2, <2>3
<1> QED
  BY WholeInvariance, <1>1, PTL

\* What every kernel of a call is given, with a block size w it was written for.
LEMMA Arguments ==
  ASSUME WholeInv, pc \in {"ascii", "validate", "count"}, UNCHANGED driver,
         Entered(Kernel, Argument, blocks)
  PROVE  /\ src' \in Seq(Byte) /\ n' = blocks /\ n' \in 1..Len(src') /\ n' * width <= Len(src')
         /\ si' = 0 /\ kret' = 0 /\ port' \in PortNames
         /\ pc = "ascii" => port' # "VSX"
         /\ width = B \/ (width # B /\ width = 2 * B)
         /\ BlockOf(port') = width /\ BlockOf(Kernel) = width
<1>1. /\ src' = q /\ n' = blocks /\ port' = Kernel /\ si' = 0 /\ kret' = 0
  BY DEF Entered, Argument
<1>2. /\ q \in Seq(Byte) /\ Len(q) \in Nat /\ blocks \in Nat /\ blocks >= 1
      /\ blocks * width <= Len(q) /\ blocks <= Len(q)
  BY SliceSizes DEF WholeInv, InKernels
<1>3. Kernel \in PortNames /\ (pc = "ascii" => Kernel # "VSX")
  BY DEF WholeInv, Control, InKernels, Kernel, PortNames
<1>4. (width = B \/ (width # B /\ width = 2 * B)) /\ BlockOf(Kernel) = width
  BY TwoWidths DEF InKernels
<1>5. blocks \in 1..Len(q)
  BY <1>2
<1> QED
  BY <1>1, <1>2, <1>3, <1>4, <1>5

\* Every call asks for the bytes the driver goes on with, in blocks of the kernel's own
\* size, and finds the kernel in a state the kernel's own module begins with.
THEOREM CallsKeepContract == WholeSpec => CallsInContract
<1> DEFINE Contract ==
      /\ CallAscii \/ CallValidate \/ CallCount => n' * BlockOf(port') = end
      /\ CallAscii =>
           IF BlockOf(port') = B THEN NarrowAscii!Init' ELSE WideAscii!Init'
      /\ CallValidate =>
           IF BlockOf(port') = B THEN NarrowValid!Init' ELSE WideValid!Init'
      /\ CallCount =>
           IF BlockOf(port') = B THEN NarrowCount!Init' ELSE WideCount!Init'
<1>1. WholeInv => Contract
  <2>1. ASSUME WholeInv, CallAscii
        PROVE  /\ n' * BlockOf(port') = end
               /\ IF BlockOf(port') = B THEN NarrowAscii!Init' ELSE WideAscii!Init'
    <3>1. /\ pc = "ascii" /\ UNCHANGED driver /\ Entered(Kernel, Argument, blocks)
          /\ groups' = blocks \div 4 /\ count' = 0 /\ left' = 0
          /\ kpc' = (IF groups' = 0 THEN "tail" ELSE "loop4")
      BY <2>1 DEF CallAscii, Calling, NarrowAscii!Groups
    <3>2. /\ src' \in Seq(Byte) /\ n' = blocks /\ n' \in 1..Len(src') /\ n' * width <= Len(src')
          /\ si' = 0 /\ kret' = 0 /\ port' \in PortNames /\ port' # "VSX"
          /\ width = B \/ (width # B /\ width = 2 * B)
          /\ BlockOf(port') = width /\ BlockOf(Kernel) = width
      BY <2>1, <3>1, Arguments
    <3>3. n' * BlockOf(port') = end
      BY <3>2 DEF end
    <3>4. port' \in {"SSE", "AVX2", "NEON", "VX"}
      BY <3>2 DEF PortNames
    <3>5. CASE width = B
      <4>1. NarrowAscii!Init'
        BY <3>1, <3>2, <3>4, <3>5
           DEF NarrowAscii!Init, NarrowAscii!Ports, NarrowAscii!Groups, NarrowAscii!Byte, Byte
      <4> QED
        BY <3>2, <3>3, <3>5, <4>1
    <3>6. CASE width # B
      <4>1. WideAscii!Init'
        BY <3>1, <3>2, <3>4, <3>6
           DEF WideAscii!Init, WideAscii!Ports, WideAscii!Groups, WideAscii!Byte, Byte
      <4> QED
        BY <3>2, <3>3, <3>6, <4>1
    <3> QED
      BY <3>2, <3>3, <3>5, <3>6
  <2>2. ASSUME WholeInv, CallValidate
        PROVE  /\ n' * BlockOf(port') = end
               /\ IF BlockOf(port') = B THEN NarrowValid!Init' ELSE WideValid!Init'
    <3>1. /\ pc = "validate" /\ UNCHANGED driver /\ Entered(Kernel, Argument, blocks)
          /\ cx' = blocks /\ prev' = Zeros(BlockOf(Kernel)) /\ err' = {} /\ kpc' = "loop"
      BY <2>2 DEF CallValidate, Calling
    <3>2. /\ src' \in Seq(Byte) /\ n' = blocks /\ n' \in 1..Len(src') /\ n' * width <= Len(src')
          /\ si' = 0 /\ kret' = 0 /\ port' \in PortNames
          /\ width = B \/ (width # B /\ width = 2 * B)
          /\ BlockOf(port') = width /\ BlockOf(Kernel) = width
      BY <2>2, <3>1, Arguments
    <3>3. n' * BlockOf(port') = end
      BY <3>2 DEF end
    <3>4. CASE width = B
      <4>1. prev' = [raw |-> NarrowValid!Zero(B), high |-> NarrowValid!Zero(B),
                    carry |-> NarrowValid!Zero(B)]
        BY <3>1, <3>2, <3>4 DEF Zeros, NarrowValid!Zero, NarrowValid!Lane
      <4>2. NarrowValid!Init'
        BY <3>1, <3>2, <3>4, <4>1 DEF NarrowValid!Init, NarrowValid!Validators, PortNames
      <4> QED
        BY <3>2, <3>3, <3>4, <4>2
    <3>5. CASE width # B
      <4>1. prev' = [raw |-> WideValid!Zero(2 * B), high |-> WideValid!Zero(2 * B),
                    carry |-> WideValid!Zero(2 * B)]
        BY <3>1, <3>2, <3>5 DEF Zeros, WideValid!Zero, WideValid!Lane
      <4>2. WideValid!Init'
        BY <3>1, <3>2, <3>5, <4>1 DEF WideValid!Init, WideValid!Validators, PortNames
      <4> QED
        BY <3>2, <3>3, <3>5, <4>2
    <3> QED
      BY <3>2, <3>4, <3>5, <3>3
  <2>3. ASSUME WholeInv, CallCount
        PROVE  /\ n' * BlockOf(port') = end
               /\ IF BlockOf(port') = B THEN NarrowCount!Init' ELSE WideCount!Init'
    <3>1. /\ pc = "count" /\ UNCHANGED driver /\ Entered(Kernel, Argument, blocks)
          /\ cx' = blocks /\ sum' = 0 /\ kpc' = "loop"
      BY <2>3 DEF CallCount, Calling
    <3>2. /\ src' \in Seq(Byte) /\ n' = blocks /\ n' \in 1..Len(src') /\ n' * width <= Len(src')
          /\ si' = 0 /\ kret' = 0 /\ port' \in PortNames
          /\ width = B \/ (width # B /\ width = 2 * B)
          /\ BlockOf(port') = width /\ BlockOf(Kernel) = width
      BY <2>3, <3>1, Arguments
    <3>3. n' * BlockOf(port') = end
      BY <3>2 DEF end
    <3>4. CASE width = B
      <4>1. NarrowCount!Init'
        BY <3>1, <3>2, <3>4 DEF NarrowCount!Init, NarrowCount!Ports, PortNames
      <4> QED
        BY <3>2, <3>3, <3>4, <4>1
    <3>5. CASE width # B
      <4>1. WideCount!Init'
        BY <3>1, <3>2, <3>5 DEF WideCount!Init, WideCount!Ports, PortNames
      <4> QED
        BY <3>2, <3>3, <3>5, <4>1
    <3> QED
      BY <3>2, <3>4, <3>5, <3>3
  <2> QED
    BY <2>1, <2>2, <2>3
<1>2. WholeInv => [Contract]_frame
  BY <1>1
<1> HIDE DEF Contract
<1>3. WholeSpec => [][Contract]_frame
  BY WholeInvariance, <1>2, PTL
<1> QED
  BY <1>3, PTL DEF CallsInContract, Contract

-----------------------------------------------------------------------------
(* What the kernels answer                                                 *)

\* What asciiPrefixLen has taken off p is ASCII, and it takes all of that.
PrefixSoFar ==
  kpc # "idle" /\ pc = "prefix" =>
    /\ AsciiTaken(p, rest)
    /\ kpc = "exit" => Stuck
    /\ kpc = "done" => kret = asciiPrefixLen(p)

\* The blocks the ASCII scan has counted are ASCII, and it stops at the end or
\* before one that is not.
ScanSoFar ==
  kpc # "idle" /\ pc = "ascii" =>
    /\ AllAscii(q, count * width)
    /\ kpc = "exit" => count = n \/ ~ AllAscii(q, (count + 1) * width)
    /\ kpc = "done" => kret = LeadingAscii(q, blocks, width)

\* The accumulator holds the continuation bytes passed.
CountSoFar ==
  kpc # "idle" /\ pc = "count" =>
    /\ sum = Cardinality(Conts(q, si)) * Weight
    /\ kpc = "done" => kret = Cardinality(Conts(q, end))

\* The blocks the validator has seen are judged.
ValidSoFar ==
  kpc # "idle" /\ pc = "validate" =>
    /\ BlocksJudged(width, q, si, prev, err)
    /\ kpc = "done" => kret = IF StructOK(q, end) THEN 1 ELSE 0

SoFar == PrefixSoFar /\ ScanSoFar /\ CountSoFar /\ ValidSoFar

\* The loops of asciiPrefixLen.
LEMMA PrefixGoesOn == WholeInv /\ SoFar /\ RunPrefix => PrefixSoFar'
<1> SUFFICES ASSUME WholeInv, SoFar, RunPrefix PROVE PrefixSoFar'
  OBVIOUS
<1>1. pc = "prefix" /\ kpc # "idle" /\ pc' = pc /\ p' = p
  BY DriverKept DEF RunPrefix, Running
<1>2. rest \in Seq(Byte) /\ src = p /\ p \in Seq(Byte) /\ Len(rest) \in Nat /\ Len(p) \in Nat
  BY <1>1, AtByte DEF WholeInv, Frame, PrefixFrame, Control
<1>3. PrefixStep
  BY <1>2, PrefixSteps DEF RunPrefix
<1>4. AsciiTaken(p, rest) /\ (kpc = "exit" => Stuck)
  BY <1>1 DEF SoFar, PrefixSoFar
<1>5. asciiPrefixLen(p)' = asciiPrefixLen(p)
  BY <1>1 DEF asciiPrefixLen
<1>6. CASE kpc \in {"quads", "words", "bytes"}
  <2>1. ASSUME NEW size \in 1..Len(rest), AllAscii(rest, size), rest' = Suffix(rest, size)
        PROVE  AsciiTaken(p, rest')
    <3>1. size \in Nat /\ Len(rest) >= size
      BY <1>2, <2>1
    <3> QED
      BY <1>2, <1>4, <2>1, <3>1, TakeAscii
  <2>2. AsciiTaken(p, rest') /\ kpc' # "done" /\ (kpc' = "exit" => rest' = rest /\ Stuck)
    BY <1>3, <1>4, <1>6, <2>1 DEF PrefixStep
  <2>3. kpc' = "exit" => Stuck'
    BY <2>2 DEF Stuck
  <2> QED
    BY <1>1, <2>2, <2>3 DEF PrefixSoFar
<1>7. CASE kpc = "exit"
  <2>1. rest' = rest /\ kpc' = "done" /\ kret' = Len(p) - Len(rest)
    BY <1>2, <1>3, <1>7 DEF PrefixStep
  <2>2. LeadingAscii(p, Len(p), 1) = Len(p) - Len(rest)
    BY <1>2, <1>4, <1>7, AllAsciiTaken DEF Stuck
  <2> QED
    BY <1>1, <1>4, <1>5, <2>1, <2>2 DEF PrefixSoFar, asciiPrefixLen
<1> QED
  BY <1>3, <1>6, <1>7 DEF PrefixStep

\* The loops of the ASCII scan.
LEMMA ScanGoesOn == WholeInv /\ SoFar /\ RunAscii => ScanSoFar'
<1> SUFFICES ASSUME WholeInv, SoFar, RunAscii PROVE ScanSoFar'
  OBVIOUS
<1>1. /\ pc = "ascii" /\ kpc # "idle" /\ pc' = pc /\ q' = q /\ width' = width /\ blocks' = blocks
  BY DriverKept DEF RunAscii, Running
<1>2. /\ AsciiStep(width) /\ src = q /\ n' = n /\ n = blocks
  BY <1>1, ScanSteps DEF WholeInv, SliceFrame, AsciiStep
<1>3. /\ count \in 0..n /\ AllAscii(q, count * width)
      /\ kpc # "back" => si = count * width
      /\ kpc = "loop1" => left >= 1 /\ left = n - count
      /\ kpc = "exit" => count = n \/ ~ AllAscii(q, (count + 1) * width)
  BY <1>1 DEF WholeInv, ScanFrame, SoFar, ScanSoFar
<1>4. n \in Nat /\ count \in Nat /\ count <= n /\ width \in Nat /\ 4 * width \in Nat
  BY <1>1, <1>3, RunSizes
<1> DEFINE bytes(m) == m * width
<1>5. /\ bytes(count) \in Nat /\ 1 * width \in Nat
      /\ bytes(count + 1) = bytes(count) + 1 * width
      /\ bytes(count + 4) = bytes(count) + 4 * width
  BY <1>4
<1>6. /\ AllAscii(q, bytes(count))
      /\ AllAscii(q, bytes(count + 1)) <=> AsciiFrom(q, bytes(count), 1 * width)
      /\ AllAscii(q, bytes(count + 4)) <=> AsciiFrom(q, bytes(count), 4 * width)
  <2>1. AllAscii(q, bytes(count))
    BY <1>3
  <2>2. /\ AllAscii(q, bytes(count) + 1 * width)
             <=> AllAscii(q, bytes(count)) /\ AsciiFrom(q, bytes(count), 1 * width)
        /\ AllAscii(q, bytes(count) + 4 * width)
             <=> AllAscii(q, bytes(count)) /\ AsciiFrom(q, bytes(count), 4 * width)
    <3> HIDE DEF bytes
    <3> QED
      BY <1>4, <1>5, AsciiFurther
  <2> HIDE DEF bytes
  <2> QED
    BY <1>5, <2>1, <2>2, Zenon
<1>7. kpc # "back" => si = bytes(count)
  BY <1>3
<1>8. kpc = "exit" => count = n \/ ~ AllAscii(q, bytes(count + 1))
  BY <1>3
<1> DEFINE Kept == /\ AllAscii(q, bytes(count'))
                   /\ kpc' = "exit" => count' = n \/ ~ AllAscii(q, bytes(count' + 1))
                   /\ kpc' = "done" => kret' = LeadingAscii(q, blocks, width)
<1> HIDE DEF bytes
<1>9. ASSUME GroupStep(width) PROVE Kept
  BY <1>2, <1>6, <1>7, <1>9 DEF GroupStep
<1>10. ASSUME GroupStop(width) \/ BackStep(width) PROVE Kept
  BY <1>6, <1>10 DEF GroupStop, BackStep
<1>11. ASSUME RestStep PROVE Kept
  BY <1>4, <1>6, <1>11 DEF RestStep
<1>12. ASSUME OneStep(width) PROVE Kept
  BY <1>2, <1>3, <1>4, <1>6, <1>7, <1>12 DEF OneStep
<1>13. ASSUME OneStop(width) PROVE Kept
  BY <1>2, <1>6, <1>7, <1>13 DEF OneStop
<1>14. ASSUME ScanReturn PROVE Kept
  <2>1. count < n => ~ AllAscii(q, (count + 1) * width)
    BY <1>3, <1>4, <1>14 DEF ScanReturn
  <2>2. LeadingAscii(q, n, width) = count
    BY <1>3, <1>4, <2>1, LeadingAsciiUnique
  <2> QED
    BY <1>2, <1>6, <1>14, <2>2 DEF ScanReturn
<1>15. Kept
  BY <1>2, <1>9, <1>10, <1>11, <1>12, <1>13, <1>14 DEF AsciiStep
<1> QED
  BY <1>1, <1>2, <1>15 DEF ScanSoFar, AllAscii, bytes

\* The loop of the count.
LEMMA CountGoesOn == WholeInv /\ SoFar /\ RunCount => CountSoFar'
<1> SUFFICES ASSUME WholeInv, SoFar, RunCount PROVE CountSoFar'
  OBVIOUS
<1>1. /\ pc = "count" /\ kpc # "idle" /\ pc' = pc /\ q' = q /\ end' = end
  BY DriverKept DEF RunCount, Running
<1>2. /\ CountStep(width) /\ src = q /\ n = blocks /\ Weight' = Weight
  BY <1>1, CountsSteps DEF WholeInv, SliceFrame, CountStep, LoopStep, Weight
<1> DEFINE c == Cardinality(Conts(q, si))
           m == Cardinality(ContsIn(q, si, 0, width))
<1>3. sum = c * Weight /\ si \in Nat /\ Weight \in {1, 255}
  BY <1>1 DEF SoFar, CountSoFar, WholeInv, Frame, Weight
<1>4. width \in Nat /\ n \in Nat /\ 0 <= width
  BY <1>1, RunSizes
<1>5. c \in 0..si /\ Cardinality(Conts(q, si + width)) = c + m /\ m \in 0..width
  BY <1>3, <1>4, ContsAdvance, ContsInFinite
<1>6. CASE kpc = "loop"
  <2>1. /\ sum' = sum + m * Weight /\ si' = si + width /\ kpc' # "done"
    BY <1>2, <1>6 DEF CountStep, LoopStep
  <2> HIDE DEF c, m
  <2>2. (c + m) * Weight = c * Weight + m * Weight
    BY <1>3, <1>4, <1>5
  <2>3. sum' = Cardinality(Conts(q, si')) * Weight
    BY <1>3, <1>5, <2>1, <2>2
  <2> QED
    BY <1>1, <1>2, <2>1, <2>3 DEF CountSoFar, Conts
<1>7. CASE kpc = "exit"
  <2>1. /\ sum' = sum /\ si' = si /\ kpc' = "done"
        /\ kret' = IF port = "NEON" THEN sum \div 255 ELSE sum
    BY <1>2, <1>7 DEF CountStep, LoopStep
  <2>2. si = end
    <3>1. cx \in 0..n /\ si = (n - cx) * width /\ ~ (cx > 0)
      BY <1>1, <1>7 DEF WholeInv, LoopFrame
    <3>2. n - cx = n
      BY <1>4, <3>1
    <3> QED
      BY <1>2, <3>1, <3>2 DEF end
  <2>3. c \in Nat /\ sum = c * Weight
    BY <1>3, <1>5
  <2> HIDE DEF c
  <2>4. kret' = c
    BY <2>1, <2>3 DEF Weight
  <2> QED
    BY <1>1, <1>2, <2>1, <2>2, <2>3, <2>4 DEF CountSoFar, Conts, c
<1> QED
  BY <1>2, <1>6, <1>7 DEF CountStep, LoopStep

\* The loop of the validator.
LEMMA ValidGoesOn == WholeInv /\ SoFar /\ RunValidate => ValidSoFar'
<1> SUFFICES ASSUME WholeInv, SoFar, RunValidate PROVE ValidSoFar'
  OBVIOUS
<1>1. /\ pc = "validate" /\ kpc \notin {"idle", "done"} /\ pc' = pc
      /\ q' = q /\ end' = end /\ width' = width
  BY DriverKept DEF RunValidate, Running
<1>2. ValidStep(width) /\ src = q /\ n = blocks /\ port \in Validators /\ width \in Widths
  <2>1. ValidStep(width) /\ src = q /\ n = blocks
    BY <1>1, TwoWidths, ValidSteps DEF RunValidate, InKernels, WholeInv, SliceFrame
  <2>2. port \in Validators
    BY <1>1 DEF WholeInv, SliceFrame, Control, InKernels, Kernel, Validators
  <2>3. width = B \/ width = 2 * B
    BY <1>1, TwoWidths DEF InKernels
  <2>4. B \in Widths /\ 2 * B \in Widths
    BY BAssumption, HalvesAssumption DEF Widths
  <2> QED
    BY <2>1, <2>2, <2>3, <2>4
<1>3. BlocksJudged(width, q, si, prev, err)
  BY <1>1 DEF SoFar, ValidSoFar
<1>4. /\ q \in Seq(Byte) /\ Len(q) \in Nat /\ width \in Nat /\ n \in Nat
      /\ n * width <= Len(q) /\ si \in Nat
      /\ cx \in 0..n /\ si = (n - cx) * width
      /\ kpc = "loop" => cx > 0
      /\ kpc = "exit" => cx = 0
  BY <1>1, <1>2, SliceSizes, RunSizes DEF WholeInv, Frame, LoopFrame, InKernels
<1>5. CASE kpc = "loop"
  <2>1. si + width <= Len(q)
    <3> DEFINE m == n - cx
    <3>1. m \in Nat /\ m + 1 <= n /\ si = m * width /\ m + 1 \in Nat
      BY <1>4, <1>5
    <3> HIDE DEF m
    <3>2. (m + 1) * width <= n * width /\ (m + 1) * width = m * width + width
      BY <1>4, <3>1
    <3> QED
      BY <1>4, <3>1, <3>2
  <2>2. BlocksJudged(width, q, si + width, Judging(width).regs, err \cup Judging(width).bad)
    BY <1>2, <1>3, <1>4, <2>1, JudgedFurther DEF Judging
  <2>3. /\ prev' = Judging(width).regs /\ err' = err \cup Judging(width).bad
        /\ si' = si + width /\ kpc' # "done"
    BY <1>2, <1>5 DEF ValidStep, LoopStep
  <2> QED
    BY <1>1, <2>2, <2>3 DEF ValidSoFar, BlocksJudged, StructOK
<1>6. CASE kpc = "exit"
  <2>1. /\ UNCHANGED << prev, err >> /\ si' = si
        /\ kret' = IF err = {} THEN 1 ELSE 0
    BY <1>2, <1>6 DEF ValidStep, LoopStep
  <2>2. si = end
    <3>1. n - cx = n
      BY <1>4, <1>6
    <3> QED
      BY <1>2, <1>4, <3>1 DEF end
  <2>3. (err = {}) <=> StructOK(q, end)
    BY <1>3, <2>2 DEF BlocksJudged
  <2> QED
    BY <1>1, <1>3, <2>1, <2>3 DEF ValidSoFar, BlocksJudged, StructOK
<1> QED
  BY <1>2, <1>5, <1>6 DEF ValidStep, LoopStep

\* A kernel begins with nothing taken, scanned, judged or counted.
LEMMA BeginsSoFar == WholeInv /\ Call => SoFar'
<1> SUFFICES ASSUME WholeInv, Call PROVE SoFar'
  OBVIOUS
<1>1. UNCHANGED << p, pc, width, blocks >> /\ q' = q /\ end' = end
  BY DriverKept DEF Call, CallPrefix, CallAscii, CallValidate, CallCount, Calling
<1>2. p \in Seq(Byte) /\ Len(p) \in Nat
  BY SliceSizes DEF WholeInv, Control
<1>3. CASE CallPrefix
  <2>1. pc = "prefix" /\ rest' = p /\ kpc' = "quads"
    BY <1>3 DEF CallPrefix
  <2>2. AsciiTaken(p, p)
    <3>1. Len(p) - Len(p) = 0
      BY <1>2
    <3> QED
      BY <1>2, <3>1, SuffixZero DEF AsciiTaken, AllAscii
  <2> QED
    BY <1>1, <2>1, <2>2 DEF SoFar, PrefixSoFar, ScanSoFar, CountSoFar, ValidSoFar
<1>4. CASE CallAscii
  <2>1. pc = "ascii" /\ count' = 0 /\ kpc' \in {"tail", "loop4"}
    BY <1>4 DEF CallAscii, Calling
  <2>2. width \in Nat
    BY SliceSizes DEF WholeInv
  <2>3. AllAscii(q, 0 * width)
    BY <2>2 DEF AllAscii
  <2> QED
    BY <1>1, <2>1, <2>3 DEF SoFar, PrefixSoFar, ScanSoFar, CountSoFar, ValidSoFar, AllAscii
<1>5. CASE CallValidate
  <2>1. /\ pc = "validate" /\ kpc' = "loop" /\ si' = 0 
        /\ prev' = Zeros(BlockOf(Kernel)) /\ err' = {}
    BY <1>5 DEF CallValidate, Calling, Entered
  <2>2. width \in Widths
    <3>1. width = B \/ width = 2 * B
      BY <2>1, TwoWidths DEF InKernels, WholeInv
    <3> QED
      BY <3>1, BAssumption, HalvesAssumption DEF Widths
  <2>3. Zeros(BlockOf(Kernel)) = [raw |-> Zero(width), high |-> Zero(width), carry |-> Zero(width)]
    BY <2>1, TwoWidths DEF Zeros, Zero, Lane, InKernels
  <2>4. BlocksJudged(width, q, 0, Zeros(BlockOf(Kernel)), {})
    BY <2>2, <2>3, JudgedNone
  <2>5. ValidSoFar'
    BY <1>1, <2>1, <2>4 DEF ValidSoFar, BlocksJudged, StructOK
  <2> QED
    BY <1>1, <2>1, <2>5 DEF SoFar, PrefixSoFar, ScanSoFar, CountSoFar
<1>6. CASE CallCount
  <2>1. pc = "count" /\ sum' = 0 /\ si' = 0 /\ kpc' = "loop"
    BY <1>6 DEF CallCount, Calling, Entered
  <2>2. Conts(q, 0) = {} /\ Cardinality(Conts(q, 0)) = 0
    BY FS_EmptySet DEF Conts
  <2>3. 0 * Weight' = 0
    BY DEF Weight
  <2>4. CountSoFar'
    BY <1>1, <2>1, <2>2, <2>3 DEF CountSoFar, Conts
  <2> QED
    BY <1>1, <2>1, <2>4 DEF SoFar, PrefixSoFar, ScanSoFar, ValidSoFar
<1> QED
  BY <1>3, <1>4, <1>5, <1>6 DEF Call

\* The kernels go on with it.
LEMMA RunsSoFar == WholeInv /\ SoFar /\ Run => SoFar'
<1> SUFFICES ASSUME WholeInv, SoFar, Run PROVE SoFar'
  OBVIOUS
<1>1. pc' = pc
  BY DriverKept DEF Run, RunPrefix, RunAscii, RunValidate, RunCount, Running
<1>2. CASE RunPrefix
  BY <1>1, <1>2, PrefixGoesOn DEF RunPrefix, SoFar, ScanSoFar, CountSoFar, ValidSoFar
<1>3. CASE RunAscii
  BY <1>1, <1>3, ScanGoesOn DEF RunAscii, SoFar, PrefixSoFar, CountSoFar, ValidSoFar
<1>4. CASE RunValidate
  BY <1>1, <1>4, ValidGoesOn DEF RunValidate, SoFar, PrefixSoFar, ScanSoFar, CountSoFar
<1>5. CASE RunCount
  BY <1>1, <1>5, CountGoesOn DEF RunCount, SoFar, PrefixSoFar, ScanSoFar, ValidSoFar
<1> QED
  BY <1>2, <1>3, <1>4, <1>5 DEF Run

\* A step of anything else.
LEMMA SameSoFar == SoFar /\ UNCHANGED << driver, frame >> => SoFar'
<1> SUFFICES ASSUME SoFar, UNCHANGED << driver, frame >> PROVE SoFar'
  OBVIOUS
<1>1. UNCHANGED << p, pc, width, blocks >> /\ q' = q /\ end' = end
  BY DriverKept
<1>2. UNCHANGED << port, n, si, prev, err, count, sum, rest, kpc, kret >>
  BY DEF frame
<1>3. PrefixSoFar'
  BY <1>1, <1>2 DEF SoFar, PrefixSoFar, Stuck, asciiPrefixLen, AsciiTaken
<1>4. ScanSoFar'
  BY <1>1, <1>2 DEF SoFar, ScanSoFar, AllAscii
<1>5. CountSoFar'
  BY <1>1, <1>2 DEF SoFar, CountSoFar, Conts, Weight
<1>6. ValidSoFar'
  BY <1>1, <1>2 DEF SoFar, ValidSoFar, BlocksJudged, StructOK
<1> QED
  BY <1>3, <1>4, <1>5, <1>6 DEF SoFar

\* What is known of a running kernel stays known.
LEMMA WholeSoFar == WholeSpec => []SoFar
<1>1. WholeInit => SoFar
  BY DEF WholeInit, SoFar, PrefixSoFar, ScanSoFar, CountSoFar, ValidSoFar
<1>2. WholeInv /\ SoFar /\ [WholeNext]_<< driver, frame >> => SoFar'
  <2>1. Return \/ Go => kpc' = "idle"
    BY DEF Return, Go, frame
  <2>2. kpc' = "idle" => SoFar'
    BY DEF SoFar, PrefixSoFar, ScanSoFar, CountSoFar, ValidSoFar
  <2> QED
    BY <2>1, <2>2, BeginsSoFar, RunsSoFar, SameSoFar DEF WholeNext
<1> QED
  BY WholeInvariance, <1>1, <1>2, PTL DEF WholeSpec

\* Every kernel, in every call on every machine, answers what Drivers takes for
\* its answer: the length of the ASCII prefix, the ASCII blocks, the judgement
\* of the blocks, their continuation bytes.
THEOREM KernelsAnswerRight == WholeSpec => []KernelsAnswer
<1>1. WholeInv /\ SoFar => KernelsAnswer
  <2> SUFFICES ASSUME WholeInv, SoFar, kpc = "done"
               PROVE  kret = CASE pc = "prefix"   -> asciiPrefixLen(p)
                               [] pc = "ascii"    -> LeadingAscii(q, blocks, width)
                               [] pc = "validate" -> IF StructOK(q, end) THEN 1 ELSE 0
                               [] pc = "count"    -> Cardinality(Conts(q, end))
    BY DEF KernelsAnswer
  <2>1. pc \in {"prefix", "ascii", "validate", "count"}
    BY DEF WholeInv, Frame, KernelPC
  <2>2. CASE pc = "prefix"
    BY <2>2 DEF SoFar, PrefixSoFar
  <2>3. CASE pc = "ascii"
    BY <2>3 DEF SoFar, ScanSoFar
  <2>4. CASE pc = "validate"
    BY <2>4 DEF SoFar, ValidSoFar
  <2>5. CASE pc = "count"
    BY <2>5 DEF SoFar, CountSoFar
  <2> QED
    BY <2>1, <2>2, <2>3, <2>4, <2>5
<1> QED
  BY WholeInvariance, WholeSoFar, <1>1, PTL

-----------------------------------------------------------------------------
(* The two levels                                                          *)

\* Seen from the driver, a call of a kernel and its steps are nothing, and its
\* return is the step of Drivers that asks it.
THEOREM WholeImplementsSafety == WholeSpec => Safety
<1>1. KernelsAnswer /\ [WholeNext]_<< driver, frame >> => [Next]_vars
  <2> SUFFICES ASSUME KernelsAnswer, [WholeNext]_<< driver, frame >>
               PROVE  Next \/ UNCHANGED vars
    OBVIOUS
  <2>1. CASE Call \/ Run \/ UNCHANGED << driver, frame >>
    BY <2>1 DEF Call, CallPrefix, CallAscii, CallValidate, CallCount, Calling,
                Run, RunPrefix, RunAscii, RunValidate, RunCount, Running, driver
  <2>2. CASE Return
    <3>1. kpc = "done"
      BY <2>2 DEF Return
    <3>2. ASSUME AsciiPrefixGives(kret) PROVE AsciiPrefix
      <4>1. kret = asciiPrefixLen(p)
        BY <3>1, <3>2 DEF KernelsAnswer, AsciiPrefixGives
      <4> QED
        BY <3>2, <4>1 DEF AsciiPrefix
    <3>3. ASSUME AsciiScanGives(kret) PROVE AsciiScan
      <4>1. kret = LeadingAscii(q, blocks, width)
        BY <3>1, <3>3 DEF KernelsAnswer, AsciiScanGives
      <4> QED
        BY <3>3, <4>1 DEF AsciiScan
    <3>4. ASSUME ValidateGives(kret) PROVE Validate
      <4>1. kret = IF StructOK(q, end) THEN 1 ELSE 0
        BY <3>1, <3>4 DEF KernelsAnswer, ValidateGives
      <4> QED
        BY <3>4, <4>1 DEF Validate
    <3>5. ASSUME CountGives(kret) PROVE Count
      <4>1. kret = Cardinality(Conts(q, end))
        BY <3>1, <3>5 DEF KernelsAnswer, CountGives
      <4> QED
        BY <3>5, <4>1 DEF Count
    <3> QED
      BY <2>2, <3>2, <3>3, <3>4, <3>5 DEF Return, Next
  <2>3. CASE Go
    BY <2>3 DEF Go, Next
  <2> QED
    BY <2>1, <2>2, <2>3 DEF WholeNext
<1>2. WholeInit => Init
  BY DEF WholeInit
<1> QED
  BY KernelsAnswerRight, <1>1, <1>2, PTL DEF WholeSpec, Safety

\* So with its kernels inside a call keeps everything proved of one without: it
\* stays in its slice, cuts at a rune, counts each rune once, and if it returns,
\* it returns what unicode/utf8 returns; and it traps only where it is said to.
THEOREM WholeReturnsRight ==
  WholeSpec => /\ []KernelBounds /\ []CutAtRune /\ []CountedOnce
               /\ RightIfReturned
               /\ NestedFeatures => []TrapsWhereUngated
               /\ NestedFeatures /\ HasSSE41 => []NoIllegalInstruction
<1> QED
  BY WholeImplementsSafety, KernelsStayInSlice, CutsAtRunes, CountsOnce, ReturnsRight,
     TrapsExactlyThere, NeverTraps, PTL

\* A kernel runs exactly while its driver waits for it, on the driver's slice.
THEOREM WholeTypeCorrect == WholeSpec => []WholeTypeOK
<1>1. WholeInv /\ TypeOK => WholeTypeOK
  <2> SUFFICES ASSUME WholeInv, TypeOK PROVE WholeTypeOK
    OBVIOUS
  <2>1. kpc # "idle" => pc \in {"prefix", "ascii", "validate", "count"}
    BY DEF WholeInv, Frame, KernelPC
  <2>2. ASSUME kpc # "idle", pc # "prefix"
        PROVE  port = Kernel /\ n = blocks /\ base + n * width <= Len(p)
    <3>1. port = Kernel /\ n = blocks
      BY <2>2 DEF WholeInv, SliceFrame
    <3>2. /\ base \in Nat /\ Len(p) \in Nat /\ Len(q) = Len(p) - base
          /\ blocks * width \in Nat /\ blocks * width <= Len(q)
      BY <2>1, <2>2, SliceSizes DEF WholeInv, InKernels
    <3> DEFINE bytes == blocks * width
    <3>3. base + bytes <= Len(p)
      <4> HIDE DEF bytes
      <4> QED
        BY <3>2 DEF bytes
    <3> QED
      BY <3>1, <3>3
  <2>3. rest \in Seq(Byte) /\ err \subseteq 0..(width - 1) /\ kret \in Nat
    BY DEF WholeInv, Frame
  <2> QED
    BY <2>1, <2>2, <2>3 DEF WholeTypeOK
<1> QED
  BY WholeInvariance, WholeImplementsSafety, DriversTypeCorrect, <1>1, PTL
=============================================================================
