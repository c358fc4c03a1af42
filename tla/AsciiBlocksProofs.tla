------------------------- MODULE AsciiBlocksProofs --------------------------
(***************************************************************************)
(* The ASCII scan kernels return the number of leading ASCII blocks, on    *)
(* every port, for every register width and every input.                   *)
(***************************************************************************)
EXTENDS AsciiBlocks, Lemmas

\* The next len bytes are ASCII.
Clear(k, len) == AsciiFrom(src, k, len)

\* A register has two halves of equal size.
LEMMA WFacts == W \in Nat /\ W >= 2 /\ W \div 2 \in Nat /\ 2 * (W \div 2) = W
BY WAssumption

\* All ports ask the same question of a group, and of a block.
LEMMA TestsAgree ==
  ASSUME NEW k \in Nat, port \in Ports
  PROVE  /\ GroupClear(k) <=> Clear(k, 4 * W)
         /\ BlockClear(k) <=> Clear(k, 1 * W)
<1> DEFINE h == W \div 2
<1>1. /\ \A m : HighLanes(k, m) = HighIn(src, k, m, W) /\ HighLanes(k, m) \subseteq 0..(W - 1)
      /\ \A lanes : Folded(lanes) = FoldIn(lanes, h)
  BY DEF HighLanes, HighIn, Folded, FoldIn
<1>2. /\ Folded(HighLanes(k, 4)) = {} <=> HighLanes(k, 4) = {}
      /\ Folded(HighLanes(k, 1)) = {} <=> HighLanes(k, 1) = {}
      /\ Cardinality(HighLanes(k, 1)) % 65536 = 0 <=> HighLanes(k, 1) = {}
  <2>1. h \in Nat /\ 2 * h = W /\ W \in Nat
    BY WFacts
  <2> HIDE DEF h
  <2>2. ASSUME NEW lanes, lanes \subseteq 0..(W - 1) PROVE Folded(lanes) = {} <=> lanes = {}
    <3>1. lanes \subseteq 0..(2 * h - 1)
      BY <2>1, <2>2
    <3> QED
      BY <1>1, <2>1, <3>1, FoldedClear
  <2>3. ASSUME NEW lanes, lanes \subseteq 0..(W - 1)
        PROVE  Cardinality(lanes) % 65536 = 0 <=> lanes = {}
    <3> DEFINE c == Cardinality(lanes)
    <3>1. c \in 0..W /\ (c = 0 <=> lanes = {})
      BY <2>1, <2>3, LanesNumber
    <3> HIDE DEF c
    <3>2. c % 65536 = c
      BY <2>1, <3>1, FitsWord, WAssumption
    <3> QED
      BY <3>1, <3>2 DEF c
  <2> QED
    BY <1>1, <2>2, <2>3
<1>3. /\ HighLanes(k, 4) = {} <=> Clear(k, 4 * W)
      /\ HighLanes(k, 1) = {} <=> Clear(k, 1 * W)
  BY <1>1, WFacts, LanesClear DEF Clear
<1>4. GroupClear(k) <=> HighLanes(k, 4) = {}
  BY <1>2 DEF GroupClear
<1>5. BlockClear(k) <=> HighLanes(k, 1) = {}
  <2>1. CASE port = "SSE"
    BY <2>1 DEF BlockClear
  <2>2. CASE port = "AVX2"
    BY <2>2 DEF BlockClear
  <2>3. CASE port = "VX"
    BY <1>2, <2>3 DEF BlockClear
  <2>4. CASE port = "NEON"
    <3>1. BlockClear(k) <=> Cardinality(HighLanes(k, 1)) % 65536 = 0
      BY <2>4 DEF BlockClear
    <3> QED
      BY <1>2, <3>1
  <2> QED
    BY <2>1, <2>2, <2>3, <2>4 DEF Ports
<1> QED
  BY <1>3, <1>4, <1>5

-----------------------------------------------------------------------------
(* The inductive invariant                                                 *)

\* The fast loop has groups left to do, and the blocks for them.
GroupsFit ==
  /\ pc = "loop4" => groups >= 1 /\ count + 4 * groups <= n
  /\ pc = "back"  => si = (count + 4) * W /\ count + 4 <= n /\ AllAscii(src, count * W)

\* The second loop does the rest.
RestFits == pc = "loop1" => left >= 1 /\ left = n - count

\* Where the kernel stops, it has passed all blocks or stands before one with a
\* high bit.
Stopped == pc = "exit" => count = n \/ ~ AllAscii(src, (count + 1) * W)

Inv == TypeOK /\ CountedPrefix /\ GroupsFit /\ RestFits /\ Stopped

\* Numbers of blocks and of bytes.
LEMMA Sizes ==
  ASSUME TypeOK
  PROVE  /\ W \in Nat /\ W >= 2 /\ n \in Nat /\ n >= 1 /\ count \in Nat /\ count <= n
         /\ groups \in Nat /\ left \in Nat /\ Len(src) \in Nat /\ n * W <= Len(src)
         /\ \A a \in Nat : /\ a * W \in Nat
                           /\ (a + 1) * W = a * W + W
                           /\ (a + 4) * W = a * W + 4 * W
                           /\ a <= n => a * W <= n * W
<1>1. /\ W \in Nat /\ W >= 2 /\ n \in Nat /\ n >= 1 /\ count \in Nat /\ count <= n
      /\ groups \in Nat /\ left \in Nat /\ Len(src) \in Nat /\ n * W <= Len(src)
  BY WFacts, AtByte DEF TypeOK
<1>2. ASSUME NEW a \in Nat
      PROVE  /\ a * W \in Nat
             /\ (a + 1) * W = a * W + W
             /\ (a + 4) * W = a * W + 4 * W
             /\ a <= n => a * W <= n * W
  BY <1>1, MulMono
<1> QED
  BY <1>1, <1>2

\* The loads of both loops.
LEMMA InvLoads == Inv => LoadsInBounds
<1> SUFFICES ASSUME Inv PROVE LoadsInBounds
  OBVIOUS
<1>1. TypeOK
  BY DEF Inv
<1>2. ASSUME pc = "loop4" PROVE si + 4 * W <= n * W
  <2>1. si = count * W /\ groups >= 1 /\ count + 4 * groups <= n
    BY <1>2 DEF Inv, CountedPrefix, GroupsFit
  <2>2. n \in Nat /\ count \in Nat /\ groups \in Nat
    BY <1>1, Sizes
  <2>3. count + 4 <= n /\ count + 4 \in Nat
    BY <2>1, <2>2
  <2>4. (count + 4) * W = count * W + 4 * W /\ (count + 4) * W <= n * W
    BY <1>1, <2>2, <2>3, Sizes
  <2> QED
    BY <2>1, <2>4
<1>3. ASSUME pc = "loop1" PROVE si + W <= n * W
  <2>1. si = count * W /\ left >= 1 /\ left = n - count
    BY <1>3 DEF Inv, CountedPrefix, RestFits
  <2>2. n \in Nat /\ count \in Nat
    BY <1>1, Sizes
  <2>3. count + 1 <= n /\ count + 1 \in Nat
    BY <2>1, <2>2
  <2>4. (count + 1) * W = count * W + W /\ (count + 1) * W <= n * W
    BY <1>1, <2>2, <2>3, Sizes
  <2> QED
    BY <2>1, <2>4
<1> QED
  BY <1>2, <1>3 DEF LoadsInBounds

\* Nothing is passed yet; the groups of four fit into the n blocks.
LEMMA InitInv == Init => Inv
<1> SUFFICES ASSUME Init PROVE Inv
  OBVIOUS
<1>1. /\ W \in Nat /\ port \in Ports /\ src \in Seq(Byte) /\ n \in 1..Len(src)
      /\ Len(src) \in Nat /\ n \in Nat /\ n >= 1
      /\ n * W <= Len(src) /\ si = 0 /\ count = 0 /\ left = 0 /\ ret = 0
      /\ groups = n \div 4 /\ pc = (IF groups = 0 THEN "tail" ELSE "loop4")
  BY SourcesAssumption, WFacts, AtByte DEF Init, Groups
<1>2. groups \in 0..n /\ 4 * groups <= n
  BY <1>1
<1>3. TypeOK
  BY <1>1, <1>2 DEF TypeOK
<1>4. CountedPrefix
  <2>1. 0 * W = 0
    BY <1>1
  <2> QED
    BY <1>1, <2>1 DEF CountedPrefix, AllAscii
<1>5. GroupsFit /\ RestFits /\ Stopped
  BY <1>1, <1>2 DEF GroupsFit, RestFits, Stopped
<1> QED
  BY <1>3, <1>4, <1>5 DEF Inv

\* A group that is clear is passed; the NEON port's pointer is behind one that is
\* not.
LEMMA GroupInv == Inv /\ Group => Inv'
<1> SUFFICES ASSUME Inv, Group PROVE Inv'
  OBVIOUS
<1>1. /\ TypeOK /\ pc = "loop4" /\ UNCHANGED << port, src, n, left, ret >>
      /\ si = count * W /\ AllAscii(src, count * W) /\ groups >= 1 /\ count + 4 * groups <= n
      /\ port \in Ports
  BY DEF Inv, TypeOK, CountedPrefix, GroupsFit, Group
<1>2. /\ W \in Nat /\ n \in Nat /\ count \in Nat /\ groups \in Nat /\ Len(src) \in Nat
      /\ n * W <= Len(src) /\ count + 4 \in Nat /\ count + 4 <= n
      /\ (count + 4) * W \in Nat /\ (count + 4) * W = count * W + 4 * W
      /\ (count + 4) * W <= n * W /\ count * W \in Nat /\ 4 * W \in Nat /\ n * W \in Nat
  <2>1. W \in Nat /\ n \in Nat /\ count \in Nat /\ groups \in Nat /\ Len(src) \in Nat
        /\ n * W <= Len(src)
    BY <1>1, Sizes
  <2>2. count + 4 \in Nat /\ count + 4 <= n
    BY <1>1, <2>1
  <2> QED
    BY <1>1, <2>1, <2>2, Sizes
<1>3. CASE GroupClear(si)
  <2>1. /\ si' = si + 4 * W /\ count' = count + 4 /\ groups' = groups - 1
        /\ pc' = (IF groups' # 0 THEN "loop4" ELSE "tail")
    BY <1>3 DEF Group
  <2>2. AllAscii(src, (count + 4) * W)
    <3>1. Clear(count * W, 4 * W)
      BY <1>1, <1>2, <1>3, TestsAgree
    <3> QED
      BY <1>1, <1>2, <3>1, AsciiFurther DEF Clear
  <2>3. si' = count' * W /\ si' \in 0..Len(src) /\ count' \in 0..n /\ groups' \in 0..n
    BY <1>1, <1>2, <2>1
  <2>4. TypeOK'
    BY <1>1, <2>1, <2>3 DEF TypeOK
  <2>5. CountedPrefix'
    BY <1>1, <1>2, <2>1, <2>2, <2>3 DEF CountedPrefix, AllAscii
  <2>6. GroupsFit'
    BY <1>1, <1>2, <2>1 DEF GroupsFit
  <2> QED
    BY <2>1, <2>4, <2>5, <2>6 DEF Inv, RestFits, Stopped
<1>4. CASE ~ GroupClear(si)
  <2>1. /\ si' = (IF port = "NEON" THEN si + 4 * W ELSE si) /\ count' = count /\ groups' = groups
        /\ pc' = (IF port = "NEON" THEN "back" ELSE "tail")
    BY <1>4 DEF Group, AfterGroup
  <2>2. si' \in 0..Len(src)
    BY <1>1, <1>2, <2>1
  <2>3. TypeOK'
    BY <1>1, <2>1, <2>2 DEF TypeOK
  <2>4. CountedPrefix'
    BY <1>1, <2>1 DEF CountedPrefix, AllAscii
  <2>5. GroupsFit'
    BY <1>1, <1>2, <2>1 DEF GroupsFit, AllAscii
  <2> QED
    BY <2>1, <2>3, <2>4, <2>5 DEF Inv, RestFits, Stopped
<1> QED
  BY <1>3, <1>4

\* And it is taken back.
LEMMA BackInv == Inv /\ Back => Inv'
<1> SUFFICES ASSUME Inv, Back PROVE Inv'
  OBVIOUS
<1>1. /\ TypeOK /\ pc = "back" /\ UNCHANGED << port, src, n, count, groups, left, ret >>
      /\ si' = si - 4 * W /\ pc' = "tail"
      /\ si = (count + 4) * W /\ AllAscii(src, count * W)
  BY DEF Inv, GroupsFit, Back
<1>2. si' = count * W /\ si' \in 0..Len(src)
  <2>1. /\ count \in Nat /\ count <= n /\ n * W <= Len(src) /\ W \in Nat /\ n * W \in Nat
        /\ count * W \in Nat /\ count * W <= n * W /\ (count + 4) * W = count * W + 4 * W
        /\ Len(src) \in Nat
    BY <1>1, Sizes
  <2> QED
    BY <1>1, <2>1
<1>3. TypeOK'
  BY <1>1, <1>2 DEF TypeOK
<1>4. CountedPrefix'
  BY <1>1, <1>2 DEF CountedPrefix, AllAscii
<1> QED
  BY <1>1, <1>3, <1>4 DEF Inv, GroupsFit, RestFits, Stopped

\* What the second loop does is what the first one left.
LEMMA RemainderInv == Inv /\ Remainder => Inv'
<1> SUFFICES ASSUME Inv, Remainder PROVE Inv'
  OBVIOUS
<1>1. /\ TypeOK /\ pc = "tail" /\ UNCHANGED << port, src, n, si, count, groups, ret >>
      /\ left' = n - count /\ pc' = (IF left' = 0 THEN "exit" ELSE "loop1")
      /\ n \in Nat /\ count \in Nat /\ count <= n
  BY Sizes DEF Inv, Remainder
<1>2. left' \in 0..n /\ (left' = 0 => count = n) /\ (left' # 0 => left' >= 1)
  BY <1>1
<1>3. TypeOK'
  BY <1>1, <1>2 DEF TypeOK
<1>4. CountedPrefix'
  BY <1>1 DEF Inv, CountedPrefix, AllAscii
<1> QED
  BY <1>1, <1>2, <1>3, <1>4 DEF Inv, GroupsFit, RestFits, Stopped

\* A block that is clear is passed; one that is not ends the scan.
LEMMA OneInv == Inv /\ One => Inv'
<1> SUFFICES ASSUME Inv, One PROVE Inv'
  OBVIOUS
<1>1. /\ TypeOK /\ pc = "loop1" /\ UNCHANGED << port, src, n, groups, ret >>
      /\ si = count * W /\ AllAscii(src, count * W) /\ left >= 1 /\ left = n - count
      /\ port \in Ports
  BY DEF Inv, TypeOK, CountedPrefix, RestFits, One
<1>2. /\ W \in Nat /\ n \in Nat /\ count \in Nat /\ Len(src) \in Nat
      /\ n * W <= Len(src) /\ count + 1 \in Nat /\ count + 1 <= n /\ n * W \in Nat
      /\ (count + 1) * W \in Nat /\ (count + 1) * W = count * W + 1 * W
      /\ (count + 1) * W <= n * W /\ count * W \in Nat /\ 1 * W \in Nat /\ 1 * W = W
  <2>1. W \in Nat /\ n \in Nat /\ count \in Nat /\ Len(src) \in Nat /\ n * W <= Len(src)
        /\ left \in Nat
    BY <1>1, Sizes
  <2>2. count + 1 \in Nat /\ count + 1 <= n /\ 1 * W = W
    BY <1>1, <2>1
  <2>3. (count + 1) * W = count * W + W
    BY <1>1, <2>1, Sizes
  <2> QED
    BY <1>1, <2>1, <2>2, <2>3, Sizes
<1>3. AllAscii(src, (count + 1) * W) <=> BlockClear(si)
  <2>1. BlockClear(count * W) <=> Clear(count * W, 1 * W)
    BY <1>1, <1>2, TestsAgree
  <2>2. AllAscii(src, count * W + 1 * W) <=> AllAscii(src, count * W) /\ Clear(count * W, 1 * W)
    BY <1>2, AsciiFurther DEF Clear
  <2>3. AllAscii(src, (count + 1) * W) <=> Clear(count * W, 1 * W)
    BY <1>1, <1>2, <2>2, Zenon
  <2> QED
    BY <1>1, <2>1, <2>3, Zenon
<1>4. CASE BlockClear(si)
  <2>1. /\ si' = si + W /\ count' = count + 1 /\ left' = left - 1
        /\ pc' = (IF left' # 0 THEN "loop1" ELSE "exit")
    BY <1>4 DEF One
  <2>2. /\ si' = count' * W /\ si' \in 0..Len(src) /\ count' \in 0..n /\ left' \in 0..n
        /\ left' = n - count' /\ (left' # 0 => left' >= 1) /\ (left' = 0 => count' = n)
    BY <1>1, <1>2, <2>1
  <2>3. TypeOK'
    BY <1>1, <2>1, <2>2 DEF TypeOK
  <2>4. CountedPrefix'
    BY <1>1, <1>2, <1>3, <1>4, <2>1, <2>2 DEF CountedPrefix, AllAscii
  <2>5. RestFits' /\ Stopped' /\ GroupsFit'
    BY <1>1, <2>1, <2>2 DEF RestFits, Stopped, GroupsFit
  <2> QED
    BY <2>3, <2>4, <2>5 DEF Inv
<1>5. CASE ~ BlockClear(si)
  <2>1. UNCHANGED << si, count, left >> /\ pc' = "exit"
    BY <1>5 DEF One
  <2>2. TypeOK'
    BY <1>1, <2>1 DEF TypeOK
  <2>3. CountedPrefix'
    BY <1>1, <2>1 DEF CountedPrefix, AllAscii
  <2>4. Stopped'
    BY <1>1, <1>3, <1>5, <2>1 DEF Stopped, AllAscii
  <2> QED
    BY <2>1, <2>2, <2>3, <2>4 DEF Inv, GroupsFit, RestFits
<1> QED
  BY <1>4, <1>5

\* Returning moves nothing.
LEMMA ReturnInv == Inv /\ Return => Inv'
<1> SUFFICES ASSUME Inv, Return PROVE Inv'
  OBVIOUS
<1>1. /\ TypeOK /\ pc = "exit" /\ UNCHANGED << port, src, n, si, count, groups, left >>
      /\ ret' = count /\ pc' = "done"
  BY DEF Inv, Return
<1>2. TypeOK'
  BY <1>1 DEF TypeOK
<1>3. CountedPrefix'
  BY <1>1 DEF Inv, CountedPrefix, AllAscii
<1> QED
  BY <1>1, <1>2, <1>3 DEF Inv, GroupsFit, RestFits, Stopped

\* A stuttering step changes nothing.
LEMMA StutterInv == Inv /\ UNCHANGED vars => Inv'
BY DEF Inv, TypeOK, CountedPrefix, GroupsFit, RestFits, Stopped, AllAscii, vars

\* The invariant holds in every run, on every port, for every register width up to
\* 65534 lanes and every input.
THEOREM ScanInvariance == Spec => []Inv
<1>1. Inv /\ [Next]_vars => Inv'
  BY GroupInv, BackInv, RemainderInv, OneInv, ReturnInv, StutterInv DEF Next
<1> QED
  BY InitInv, <1>1, PTL DEF Spec

\* The state keeps its shape.
THEOREM ScanTypeCorrect == Spec => []TypeOK
<1>1. Inv => TypeOK
  BY DEF Inv
<1> QED
  BY ScanInvariance, <1>1, PTL

\* No load of either loop reaches past the n blocks of the call.
THEOREM ScanLoadsInBounds == Spec => []LoadsInBounds
BY ScanInvariance, InvLoads, PTL

\* The blocks counted are the blocks passed, and they are ASCII, on NEON too.
THEOREM ScanCountsPrefix == Spec => []CountedPrefix
<1>1. Inv => CountedPrefix
  BY DEF Inv
<1> QED
  BY ScanInvariance, <1>1, PTL

\* Every step of a kernel is, for its caller, a stutter or the one step its
\* declaration promises: the number of leading ASCII blocks, not fewer.
THEOREM ScanKeepsPromise == Spec => Promise!Safety
<1>1. Init => Promise!Init
  <2> SUFFICES ASSUME Init PROVE Promise!Init
    OBVIOUS
  <2>1. src \in Seq(Byte) /\ pc # "done"
    BY SourcesAssumption DEF Init
  <2> QED
    BY <2>1 DEF Init, Promise!Init, Promise!Byte, Byte
<1>2. Inv /\ [Next]_vars => [Promise!Return]_(Promise!vars)
  <2> SUFFICES ASSUME Inv, [Next]_vars
               PROVE  Promise!Return \/ UNCHANGED Promise!vars
    OBVIOUS
  <2>1. CASE Group \/ Back \/ Remainder \/ One
    <3>1. UNCHANGED << src, n, ret >> /\ pc # "done" /\ pc' # "done"
      BY <2>1 DEF Group, Back, Remainder, One, AfterGroup
    <3> QED
      BY <3>1 DEF Promise!vars
  <2>2. CASE Return
    <3>1. /\ count \in 0..n /\ n \in Nat /\ W \in Nat /\ AllAscii(src, count * W)
          /\ count = n \/ ~ AllAscii(src, (count + 1) * W)
      BY <2>2, Sizes DEF Inv, TypeOK, CountedPrefix, Stopped, Return
    <3>2. count < n => ~ AllAscii(src, (count + 1) * W)
      BY <3>1
    <3>3. Leading(src, n) = count
      BY <3>1, <3>2, LeadingAsciiUnique DEF Leading
    <3> QED
      BY <2>2, <3>3 DEF Return, Promise!Return
  <2>3. CASE UNCHANGED vars
    BY <2>3 DEF vars, Promise!vars
  <2> QED
    BY <2>1, <2>2, <2>3 DEF Next
<1> QED
  BY ScanInvariance, <1>1, <1>2, PTL DEF Spec, Promise!Safety
=============================================================================
