-------------------------- MODULE CountContProofs ---------------------------
(***************************************************************************)
(* The counting kernels return the number of continuation bytes, on every  *)
(* port, for every register width up to 256 lanes and every input.         *)
(***************************************************************************)
EXTENDS CountCont, Lemmas

\* What a port adds for one continuation byte.
Weight == IF port = "NEON" THEN 255 ELSE 1

\* The ports count the same lanes: VSX in two halves, NEON times 255, which the
\* 16-bit lane holds.
LEMMA BlockCountExact ==
  ASSUME NEW k, port \in Ports
  PROVE  BlockCount(k) = Cardinality(ContsIn(src, k, 0, W)) * Weight
<1> DEFINE c == Cardinality(ContsIn(src, k, 0, W))
<1>1. W \in Nat /\ W <= 256 /\ W \div 2 \in Nat /\ W \div 2 <= W
  BY WAssumption
<1>2. \A a, b : Marked(k, a, b) = ContsIn(src, k, a, b)
  BY DEF Marked, ContsIn
<1>3. c \in 0..W
  BY <1>1, ContsInFinite
<1> HIDE DEF c
<1>4. CASE port \in {"SSE", "AVX2", "VX"}
  BY <1>2, <1>3, <1>4 DEF BlockCount, MaskBits, Weight, c
<1>5. CASE port = "NEON"
  <2>1. (255 * c) % 65536 = c * 255
    BY <1>1, WeighedFits DEF c
  <2> QED
    BY <1>2, <1>5, <2>1 DEF BlockCount, WideSum, Weight, c
<1>6. CASE port = "VSX"
  <2>1. Cardinality(ContsIn(src, k, 0, W \div 2)) + Cardinality(ContsIn(src, k, W \div 2, W)) = c
    BY <1>1, ContsInHalves DEF c
  <2>2. c * 1 = c
    BY <1>1, <1>3
  <2> QED
    BY <1>2, <1>6, <2>1, <2>2 DEF BlockCount, Doublewords, Weight, c
<1> QED
  BY <1>4, <1>5, <1>6 DEF Ports, c

\* The inductive invariant.
Inv == TypeOK /\ AccExact

\* The bytes consumed are whole blocks of the call.
LEMMA NWFacts ==
  ASSUME TypeOK
  PROVE  /\ W \in Nat /\ W >= 2 /\ n \in Nat /\ cx \in Nat /\ cx <= n /\ n - cx \in Nat
         /\ n * W \in Nat /\ si = (n - cx) * W /\ si \in 0..(n * W)
<1>1. W \in Nat /\ W >= 2 /\ n \in Nat /\ cx \in Nat /\ cx <= n /\ n - cx \in Nat /\ n - cx <= n
      /\ si = (n - cx) * W
  BY WAssumption, AtByte DEF TypeOK
<1>2. (n - cx) * W \in Nat /\ n * W \in Nat /\ (n - cx) * W <= n * W
  BY <1>1, MulMono
<1> QED
  BY <1>1, <1>2

\* Nothing is consumed, nothing counted.
LEMMA InitInv == Init => Inv
<1> SUFFICES ASSUME Init PROVE Inv
  OBVIOUS
<1>1. /\ W \in Nat /\ port \in Ports /\ src \in Seq(Byte) /\ n \in 1..Len(src)
      /\ Len(src) \in Nat /\ n \in Nat
      /\ n * W <= Len(src) /\ si = 0 /\ cx = n /\ acc = 0 /\ pc = "loop" /\ ret = 0
  BY SourcesAssumption, WAssumption, AtByte DEF Init
<1>2. n - cx = 0 /\ 0 * W = 0 /\ n * W \in Nat /\ 255 * n * W \in Nat
  BY <1>1
<1>3. TypeOK
  BY <1>1, <1>2 DEF TypeOK
<1>4. Conts(src, 0) = {}
  BY DEF Conts
<1>5. Cardinality(Conts(src, si)) = 0
  BY <1>1, <1>4, FS_EmptySet
<1> QED
  BY <1>1, <1>3, <1>5 DEF Inv, AccExact

\* An iteration adds the continuation bytes of its block.
LEMMA IterateInv == Inv /\ Iterate => Inv'
<1> SUFFICES ASSUME Inv, Iterate PROVE Inv'
  OBVIOUS
<1> DEFINE c  == Cardinality(Conts(src, si))
           m  == Cardinality(ContsIn(src, si, 0, W))
           cn == Cardinality(Conts(src, si + W))
<1>1. /\ W \in Nat /\ W >= 2 /\ n \in Nat /\ cx \in Nat /\ cx <= n /\ n * W \in Nat
      /\ si = (n - cx) * W /\ si \in Nat /\ port \in Ports /\ pc = "loop" /\ cx > 0
      /\ acc = c * Weight /\ acc' = acc + BlockCount(si) /\ si' = si + W /\ cx' = cx - 1
      /\ pc' = (IF cx' # 0 THEN "loop" ELSE "exit")
      /\ UNCHANGED << port, src, n, ret >>
  BY NWFacts DEF Inv, TypeOK, AccExact, Weight, Iterate, More
<1>2. si' = (n - cx') * W /\ cx' \in 0..n /\ n - cx' \in Nat /\ n - cx' <= n
  <2>1. n - cx \in Nat /\ n - cx' = (n - cx) + 1
    BY <1>1
  <2>2. \A a \in Nat : (a + 1) * W = a * W + W
    BY <1>1
  <2> QED
    BY <1>1, <2>1, <2>2
<1>3. si' \in Nat /\ si' <= n * W
  BY <1>1, <1>2, MulMono
<1>4. /\ c \in 0..si /\ cn = c + m
  BY <1>1, ContsAdvance
<1>5. m \in 0..W
  <2>1. W \in Nat /\ 0 <= W
    BY <1>1
  <2> QED
    BY <2>1, ContsInFinite
<1>6. BlockCount(si) = m * Weight
  BY <1>1, BlockCountExact
<1>7. cn \in 0..si'
  BY <1>1, <1>3, ContsAdvance
<1> HIDE DEF c, m, cn
<1>8. Weight \in {1, 255}
  BY DEF Weight
<1>9. acc' = cn * Weight
  BY <1>1, <1>4, <1>5, <1>6, <1>8
<1>10. AccExact'
  BY <1>1, <1>9 DEF AccExact, Weight, cn
<1>11. acc' \in 0..(255 * n * W)
  <2>1. 255 * n * W = 255 * (n * W)
    BY <1>1
  <2>2. cn \in Nat /\ cn <= n * W
    BY <1>1, <1>3, <1>7
  <2>3. cn * Weight \in Nat /\ cn * Weight <= 255 * (n * W)
    BY <1>1, <1>8, <2>2
  <2> QED
    BY <1>9, <2>1, <2>3
<1>12. TypeOK'
  BY <1>1, <1>2, <1>11 DEF Inv, TypeOK
<1> QED
  BY <1>10, <1>12 DEF Inv

\* At the end of the loop the accumulator is undone to the count.
LEMMA TotalExact ==
  ASSUME Inv, pc = "exit"
  PROVE  Total = Cardinality(Conts(src, n * W)) /\ Total \in 0..(n * W)
<1> DEFINE c == Cardinality(Conts(src, si))
<1>1. /\ n * W \in Nat /\ si \in Nat /\ si = (n - cx) * W /\ cx = 0 /\ n \in Nat
  BY NWFacts DEF Inv, TypeOK
<1>2. si = n * W
  <2>1. n - cx = n
    BY <1>1
  <2> QED
    BY <1>1, <2>1
<1>3. c \in 0..si
  BY <1>1, ContsAdvance
<1>4. acc = c * Weight
  BY DEF Inv, AccExact, Weight
<1> HIDE DEF c
<1>5. CASE port = "NEON"
  <2>1. (c * 255) \div 255 = c
    BY <1>1, <1>3
  <2> QED
    BY <1>2, <1>3, <1>4, <1>5, <2>1 DEF Total, Weight, c
<1>6. CASE port # "NEON"
  <2>1. c * 1 = c
    BY <1>1, <1>3
  <2> QED
    BY <1>2, <1>3, <1>4, <1>6, <2>1 DEF Total, Weight, c
<1> QED
  BY <1>5, <1>6

\* The result is the count of all n blocks.
LEMMA ReturnInv == Inv /\ Return => Inv'
<1> SUFFICES ASSUME Inv, Return PROVE Inv'
  OBVIOUS
<1>1. ret' \in 0..(n * W)
  BY TotalExact DEF Return
<1>2. TypeOK'
  BY <1>1 DEF Inv, TypeOK, Return
<1>3. AccExact'
  BY DEF Inv, AccExact, Return
<1> QED
  BY <1>2, <1>3 DEF Inv

\* A stuttering step changes nothing.
LEMMA StutterInv == Inv /\ UNCHANGED vars => Inv'
BY DEF Inv, TypeOK, AccExact, vars

\* The invariant holds in every run, on every port and every input.
THEOREM CountInvariance == Spec => []Inv
<1>1. Inv /\ [Next]_vars => Inv'
  BY IterateInv, ReturnInv, StutterInv DEF Next
<1> QED
  BY InitInv, <1>1, PTL DEF Spec

\* The pointer stays within the n blocks, and the accumulator below 255 times
\* their bytes.
THEOREM CountTypeCorrect == Spec => []TypeOK
<1>1. Inv => TypeOK
  BY DEF Inv
<1> QED
  BY CountInvariance, <1>1, PTL

\* After every iteration the accumulator is the number of continuation bytes
\* consumed, times 255 on NEON: no lane wraps.
THEOREM AccumulatorExact == Spec => []AccExact
<1>1. Inv => AccExact
  BY DEF Inv
<1> QED
  BY CountInvariance, <1>1, PTL

\* Every step of a kernel is, for its caller, a stutter or the one step its
\* declaration promises.
THEOREM CountKeepsPromise == Spec => Promise!Safety
<1>1. Init => Promise!Init
  <2> SUFFICES ASSUME Init PROVE Promise!Init
    OBVIOUS
  <2>1. src \in Seq(Byte)
    BY SourcesAssumption DEF Init
  <2> QED
    BY <2>1 DEF Init, Promise!Init, Promise!Byte, Byte
<1>2. Inv /\ [Next]_vars => [Promise!Return]_(Promise!vars)
  <2> SUFFICES ASSUME Inv, [Next]_vars
               PROVE  Promise!Return \/ UNCHANGED Promise!vars
    OBVIOUS
  <2>1. CASE Iterate
    BY <2>1 DEF Iterate, Promise!vars
  <2>2. CASE Return
    <3>1. ret' = ContCount(src, n)
      BY <2>2, TotalExact DEF Return, ContCount
    <3> QED
      BY <2>2, <3>1 DEF Return, Promise!Return
  <2>3. CASE UNCHANGED vars
    BY <2>3 DEF vars, Promise!vars
  <2> QED
    BY <2>1, <2>2, <2>3 DEF Next
<1> QED
  BY CountInvariance, <1>1, <1>2, PTL DEF Spec, Promise!Safety
=============================================================================
