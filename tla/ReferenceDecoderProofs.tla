----------------------- MODULE ReferenceDecoderProofs -----------------------
(***************************************************************************)
(* The decoding loops compute what module Utf8 says without a loop, for    *)
(* every byte slice.                                                       *)
(***************************************************************************)
EXTENDS ReferenceDecoder, Lemmas

\* Valid goes on only while the runes it has decoded are well formed.
GoodSoFar == op = "valid" => \A k \in StartsBelow(p, i) : RuneOk(p, k)

\* The inductive invariant.  The last conjunct is what makes a "true" of Valid
\* right, the second what makes a count right.
Inv == TypeOK /\ StopsAtStarts /\ GoodSoFar

\* The loop stands at a cut of the slice, whatever it decodes next.
LEMMA StandsAtStart ==
  ASSUME TypeOK, StopsAtStarts
  PROVE  /\ Cut(p, i)
         /\ count = Cardinality(StartsBelow(p, i))
         /\ i < Len(p) => i \in Index(p) /\ IsStart(p, i)
<1>1. Len(p) \in Nat /\ i \in Nat /\ i \in 0..Len(p)
  BY AtByte DEF TypeOK
<1>2. i < Len(p) => i \in Index(p) /\ IsStart(p, i)
  BY <1>1 DEF StopsAtStarts, Starts
<1>3. count = Cardinality(StartsBelow(p, i))
  BY DEF StopsAtStarts, StartsBelow
<1> QED
  BY <1>1, <1>2, <1>3 DEF Cut

\* Before the first rune there is none.
LEMMA InitInv == Init => Inv
<1> SUFFICES ASSUME Init PROVE Inv
  OBVIOUS
<1>1. p \in Seq(Byte) /\ Len(p) \in Nat
  BY SourcesAssumption, AtByte DEF Init
<1>2. TypeOK
  BY <1>1 DEF Init, TypeOK
<1>3. StartsBelow(p, 0) = {}
  BY <1>1 DEF StartsBelow, Starts, Index
<1>4. StopsAtStarts
  <2>1. i = Len(p) \/ i \in Starts(p)
    BY <1>1, FirstIsStart DEF Init, Starts, Index
  <2> QED
    BY <1>3, <2>1, FS_EmptySet DEF Init, StopsAtStarts, StartsBelow
<1>5. GoodSoFar
  BY <1>3 DEF Init, GoodSoFar
<1> QED
  BY <1>2, <1>4, <1>5 DEF Inv

\* A rune takes the loop from a start to the next.
LEMMA RuneInv == Inv /\ Rune => Inv'
<1> SUFFICES ASSUME Inv, Rune PROVE Inv'
  OBVIOUS
<1> USE DEF Inv
<1>1. /\ p \in Seq(Byte) /\ Len(p) \in Nat /\ i \in Nat /\ count \in 0..i /\ i < Len(p)
      /\ p' = p /\ op' = op /\ op \in {"valid", "runeCount"} /\ i \in Index(p)
      /\ IsStart(p, i) /\ result \in Nat /\ pc \in {"loop", "done"}
  BY AtByte, StandsAtStart DEF TypeOK, Rune
<1>2. CASE op = "valid" /\ ~ RuneOk(p, i)
  <2>1. i' = i /\ count' = count /\ pc' = "done" /\ result' = 0
    BY <1>2 DEF Rune
  <2>2. TypeOK'
    BY <1>1, <2>1 DEF TypeOK
  <2>3. StopsAtStarts' /\ GoodSoFar'
    BY <1>1, <2>1 DEF StopsAtStarts, GoodSoFar
  <2> QED
    BY <2>2, <2>3
<1>3. CASE ~ (op = "valid" /\ ~ RuneOk(p, i))
  <2>1. /\ i' = i + RuneWidth(p, i) /\ count' = count + 1 /\ pc' = pc /\ result' = result
    BY <1>3 DEF Rune, Width, RuneWidth
  <2>2. /\ RuneWidth(p, i) \in 1..4 /\ Cut(p, i') /\ i' \in Nat
        /\ StartsBelow(p, i') = StartsBelow(p, i) \cup {i}
        /\ Cardinality(StartsBelow(p, i')) = Cardinality(StartsBelow(p, i)) + 1
    BY <1>1, <2>1, NextStart, NextStartCount
  <2>3. i' \in 0..Len(p) /\ count' \in 0..i'
    BY <1>1, <2>1, <2>2 DEF Cut
  <2>4. TypeOK'
    BY <1>1, <2>1, <2>3 DEF TypeOK
  <2>5. StopsAtStarts'
    <3>1. i' = Len(p) \/ i' \in Starts(p)
      BY <1>1, <2>2, <2>3 DEF Cut, Starts, Index
    <3>2. count' = Cardinality(StartsBelow(p, i'))
      BY <2>1, <2>2, StandsAtStart
    <3> QED
      BY <1>1, <3>1, <3>2 DEF StopsAtStarts, StartsBelow
  <2>6. GoodSoFar'
    BY <1>1, <1>3, <2>2 DEF GoodSoFar
  <2> QED
    BY <2>4, <2>5, <2>6
<1> QED
  BY <1>2, <1>3

\* Returning moves nothing.
LEMMA ReturnInv == Inv /\ Return => Inv'
<1> SUFFICES ASSUME Inv, Return PROVE Inv'
  OBVIOUS
<1>1. TypeOK'
  BY DEF Inv, TypeOK, Return
<1>2. StopsAtStarts' /\ GoodSoFar'
  BY DEF Inv, StopsAtStarts, GoodSoFar, Return
<1> QED
  BY <1>1, <1>2 DEF Inv

\* Nor does a stuttering step.
LEMMA StutterInv == Inv /\ UNCHANGED vars => Inv'
BY DEF Inv, TypeOK, StopsAtStarts, GoodSoFar, vars

\* The invariant holds in every run of either loop on every slice.
THEOREM DecoderInvariance == Spec => []Inv
<1>1. Inv /\ [Next]_vars => Inv'
  BY RuneInv, ReturnInv, StutterInv DEF Next
<1> QED
  BY InitInv, <1>1, PTL DEF Spec

\* The loop never leaves the slice, and never counts more runes than bytes.
THEOREM DecoderTypeCorrect == Spec => []TypeOK
<1>1. Inv => TypeOK
  BY DEF Inv
<1> QED
  BY DecoderInvariance, <1>1, PTL

\* The loop stops at the positions Starts names, at each of them once: the
\* definition of a rune boundary that the drivers are proved against is the one
\* the decoder of the standard library walks.
THEOREM DecoderStopsAtStarts == Spec => []StopsAtStarts
<1>1. Inv => StopsAtStarts
  BY DEF Inv
<1> QED
  BY DecoderInvariance, <1>1, PTL

\* What the validator kernels compute of a prefix is its validity, wherever the
\* decoder stands.
THEOREM DecoderPrefixJudged == Spec => []PrefixJudged
<1>1. TypeOK => PrefixJudged
  BY PrefixValid DEF TypeOK, PrefixJudged
<1> QED
  BY DecoderTypeCorrect, <1>1, PTL

\* The instance of the documented interface speaks of the same functions.
LEMMA SameAnswer ==
  ASSUME NEW o, NEW s
  PROVE  API!Answer(o, s) = Answer(o, s)
<1>1. ASSUME NEW j PROVE API!SeqLen(At(s, j)) = SeqLen(At(s, j)) /\ API!At(s, j) = At(s, j)
  BY DEF API!SeqLen, SeqLen, API!At, At
<1>2. ASSUME NEW j PROVE API!RuneOk(s, j) <=> RuneOk(s, j)
  BY <1>1 DEF API!RuneOk, RuneOk, API!SecondBytes, SecondBytes, API!IsCont, IsCont, API!At, At,
              API!SeqLen, SeqLen
<1>3. ASSUME NEW j PROVE API!IsStart(s, j) <=> IsStart(s, j)
  BY <1>1, <1>2 DEF API!IsStart, IsStart
<1>4. API!Starts(s) = Starts(s)
  BY <1>3 DEF API!Starts, Starts, API!Index, Index
<1>5. (API!Valid(s) <=> Valid(s)) /\ API!RuneCount(s) = RuneCount(s)
  <2>1. API!Cardinality(Starts(s)) = Cardinality(Starts(s))
    BY DEF API!Cardinality, Cardinality
  <2> QED
    BY <1>2, <1>4, <2>1 DEF API!Valid, Valid, API!RuneCount, RuneCount
<1> QED
  BY <1>5 DEF API!Answer, Answer

\* Every step of a loop is, for its caller, a stutter or the return of the
\* answer that module Utf8 defines.
THEOREM DecodesSafely == Spec => API!Safety
<1>1. Init => API!Init
  <2> SUFFICES ASSUME Init PROVE API!Init
    OBVIOUS
  <2>1. p \in Seq(Byte)
    BY SourcesAssumption DEF Init
  <2> QED
    BY <2>1 DEF Init, API!Init, API!Byte, Byte, API!SliceOps, API!StringOps
<1>2. Inv /\ [Next]_vars => [API!Return]_(API!vars)
  <2> SUFFICES ASSUME Inv, [Next]_vars
               PROVE  API!Return \/ UNCHANGED API!vars
    OBVIOUS
  <2>1. CASE Rune
    <3>1. CASE op = "valid" /\ ~ RuneOk(p, i)
      <4>1. i \in Starts(p)
        BY <2>1, StandsAtStart DEF Inv, Rune, Starts
      <4>2. ~ Valid(p)
        BY <3>1, <4>1 DEF Valid
      <4>3. Answer(op, p) = 0
        BY <3>1, <4>2 DEF Answer
      <4> QED
        BY <2>1, <3>1, <4>3, SameAnswer DEF Rune, API!Return
    <3>2. CASE ~ (op = "valid" /\ ~ RuneOk(p, i))
      BY <2>1, <3>2 DEF Rune, API!vars
    <3> QED
      BY <3>1, <3>2
  <2>2. CASE Return
    <3>1. p \in Seq(Byte) /\ i = Len(p) /\ op \in {"valid", "runeCount"}
      BY <2>2 DEF Inv, TypeOK, Return
    <3>2. StartsBelow(p, i) = Starts(p) /\ count = RuneCount(p)
      BY <3>1, AtByte, RuneCountBelow, StandsAtStart DEF Inv, StartsBelow, Starts, Index
    <3>3. op = "valid" => Valid(p)
      BY <3>2 DEF Inv, GoodSoFar, Valid
    <3>4. Answer(op, p) = IF op = "valid" THEN 1 ELSE count
      BY <3>1, <3>2, <3>3 DEF Answer
    <3> QED
      BY <2>2, <3>4, SameAnswer DEF Return, API!Return
  <2>3. CASE UNCHANGED vars
    BY <2>3 DEF vars, API!vars
  <2> QED
    BY <2>1, <2>2, <2>3 DEF Next
<1> QED
  BY DecoderInvariance, <1>1, <1>2, PTL DEF Spec, API!Safety
=============================================================================
