------------------------ MODULE AsciiPrefixLenProofs ------------------------
(***************************************************************************)
(* asciiPrefixLen returns the length of the longest ASCII prefix, for      *)
(* every word size and every slice.                                        *)
(***************************************************************************)
EXTENDS AsciiPrefixLen, Lemmas

\* The byte loop has ended: nothing is left, or a byte that is not ASCII.
Stuck == Len(p) > 0 => ~ IsAscii(At(p, 0))

\* The inductive invariant.
Inv ==
  /\ TypeOK /\ OnlyAsciiTaken
  /\ pc = "exit" => Stuck
  /\ Maximal

\* Nothing is taken yet.
LEMMA InitInv == Init => Inv
<1> SUFFICES ASSUME Init PROVE Inv
  OBVIOUS
<1>1. /\ orig \in Seq(Byte) /\ p = orig /\ Len(orig) \in Nat /\ ret = 0 /\ pc = "quads"
      /\ Suffix(orig, 0) = orig
  BY SourcesAssumption, AtByte, SuffixZero DEF Init
<1>2. TypeOK
  BY <1>1 DEF TypeOK
<1>3. OnlyAsciiTaken
  <2>1. Len(orig) - Len(p) = 0
    BY <1>1
  <2> QED
    BY <1>1, <2>1 DEF OnlyAsciiTaken, AllAscii
<1> QED
  BY <1>1, <1>2, <1>3 DEF Inv, Maximal

\* One iteration of any of the three loops.
LEMMA ScanInv ==
  ASSUME NEW here \in {"quads", "words", "bytes"}, NEW size \in Nat \ {0},
         NEW next \in {"words", "bytes", "exit"}, next = "exit" => size = 1,
         Inv, Scan(here, size, next)
  PROVE  Inv'
<1>1. /\ TypeOK /\ OnlyAsciiTaken /\ orig' = orig /\ ret' = ret /\ pc = here
      /\ Len(p) \in Nat /\ Len(orig) \in Nat /\ p \in Seq(Byte)
  BY AtByte DEF Inv, Scan, TypeOK
<1>2. CASE Len(p) >= size /\ AllAscii(p, size)
  <2>1. p' = Suffix(p, size) /\ pc' = here
    BY <1>2 DEF Scan
  <2>2. /\ p' \in Seq(Byte) /\ Len(p') = Len(p) - size
        /\ p' = Suffix(orig, Len(orig) - Len(p')) /\ AllAscii(orig, Len(orig) - Len(p'))
    <3>1. orig \in Seq(Byte) /\ AsciiTaken(orig, p)
      BY <1>1 DEF TypeOK, OnlyAsciiTaken, AsciiTaken
    <3>2. AsciiTaken(orig, p') /\ Len(p') = Len(p) - size
      BY <1>2, <2>1, <3>1, TakeAscii
    <3> QED
      BY <3>2 DEF AsciiTaken
  <2>3. TypeOK'
    BY <1>1, <2>1, <2>2 DEF TypeOK
  <2>4. OnlyAsciiTaken'
    BY <1>1, <2>2 DEF OnlyAsciiTaken, AllAscii
  <2> QED
    BY <2>1, <2>3, <2>4 DEF Inv, Maximal
<1>3. CASE ~ (Len(p) >= size /\ AllAscii(p, size))
  <2>1. p' = p /\ pc' = next
    BY <1>3 DEF Scan
  <2>2. TypeOK' /\ OnlyAsciiTaken'
    BY <1>1, <2>1 DEF TypeOK, OnlyAsciiTaken, AllAscii
  <2>3. next = "exit" => Stuck
    BY <1>1, <1>3 DEF Stuck, AllAscii
  <2>4. (pc = "exit" => Stuck)' /\ Maximal'
    BY <2>1, <2>3 DEF Stuck, Maximal
  <2> QED
    BY <2>2, <2>4 DEF Inv
<1> QED
  BY <1>2, <1>3

\* What is returned is what was taken, and the next byte is not ASCII.
LEMMA ReturnInv == Inv /\ Return => Inv'
<1> SUFFICES ASSUME Inv, Return PROVE Inv'
  OBVIOUS
<1> DEFINE taken == Len(orig) - Len(p)
<1>1. /\ orig \in Seq(Byte) /\ p \in Seq(Byte) /\ Len(orig) \in Nat /\ Len(p) \in Nat
      /\ Len(p) <= Len(orig) /\ orig' = orig /\ p' = p /\ ret' = taken /\ pc' = "done"
      /\ Stuck /\ taken \in 0..Len(orig) /\ p = Suffix(orig, taken) /\ AllAscii(orig, taken)
  BY AtByte DEF Inv, TypeOK, OnlyAsciiTaken, Return, Taken
<1>2. TypeOK' /\ OnlyAsciiTaken'
  BY <1>1 DEF Inv, TypeOK, OnlyAsciiTaken, AllAscii
<1>3. taken < Len(orig) => ~ IsAscii(At(orig, taken))
  <2>1. AsciiTaken(orig, p)
    BY <1>1 DEF AsciiTaken
  <2> QED
    BY <1>1, <2>1, AllAsciiTaken DEF Stuck
<1>4. Maximal'
  BY <1>1, <1>3 DEF Maximal, AllAscii
<1> QED
  BY <1>1, <1>2, <1>4 DEF Inv

\* A stuttering step changes nothing.
LEMMA StutterInv == Inv /\ UNCHANGED vars => Inv'
BY DEF Inv, TypeOK, OnlyAsciiTaken, Stuck, Maximal, AllAscii, vars

\* The invariant holds in every run, for every word size and every slice.
THEOREM PrefixInvariance == Spec => []Inv
<1>1. Inv /\ Quads => Inv'
  BY ScanInv, WordAssumption DEF Quads
<1>2. Inv /\ Words => Inv'
  BY ScanInv, WordAssumption DEF Words
<1>3. Inv /\ Bytes => Inv'
  BY ScanInv DEF Bytes
<1>4. Inv /\ [Next]_vars => Inv'
  BY <1>1, <1>2, <1>3, ReturnInv, StutterInv DEF Next
<1> QED
  BY InitInv, <1>4, PTL DEF Spec

\* The slice only gets shorter, and the result is a length within it.
THEOREM PrefixTypeCorrect == Spec => []TypeOK
<1>1. Inv => TypeOK
  BY DEF Inv
<1> QED
  BY PrefixInvariance, <1>1, PTL

\* What is left is the end of the argument, and what was taken off is ASCII,
\* whichever loop took it.
THEOREM PrefixOnlyAscii == Spec => []OnlyAsciiTaken
<1>1. Inv => OnlyAsciiTaken
  BY DEF Inv
<1> QED
  BY PrefixInvariance, <1>1, PTL

\* The result is the length of the longest ASCII prefix.
THEOREM PrefixMaximal == Spec => []Maximal
<1>1. Inv => Maximal
  BY DEF Inv
<1> QED
  BY PrefixInvariance, <1>1, PTL
=============================================================================
