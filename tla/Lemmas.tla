------------------------------- MODULE Lemmas -------------------------------
(***************************************************************************)
(* What the proofs about the components need to know of the operators of   *)
(* Utf8 and Kernels.                                                       *)
(*                                                                         *)
(* Of Utf8: when a slice can be cut in two and judged by its parts, what   *)
(* the absence of a structural error says about runes, and that the        *)
(* operators defined with CHOOSE and with Cardinality are what their names *)
(* say.  Induction is by least elements: a set of numbers that is not      *)
(* empty has a least one (LeastNat), and the set is written out where it   *)
(* is needed.                                                              *)
(*                                                                         *)
(* Of Kernels: what one iteration of a validator kernel computes, for      *)
(* registers of any even number of at least four lanes.                    *)
(* 1. The five ports compute the same block function (PortsAgree), so the  *)
(*    rest speaks of one of them, written out as Body.                     *)
(* 2. A lane of the carry vector compares with the announced length as the *)
(*    bytes up to three places earlier say (CarryAt, OwedTest), also where *)
(*    those bytes are in the block before, as long as the registers of     *)
(*    that block describe them (AtBlock).                                  *)
(* 3. So a block sets a bit of the error register exactly when one of its  *)
(*    bytes is a structural error (BlockExact), and, when it sets none,    *)
(*    leaves registers that describe its own last bytes (CarriesOut).      *)
(* The width w is a parameter of these lemmas: ValidBlocksProofs uses them *)
(* for one width, CallProofs for the two of the kernels it runs.           *)
(***************************************************************************)
EXTENDS Kernels, FiniteSetTheorems, TLAPS


-----------------------------------------------------------------------------
(* Numbers and finite sets                                                 *)

\* A set of natural numbers that is not empty has a least element: the intervals
\* below its elements are finite sets, and strict inclusion of finite sets is
\* well founded.
LEMMA LeastNat ==
  ASSUME NEW S, S \subseteq Nat, S # {}
  PROVE  \E m \in S : \A k \in S : m <= k
<1> DEFINE below(k) == 0..(k - 1)
           T == {below(k) : k \in S}
           R == StrictSubsetOrdering(Nat)
<1>1. IsWellFoundedOn(R, FiniteSubsetsOf(Nat))
  BY FS_StrictSubsetOrderingWellFounded
<1>2. T \subseteq FiniteSubsetsOf(Nat)
  <2> SUFFICES ASSUME NEW k \in S
               PROVE  below(k) \in SUBSET Nat /\ IsFiniteSet(below(k))
    BY DEF FiniteSubsetsOf
  <2> QED
    BY FS_Interval
<1>3. T # {}
  OBVIOUS
<1>4. \A a, b \in S : a < b => << below(a), below(b) >> \in R
  <2> SUFFICES ASSUME NEW a \in S, NEW b \in S, a < b
               PROVE  /\ below(a) \subseteq below(b)
                      /\ a \in below(b) /\ a \notin below(a)
                      /\ below(a) \in SUBSET Nat /\ below(b) \in SUBSET Nat
    BY Zenon DEF StrictSubsetOrdering
  <2> QED
    OBVIOUS
<1> HIDE DEF R, T
<1>5. PICK x \in T : \A y \in T : ~ (<< y, x >> \in R)
  BY <1>1, <1>2, <1>3, WFMin
<1>6. PICK m \in S : x = below(m)
  BY <1>5 DEF T
<1>7. \A k \in S : ~ (k < m)
  BY <1>4, <1>5, <1>6 DEF T
<1> QED
  BY <1>7

\* The size of a disjoint union.
LEMMA CardUnion ==
  ASSUME NEW S, NEW T, IsFiniteSet(S), IsFiniteSet(T), S \cap T = {}
  PROVE  /\ IsFiniteSet(S \cup T)
         /\ Cardinality(S \cup T) = Cardinality(S) + Cardinality(T)
<1>1. Cardinality(S) \in Nat /\ Cardinality(T) \in Nat
  BY FS_CardinalityType
<1>2. Cardinality(S \cap T) = 0
  BY FS_EmptySet
<1>3. /\ IsFiniteSet(S \cup T)
      /\ Cardinality(S \cup T) = Cardinality(S) + Cardinality(T) - Cardinality(S \cap T)
  BY FS_Union
<1>4. \A a, b \in Nat : a + b - 0 = a + b
  OBVIOUS
<1> QED
  BY <1>1, <1>2, <1>3, <1>4

\* Moving a finite set of numbers along does not change its size.
LEMMA CardShift ==
  ASSUME NEW S, IsFiniteSet(S), S \subseteq Int, NEW k \in Int
  PROVE  /\ IsFiniteSet({i + k : i \in S})
         /\ Cardinality({i + k : i \in S}) = Cardinality(S)
<1> DEFINE T == {i + k : i \in S}
           f == [i \in S |-> i + k]
<1>1. f \in [S -> T] /\ (\A t \in T : \E i \in S : f[i] = t)
  OBVIOUS
<1>2. \A a, b \in S : f[a] = f[b] => a = b
  OBVIOUS
<1>3. f \in Bijection(S, T)
  BY <1>1, <1>2, Zenon DEF Bijection, Injection, Surjection, IsInjective
<1>4. ExistsBijection(S, T)
  BY <1>3 DEF ExistsBijection
<1> QED
  BY <1>4, FS_Bijection

\* A set of indices below m has at most m elements.
LEMMA SubsetOfInterval ==
  ASSUME NEW m \in Nat, NEW S, S \subseteq 0..(m - 1)
  PROVE  /\ IsFiniteSet(S)
         /\ Cardinality(S) \in 0..m
<1>1. IsFiniteSet(0..(m - 1)) /\ Cardinality(0..(m - 1)) = m
  BY FS_Interval
<1>2. IsFiniteSet(S) /\ Cardinality(S) <= m
  BY <1>1, FS_Subset
<1> QED
  BY <1>2, FS_CardinalityType

-----------------------------------------------------------------------------
(* Bytes and runes                                                         *)

\* An index of a slice gives a byte.
LEMMA AtByte ==
  ASSUME NEW s \in Seq(Byte)
  PROVE  /\ Len(s) \in Nat
         /\ \A i \in Index(s) : At(s, i) \in Byte
BY DEF Index, At

\* What a length says of the byte: 0 a continuation byte, 1 ASCII.
LEMMA LeadLengths ==
  ASSUME NEW b \in Byte
  PROVE  /\ SeqLen(b) \in 0..4
         /\ SeqLen(b) = 0 <=> IsCont(b)
         /\ SeqLen(b) = 1 <=> IsAscii(b)
BY DEF SeqLen, IsCont, IsAscii, Byte

\* ASCII and continuation bytes are below the bytes that are too large, 0xF5 to
\* 0xFF.
LEMMA SmallBytes ==
  ASSUME NEW b \in Byte
  PROVE  /\ IsCont(b) => b <= 244
         /\ IsAscii(b) => b <= 244 /\ ~ IsCont(b) /\ SeqLen(b) = 1
         /\ SeqLen(b) = 1 => b <= 244
BY DEF SeqLen, IsCont, IsAscii, Byte

\* A legal second byte is a continuation byte, and only the leads up to 0xF4 have
\* any.
LEMMA SecondsAreConts ==
  ASSUME NEW b \in Byte, NEW c \in SecondBytes(b)
  PROVE  IsCont(c) /\ b <= 244
BY DEF SecondBytes, IsCont, Byte

\* The bytes a well-formed rune covers after its lead are continuation bytes of
\* the slice.
LEMMA CoveredIsCont ==
  ASSUME NEW s \in Seq(Byte), NEW m \in Index(s), RuneOk(s, m),
         NEW d \in 1..3, SeqLen(At(s, m)) > d
  PROVE  m + d < Len(s) /\ IsCont(At(s, m + d))
<1> DEFINE w == SeqLen(At(s, m))
<1>1. At(s, m) \in Byte /\ w \in 0..4 /\ Len(s) \in Nat /\ m \in Nat
  BY AtByte, LeadLengths DEF Index
<1>2. /\ m + w <= Len(s)
      /\ At(s, m + 1) \in SecondBytes(At(s, m))
      /\ \A e \in 2..3 : e < w => IsCont(At(s, m + e))
  BY <1>1 DEF RuneOk
<1> HIDE DEF w
<1>3. m + d < Len(s)
  BY <1>1, <1>2 DEF w
<1>4. CASE d = 1
  BY <1>1, <1>2, <1>3, <1>4, SecondsAreConts
<1>5. CASE d \in 2..3
  BY <1>2, <1>3, <1>5 DEF w
<1> QED
  BY <1>4, <1>5

\* A byte that is no continuation byte is covered by no rune: the decoder stops
\* there.
LEMMA LeadIsStart ==
  ASSUME NEW s \in Seq(Byte), NEW i \in Index(s), ~ IsCont(At(s, i))
  PROVE  IsStart(s, i)
<1> SUFFICES ASSUME NEW d \in 1..3, d <= i, SeqLen(At(s, i - d)) > d, RuneOk(s, i - d)
             PROVE  FALSE
  BY DEF IsStart
<1>1. i - d \in Index(s) /\ (i - d) + d = i
  BY AtByte DEF Index
<1> QED
  BY <1>1, CoveredIsCont

\* The decoder starts at the first byte.
LEMMA FirstIsStart ==
  ASSUME NEW s \in Seq(Byte)
  PROVE  IsStart(s, 0)
BY DEF IsStart

\* p[k:] is a slice, k bytes shorter, of the bytes from k on.
LEMMA SuffixFacts ==
  ASSUME NEW s \in Seq(Byte), NEW k \in 0..Len(s)
  PROVE  /\ Suffix(s, k) \in Seq(Byte)
         /\ Len(Suffix(s, k)) = Len(s) - k
         /\ \A j \in Index(Suffix(s, k)) : k + j \in Index(s) /\ At(Suffix(s, k), j) = At(s, k + j)
<1>1. Len(s) \in Nat /\ k \in Nat
  BY AtByte
<1>2. Suffix(s, k) \in Seq(Byte) /\ Len(Suffix(s, k)) = Len(s) - k
  BY <1>1 DEF Suffix
<1>3. ASSUME NEW j \in Index(Suffix(s, k))
      PROVE  k + j \in Index(s) /\ At(Suffix(s, k), j) = At(s, k + j)
  <2>1. j \in Nat /\ j < Len(s) - k
    BY <1>1, <1>2 DEF Index
  <2>2. SubSeq(s, k + 1, Len(s))[j + 1] = s[(k + 1) + (j + 1) - 1]
    BY <1>1, <2>1
  <2>3. (k + 1) + (j + 1) - 1 = (k + j) + 1 /\ k + j \in 0..(Len(s) - 1)
    BY <1>1, <2>1
  <2> QED
    BY <2>2, <2>3 DEF Suffix, Index, At
<1> QED
  BY <1>2, <1>3

\* A rune is well formed in the suffix exactly if it is in the slice: only bytes
\* to its right matter.
LEMMA SuffixRune ==
  ASSUME NEW s \in Seq(Byte), NEW k \in 0..Len(s), NEW j \in Index(Suffix(s, k))
  PROVE  RuneOk(Suffix(s, k), j) <=> RuneOk(s, k + j)
<1> DEFINE t == Suffix(s, k)
           w == SeqLen(At(s, k + j))
<1>1. /\ t \in Seq(Byte) /\ Len(s) \in Nat /\ k \in Nat /\ j \in Nat /\ k + j \in Index(s)
      /\ Len(t) = Len(s) - k /\ At(t, j) = At(s, k + j)
  BY AtByte, SuffixFacts DEF Index
<1>2. w \in 0..4
  BY <1>1, AtByte, LeadLengths
<1>3. \A d \in Nat : j + d < Len(t) => At(t, j + d) = At(s, (k + j) + d)
  BY <1>1, SuffixFacts DEF Index
<1>4. j + w <= Len(t) <=> (k + j) + w <= Len(s)
  BY <1>1, <1>2
<1> HIDE DEF t, w
<1>5. CASE w < 2
  BY <1>1, <1>2, <1>5 DEF RuneOk, t, w
<1>6. CASE w >= 2 /\ j + w <= Len(t)
  <2>1. /\ At(t, j + 1) = At(s, (k + j) + 1)
        /\ \A d \in 2..3 : d < w => At(t, j + d) = At(s, (k + j) + d)
    BY <1>1, <1>2, <1>3, <1>6 DEF t
  <2> QED
    BY <1>1, <1>2, <1>4, <1>6, <2>1 DEF RuneOk, w, t
<1>7. CASE w >= 2 /\ ~ (j + w <= Len(t))
  BY <1>1, <1>2, <1>4, <1>7 DEF RuneOk, w, t
<1> QED
  BY <1>2, <1>5, <1>6, <1>7

\* A cut of s: no rune lies across k.
Cut(s, k) == k \in 0..Len(s) /\ (k < Len(s) => IsStart(s, k))

\* Behind a cut the decoder of the suffix stops where the decoder of the slice
\* stops.
LEMMA SuffixStart ==
  ASSUME NEW s \in Seq(Byte), NEW k, Cut(s, k), NEW j \in Index(Suffix(s, k))
  PROVE  IsStart(Suffix(s, k), j) <=> IsStart(s, k + j)
<1> DEFINE t == Suffix(s, k)
<1>1. /\ t \in Seq(Byte) /\ Len(s) \in Nat /\ k \in Nat /\ k \in 0..Len(s) /\ j \in Nat
      /\ k + j \in Index(s) /\ Len(t) = Len(s) - k /\ k + j < Len(s)
  BY AtByte, SuffixFacts DEF Index, Cut
<1>2. ASSUME NEW d \in 1..3, d <= j
      PROVE  /\ SeqLen(At(t, j - d)) > d <=> SeqLen(At(s, (k + j) - d)) > d
             /\ RuneOk(t, j - d) <=> RuneOk(s, (k + j) - d)
  <2>1. j - d \in Index(t) /\ k + (j - d) = (k + j) - d
    BY <1>1, <1>2 DEF Index
  <2> QED
    BY <1>1, <2>1, SuffixFacts, SuffixRune
<1>3. ASSUME NEW d \in 1..3, d <= k + j, ~ (d <= j),
             SeqLen(At(s, (k + j) - d)) > d, RuneOk(s, (k + j) - d)
      PROVE  FALSE
  <2>1. /\ d - j \in 1..3 /\ d - j <= k /\ k - (d - j) = (k + j) - d
        /\ (k + j) - d \in Index(s)
    BY <1>1, <1>3 DEF Index
  <2>2. SeqLen(At(s, k - (d - j))) > d - j /\ RuneOk(s, k - (d - j))
    BY <1>1, <1>3, <2>1, AtByte, LeadLengths
  <2>3. ~ IsStart(s, k)
    BY <2>1, <2>2 DEF IsStart
  <2> QED
    BY <1>1, <2>3 DEF Cut
<1> HIDE DEF t
<1>4. ASSUME ~ IsStart(t, j) PROVE ~ IsStart(s, k + j)
  <2>1. PICK d \in 1..3 : d <= j /\ SeqLen(At(t, j - d)) > d /\ RuneOk(t, j - d)
    BY <1>4 DEF IsStart
  <2>2. SeqLen(At(s, (k + j) - d)) > d /\ RuneOk(s, (k + j) - d)
    BY <1>2, <2>1
  <2>3. d <= k + j
    BY <1>1, <2>1
  <2> QED
    BY <2>2, <2>3 DEF IsStart
<1>5. ASSUME ~ IsStart(s, k + j) PROVE ~ IsStart(t, j)
  <2>1. PICK d \in 1..3 : d <= k + j /\ SeqLen(At(s, (k + j) - d)) > d /\ RuneOk(s, (k + j) - d)
    BY <1>5 DEF IsStart
  <2>2. d <= j
    BY <1>3, <2>1
  <2> QED
    BY <1>2, <2>1, <2>2 DEF IsStart
<1> QED
  BY <1>4, <1>5 DEF t

-----------------------------------------------------------------------------
(* Splitting a slice at a cut                                              *)

\* The runes of the first k bytes, a rune across k included.
StartsBelow(s, k) == {i \in Starts(s) : i < k}

\* There are at most k starts below k.
LEMMA StartsBelowFinite ==
  ASSUME NEW s \in Seq(Byte), NEW k \in 0..Len(s)
  PROVE  /\ StartsBelow(s, k) \subseteq 0..(k - 1)
         /\ IsFiniteSet(StartsBelow(s, k))
         /\ Cardinality(StartsBelow(s, k)) \in 0..k
<1>1. k \in Nat /\ StartsBelow(s, k) \subseteq 0..(k - 1)
  BY AtByte DEF StartsBelow, Starts, Index
<1> QED
  BY <1>1, SubsetOfInterval

\* The starts of a slice below a point are those below a cut and those of the
\* suffix.
LEMMA StartsSplit ==
  ASSUME NEW s \in Seq(Byte), NEW k, Cut(s, k), NEW m \in 0..Len(Suffix(s, k))
  PROVE  Cardinality(StartsBelow(s, k + m))
           = Cardinality(StartsBelow(s, k)) + Cardinality(StartsBelow(Suffix(s, k), m))
<1> DEFINE t     == Suffix(s, k)
           low   == StartsBelow(s, k)
           high  == StartsBelow(t, m)
           moved == {i + k : i \in high}
<1>1. /\ t \in Seq(Byte) /\ Len(s) \in Nat /\ k \in Nat /\ k \in 0..Len(s)
      /\ Len(t) = Len(s) - k /\ m \in Nat /\ k + m \in 0..Len(s) /\ m \in 0..Len(t)
  BY AtByte, SuffixFacts DEF Cut
<1>2. /\ low \subseteq 0..(k - 1) /\ IsFiniteSet(low)
      /\ high \subseteq 0..(m - 1) /\ IsFiniteSet(high)
  BY <1>1, StartsBelowFinite
<1>3. IsFiniteSet(moved) /\ Cardinality(moved) = Cardinality(high)
  <2>1. high \subseteq Int /\ k \in Int
    BY <1>1, <1>2
  <2> HIDE DEF high
  <2> QED
    BY <1>2, <2>1, CardShift, Zenon DEF moved
<1>4. \A j \in Index(t) : j \in Starts(t) <=> k + j \in Starts(s)
  BY SuffixStart, SuffixFacts, <1>1 DEF Starts
<1>5. low \cap moved = {}
  <2> SUFFICES ASSUME NEW i \in high, i + k \in low PROVE FALSE
    OBVIOUS
  <2>1. i \in Nat /\ i + k < k
    BY <1>1, <1>2
  <2> QED
    BY <1>1, <2>1
<1>6. StartsBelow(s, k + m) = low \cup moved
  <2>1. ASSUME NEW i \in StartsBelow(s, k + m) PROVE i \in low \cup moved
    <3>1. i \in Starts(s) /\ i \in Nat /\ i < k + m /\ i < Len(s)
      BY <1>1, <2>1 DEF StartsBelow, Starts, Index
    <3>2. CASE i < k
      BY <3>1, <3>2 DEF StartsBelow
    <3>3. CASE i >= k
      <4>1. i - k \in Index(t) /\ k + (i - k) = i /\ i - k < m /\ (i - k) + k = i
        BY <1>1, <3>1, <3>3 DEF Index
      <4>2. i - k \in high
        BY <1>4, <3>1, <4>1 DEF StartsBelow
      <4> QED
        BY <4>1, <4>2
    <3> QED
      BY <1>1, <3>1, <3>2, <3>3
  <2>2. ASSUME NEW i \in low PROVE i \in StartsBelow(s, k + m)
    BY <1>1, <1>2, <2>2 DEF StartsBelow
  <2>3. ASSUME NEW i \in high PROVE i + k \in StartsBelow(s, k + m)
    <3>1. i \in Starts(t) /\ i \in Index(t) /\ i \in Nat /\ i < m
      BY <1>2, <2>3 DEF StartsBelow, Starts
    <3>2. k + i \in Starts(s) /\ k + i = i + k /\ i + k < k + m
      BY <1>1, <1>4, <3>1
    <3> QED
      BY <3>2 DEF StartsBelow
  <2> QED
    BY <2>1, <2>2, <2>3
<1> HIDE DEF low, high, moved, t
<1>7. Cardinality(low \cup moved) = Cardinality(low) + Cardinality(moved)
  BY <1>2, <1>3, <1>5, CardUnion
<1> QED
  BY <1>3, <1>6, <1>7 DEF low, high, t

\* A slice has as many runes as starts below its end.
LEMMA RuneCountBelow ==
  ASSUME NEW s \in Seq(Byte)
  PROVE  RuneCount(s) = Cardinality(StartsBelow(s, Len(s)))
<1>1. Starts(s) = StartsBelow(s, Len(s))
  BY AtByte DEF Starts, StartsBelow, Index
<1> QED
  BY <1>1 DEF RuneCount

\* A slice has at most as many runes as bytes.
LEMMA CountIsNat ==
  ASSUME NEW s \in Seq(Byte)
  PROVE  RuneCount(s) \in 0..Len(s)
<1>1. Len(s) \in Nat /\ Len(s) \in 0..Len(s)
  BY AtByte
<1> QED
  BY <1>1, RuneCountBelow, StartsBelowFinite

\* Runes can be counted on both sides of a cut (what runeCount does).
LEMMA RuneCountSplit ==
  ASSUME NEW s \in Seq(Byte), NEW k, Cut(s, k)
  PROVE  RuneCount(s) = Cardinality(StartsBelow(s, k)) + RuneCount(Suffix(s, k))
<1> DEFINE t == Suffix(s, k)
<1>1. /\ t \in Seq(Byte) /\ Len(s) \in Nat /\ k \in Nat /\ Len(t) = Len(s) - k
      /\ Len(t) \in 0..Len(t) /\ k + Len(t) = Len(s)
  BY AtByte, SuffixFacts DEF Cut
<1> HIDE DEF t
<1>2. Cardinality(StartsBelow(s, k + Len(t)))
        = Cardinality(StartsBelow(s, k)) + Cardinality(StartsBelow(t, Len(t)))
  BY <1>1, StartsSplit DEF t
<1> QED
  BY <1>1, <1>2, RuneCountBelow DEF t

\* Validity can be judged on both sides of a cut (what valid does).
LEMMA ValidSplit ==
  ASSUME NEW s \in Seq(Byte), NEW k, Cut(s, k)
  PROVE  Valid(s) <=> /\ \A i \in StartsBelow(s, k) : RuneOk(s, i)
                      /\ Valid(Suffix(s, k))
<1> DEFINE t == Suffix(s, k)
<1>1. /\ t \in Seq(Byte) /\ Len(s) \in Nat /\ k \in Nat /\ k \in 0..Len(s) /\ Len(t) = Len(s) - k
  BY AtByte, SuffixFacts DEF Cut
<1>2. \A j \in Index(t) : /\ j \in Starts(t) <=> k + j \in Starts(s)
                          /\ RuneOk(t, j) <=> RuneOk(s, k + j)
  BY SuffixStart, SuffixFacts, SuffixRune, <1>1 DEF Starts
<1> HIDE DEF t
<1>3. ASSUME Valid(s), NEW j \in Starts(t) PROVE RuneOk(t, j)
  BY <1>2, <1>3 DEF Valid, Starts
<1>4. ASSUME \A i \in StartsBelow(s, k) : RuneOk(s, i), Valid(t), NEW i \in Starts(s)
      PROVE  RuneOk(s, i)
  <2>1. i \in Nat /\ i < Len(s)
    BY <1>1 DEF Starts, Index
  <2>2. CASE i < k
    BY <1>4, <2>2 DEF StartsBelow
  <2>3. CASE i >= k
    <3>1. i - k \in Index(t) /\ k + (i - k) = i
      BY <1>1, <2>1, <2>3 DEF Index
    <3> QED
      BY <1>2, <1>4, <3>1 DEF Valid
  <2> QED
    BY <1>1, <2>1, <2>2, <2>3
<1> QED
  BY <1>3, <1>4 DEF Valid, StartsBelow, t

\* A cut of a suffix behind a cut is a cut of the slice.
LEMMA CutSuffix ==
  ASSUME NEW s \in Seq(Byte), NEW k, Cut(s, k), NEW m, Cut(Suffix(s, k), m)
  PROVE  Cut(s, k + m)
<1> DEFINE t == Suffix(s, k)
<1>1. /\ t \in Seq(Byte) /\ Len(s) \in Nat /\ k \in Nat /\ k \in 0..Len(s) /\ Len(t) = Len(s) - k
      /\ m \in 0..Len(t)
  BY AtByte, SuffixFacts DEF Cut
<1>2. k + m \in 0..Len(s) /\ (k + m < Len(s) => m \in Index(t) /\ m < Len(t))
  BY <1>1 DEF Index
<1> QED
  BY <1>1, <1>2, SuffixStart DEF Cut

\* p[k:][m:] is p[k+m:].
LEMMA SuffixSuffix ==
  ASSUME NEW s \in Seq(Byte), NEW k \in 0..Len(s), NEW m \in 0..(Len(s) - k)
  PROVE  Suffix(Suffix(s, k), m) = Suffix(s, k + m)
<1> DEFINE t == Suffix(s, k)
           u == Suffix(t, m)
           v == Suffix(s, k + m)
<1>1. Len(s) \in Nat /\ k \in Nat /\ m \in Nat /\ k + m \in 0..Len(s)
  BY AtByte
<1>2. t \in Seq(Byte) /\ Len(t) = Len(s) - k /\ m \in 0..Len(t)
  BY <1>1, SuffixFacts
<1>3. /\ u \in Seq(Byte) /\ Len(u) = Len(t) - m
      /\ \A j \in Index(u) : m + j \in Index(t) /\ At(u, j) = At(t, m + j)
  BY <1>2, SuffixFacts
<1>4. /\ v \in Seq(Byte) /\ Len(v) = Len(s) - (k + m)
      /\ \A j \in Index(v) : At(v, j) = At(s, (k + m) + j)
  BY <1>1, SuffixFacts
<1>5. \A j \in Index(t) : At(t, j) = At(s, k + j)
  BY SuffixFacts
<1> HIDE DEF t, u, v
<1>6. Len(u) = Len(v)
  BY <1>1, <1>2, <1>3, <1>4
<1>7. ASSUME NEW j \in Index(u) PROVE At(u, j) = At(v, j)
  <2>1. j \in Index(v) /\ k + (m + j) = (k + m) + j
    BY <1>1, <1>3, <1>6 DEF Index
  <2> QED
    BY <1>3, <1>4, <1>5, <2>1
<1>8. ASSUME NEW i \in 1..Len(u) PROVE u[i] = v[i]
  <2>1. i - 1 \in Index(u) /\ (i - 1) + 1 = i
    BY <1>3 DEF Index
  <2> QED
    BY <1>7, <2>1 DEF At
<1> QED
  BY <1>3, <1>4, <1>6, <1>8 DEF t, u, v

\* p[0:] is p.
LEMMA SuffixZero ==
  ASSUME NEW s \in Seq(Byte)
  PROVE  Suffix(s, 0) = s
<1>1. Len(s) \in Nat /\ Suffix(s, 0) \in Seq(Byte) /\ Len(Suffix(s, 0)) = Len(s)
      /\ \A j \in Index(Suffix(s, 0)) : At(Suffix(s, 0), j) = At(s, 0 + j)
  BY AtByte, SuffixFacts
<1>2. ASSUME NEW i \in 1..Len(s) PROVE Suffix(s, 0)[i] = s[i]
  <2>1. i - 1 \in Index(Suffix(s, 0)) /\ (i - 1) + 1 = i /\ 0 + (i - 1) = i - 1
    BY <1>1 DEF Index
  <2> QED
    BY <1>1, <2>1 DEF At
<1> QED
  BY <1>1, <1>2
-----------------------------------------------------------------------------
(* Structural errors and well-formed runes                                 *)

\* In a prefix without a structural error that leaves no sequence open, a byte
\* that is no continuation byte starts a well-formed rune: its lead got all the
\* continuation bytes it waits for, within the prefix.
LEMMA StructLeads ==
  ASSUME NEW s \in Seq(Byte), NEW c \in 0..Len(s), StructOK(s, c), ~ Expected(s, c),
         NEW i \in 0..(c - 1), ~ IsCont(At(s, i))
  PROVE  RuneOk(s, i)
<1> DEFINE w == SeqLen(At(s, i))
<1>1. Len(s) \in Nat /\ c \in Nat /\ i \in Nat /\ i \in Index(s) /\ i < c /\ c <= Len(s)
  BY AtByte DEF Index
<1>2. At(s, i) \in Byte /\ w \in 1..4
  BY <1>1, AtByte, LeadLengths
<1>3. i + w <= c
  <2> SUFFICES ASSUME i + w > c PROVE FALSE
    BY <1>1, <1>2
  <2>1. c - i \in 1..3 /\ c - i < w /\ c - i <= c /\ c - (c - i) = i
    BY <1>1, <1>2
  <2> QED
    BY <2>1 DEF Expected
<1>4. CASE w = 1
  BY <1>4 DEF RuneOk
<1>5. CASE w >= 2
  <2>1. i + 1 \in 0..(c - 1) /\ i + 1 > 0 /\ (i + 1) - 1 = i
    BY <1>1, <1>2, <1>3, <1>5
  <2>2. At(s, i + 1) \in SecondBytes(At(s, i))
    BY <1>5, <2>1 DEF StructOK, ByteOk
  <2>3. ASSUME NEW d \in 2..3, d < w PROVE IsCont(At(s, i + d))
    <3>1. i + d \in 0..(c - 1) /\ d \in 1..3 /\ d <= i + d /\ (i + d) - d = i
      BY <1>1, <1>2, <1>3, <2>3
    <3>2. Expected(s, i + d)
      BY <2>3, <3>1 DEF Expected
    <3> QED
      BY <3>1, <3>2 DEF StructOK, ByteOk
  <2>4. i + w <= Len(s)
    BY <1>1, <1>2, <1>3
  <2> QED
    BY <1>5, <2>2, <2>3, <2>4 DEF RuneOk
<1> QED
  BY <1>2, <1>4, <1>5

\* Such a prefix ends at a cut, its starts are the bytes that are no continuation
\* bytes, and its runes are all well formed.
LEMMA StructStarts ==
  ASSUME NEW s \in Seq(Byte), NEW c \in 0..Len(s), StructOK(s, c), ~ Expected(s, c)
  PROVE  /\ Cut(s, c)
         /\ \A i \in 0..(c - 1) : IsStart(s, i) <=> ~ IsCont(At(s, i))
         /\ \A i \in StartsBelow(s, c) : RuneOk(s, i)
<1>1. Len(s) \in Nat /\ c \in Nat /\ c <= Len(s)
  BY AtByte
<1>2. Cut(s, c)
  BY DEF Cut, IsStart, Expected
<1>3. ASSUME NEW i \in 0..(c - 1), IsCont(At(s, i)) PROVE ~ IsStart(s, i)
  <2>1. PICK d \in 1..3 : d <= i /\ SeqLen(At(s, i - d)) > d
    BY <1>3 DEF StructOK, ByteOk, Expected
  <2>2. i - d \in 0..(c - 1) /\ i - d \in Index(s)
    BY <1>1, <2>1 DEF Index
  <2>3. ~ IsCont(At(s, i - d))
    BY <2>1, <2>2, AtByte, LeadLengths
  <2>4. RuneOk(s, i - d)
    BY <2>2, <2>3, StructLeads
  <2> QED
    BY <2>1, <2>4 DEF IsStart
<1>4. ASSUME NEW i \in 0..(c - 1), ~ IsCont(At(s, i)) PROVE IsStart(s, i)
  BY <1>1, <1>4, LeadIsStart DEF Index
<1>5. ASSUME NEW i \in StartsBelow(s, c) PROVE RuneOk(s, i)
  <2>1. i \in 0..(c - 1) /\ IsStart(s, i)
    BY <1>1 DEF StartsBelow, Starts, Index
  <2> QED
    BY <1>3, <2>1, StructLeads
<1> QED
  BY <1>2, <1>3, <1>4, <1>5

\* Conversely valid UTF-8 has no structural error and leaves no sequence open.
LEMMA ValidStruct ==
  ASSUME NEW s \in Seq(Byte), Valid(s)
  PROVE  /\ \A i \in Index(s) : ByteOk(s, i)
         /\ ~ Expected(s, Len(s))
<1>1. Len(s) \in Nat /\ \A i \in Index(s) : At(s, i) \in Byte /\ i \in Nat /\ i < Len(s)
  BY AtByte DEF Index
<1>2. ASSUME NEW i \in Index(s), ~ IsCont(At(s, i)) PROVE RuneOk(s, i)
  BY <1>2, LeadIsStart DEF Valid, Starts
<1>3. ASSUME NEW i \in Index(s), IsCont(At(s, i)) PROVE Expected(s, i)
  <2>1. SeqLen(At(s, i)) = 0
    BY <1>1, <1>3, LeadLengths
  <2>2. ~ RuneOk(s, i)
    BY <2>1 DEF RuneOk
  <2>3. ~ IsStart(s, i)
    BY <2>2 DEF Valid, Starts
  <2> QED
    BY <2>3 DEF IsStart, Expected
<1>4. ASSUME NEW i \in 0..Len(s), Expected(s, i) PROVE i < Len(s) /\ IsCont(At(s, i))
  <2>1. PICK d \in 1..3 : d <= i /\ SeqLen(At(s, i - d)) > d
    BY <1>4 DEF Expected
  <2>2. i - d \in Index(s) /\ (i - d) + d = i
    BY <1>1, <2>1 DEF Index
  <2>3. ~ IsCont(At(s, i - d))
    BY <1>1, <2>1, <2>2, LeadLengths
  <2>4. RuneOk(s, i - d)
    BY <1>2, <2>2, <2>3
  <2> QED
    BY <2>1, <2>2, <2>4, CoveredIsCont
<1>5. ASSUME NEW i \in Index(s) PROVE At(s, i) <= 244
  <2>1. CASE IsCont(At(s, i))
    BY <1>1, <2>1, SmallBytes
  <2>2. CASE ~ IsCont(At(s, i))
    <3>1. RuneOk(s, i)
      BY <1>2, <2>2
    <3>2. CASE SeqLen(At(s, i)) = 1
      BY <1>1, <3>2, SmallBytes
    <3>3. CASE SeqLen(At(s, i)) # 1
      BY <1>1, <3>1, <3>3, SecondsAreConts DEF RuneOk
    <3> QED
      BY <3>2, <3>3
  <2> QED
    BY <2>1, <2>2
<1>6. ASSUME NEW i \in Index(s), i > 0, SeqLen(At(s, i - 1)) >= 2
      PROVE  At(s, i) \in SecondBytes(At(s, i - 1))
  <2>1. i - 1 \in Index(s) /\ (i - 1) + 1 = i
    BY <1>1, <1>6 DEF Index
  <2>2. RuneOk(s, i - 1)
    BY <1>1, <1>2, <1>6, <2>1, LeadLengths
  <2> QED
    BY <1>1, <1>6, <2>1, <2>2, LeadLengths DEF RuneOk
<1>7. ~ Expected(s, Len(s))
  BY <1>1, <1>4
<1>8. \A i \in Index(s) : i \in 0..Len(s)
  BY <1>1
<1> QED
  BY <1>3, <1>4, <1>5, <1>6, <1>7, <1>8 DEF ByteOk

\* So the two notions of an error agree on whole slices: the kernels may decide
\* what utf8.Valid decides.
LEMMA ValidJudged ==
  ASSUME NEW s \in Seq(Byte)
  PROVE  Valid(s) <=> StructOK(s, Len(s)) /\ ~ Expected(s, Len(s))
<1>1. Len(s) \in Nat /\ Len(s) \in 0..Len(s)
  BY AtByte
<1>2. ASSUME Valid(s) PROVE StructOK(s, Len(s)) /\ ~ Expected(s, Len(s))
  BY <1>2, ValidStruct DEF StructOK, Index
<1>3. ASSUME StructOK(s, Len(s)), ~ Expected(s, Len(s)) PROVE Valid(s)
  <2>1. \A i \in StartsBelow(s, Len(s)) : RuneOk(s, i)
    BY <1>1, <1>3, StructStarts
  <2> QED
    BY <1>1, <2>1 DEF Valid, StartsBelow, Starts, Index
<1> QED
  BY <1>2, <1>3

\* p[:k] is a slice of the first k bytes.
LEMMA PrefixFacts ==
  ASSUME NEW s \in Seq(Byte), NEW k \in 0..Len(s)
  PROVE  /\ SubSeq(s, 1, k) \in Seq(Byte)
         /\ Len(SubSeq(s, 1, k)) = k
         /\ \A i \in 0..(k - 1) : At(SubSeq(s, 1, k), i) = At(s, i)
<1>1. Len(s) \in Nat /\ k \in Nat
  BY AtByte
<1>2. SubSeq(s, 1, k) \in Seq(Byte) /\ Len(SubSeq(s, 1, k)) = k
  BY <1>1
<1>3. ASSUME NEW i \in 0..(k - 1) PROVE At(SubSeq(s, 1, k), i) = At(s, i)
  BY <1>1 DEF At
<1> QED
  BY <1>2, <1>3

\* And they agree on every prefix.
LEMMA PrefixValid ==
  ASSUME NEW s \in Seq(Byte), NEW k \in 0..Len(s)
  PROVE  Valid(SubSeq(s, 1, k)) <=> StructOK(s, k) /\ ~ Expected(s, k)
<1> DEFINE t == SubSeq(s, 1, k)
<1>1. /\ t \in Seq(Byte) /\ Len(t) = k /\ k \in Nat
      /\ \A i \in 0..(k - 1) : At(t, i) = At(s, i)
  BY PrefixFacts, AtByte
<1> HIDE DEF t
<1>2. ASSUME NEW i \in 0..k PROVE Expected(t, i) <=> Expected(s, i)
  <2>1. \A d \in 1..3 : d <= i => i - d \in 0..(k - 1)
    BY <1>1
  <2> QED
    BY <1>1, <2>1 DEF Expected
<1>3. ASSUME NEW i \in 0..(k - 1) PROVE ByteOk(t, i) <=> ByteOk(s, i)
  <2>1. i \in 0..k /\ (i > 0 => i - 1 \in 0..(k - 1))
    BY <1>1
  <2> QED
    BY <1>1, <1>2, <2>1 DEF ByteOk
<1>4. Valid(t) <=> StructOK(t, k) /\ ~ Expected(t, k)
  BY <1>1, ValidJudged
<1>5. k \in 0..k
  BY <1>1
<1> QED
  BY <1>2, <1>3, <1>4, <1>5 DEF t, StructOK

-----------------------------------------------------------------------------
(* ASCII prefixes                                                          *)

\* An ASCII prefix ends at a cut, and every byte of it is a rune: it has e starts,
\* no structural error and no continuation byte.
LEMMA AsciiStarts ==
  ASSUME NEW s \in Seq(Byte), NEW e \in 0..Len(s), AllAscii(s, e)
  PROVE  /\ Cut(s, e)
         /\ StartsBelow(s, e) = 0..(e - 1)
         /\ Cardinality(StartsBelow(s, e)) = e
         /\ \A i \in StartsBelow(s, e) : RuneOk(s, i)
         /\ StructOK(s, e) /\ Conts(s, e) = {}
<1>1. Len(s) \in Nat /\ e \in Nat /\ e <= Len(s)
  BY AtByte
<1>2. ASSUME NEW i \in 0..(e - 1)
      PROVE  /\ At(s, i) \in Byte /\ SeqLen(At(s, i)) = 1 /\ ~ IsCont(At(s, i))
             /\ At(s, i) <= 244 /\ i \in Index(s)
  <2>1. i \in Index(s) /\ At(s, i) \in Byte /\ IsAscii(At(s, i))
    BY <1>1, AtByte DEF AllAscii, Index
  <2> QED
    BY <2>1, SmallBytes
<1>3. ASSUME NEW i \in 0..e PROVE ~ Expected(s, i)
  <2>1. \A d \in 1..3 : d <= i => i - d \in 0..(e - 1)
    BY <1>1
  <2> QED
    BY <1>2, <2>1 DEF Expected
<1>4. StructOK(s, e)
  <2> SUFFICES ASSUME NEW i \in 0..(e - 1) PROVE ByteOk(s, i)
    BY DEF StructOK
  <2>1. i \in 0..e /\ (i > 0 => i - 1 \in 0..(e - 1))
    BY <1>1
  <2> QED
    BY <1>2, <1>3, <2>1 DEF ByteOk
<1>5. e \in 0..e
  BY <1>1
<1>6. /\ Cut(s, e) /\ \A i \in 0..(e - 1) : IsStart(s, i) <=> ~ IsCont(At(s, i))
      /\ \A i \in StartsBelow(s, e) : RuneOk(s, i)
  BY <1>3, <1>4, <1>5, StructStarts
<1>7. StartsBelow(s, e) = 0..(e - 1)
  BY <1>1, <1>2, <1>6 DEF StartsBelow, Starts, Index
<1>8. Cardinality(0..(e - 1)) = e
  BY <1>1, FS_Interval
<1>9. Conts(s, e) = {}
  BY <1>2 DEF Conts
<1> QED
  BY <1>4, <1>6, <1>7, <1>8, <1>9

\* ASCII is valid, and has as many runes as bytes.
LEMMA AsciiValid ==
  ASSUME NEW s \in Seq(Byte), AllAscii(s, Len(s))
  PROVE  Valid(s) /\ RuneCount(s) = Len(s)
<1>1. Len(s) \in Nat /\ Len(s) \in 0..Len(s)
  BY AtByte
<1>2. /\ Cardinality(StartsBelow(s, Len(s))) = Len(s)
      /\ \A i \in StartsBelow(s, Len(s)) : RuneOk(s, i)
  BY <1>1, AsciiStarts
<1>3. Valid(s)
  BY <1>1, <1>2 DEF Valid, StartsBelow, Starts, Index
<1> QED
  BY <1>2, <1>3, RuneCountBelow

\* More blocks take more bytes.
LEMMA MulMono ==
  ASSUME NEW a \in Nat, NEW b \in Nat, NEW w \in Nat, a <= b
  PROVE  a * w \in Nat /\ b * w \in Nat /\ a * w <= b * w
OBVIOUS

\* LeadingAscii is well defined: the first block that is not ASCII is a least
\* element.
LEMMA LeadingAsciiExact ==
  ASSUME NEW s, NEW m \in Nat, NEW w \in Nat
  PROVE  /\ LeadingAscii(s, m, w) \in 0..m
         /\ AllAscii(s, LeadingAscii(s, m, w) * w)
         /\ LeadingAscii(s, m, w) < m => ~ AllAscii(s, (LeadingAscii(s, m, w) + 1) * w)
<1> DEFINE Stop == {k \in Nat : k <= m /\ (k = m \/ ~ AllAscii(s, (k + 1) * w))}
<1>1. m \in Stop
  OBVIOUS
<1>2. PICK k \in Stop : \A j \in Stop : k <= j
  BY <1>1, LeastNat
<1>3. AllAscii(s, k * w)
  <2>1. CASE k = 0
    <3>1. 0 * w = 0
      OBVIOUS
    <3> QED
      BY <2>1, <3>1 DEF AllAscii
  <2>2. CASE k # 0
    <3>1. k - 1 \in Nat /\ k - 1 < k /\ k - 1 <= m /\ k - 1 # m /\ (k - 1) + 1 = k
      BY <1>2, <2>2
    <3>2. k - 1 \notin Stop
      BY <1>2, <3>1
    <3> QED
      BY <3>1, <3>2
  <2> QED
    BY <2>1, <2>2
<1>4. \E x \in 0..m : AllAscii(s, x * w) /\ (x < m => ~ AllAscii(s, (x + 1) * w))
  <2>1. k \in 0..m /\ (k < m => ~ AllAscii(s, (k + 1) * w))
    BY <1>2
  <2> QED
    BY <1>3, <2>1
<1> QED
  BY <1>4, Zenon DEF LeadingAscii

\* And it is the only number of blocks that are ASCII and are followed by one
\* that is not.
LEMMA LeadingAsciiUnique ==
  ASSUME NEW s, NEW m \in Nat, NEW w \in Nat, NEW k \in 0..m,
         AllAscii(s, k * w), k < m => ~ AllAscii(s, (k + 1) * w)
  PROVE  LeadingAscii(s, m, w) = k
<1> DEFINE l == LeadingAscii(s, m, w)
<1>1. l \in 0..m /\ AllAscii(s, l * w) /\ (l < m => ~ AllAscii(s, (l + 1) * w))
  BY LeadingAsciiExact
<1> HIDE DEF l
<1>2. ASSUME NEW a \in 0..m, NEW b \in 0..m, a < b, AllAscii(s, b * w)
      PROVE  a < m /\ AllAscii(s, (a + 1) * w)
  <2>1. a + 1 \in Nat /\ b \in Nat /\ a + 1 <= b /\ a < m
    BY <1>2
  <2>2. (a + 1) * w \in Nat /\ b * w \in Nat /\ (a + 1) * w <= b * w
    BY <2>1, MulMono
  <2>3. 0..((a + 1) * w - 1) \subseteq 0..(b * w - 1)
    BY <2>2
  <2> QED
    BY <1>2, <2>1, <2>3 DEF AllAscii
<1>3. ~ (l < k)
  BY <1>1, <1>2
<1>4. ~ (k < l)
  BY <1>1, <1>2
<1> QED
  BY <1>1, <1>3, <1>4 DEF l

-----------------------------------------------------------------------------
(* Lanes of a register of w bytes loaded at byte k                         *)

\* The next len bytes are ASCII.
AsciiFrom(s, k, len) == \A t \in 0..(len - 1) : IsAscii(At(s, k + t))

\* The lanes with a high bit when m registers are ORed, and a register folded
\* onto its first half of h lanes.
HighIn(s, k, m, w) == {i \in 0..(w - 1) : \E j \in 0..(m - 1) : ~ IsAscii(At(s, k + j * w + i))}
FoldIn(lanes, h) == {i \in 0..(h - 1) : i \in lanes \/ i + h \in lanes}

\* The lanes from a to below b that hold a continuation byte.
ContsIn(s, k, a, b) == {i \in a..(b - 1) : IsCont(At(s, k + i))}

\* An ASCII prefix and the ASCII bytes behind it are an ASCII prefix.
LEMMA AsciiFurther ==
  ASSUME NEW s, NEW k \in Nat, NEW len \in Nat
  PROVE  AllAscii(s, k + len) <=> AllAscii(s, k) /\ AsciiFrom(s, k, len)
<1>1. ASSUME AllAscii(s, k + len) PROVE AllAscii(s, k) /\ AsciiFrom(s, k, len)
  <2>1. AllAscii(s, k)
    BY <1>1 DEF AllAscii
  <2>2. ASSUME NEW t \in 0..(len - 1) PROVE IsAscii(At(s, k + t))
    <3>1. k + t \in 0..(k + len - 1)
      OBVIOUS
    <3> QED
      BY <1>1, <3>1 DEF AllAscii
  <2> QED
    BY <2>1, <2>2 DEF AsciiFrom
<1>2. ASSUME AllAscii(s, k), AsciiFrom(s, k, len), NEW i \in 0..(k + len - 1)
      PROVE  IsAscii(At(s, i))
  <2>1. CASE i < k
    BY <1>2, <2>1 DEF AllAscii
  <2>2. CASE i >= k
    <3>1. i - k \in 0..(len - 1) /\ k + (i - k) = i
      BY <2>2
    <3> QED
      BY <1>2, <3>1 DEF AsciiFrom
  <2> QED
    BY <2>1, <2>2
<1> QED
  BY <1>1, <1>2 DEF AllAscii

\* A lane without a high bit is a lane without one in each of the m blocks that
\* were ORed.
LEMMA LanesClear ==
  ASSUME NEW s, NEW k \in Nat, NEW m \in {1, 4}, NEW w \in Nat, w >= 2
  PROVE  HighIn(s, k, m, w) = {} <=> AsciiFrom(s, k, m * w)
<1>1. w \in Nat /\ w >= 2
  OBVIOUS
<1>2. ASSUME HighIn(s, k, m, w) = {}, NEW t \in 0..(m * w - 1) PROVE IsAscii(At(s, k + t))
  <2>1. \E j \in 0..(m - 1) : j * w <= t /\ t < j * w + w
    <3>1. CASE m = 1
      <4>1. 0 \in 0..(m - 1) /\ 0 * w <= t /\ t < 0 * w + w
        BY <1>1, <1>2, <3>1
      <4> QED
        BY <4>1
    <3>2. CASE m = 4
      <4>1. t \in Nat /\ t < 4 * w /\ 0..(m - 1) = 0..3
        BY <1>1, <1>2, <3>2
      <4>2. CASE t < w
        <5>1. 0 \in 0..3 /\ 0 * w <= t /\ t < 0 * w + w
          BY <1>1, <4>1, <4>2
        <5> QED
          BY <4>1, <5>1
      <4>3. CASE t >= w /\ t < 2 * w
        <5>1. 1 \in 0..3 /\ 1 * w <= t /\ t < 1 * w + w
          BY <1>1, <4>1, <4>3
        <5> QED
          BY <4>1, <5>1
      <4>4. CASE t >= 2 * w /\ t < 3 * w
        <5>1. 2 \in 0..3 /\ 2 * w <= t /\ t < 2 * w + w
          BY <1>1, <4>1, <4>4
        <5> QED
          BY <4>1, <5>1
      <4>5. CASE t >= 3 * w
        <5>1. 3 \in 0..3 /\ 3 * w <= t /\ t < 3 * w + w
          BY <1>1, <4>1, <4>5
        <5> QED
          BY <4>1, <5>1
      <4> QED
        BY <1>1, <4>1, <4>2, <4>3, <4>4, <4>5
    <3> QED
      BY <3>1, <3>2
  <2>2. PICK j \in 0..(m - 1) : j * w <= t /\ t < j * w + w
    BY <2>1
  <2>3. j * w \in Nat
    BY <1>1, <2>2, MulMono
  <2>4. t - j * w \in 0..(w - 1) /\ k + j * w + (t - j * w) = k + t
    BY <1>1, <1>2, <2>2, <2>3
  <2> QED
    BY <1>2, <2>4 DEF HighIn
<1>3. ASSUME AsciiFrom(s, k, m * w), NEW i \in 0..(w - 1), NEW j \in 0..(m - 1)
      PROVE  IsAscii(At(s, k + j * w + i))
  <2>1. (j + 1) * w <= m * w /\ (j + 1) * w \in Nat /\ m * w \in Nat
    BY <1>1, MulMono
  <2>2. j * w \in Nat /\ (j + 1) * w = j * w + w
    BY <1>1
  <2>3. j * w + i \in 0..(m * w - 1) /\ k + (j * w + i) = k + j * w + i
    BY <1>1, <2>1, <2>2
  <2> QED
    BY <1>3, <2>3 DEF AsciiFrom
<1> QED
  BY <1>2, <1>3 DEF HighIn, AsciiFrom

\* Folding a register onto its first half loses no lane.
LEMMA FoldedClear ==
  ASSUME NEW h \in Nat, NEW lanes, lanes \subseteq 0..(2 * h - 1)
  PROVE  FoldIn(lanes, h) = {} <=> lanes = {}
<1>1. ASSUME FoldIn(lanes, h) = {}, NEW i \in lanes PROVE FALSE
  <2>1. i \in 0..(2 * h - 1)
    OBVIOUS
  <2>2. CASE i < h
    <3>1. i \in 0..(h - 1)
      BY <2>1, <2>2
    <3> QED
      BY <1>1, <3>1 DEF FoldIn
  <2>3. CASE i >= h
    <3>1. i - h \in 0..(h - 1) /\ (i - h) + h = i
      BY <2>1, <2>3
    <3> QED
      BY <1>1, <3>1 DEF FoldIn
  <2> QED
    BY <2>1, <2>2, <2>3
<1> QED
  BY <1>1 DEF FoldIn

\* At most all lanes have a bit, and none only if the set is empty.
LEMMA LanesNumber ==
  ASSUME NEW w \in Nat, NEW lanes, lanes \subseteq 0..(w - 1)
  PROVE  Cardinality(lanes) \in 0..w /\ (Cardinality(lanes) = 0 <=> lanes = {})
<1>1. IsFiniteSet(lanes) /\ Cardinality(lanes) \in 0..w
  BY SubsetOfInterval
<1> QED
  BY <1>1, FS_EmptySet

\* Below 65536 a 16-bit sum does not wrap.
LEMMA FitsWord ==
  \A x \in Nat : x < 65536 => x % 65536 = x
OBVIOUS

\* There are at most as many marked lanes as lanes.
LEMMA ContsInFinite ==
  ASSUME NEW s, NEW k, NEW a \in Nat, NEW b \in Nat, a <= b
  PROVE  /\ ContsIn(s, k, a, b) \subseteq a..(b - 1)
         /\ IsFiniteSet(ContsIn(s, k, a, b))
         /\ Cardinality(ContsIn(s, k, a, b)) \in 0..b
<1>1. ContsIn(s, k, a, b) \subseteq a..(b - 1) /\ ContsIn(s, k, a, b) \subseteq 0..(b - 1)
  BY DEF ContsIn
<1> QED
  BY <1>1, SubsetOfInterval

\* They can be counted in two halves, which share no lane,
LEMMA ContsInHalves ==
  ASSUME NEW s, NEW k, NEW h \in Nat, NEW w \in Nat, h <= w
  PROVE  Cardinality(ContsIn(s, k, 0, h)) + Cardinality(ContsIn(s, k, h, w))
           = Cardinality(ContsIn(s, k, 0, w))
<1> DEFINE L == ContsIn(s, k, 0, h)
           H == ContsIn(s, k, h, w)
<1>1. IsFiniteSet(L) /\ IsFiniteSet(H)
  <2>1. IsFiniteSet(L)
    BY ContsInFinite
  <2>2. IsFiniteSet(H)
    BY ContsInFinite
  <2> QED
    BY <2>1, <2>2
<1>2. L \cap H = {} /\ L \cup H = ContsIn(s, k, 0, w)
  BY DEF ContsIn
<1> HIDE DEF L, H
<1>3. Cardinality(L \cup H) = Cardinality(L) + Cardinality(H)
  BY <1>1, <1>2, CardUnion
<1> QED
  BY <1>2, <1>3 DEF L, H

\* and with 255 for each in 16 bits.
LEMMA WeighedFits ==
  ASSUME NEW s, NEW k, NEW w \in Nat, w <= 256
  PROVE  (255 * Cardinality(ContsIn(s, k, 0, w))) % 65536 = Cardinality(ContsIn(s, k, 0, w)) * 255
<1> DEFINE c == Cardinality(ContsIn(s, k, 0, w))
<1>1. c \in 0..w
  BY ContsInFinite
<1> HIDE DEF c
<1>2. \A x \in 0..256 : (255 * x) % 65536 = x * 255
  OBVIOUS
<1>3. c \in 0..256
  BY <1>1
<1> QED
  BY <1>2, <1>3 DEF c

\* The continuation bytes before the next block are those before this one and
\* those in it.
LEMMA ContsAdvance ==
  ASSUME NEW s, NEW k \in Nat, NEW w \in Nat
  PROVE  /\ IsFiniteSet(Conts(s, k)) /\ Cardinality(Conts(s, k)) \in 0..k
         /\ Cardinality(Conts(s, k + w))
              = Cardinality(Conts(s, k)) + Cardinality(ContsIn(s, k, 0, w))
<1> DEFINE M == ContsIn(s, k, 0, w)
           low == Conts(s, k)
           high == {i + k : i \in M}
<1>1. w \in Nat /\ k \in Int
  OBVIOUS
<1>2. M \subseteq 0..(w - 1) /\ IsFiniteSet(M) /\ M \subseteq Int
  BY <1>1, ContsInFinite
<1>3. low \subseteq 0..(k - 1)
  BY DEF Conts
<1>4. IsFiniteSet(low) /\ Cardinality(low) \in 0..k
  BY <1>3, SubsetOfInterval
<1>5. Conts(s, k + w) = low \cup high
  <2>1. ASSUME NEW i \in Conts(s, k + w) PROVE i \in low \cup high
    <3>1. i \in Nat /\ i < k + w /\ IsCont(At(s, i))
      BY <1>1, <2>1 DEF Conts
    <3>2. CASE i < k
      BY <3>1, <3>2 DEF Conts
    <3>3. CASE i >= k
      <4>1. i - k \in 0..(w - 1) /\ k + (i - k) = i /\ (i - k) + k = i
        BY <1>1, <3>1, <3>3
      <4>2. i - k \in M
        BY <3>1, <4>1 DEF ContsIn
      <4> QED
        BY <4>1, <4>2
    <3> QED
      BY <3>1, <3>2, <3>3
  <2>2. ASSUME NEW i \in low PROVE i \in Conts(s, k + w)
    BY <1>1, <2>2 DEF Conts
  <2>3. ASSUME NEW i \in M PROVE i + k \in Conts(s, k + w)
    <3>1. i \in 0..(w - 1) /\ IsCont(At(s, k + i)) /\ k + i = i + k
      BY <1>1, <2>3 DEF ContsIn
    <3> QED
      BY <1>1, <3>1 DEF Conts
  <2> QED
    BY <2>1, <2>2, <2>3
<1>6. low \cap high = {}
  <2> SUFFICES ASSUME NEW i \in M, i + k \in low PROVE FALSE
    OBVIOUS
  <2> QED
    BY <1>2, <1>3
<1> HIDE DEF M, low
<1>7. IsFiniteSet(high) /\ Cardinality(high) = Cardinality(M)
  BY <1>1, <1>2, CardShift, Zenon
<1> HIDE DEF high
<1>8. Cardinality(low \cup high) = Cardinality(low) + Cardinality(high)
  BY <1>4, <1>6, <1>7, CardUnion
<1> QED
  BY <1>4, <1>5, <1>7, <1>8 DEF M, low

-----------------------------------------------------------------------------
(* Taking ASCII bytes off a slice                                          *)

\* t is what is left of s after bytes were taken off that are all ASCII.
AsciiTaken(s, t) ==
  /\ t \in Seq(Byte) /\ Len(t) <= Len(s)
  /\ t = Suffix(s, Len(s) - Len(t)) /\ AllAscii(s, Len(s) - Len(t))

\* More of them can be taken off.
LEMMA TakeAscii ==
  ASSUME NEW s \in Seq(Byte), NEW t, AsciiTaken(s, t),
         NEW size \in Nat, Len(t) >= size, AllAscii(t, size)
  PROVE  AsciiTaken(s, Suffix(t, size)) /\ Len(Suffix(t, size)) = Len(t) - size
<1> DEFINE taken == Len(s) - Len(t)
           rest == Suffix(t, size)
<1>1. /\ t \in Seq(Byte) /\ Len(s) \in Nat /\ Len(t) \in Nat
      /\ taken \in Nat /\ taken \in 0..Len(s) /\ t = Suffix(s, taken)
      /\ AllAscii(s, taken) /\ size \in 0..Len(t) /\ size \in 0..(Len(s) - taken)
      /\ Len(t) = Len(s) - taken
  BY AtByte DEF AsciiTaken
<1> HIDE DEF taken
<1>2. rest \in Seq(Byte) /\ Len(rest) = Len(t) - size
  BY <1>1, SuffixFacts
<1>3. rest = Suffix(s, taken + size)
  BY <1>1, SuffixSuffix
<1>4. ASSUME NEW i \in 0..(taken + size - 1) PROVE IsAscii(At(s, i))
  <2>1. CASE i < taken
    BY <1>1, <2>1 DEF AllAscii
  <2>2. CASE i >= taken
    <3>1. i - taken \in 0..(size - 1) /\ i - taken \in Index(t) /\ taken + (i - taken) = i
      BY <1>1, <2>2 DEF Index
    <3>2. At(t, i - taken) = At(s, i)
      BY <1>1, <3>1, SuffixFacts
    <3> QED
      BY <3>1, <3>2 DEF AllAscii
  <2> QED
    BY <1>1, <2>1, <2>2
<1> HIDE DEF rest
<1>5. Len(s) - Len(rest) = taken + size /\ Len(rest) <= Len(s)
  BY <1>1, <1>2
<1>6. AllAscii(s, taken + size)
  BY <1>1, <1>4 DEF AllAscii
<1>7. AsciiTaken(s, rest)
  BY <1>2, <1>3, <1>5, <1>6, Zenon DEF AsciiTaken
<1> QED
  BY <1>2, <1>7 DEF rest

\* Where that ends, what was taken is the longest ASCII prefix.
LEMMA AllAsciiTaken ==
  ASSUME NEW s \in Seq(Byte), NEW t, AsciiTaken(s, t), Len(t) > 0 => ~ IsAscii(At(t, 0))
  PROVE  /\ Len(s) - Len(t) \in 0..Len(s) /\ AllAscii(s, Len(s) - Len(t))
         /\ Len(s) - Len(t) < Len(s) => ~ IsAscii(At(s, Len(s) - Len(t)))
         /\ LeadingAscii(s, Len(s), 1) = Len(s) - Len(t)
<1> DEFINE taken == Len(s) - Len(t)
<1>1. /\ t \in Seq(Byte) /\ Len(s) \in Nat /\ Len(t) \in Nat
      /\ taken \in Nat /\ taken \in 0..Len(s) /\ t = Suffix(s, taken) /\ AllAscii(s, taken)
      /\ taken * 1 = taken /\ (taken + 1) * 1 = taken + 1
      /\ taken < Len(s) => Len(t) > 0
  BY AtByte DEF AsciiTaken
<1> HIDE DEF taken
<1>2. ASSUME taken < Len(s) PROVE ~ IsAscii(At(s, taken))
  <2>1. Len(t) > 0 /\ 0 \in Index(t) /\ taken + 0 = taken
    BY <1>1, <1>2 DEF Index
  <2>2. At(Suffix(s, taken), 0) = At(s, taken + 0)
    BY <1>1, <2>1, SuffixFacts
  <2> QED
    BY <1>1, <2>1, <2>2
<1>3. taken < Len(s) => ~ AllAscii(s, taken + 1)
  BY <1>1, <1>2 DEF AllAscii
<1>4. LeadingAscii(s, Len(s), 1) = taken
  BY <1>1, <1>3, LeadingAsciiUnique
<1> QED
  BY <1>1, <1>2, <1>4 DEF taken

-----------------------------------------------------------------------------
(* One step of a decoder                                                   *)

\* How far the decoder goes from a start.
RuneWidth(s, i) == IF RuneOk(s, i) THEN SeqLen(At(s, i)) ELSE 1

\* From a start, the decoder's step goes to the next start: no position between is
\* one.
LEMMA NextStart ==
  ASSUME NEW s \in Seq(Byte), NEW i \in Index(s), IsStart(s, i)
  PROVE  /\ RuneWidth(s, i) \in 1..4
         /\ Cut(s, i + RuneWidth(s, i))
         /\ StartsBelow(s, i + RuneWidth(s, i)) = StartsBelow(s, i) \cup {i}
<1> DEFINE w == RuneWidth(s, i)
<1>1. Len(s) \in Nat /\ i \in Nat /\ i < Len(s) /\ At(s, i) \in Byte
  BY AtByte DEF Index
<1>2. SeqLen(At(s, i)) \in 0..4
  BY <1>1, LeadLengths
<1>3. w \in 1..4 /\ i + w <= Len(s)
  BY <1>1, <1>2 DEF RuneOk, RuneWidth
<1>4. \A d \in 1..3 : d < w => RuneOk(s, i) /\ SeqLen(At(s, i)) > d
  BY <1>2 DEF RuneWidth
<1>5. w < 4 /\ SeqLen(At(s, i)) > w => ~ RuneOk(s, i)
  BY <1>2 DEF RuneWidth
<1> HIDE DEF w
<1>6. ASSUME NEW j \in (i + 1)..(i + w - 1)
      PROVE  j \in Index(s) /\ ~ IsStart(s, j) /\ ~ RuneOk(s, j)
  <2>1. j - i \in 1..3 /\ j - i < w /\ i + (j - i) = j /\ j - (j - i) = i /\ j - i <= j
    BY <1>1, <1>3
  <2>2. j \in Index(s) /\ IsCont(At(s, j))
    BY <1>1, <1>3, <1>4, <2>1, CoveredIsCont DEF Index
  <2>3. ~ RuneOk(s, j)
    BY <2>2, AtByte, LeadLengths DEF RuneOk
  <2>4. ~ IsStart(s, j)
    BY <1>4, <2>1 DEF IsStart
  <2> QED
    BY <2>2, <2>3, <2>4
<1>7. IsStart(s, i + w)
  <2> SUFFICES ASSUME NEW d \in 1..3, d <= i + w,
                      SeqLen(At(s, (i + w) - d)) > d, RuneOk(s, (i + w) - d)
               PROVE  FALSE
    BY DEF IsStart
  <2>1. CASE d < w
    BY <1>1, <1>3, <1>6, <2>1
  <2>2. CASE d = w
    BY <1>1, <1>3, <1>5, <2>2
  <2>3. CASE d > w
    <3>1. d - w \in 1..3 /\ d - w <= i /\ i - (d - w) = (i + w) - d
          /\ (i + w) - d \in Index(s)
      BY <1>1, <1>3, <2>3 DEF Index
    <3>2. SeqLen(At(s, (i + w) - d)) > d - w
      BY <1>3, <3>1, AtByte, LeadLengths
    <3> QED
      BY <3>1, <3>2 DEF IsStart
  <2> QED
    BY <1>3, <2>1, <2>2, <2>3
<1>8. Cut(s, i + w)
  BY <1>1, <1>3, <1>7 DEF Cut
<1>9. StartsBelow(s, i + w) = StartsBelow(s, i) \cup {i}
  <2>1. ASSUME NEW j \in StartsBelow(s, i + w) PROVE j \in StartsBelow(s, i) \cup {i}
    <3>1. j \in Starts(s) /\ j \in Nat /\ j < i + w /\ IsStart(s, j)
      BY <1>1, <2>1 DEF StartsBelow, Starts, Index
    <3>2. ~ (j > i)
      BY <1>1, <1>3, <1>6, <3>1
    <3> QED
      BY <1>1, <3>1, <3>2 DEF StartsBelow
  <2>2. ASSUME NEW j \in StartsBelow(s, i) PROVE j \in StartsBelow(s, i + w)
    BY <1>1, <1>3, <2>2 DEF StartsBelow, Starts, Index
  <2>3. i \in StartsBelow(s, i + w)
    BY <1>1, <1>3 DEF StartsBelow, Starts
  <2> QED
    BY <2>1, <2>2, <2>3
<1> QED
  BY <1>3, <1>8, <1>9 DEF w

\* So each step counts one start.
LEMMA NextStartCount ==
  ASSUME NEW s \in Seq(Byte), NEW i \in Index(s), IsStart(s, i)
  PROVE  Cardinality(StartsBelow(s, i + RuneWidth(s, i))) = Cardinality(StartsBelow(s, i)) + 1
<1>1. i \in Nat /\ i \in 0..Len(s)
  BY AtByte DEF Index
<1>2. IsFiniteSet(StartsBelow(s, i)) /\ i \notin StartsBelow(s, i)
  <2>1. ~ (i < i)
    BY <1>1
  <2>2. IsFiniteSet(StartsBelow(s, i))
    BY <1>1, StartsBelowFinite
  <2> QED
    BY <2>1, <2>2 DEF StartsBelow
<1>3. Cardinality(StartsBelow(s, i) \cup {i}) = Cardinality(StartsBelow(s, i)) + 1
  BY <1>2, FS_AddElement
<1> QED
  BY <1>3, NextStart
-----------------------------------------------------------------------------
(* Cutting a judged prefix before its last lead                            *)

\* A cut before which every rune is well formed: what is left can be decoded
\* on its own.
CleanCut(s, c) == Cut(s, c) /\ \A i \in StartsBelow(s, c) : RuneOk(s, i)

\* In a prefix without a structural error, the cut before a byte that is no
\* continuation byte is clean.
LEMMA LastLeadClean ==
  ASSUME NEW s \in Seq(Byte), NEW e \in 0..Len(s), StructOK(s, e),
         NEW c \in 0..(e - 1), ~ IsCont(At(s, c))
  PROVE  /\ StructOK(s, c) /\ ~ Expected(s, c)
         /\ CleanCut(s, c)
<1>1. Len(s) \in Nat /\ e \in Nat /\ e <= Len(s) /\ c \in Nat /\ c < e /\ c \in 0..Len(s)
  BY AtByte
<1>2. StructOK(s, c)
  BY <1>1 DEF StructOK
<1>3. ~ Expected(s, c)
  BY DEF StructOK, ByteOk
<1> QED
  BY <1>1, <1>2, <1>3, StructStarts DEF CleanCut

\* If that byte is the last of its kind in the prefix, the runes before it are the
\* bytes of the prefix that are no continuation bytes, but for itself
\* (countValidPrefix: end - contCount - 1).
LEMMA LastLeadCount ==
  ASSUME NEW s \in Seq(Byte), NEW e \in 0..Len(s), StructOK(s, e),
         NEW c \in 0..(e - 1), ~ IsCont(At(s, c)),
         \A j \in (c + 1)..(e - 1) : IsCont(At(s, j))
  PROVE  Cardinality(StartsBelow(s, c)) = (e - Cardinality(Conts(s, e))) - 1
<1> DEFINE A == StartsBelow(s, c)
           K == Conts(s, e)
<1>1. Len(s) \in Nat /\ e \in Nat /\ e <= Len(s) /\ c \in Nat /\ c < e /\ c \in 0..Len(s)
  BY AtByte
<1>2. \A i \in 0..(c - 1) : IsStart(s, i) <=> ~ IsCont(At(s, i))
  BY <1>1, LastLeadClean, StructStarts
<1>3. A \subseteq 0..(c - 1) /\ IsFiniteSet(A)
  BY <1>1, StartsBelowFinite
<1>4. K \subseteq 0..(e - 1)
  BY DEF Conts
<1>5. IsFiniteSet(K)
  BY <1>1, <1>4, SubsetOfInterval
<1>6. 0..(e - 1) = (A \cup K) \cup {c}
  <2>1. ASSUME NEW i \in 0..(e - 1), i \notin K, i # c PROVE i \in A
    <3>1. ~ IsCont(At(s, i))
      BY <2>1 DEF Conts
    <3>2. i \in 0..(c - 1)
      BY <1>1, <2>1, <3>1
    <3> QED
      BY <1>1, <1>2, <3>1, <3>2 DEF StartsBelow, Starts, Index
  <2>2. A \subseteq 0..(e - 1) /\ c \in 0..(e - 1)
    BY <1>1, <1>3
  <2> QED
    BY <1>4, <2>1, <2>2
<1>7. A \cap K = {}
  BY <1>2, <1>3 DEF StartsBelow, Starts, Conts
<1>8. c \notin A \cup K
  <2>1. c \notin A
    BY <1>1, <1>3
  <2> QED
    BY <2>1 DEF Conts
<1> HIDE DEF A, K
<1>9. IsFiniteSet(A \cup K) /\ Cardinality(A \cup K) = Cardinality(A) + Cardinality(K)
  BY <1>3, <1>5, <1>7, CardUnion
<1>10. Cardinality((A \cup K) \cup {c}) = Cardinality(A \cup K) + 1
  BY <1>8, <1>9, FS_AddElement
<1>11. Cardinality(0..(e - 1)) = e
  BY <1>1, FS_Interval
<1>12. Cardinality(A) \in Nat /\ Cardinality(K) \in Nat
  BY <1>3, <1>5, FS_CardinalityType
<1>13. e = (Cardinality(A) + Cardinality(K)) + 1
  BY <1>6, <1>9, <1>10, <1>11
<1>14. Cardinality(A) = (e - Cardinality(K)) - 1
  BY <1>1, <1>12, <1>13
<1> QED
  BY <1>14 DEF A, K

\* The beginning is a clean cut with nothing before it.
LEMMA CleanZero ==
  ASSUME NEW s \in Seq(Byte)
  PROVE  CleanCut(s, 0) /\ StartsBelow(s, 0) = {} /\ Cardinality(StartsBelow(s, 0)) = 0
<1>1. Len(s) \in Nat /\ StartsBelow(s, 0) = {}
  BY AtByte DEF StartsBelow, Starts, Index
<1>2. 0 \in 0..Len(s) /\ IsStart(s, 0)
  BY <1>1, FirstIsStart
<1>3. Cardinality(StartsBelow(s, 0)) = 0
  BY <1>1, FS_EmptySet
<1> QED
  BY <1>1, <1>2, <1>3 DEF CleanCut, Cut

\* The blocks of w bytes in len bytes: they fit, one more would not, and there is
\* one if len is at least w (len(p)/16 and its like in the drivers).
LEMMA WholeBlocks ==
  ASSUME NEW len \in Nat, NEW w \in Nat, w >= 1
  PROVE  /\ len \div w \in 0..len
         /\ (len \div w) * w \in 0..len
         /\ len < ((len \div w) + 1) * w
         /\ len >= w => len \div w >= 1
<1> DEFINE k == len \div w
<1>1. k \in Int /\ w * k <= len /\ len < w * k + w
  BY SMT
<1> HIDE DEF k
<1>2. w * k = k * w /\ (k + 1) * w = k * w + w /\ k * w \in Int
  BY <1>1, SMT
<1>3. k >= 0
  <2> SUFFICES ASSUME k <= -1 PROVE FALSE
    BY <1>1
  <2>1. -1 - k \in Nat
    BY <1>1
  <2>2. (-1 - k) * w \in Nat
    BY <2>1
  <2>3. (-1 - k) * w = (-w) - k * w
    BY <1>1, SMT
  <2> QED
    BY <1>1, <1>2, <2>2, <2>3
<1>4. k <= len
  <2>1. k * 1 <= k * w
    BY <1>1, <1>3
  <2> QED
    BY <1>1, <1>2, <2>1
<1>5. k = 0 => len < w
  BY <1>1
<1> QED
  BY <1>1, <1>2, <1>3, <1>4, <1>5 DEF k

-----------------------------------------------------------------------------
(* The vector operations of the validators                                 *)

\* A length is 0..4, and 0 for continuation bytes only.
LEMMA SeqLenRange ==
  ASSUME NEW b \in Byte
  PROVE  /\ SeqLen(b) \in 0..4
         /\ SeqLen(b) = 0 <=> IsCont(b)
         /\ SeqLen(b) = 1 <=> b < 128
BY DEF SeqLen, IsCont, Byte

\* The high nibble of a byte indexes a table of sixteen.
LEMMA NibbleRange == \A b \in Byte : b \div 16 \in 0..15
BY DEF Byte

\* The table contLen holds the length a lead byte announces.
LEMMA ContLenTable ==
  ASSUME NEW b \in Byte
  PROVE  contLenN[(b \div 16) + 1] = SeqLen(b)
BY DEF contLenN, Table, SeqLen, Byte

\* PSRLW and the mask give the same nibbles as a shift of each byte.
LEMMA HighAgree ==
  ASSUME NEW w \in Widths, NEW raw \in Vec(w)
  PROVE  HighByWord(w, raw) = HighByByte(w, raw)
<1>1. ASSUME NEW i \in Lane(w)
      PROVE  (raw[i] \div 16 + IF i % 2 = 0 THEN (raw[i + 1] % 16) * 16 ELSE 0) % 16
               = raw[i] \div 16
  <2>1. raw[i] \in Byte
    BY DEF Vec
  <2>2. \A b \in Byte : (b \div 16 + 0) % 16 = b \div 16
    BY DEF Byte
  <2>3. CASE i % 2 = 0
    <3>1. i + 1 \in Lane(w)
      BY <2>3 DEF Lane, Widths
    <3>2. raw[i + 1] % 16 \in 0..15
      BY <3>1 DEF Vec, Byte
    <3>3. \A a \in Byte, m \in 0..15 : (a \div 16 + m * 16) % 16 = a \div 16
      BY DEF Byte
    <3> QED
      BY <2>1, <2>3, <3>2, <3>3
  <2>4. CASE i % 2 # 0
    BY <2>1, <2>2, <2>4
  <2> QED
    BY <2>3, <2>4
<1> QED
  BY <1>1 DEF HighByWord, HighByByte

\* The two 128-bit alignments of AVX2 shift the whole register.
LEMMA ShiftAgree ==
  ASSUME NEW w \in Widths, NEW k \in {1, 2}, NEW u \in Vec(w), NEW v \in Vec(w)
  PROVE  ShiftInHalves(w, k, u, v) = ShiftIn(w, k, u, v)
<1>1. Half(w) \in Nat /\ w = Half(w) + Half(w) /\ Half(w) >= 2
  BY DEF Half, Widths
<1> DEFINE seam    == [i \in Lane(w) |-> IF i < Half(w) THEN u[Half(w) + i] ELSE v[i - Half(w)]]
           base(i) == IF i < Half(w) THEN 0 ELSE Half(w)
<1>2. ASSUME NEW i \in Lane(w)
      PROVE  (IF i - base(i) < k THEN seam[Half(w) - k + i] ELSE v[i - k])
               = (IF i < k THEN u[w - k + i] ELSE v[i - k])
  <2>1. CASE i < k
    <3>1. Half(w) - k + i \in Lane(w) /\ Half(w) - k + i < Half(w)
      BY <1>1, <2>1 DEF Lane, Widths
    <3>2. seam[Half(w) - k + i] = u[Half(w) + (Half(w) - k + i)]
      BY <3>1
    <3> QED
      BY <1>1, <2>1, <3>2 DEF Lane
  <2>2. CASE i >= Half(w) /\ i - Half(w) < k
    <3>1. Half(w) - k + i \in Lane(w) /\ ~ (Half(w) - k + i < Half(w))
      BY <1>1, <2>2 DEF Lane, Widths
    <3>2. seam[Half(w) - k + i] = v[(Half(w) - k + i) - Half(w)]
      BY <3>1
    <3> QED
      BY <1>1, <2>2, <3>2 DEF Lane
  <2>3. CASE ~ (i < k) /\ ~ (i >= Half(w) /\ i - Half(w) < k)
    BY <1>1, <2>3 DEF Lane
  <2> QED
    BY <1>1, <2>1, <2>2, <2>3 DEF Lane
<1> QED
  BY <1>2 DEF ShiftInHalves, ShiftIn

\* u - min(u, c) is the saturating subtraction.
LEMMA SubAgree ==
  ASSUME NEW w \in Widths, NEW u \in Vec(w), NEW c \in Byte
  PROVE  SubMin(w, u, c) = SubSat(w, u, c)
<1>1. ASSUME NEW i \in Lane(w)
      PROVE  (u[i] - Least(u[i], c)) % 256 = IF u[i] > c THEN u[i] - c ELSE 0
  <2>1. u[i] \in Byte
    BY DEF Vec
  <2>2. \A d \in 0..255 : d % 256 = d
    OBVIOUS
  <2>3. CASE u[i] > c
    <3>1. Least(u[i], c) = c
      BY <2>1, <2>3 DEF Least, Byte
    <3>2. u[i] - c \in 0..255
      <4>1. \A a, d \in 0..255 : a > d => a - d \in 0..255
        OBVIOUS
      <4> QED
        BY <2>1, <2>3, <4>1 DEF Byte
    <3> QED
      BY <2>2, <2>3, <3>1, <3>2
  <2>4. CASE ~ (u[i] > c)
    <3>1. u[i] - Least(u[i], c) = 0
      BY <2>1, <2>4 DEF Least, Byte
    <3>2. 0 % 256 = 0
      OBVIOUS
    <3> QED
      BY <2>4, <3>1, <3>2
  <2> QED
    BY <2>3, <2>4
<1> QED
  BY <1>1 DEF SubMin, SubSat

\* A lookup by halves in a doubled table is a lookup in the table.
LEMMA LookAgree ==
  ASSUME NEW w \in Widths, NEW t, NEW idx \in [Lane(w) -> 0..15]
  PROVE  LookupHalves(w, Twice(t), idx) = Lookup(w, t, idx)
<1>1. ASSUME NEW i \in Lane(w)
      PROVE  Twice(t)[(IF i < Half(w) THEN 0 ELSE 16) + idx[i] + 1] = t[idx[i] + 1]
  <2>1. idx[i] \in 0..15
    OBVIOUS
  <2>2. \A d \in 0..15 : Twice(t)[0 + d + 1] = t[d + 1] /\ Twice(t)[16 + d + 1] = t[d + 1]
    BY DEF Twice
  <2> QED
    BY <2>1, <2>2
<1> QED
  BY <1>1 DEF LookupHalves, Lookup

\* Sums of vectors are vectors of bytes.
LEMMA AddType ==
  ASSUME NEW w \in Widths, NEW u \in Vec(w), NEW v \in Vec(w)
  PROVE  AddB(w, u, v) \in Vec(w)
<1>1. \A a, b \in Byte : (a + b) % 256 \in Byte
  BY DEF Byte
<1>2. \A i \in Lane(w) : (u[i] + v[i]) % 256 \in Byte
  BY <1>1 DEF Vec
<1> QED
  BY <1>2 DEF AddB, Vec

\* So are their saturating differences.
LEMMA SubType ==
  ASSUME NEW w \in Widths, NEW u \in Vec(w), NEW c \in Byte
  PROVE  SubSat(w, u, c) \in Vec(w)
<1>1. \A a \in Byte : (IF a > c THEN a - c ELSE 0) \in Byte
  BY DEF Byte
<1>2. \A i \in Lane(w) : (IF u[i] > c THEN u[i] - c ELSE 0) \in Byte
  BY <1>1 DEF Vec
<1> QED
  BY <1>2 DEF SubSat, Vec

\* A shift takes its lanes from its two arguments.
LEMMA ShiftType ==
  ASSUME NEW w \in Widths, NEW S, NEW k \in {1, 2}, NEW u \in [Lane(w) -> S],
         NEW v \in [Lane(w) -> S]
  PROVE  ShiftIn(w, k, u, v) \in [Lane(w) -> S]
<1>1. ASSUME NEW i \in Lane(w)
      PROVE  (IF i < k THEN u[w - k + i] ELSE v[i - k]) \in S
  BY DEF Lane, Widths
<1> QED
  BY <1>1 DEF ShiftIn

\* The high nibbles of a block.
LEMMA HighType ==
  ASSUME NEW w \in Widths, NEW raw \in Vec(w)
  PROVE  HighByByte(w, raw) \in [Lane(w) -> 0..15]
BY NibbleRange DEF HighByByte, Vec

\* A lookup of nibbles in contLen gives lengths.
LEMMA LenType ==
  ASSUME NEW w \in Widths, NEW idx \in [Lane(w) -> 0..15]
  PROVE  Lookup(w, contLenN, idx) \in [Lane(w) -> 0..4]
<1>1. \A d \in 0..15 : contLenN[d + 1] \in 0..4
  BY DEF contLenN, Table
<1> QED
  BY <1>1 DEF Lookup

-----------------------------------------------------------------------------
(* The loop body of the NEON kernel, written out                           *)

Lens(w, raw)     == Lookup(w, contLenN, HighByByte(w, raw))
Sum(w, raw, c)   == AddB(w, Lens(w, raw), SubSat(w, ShiftIn(w, 1, c, Lens(w, raw)), 1))
Carry(w, raw, c) == AddB(w, Sum(w, raw, c), SubSat(w, ShiftIn(w, 2, c, Sum(w, raw, c)), 2))
Off1(w, raw, last)   == ShiftIn(w, 1, last.raw, raw)
Off1Hi(w, raw, last) == ShiftIn(w, 1, last.high, HighByByte(w, raw))

BadLane(w, raw, last, i) ==
  \/ SubSat(w, raw, 244)[i] # 0
  \/ GtS(Carry(w, raw, last.carry)[i], Lens(w, raw)[i]) <=> GtS(Lens(w, raw)[i], 0)
  \/ Off1(w, raw, last)[i] = 237 /\ GtS(raw[i], 159)
  \/ Off1(w, raw, last)[i] = 244 /\ GtS(raw[i], 143)
  \/ /\ GtS(Lookup(w, initMinsN, Off1Hi(w, raw, last))[i], Off1(w, raw, last)[i])
     /\ GtS(Lookup(w, secMinsN, Off1Hi(w, raw, last))[i], raw[i])

Body(w, raw, last) ==
  [regs |-> [raw |-> raw, high |-> HighByByte(w, raw), carry |-> Carry(w, raw, last.carry)],
   bad  |-> {i \in Lane(w) : BadLane(w, raw, last, i)}]

\* The announced lengths are bytes, and at most four.
LEMMA LensType ==
  ASSUME NEW w \in Widths, NEW raw \in Vec(w)
  PROVE  Lens(w, raw) \in [Lane(w) -> 0..4] /\ Lens(w, raw) \in Vec(w)
BY HighType, LenType DEF Lens, Vec, Byte

\* The carries after the first look-back are bytes.
LEMMA SumType ==
  ASSUME NEW w \in Widths, NEW raw \in Vec(w), NEW c \in Vec(w)
  PROVE  Sum(w, raw, c) \in Vec(w)
<1>1. Lens(w, raw) \in Vec(w)
  BY LensType
<1>2. ShiftIn(w, 1, c, Lens(w, raw)) \in Vec(w)
  BY <1>1, ShiftType DEF Vec
<1>3. SubSat(w, ShiftIn(w, 1, c, Lens(w, raw)), 1) \in Vec(w)
  BY <1>2, SubType DEF Byte
<1> QED
  BY <1>1, <1>3, AddType DEF Sum

\* So are those after the second.
LEMMA CarryType ==
  ASSUME NEW w \in Widths, NEW raw \in Vec(w), NEW c \in Vec(w)
  PROVE  Carry(w, raw, c) \in Vec(w)
<1>1. Sum(w, raw, c) \in Vec(w)
  BY SumType
<1>2. ShiftIn(w, 2, c, Sum(w, raw, c)) \in Vec(w)
  BY <1>1, ShiftType DEF Vec
<1>3. SubSat(w, ShiftIn(w, 2, c, Sum(w, raw, c)), 2) \in Vec(w)
  BY <1>2, SubType DEF Byte
<1> QED
  BY <1>1, <1>3, AddType DEF Carry

-----------------------------------------------------------------------------
(* Every port computes the same                                            *)

\* A port computes Body if its instructions and tables do, on the vectors that
\* arise in the loop, what those of the NEON port do.
Alike(w, isa, raw, prv) ==
  /\ High(w, isa, raw) = HighByByte(w, raw)
  /\ Look(w, isa, isa.lens, HighByByte(w, raw)) = Lens(w, raw)
  /\ Sub(w, isa, Shift(w, isa, 1, prv.carry, Lens(w, raw)), 1)
       = SubSat(w, ShiftIn(w, 1, prv.carry, Lens(w, raw)), 1)
  /\ Sub(w, isa, Shift(w, isa, 2, prv.carry, Sum(w, raw, prv.carry)), 2)
       = SubSat(w, ShiftIn(w, 2, prv.carry, Sum(w, raw, prv.carry)), 2)
  /\ Shift(w, isa, 1, prv.raw, raw) = Off1(w, raw, prv)
  /\ Shift(w, isa, 1, prv.high, HighByByte(w, raw)) = Off1Hi(w, raw, prv)
  /\ Look(w, isa, isa.inits, Off1Hi(w, raw, prv)) = Lookup(w, initMinsN, Off1Hi(w, raw, prv))
  /\ Look(w, isa, isa.secs, Off1Hi(w, raw, prv)) = Lookup(w, secMinsN, Off1Hi(w, raw, prv))
  /\ Sub(w, isa, raw, 244) = SubSat(w, raw, 244)

\* Then its block function is Body.
LEMMA AlikeBody ==
  ASSUME NEW w \in Widths, NEW isa, NEW raw, NEW prv, Alike(w, isa, raw, prv)
  PROVE  ValidateBlock(w, isa, raw, prv) = Body(w, raw, prv)
<1> DEFINE high   == High(w, isa, raw)
           len    == Look(w, isa, isa.lens, high)
           sum    == AddB(w, len, Sub(w, isa, Shift(w, isa, 1, prv.carry, len), 1))
           carry  == AddB(w, sum, Sub(w, isa, Shift(w, isa, 2, prv.carry, sum), 2))
           off1   == Shift(w, isa, 1, prv.raw, raw)
           off1hi == Shift(w, isa, 1, prv.high, high)
           init   == Look(w, isa, isa.inits, off1hi)
           sec    == Look(w, isa, isa.secs, off1hi)
           excess == Sub(w, isa, raw, 244)
           Bad(i) == \/ excess[i] # 0
                     \/ GtS(carry[i], len[i]) <=> GtS(len[i], 0)
                     \/ off1[i] = 237 /\ GtS(raw[i], 159)
                     \/ off1[i] = 244 /\ GtS(raw[i], 143)
                     \/ GtS(init[i], off1[i]) /\ GtS(sec[i], raw[i])
<1>1. high = HighByByte(w, raw)
  BY DEF Alike
<1>2. len = Lens(w, raw)
  BY <1>1 DEF Alike
<1>3. sum = Sum(w, raw, prv.carry)
  BY <1>2 DEF Alike, Sum
<1>4. carry = Carry(w, raw, prv.carry)
  BY <1>3 DEF Alike, Carry
<1>5. off1 = Off1(w, raw, prv) /\ off1hi = Off1Hi(w, raw, prv)
  BY <1>1 DEF Alike
<1>6. /\ init = Lookup(w, initMinsN, Off1Hi(w, raw, prv))
      /\ sec = Lookup(w, secMinsN, Off1Hi(w, raw, prv))
  BY <1>5 DEF Alike
<1>7. excess = SubSat(w, raw, 244)
  BY DEF Alike
<1>8. ValidateBlock(w, isa, raw, prv)
        = [regs |-> [raw |-> raw, high |-> high, carry |-> carry],
           bad  |-> {i \in Lane(w) : Bad(i)}]
  BY DEF ValidateBlock
<1>9. \A i \in Lane(w) : Bad(i) <=> BadLane(w, raw, prv, i)
  <2> HIDE DEF high, len, sum, carry, off1, off1hi, init, sec, excess
  <2> QED
    BY <1>2, <1>4, <1>5, <1>6, <1>7 DEF BadLane
<1> HIDE DEF high, len, sum, carry, off1, off1hi, init, sec, excess, Bad
<1>10. {i \in Lane(w) : Bad(i)} = {i \in Lane(w) : BadLane(w, raw, prv, i)}
  BY <1>9
<1> QED
  BY <1>1, <1>4, <1>8, <1>10 DEF Body

\* Body is the block function of the NEON port.
LEMMA AlikeNEON ==
  ASSUME NEW w \in Widths, NEW raw, NEW prv
  PROVE  Alike(w, NEON, raw, prv)
BY DEF Alike, NEON, High, Look, Shift, Sub, Lens, Off1, Off1Hi

\* The VSX port differs from it in the copies of the tables only.
LEMMA AlikeVSX ==
  ASSUME NEW w \in Widths, NEW raw, NEW prv
  PROVE  Alike(w, VSX, raw, prv)
<1>1. contLen_p = contLenN /\ initMins_p = initMinsN /\ secMins_p = secMinsN
  BY DEF contLen_p, contLenN, initMins_p, initMinsN, secMins_p, secMinsN
<1> QED
  BY <1>1 DEF Alike, VSX, High, Look, Shift, Sub, Lens, Off1, Off1Hi

\* The SSE port differs in how it takes the high nibbles.
LEMMA AlikeSSE ==
  ASSUME NEW w \in Widths, NEW raw \in Vec(w), NEW prv
  PROVE  Alike(w, SSE, raw, prv)
<1>1. HighByWord(w, raw) = HighByByte(w, raw)
  BY HighAgree
<1>2. contLen = contLenN /\ initMins = initMinsN /\ secMins = secMinsN
  BY DEF contLen, contLenN, initMins, initMinsN, secMins, secMinsN
<1> QED
  BY <1>1, <1>2 DEF Alike, SSE, High, Look, Shift, Sub, Lens, Off1, Off1Hi

\* The VX port differs in how it subtracts.
LEMMA AlikeVX ==
  ASSUME NEW w \in Widths, NEW raw \in Vec(w), NEW prv \in Regs(w)
  PROVE  Alike(w, VX, raw, prv)
<1> DEFINE c == prv.carry
<1>1. c \in Vec(w) /\ Lens(w, raw) \in Vec(w) /\ Sum(w, raw, c) \in Vec(w)
  BY LensType, SumType DEF Regs
<1>2. SubMin(w, raw, 244) = SubSat(w, raw, 244)
  BY SubAgree DEF Byte
<1>3. SubMin(w, ShiftIn(w, 1, c, Lens(w, raw)), 1)
         = SubSat(w, ShiftIn(w, 1, c, Lens(w, raw)), 1)
  <2>1. ShiftIn(w, 1, c, Lens(w, raw)) \in Vec(w)
    BY <1>1, ShiftType DEF Vec
  <2> QED
    BY <2>1, SubAgree DEF Byte
<1>4. SubMin(w, ShiftIn(w, 2, c, Sum(w, raw, c)), 2)
         = SubSat(w, ShiftIn(w, 2, c, Sum(w, raw, c)), 2)
  <2>1. ShiftIn(w, 2, c, Sum(w, raw, c)) \in Vec(w)
    BY <1>1, ShiftType DEF Vec
  <2> QED
    BY <2>1, SubAgree DEF Byte
<1>5. contLen_z = contLenN /\ initMins_z = initMinsN /\ secMins_z = secMinsN
  BY DEF contLen_z, contLenN, initMins_z, initMinsN, secMins_z, secMinsN
<1> QED
  BY <1>2, <1>3, <1>4, <1>5 DEF Alike, VX, High, Look, Shift, Sub, Lens, Off1, Off1Hi

\* The AVX2 port differs in nibbles, lookups and shifts.
LEMMA AlikeAVX2 ==
  ASSUME NEW w \in Widths, NEW raw \in Vec(w), NEW prv \in Regs(w)
  PROVE  Alike(w, AVX2, raw, prv)
<1> DEFINE c == prv.carry
<1>1. /\ c \in Vec(w) /\ prv.raw \in Vec(w) /\ prv.high \in [Lane(w) -> 0..15]
      /\ Lens(w, raw) \in Vec(w) /\ Sum(w, raw, c) \in Vec(w)
  BY LensType, SumType DEF Regs
<1>2. HighByWord(w, raw) = HighByByte(w, raw)
  BY HighAgree
<1>3. HighByByte(w, raw) \in [Lane(w) -> 0..15] /\ HighByByte(w, raw) \in Vec(w)
      /\ prv.high \in Vec(w)
  BY <1>1, HighType DEF Vec, Byte
<1>4. LookupHalves(w, contLenB, HighByByte(w, raw)) = Lens(w, raw)
  BY <1>3, LookAgree DEF Lens, contLenB, contLenN
<1>5. ShiftInHalves(w, 1, c, Lens(w, raw)) = ShiftIn(w, 1, c, Lens(w, raw))
  BY <1>1, ShiftAgree
<1>6. ShiftInHalves(w, 2, c, Sum(w, raw, c)) = ShiftIn(w, 2, c, Sum(w, raw, c))
  BY <1>1, ShiftAgree
<1>7. ShiftInHalves(w, 1, prv.raw, raw) = Off1(w, raw, prv)
  BY <1>1, ShiftAgree DEF Off1
<1>8. ShiftInHalves(w, 1, prv.high, HighByByte(w, raw)) = Off1Hi(w, raw, prv)
  BY <1>3, ShiftAgree DEF Off1Hi
<1>9. Off1Hi(w, raw, prv) \in [Lane(w) -> 0..15]
  BY <1>1, <1>3, ShiftType DEF Off1Hi
<1>10. /\ LookupHalves(w, initMinsB, Off1Hi(w, raw, prv))
          = Lookup(w, initMinsN, Off1Hi(w, raw, prv))
       /\ LookupHalves(w, secMinsB, Off1Hi(w, raw, prv))
         = Lookup(w, secMinsN, Off1Hi(w, raw, prv))
  BY <1>9, LookAgree DEF initMinsB, initMinsN, secMinsB, secMinsN
<1> QED
  BY <1>2, <1>4, <1>5, <1>6, <1>7, <1>8, <1>10 DEF Alike, AVX2, High, Look, Shift, Sub

\* The five ports compute the same registers and the same error lanes: the
\* assembly files are one algorithm in five instruction sets, as the README
\* of the repository says of them ("1:1 ports").
THEOREM PortsAgree ==
  ASSUME NEW w \in Widths, NEW p \in Validators, NEW raw \in Vec(w), NEW prv \in Regs(w)
  PROVE  Block(w, p, raw, prv) = Body(w, raw, prv)
<1>1. CASE p = "SSE"
  <2>1. Code(p) = SSE
    BY <1>1 DEF Code
  <2> QED
    BY <2>1, AlikeSSE, AlikeBody DEF Block
<1>2. CASE p = "AVX2"
  <2>1. Code(p) = AVX2
    BY <1>2 DEF Code
  <2> QED
    BY <2>1, AlikeAVX2, AlikeBody DEF Block
<1>3. CASE p = "NEON"
  <2>1. Code(p) = NEON
    BY <1>3 DEF Code
  <2> QED
    BY <2>1, AlikeNEON, AlikeBody DEF Block
<1>4. CASE p = "VSX"
  <2>1. Code(p) = VSX
    BY <1>4 DEF Code
  <2> QED
    BY <2>1, AlikeVSX, AlikeBody DEF Block
<1>5. CASE p = "VX"
  <2>1. Code(p) = VX
    BY <1>5 DEF Code
  <2> QED
    BY <2>1, AlikeVX, AlikeBody DEF Block
<1> QED
  BY <1>1, <1>2, <1>3, <1>4, <1>5 DEF Validators

-----------------------------------------------------------------------------
(* The loop body, lane by lane                                             *)

Monus(a, b) == IF a > b THEN a - b ELSE 0
Begun(w, raw, c, i) ==                       \* the length announced before lane i
  IF i = 0 THEN c[w - 1] ELSE SeqLen(raw[i - 1])

\* What a lane of the first vector is.
LEMMA LensAt ==
  ASSUME NEW w \in Widths, NEW raw \in Vec(w), NEW i \in Lane(w)
  PROVE  Lens(w, raw)[i] = SeqLen(raw[i]) /\ SeqLen(raw[i]) \in 0..4
<1>1. raw[i] \in Byte
  BY DEF Vec
<1> QED
  BY <1>1, ContLenTable, SeqLenRange DEF Lens, Lookup, HighByByte

\* A lane of a carry sum, where nothing wraps.
LEMMA AddAt ==
  ASSUME NEW w \in Widths, NEW u \in Vec(w), NEW v \in Vec(w),
         NEW i \in Lane(w), u[i] + v[i] <= 255
  PROVE  AddB(w, u, v)[i] = u[i] + v[i]
<1>1. u[i] \in Byte /\ v[i] \in Byte
  BY DEF Vec
<1>2. \A d \in 0..255 : d % 256 = d
  OBVIOUS
<1>3. u[i] + v[i] \in 0..255
  <2>1. \A a, b \in 0..255 : a + b <= 255 => a + b \in 0..255
    OBVIOUS
  <2> QED
    BY <1>1, <2>1 DEF Byte
<1> QED
  BY <1>2, <1>3 DEF AddB

\* What a lane is after the first look-back, in terms of the bytes before.
LEMMA SumAt ==
  ASSUME NEW w \in Widths, NEW raw \in Vec(w), NEW c \in Vec(w), c[w - 1] <= 4,
         NEW i \in Lane(w)
  PROVE  /\ Sum(w, raw, c)[i] = SeqLen(raw[i]) + Monus(Begun(w, raw, c, i), 1)
         /\ Begun(w, raw, c, i) \in 0..4
         /\ Sum(w, raw, c)[i] \in 0..7
<1> DEFINE v == SubSat(w, ShiftIn(w, 1, c, Lens(w, raw)), 1)
<1>1. w - 1 \in Lane(w) /\ (i # 0 => i - 1 \in Lane(w))
  BY DEF Lane, Widths
<1>2. Begun(w, raw, c, i) \in 0..4
  <2>1. c[w - 1] \in Byte
    BY <1>1 DEF Vec
  <2> QED
    BY <1>1, <2>1, LensAt DEF Begun, Byte
<1>3. ShiftIn(w, 1, c, Lens(w, raw))[i] = Begun(w, raw, c, i)
  <2>1. CASE i = 0
    <3>1. w - 1 + 0 = w - 1
      BY DEF Widths
    <3> QED
      BY <2>1, <3>1 DEF ShiftIn, Begun
  <2>2. CASE i # 0
    <3>1. ~ (i < 1)
      BY <2>2 DEF Lane
    <3> QED
      BY <1>1, <2>2, <3>1, LensAt DEF ShiftIn, Begun
  <2> QED
    BY <2>1, <2>2
<1>4. v[i] = Monus(Begun(w, raw, c, i), 1) /\ Monus(Begun(w, raw, c, i), 1) \in 0..3
  BY <1>2, <1>3 DEF SubSat, Monus
<1>5. Lens(w, raw) \in Vec(w) /\ v \in Vec(w)
  <2>1. ShiftIn(w, 1, c, Lens(w, raw)) \in Vec(w)
    BY LensType, ShiftType DEF Vec
  <2> QED
    BY <2>1, LensType, SubType DEF Byte
<1>6. Lens(w, raw)[i] = SeqLen(raw[i]) /\ SeqLen(raw[i]) \in 0..4
  BY LensAt
<1>7. Sum(w, raw, c)[i] = Lens(w, raw)[i] + v[i]
  BY <1>4, <1>5, <1>6, AddAt DEF Sum
<1> HIDE DEF v
<1> QED
  BY <1>2, <1>4, <1>6, <1>7

\* What sum announced two lanes before lane i.
Begun2(w, raw, c, i) ==
  IF i < 2 THEN c[w - 2 + i] ELSE Sum(w, raw, c)[i - 2]

\* What a lane is after the second look-back.
LEMMA CarryAt ==
  ASSUME NEW w \in Widths, NEW raw \in Vec(w),
         NEW c \in Vec(w), c[w - 1] <= 4, c[w - 2] <= 4, NEW i \in Lane(w)
  PROVE  /\ Carry(w, raw, c)[i] = Sum(w, raw, c)[i] + Monus(Begun2(w, raw, c, i), 2)
         /\ Begun2(w, raw, c, i) \in 0..7
         /\ Carry(w, raw, c)[i] \in 0..12
<1> DEFINE v == SubSat(w, ShiftIn(w, 2, c, Sum(w, raw, c)), 2)
<1>1. w - 1 \in Lane(w) /\ w - 2 \in Lane(w) /\ (~ (i < 2) => i - 2 \in Lane(w))
  BY DEF Lane, Widths
<1>2. Begun2(w, raw, c, i) \in 0..7
  <2>1. c[w - 1] \in 0..4 /\ c[w - 2] \in 0..4
    BY <1>1 DEF Vec, Byte
  <2>2. CASE i < 2
    <3>1. w - 2 + i = w - 2 \/ w - 2 + i = w - 1
      BY <2>2 DEF Lane, Widths
    <3> QED
      BY <2>1, <2>2, <3>1 DEF Begun2
  <2>3. CASE ~ (i < 2)
    BY <1>1, <2>3, SumAt DEF Begun2
  <2> QED
    BY <2>2, <2>3
<1>3. ShiftIn(w, 2, c, Sum(w, raw, c))[i] = Begun2(w, raw, c, i)
  BY DEF ShiftIn, Begun2
<1>4. v[i] = Monus(Begun2(w, raw, c, i), 2) /\ Monus(Begun2(w, raw, c, i), 2) \in 0..5
  BY <1>2, <1>3 DEF SubSat, Monus
<1>5. Sum(w, raw, c) \in Vec(w) /\ v \in Vec(w)
  <2>1. ShiftIn(w, 2, c, Sum(w, raw, c)) \in Vec(w)
    BY SumType, ShiftType DEF Vec
  <2> QED
    BY <2>1, SumType, SubType DEF Byte
<1>6. Sum(w, raw, c)[i] \in 0..7
  BY SumAt
<1>7. Carry(w, raw, c)[i] = Sum(w, raw, c)[i] + v[i]
  BY <1>4, <1>5, <1>6, AddAt DEF Carry
<1> HIDE DEF v
<1> QED
  BY <1>2, <1>4, <1>6, <1>7

-----------------------------------------------------------------------------
(* The pair tests: a byte and the byte before it                           *)

PairBad(a, b) ==
  \/ a = 237 /\ GtS(b, 159)
  \/ a = 244 /\ GtS(b, 143)
  \/ GtS(initMinsN[a \div 16 + 1], a) /\ GtS(secMinsN[a \div 16 + 1], b)

\* Where a continuation byte follows a lead, the three pair tests refuse it
\* exactly when the encoding does; elsewhere they refuse nothing.
LEMMA PairTest ==
  ASSUME NEW a \in 0..244, NEW b \in Byte, SeqLen(a) >= 2 => IsCont(b)
  PROVE  PairBad(a, b) <=> ~ (SeqLen(a) >= 2 => b \in SecondBytes(a))
<1>1. CASE a \in 0..191
  <2>1. initMinsN[a \div 16 + 1] = 128 /\ ~ (SeqLen(a) >= 2)
    BY <1>1 DEF initMinsN, Table, SeqLen
  <2>2. ~ GtS(128, a)
    BY <1>1 DEF GtS, Signed
  <2> QED
    BY <1>1, <2>1, <2>2 DEF PairBad
<1>2. CASE a \in 192..207
  <2>1. a \div 16 = 12 /\ initMinsN[a \div 16 + 1] = 194 /\ secMinsN[a \div 16 + 1] = 127
    BY <1>2 DEF initMinsN, secMinsN, Table
  <2>2. SeqLen(a) = 2 /\ IsCont(b)
    BY <1>2 DEF SeqLen
  <2>3. b \in SecondBytes(a) <=> a >= 194
    BY <1>2, <2>2 DEF SecondBytes, IsCont
  <2>4. GtS(194, a) <=> a < 194
    BY <1>2 DEF GtS, Signed
  <2>5. GtS(127, b)
    BY <2>2 DEF GtS, Signed, IsCont
  <2> QED
    BY <1>2, <2>1, <2>2, <2>3, <2>4, <2>5 DEF PairBad
<1>3. CASE a \in 208..223
  <2>1. initMinsN[a \div 16 + 1] = 128
    BY <1>3 DEF initMinsN, Table
  <2>2. SeqLen(a) = 2 /\ IsCont(b)
    BY <1>3 DEF SeqLen
  <2>3. b \in SecondBytes(a)
    BY <1>3, <2>2 DEF SecondBytes, IsCont
  <2>4. ~ GtS(128, a)
    BY <1>3 DEF GtS, Signed
  <2> QED
    BY <1>3, <2>1, <2>2, <2>3, <2>4 DEF PairBad
<1>4. CASE a \in 224..239
  <2>1. initMinsN[a \div 16 + 1] = 225 /\ secMinsN[a \div 16 + 1] = 160
    BY <1>4 DEF initMinsN, secMinsN, Table
  <2>2. SeqLen(a) = 3 /\ IsCont(b)
    BY <1>4 DEF SeqLen
  <2>3. b \in SecondBytes(a) <=> (a = 224 => b >= 160) /\ (a = 237 => b <= 159)
    BY <1>4, <2>2 DEF SecondBytes, IsCont
  <2>4. GtS(225, a) <=> a = 224
    BY <1>4 DEF GtS, Signed
  <2>5. (GtS(160, b) <=> b < 160) /\ (GtS(b, 159) <=> b > 159)
    BY <2>2 DEF GtS, Signed, IsCont
  <2> QED
    BY <1>4, <2>1, <2>2, <2>3, <2>4, <2>5 DEF PairBad, Byte
<1>5. CASE a \in 240..244
  <2>1. initMinsN[a \div 16 + 1] = 241 /\ secMinsN[a \div 16 + 1] = 144
    BY <1>5 DEF initMinsN, secMinsN, Table
  <2>2. SeqLen(a) = 4 /\ IsCont(b)
    BY <1>5 DEF SeqLen
  <2>3. b \in SecondBytes(a) <=> (a = 240 => b >= 144) /\ (a = 244 => b <= 143)
    BY <1>5, <2>2 DEF SecondBytes, IsCont
  <2>4. GtS(241, a) <=> a = 240
    BY <1>5 DEF GtS, Signed
  <2>5. (GtS(144, b) <=> b < 144) /\ (GtS(b, 143) <=> b > 143)
    BY <2>2 DEF GtS, Signed, IsCont
  <2> QED
    BY <1>5, <2>1, <2>2, <2>3, <2>4, <2>5 DEF PairBad, Byte
<1> QED
  BY <1>1, <1>2, <1>3, <1>4, <1>5

-----------------------------------------------------------------------------
(* A block judged lane by lane and by the encoding                         *)

\* What the callers of the next lemmas know of a block: it starts at byte e
\* of s, and the registers describe the bytes before.
AtBlock(w, s, e, raw, prv) ==
  /\ s \in Seq(Byte) /\ e \in Nat /\ e + w <= Len(s)
  /\ raw = Load(w, s, e)
  /\ prv \in Regs(w)
  /\ Mirrors(w, s, e, prv)
  /\ CarryOwes(w, s, e, prv.carry)

\* A byte of a slice is a byte.
LEMMA ByteAt ==
  ASSUME NEW s \in Seq(Byte), NEW i \in Nat, i < Len(s)
  PROVE  At(s, i) \in Byte
BY DEF At

\* A load is a vector of the bytes it covers.
LEMMA LoadType ==
  ASSUME NEW w \in Widths, NEW s \in Seq(Byte), NEW e \in Nat, e + w <= Len(s)
  PROVE  /\ Load(w, s, e) \in Vec(w)
         /\ \A i \in Lane(w) : Load(w, s, e)[i] = At(s, e + i)
<1>1. ASSUME NEW i \in Lane(w) PROVE At(s, e + i) \in Byte
  BY ByteAt DEF Lane, Widths
<1> QED
  BY <1>1 DEF Load, Vec

\* Lane j reports no length error only if it does not hold a lead, or
\* ASCII, while the lane before it announces more bytes.
NoClash(w, raw, c, j) == Begun(w, raw, c, j) > 1 => SeqLen(raw[j]) = 0

\* Below 128 the signed comparison is the comparison.
LEMMA SignedSmall == \A a, b \in 0..127 : GtS(a, b) <=> a > b
BY DEF GtS, Signed

\* The carry test of a lane, without 8-bit arithmetic.
LEMMA LengthTest ==
  ASSUME NEW w \in Widths, NEW s, NEW e, NEW raw,
         NEW prv, AtBlock(w, s, e, raw, prv), NEW i \in Lane(w)
  PROVE  LET c == prv.carry IN
         /\ GtS(Carry(w, raw, c)[i], Lens(w, raw)[i])
              <=> Begun(w, raw, c, i) > 1 \/ Begun2(w, raw, c, i) > 2
         /\ GtS(Lens(w, raw)[i], 0) <=> SeqLen(raw[i]) # 0
<1> DEFINE c == prv.carry
<1>1. raw \in Vec(w) /\ c \in Vec(w) /\ c[w - 1] <= 4 /\ c[w - 2] <= 4
  BY LoadType DEF AtBlock, Regs, CarryOwes
<1>2. /\ Lens(w, raw)[i] = SeqLen(raw[i]) /\ SeqLen(raw[i]) \in 0..4
      /\ Sum(w, raw, c)[i] = SeqLen(raw[i]) + Monus(Begun(w, raw, c, i), 1)
      /\ Begun(w, raw, c, i) \in 0..4
      /\ Carry(w, raw, c)[i] = Sum(w, raw, c)[i] + Monus(Begun2(w, raw, c, i), 2)
      /\ Begun2(w, raw, c, i) \in 0..7
      /\ Carry(w, raw, c)[i] \in 0..12
  BY <1>1, LensAt, SumAt, CarryAt
<1>3. \A l \in 0..4, p \in 0..4, q \in 0..7 :
        (l + Monus(p, 1)) + Monus(q, 2) > l <=> p > 1 \/ q > 2
  BY DEF Monus
<1>4. GtS(Carry(w, raw, c)[i], Lens(w, raw)[i]) <=> Carry(w, raw, c)[i] > Lens(w, raw)[i]
  <2>1. Carry(w, raw, c)[i] \in 0..127 /\ Lens(w, raw)[i] \in 0..127
    BY <1>2
  <2> QED
    BY <2>1, SignedSmall
<1>5. GtS(Lens(w, raw)[i], 0) <=> SeqLen(raw[i]) # 0
  <2>1. Lens(w, raw)[i] \in 0..127 /\ 0 \in 0..127
      /\ (Lens(w, raw)[i] > 0 <=> SeqLen(raw[i]) # 0)
    BY <1>2
  <2> QED
    BY <2>1, SignedSmall
<1> QED
  BY <1>2, <1>3, <1>4, <1>5

\* The two look-backs of lane i see every sequence that reaches it, provided
\* no length announced three lanes earlier is broken two lanes earlier.
LEMMA OwedTest ==
  ASSUME NEW w \in Widths, NEW s, NEW e, NEW raw,
         NEW prv, AtBlock(w, s, e, raw, prv), NEW i \in Lane(w),
         i >= 2 => NoClash(w, raw, prv.carry, i - 2)
  PROVE  (Begun(w, raw, prv.carry, i) > 1 \/ Begun2(w, raw, prv.carry, i) > 2)
            <=> Expected(s, e + i)
<1> DEFINE c    == prv.carry
           L(k) == SeqLen(At(s, e + i - k))
<1>1. /\ raw \in Vec(w) /\ c \in Vec(w) /\ c[w - 1] <= 4 /\ c[w - 2] <= 4
      /\ e \in Nat /\ i \in Nat /\ i < w /\ w >= 4 /\ w \in Nat
  BY LoadType DEF AtBlock, Regs, CarryOwes, Lane, Widths
<1>2. \A j \in Lane(w) : raw[j] = At(s, e + j)
  BY LoadType DEF AtBlock
<1>3. Expected(s, e + i) <=> \/ 1 <= e + i /\ L(1) > 1
                             \/ 2 <= e + i /\ L(2) > 2
                             \/ 3 <= e + i /\ L(3) > 3
  <2> DEFINE P(d) == d <= e + i /\ SeqLen(At(s, e + i - d)) > d
  <2>1. Expected(s, e + i) <=> \E d \in 1..3 : P(d)
    BY <1>1 DEF Expected
  <2>2. (\E d \in 1..3 : P(d)) <=> P(1) \/ P(2) \/ P(3)
    <3> HIDE DEF P
    <3> QED
      OBVIOUS
  <2> QED
    BY <2>1, <2>2
<1>4. CASE i = 0
  <2>1. Begun(w, raw, c, i) = c[w - 1] /\ Begun2(w, raw, c, i) = c[w - 2]
    BY <1>1, <1>4 DEF Begun, Begun2
  <2>2. Expected(s, e + i) <=> Owed(s, e, 0)
    BY <1>1, <1>4 DEF Expected, Owed
  <2> QED
    BY <2>1, <2>2 DEF AtBlock, CarryOwes
<1>5. CASE i = 1
  <2>1. Begun(w, raw, c, i) = L(1) /\ Begun2(w, raw, c, i) = c[w - 1]
    BY <1>1, <1>2, <1>5 DEF Begun, Begun2, Lane
  <2>2. c[w - 1] > 2 <=> \/ 1 <= e /\ L(2) > 2
                         \/ 2 <= e /\ L(3) > 3
    BY <1>1, <1>5 DEF AtBlock, CarryOwes, Owed
  <2> QED
    BY <1>1, <1>3, <1>5, <2>1, <2>2
<1>6. CASE i = 2
  <2>1. Begun(w, raw, c, i) = L(1) /\ Begun2(w, raw, c, i) = Sum(w, raw, c)[0]
    BY <1>1, <1>2, <1>6 DEF Begun, Begun2, Lane
  <2>2. /\ Sum(w, raw, c)[0] = L(2) + Monus(c[w - 1], 1)
        /\ L(2) \in 0..4 /\ c[w - 1] \in 0..4
    BY <1>1, <1>2, <1>6, SumAt, LensAt DEF Begun, Lane
  <2>3. c[w - 1] > 1 => L(2) = 0
    BY <1>1, <1>2, <1>6 DEF NoClash, Begun, Lane
  <2>4. c[w - 1] > 3 <=> 1 <= e /\ L(3) > 3
    BY <1>1, <1>6 DEF AtBlock, CarryOwes, Owed
  <2>5. Sum(w, raw, c)[0] > 2 <=> L(2) > 2 \/ c[w - 1] > 3
    BY <2>2, <2>3 DEF Monus
  <2> QED
    BY <1>1, <1>3, <1>6, <2>1, <2>4, <2>5
<1>7. CASE i >= 3
  <2>1. Begun(w, raw, c, i) = L(1) /\ Begun2(w, raw, c, i) = Sum(w, raw, c)[i - 2]
    BY <1>1, <1>2, <1>7 DEF Begun, Begun2, Lane
  <2>2. /\ Sum(w, raw, c)[i - 2] = L(2) + Monus(L(3), 1)
        /\ L(2) \in 0..4 /\ L(3) \in 0..4
    BY <1>1, <1>2, <1>7, SumAt, LensAt DEF Begun, Lane
  <2>3. L(3) > 1 => L(2) = 0
    BY <1>1, <1>2, <1>7 DEF NoClash, Begun, Lane
  <2>4. Sum(w, raw, c)[i - 2] > 2 <=> L(2) > 2 \/ L(3) > 3
    BY <2>2, <2>3 DEF Monus
  <2> QED
    BY <1>1, <1>3, <1>7, <2>1, <2>4
<1> QED
  BY <1>1, <1>4, <1>5, <1>6, <1>7

\* The byte before lane i is not too large, and no length clash is two lanes
\* before it: then lane i is judged as the encoding judges byte e + i.
LEMMA LaneExact ==
  ASSUME NEW w \in Widths, NEW s, NEW e, NEW raw,
         NEW prv, AtBlock(w, s, e, raw, prv), NEW i \in Lane(w),
         i >= 2 => NoClash(w, raw, prv.carry, i - 2),
         e + i > 0 => At(s, e + i - 1) <= 244
  PROVE  BadLane(w, raw, prv, i) <=> ~ ByteOk(s, e + i)
<1> DEFINE c == prv.carry
           a == IF e + i = 0 THEN 0 ELSE At(s, e + i - 1)
           b == At(s, e + i)
<1>1. /\ raw \in Vec(w) /\ e \in Nat /\ i \in Nat /\ i < w /\ w >= 4 /\ w \in Nat
      /\ s \in Seq(Byte) /\ e + w <= Len(s)
  BY LoadType DEF AtBlock, Lane, Widths
<1>2. raw[i] = b /\ b \in Byte
  BY <1>1, LoadType, ByteAt DEF AtBlock
<1>3. a \in 0..244
  <2>1. CASE e + i = 0
    BY <2>1
  <2>2. CASE e + i # 0
    <3>1. At(s, e + i - 1) \in Byte
      BY <1>1, <2>2, ByteAt
    <3>2. At(s, e + i - 1) <= 244 /\ a = At(s, e + i - 1)
      BY <1>1, <2>2
    <3>3. \A x \in Byte : x <= 244 => x \in 0..244
      BY DEF Byte
    <3> QED
      BY <3>1, <3>2, <3>3
  <2> QED
    BY <2>1, <2>2
<1>4. Off1(w, raw, prv)[i] = a /\ Off1Hi(w, raw, prv)[i] = a \div 16
  <2>1. CASE i = 0
    <3>1. prv.raw[w - 1] = a /\ prv.high[w - 1] = a \div 16
      BY <1>1, <2>1 DEF AtBlock, Mirrors
    <3>2. w - 1 + i = w - 1
      BY <1>1, <2>1
    <3> QED
      BY <2>1, <3>1, <3>2 DEF Off1, Off1Hi, ShiftIn
  <2>2. CASE i # 0
    <3>1. i - 1 \in Lane(w) /\ ~ (i < 1) /\ e + i # 0 /\ e + (i - 1) = e + i - 1
      BY <1>1, <2>2 DEF Lane
    <3>2. raw[i - 1] = a
      BY <1>1, <3>1, LoadType DEF AtBlock
    <3> QED
      BY <3>1, <3>2 DEF Off1, Off1Hi, ShiftIn, HighByByte
  <2> QED
    BY <2>1, <2>2
<1>5. SubSat(w, raw, 244)[i] # 0 <=> b > 244
  BY <1>2 DEF SubSat, Byte
<1>6. (GtS(Carry(w, raw, c)[i], Lens(w, raw)[i]) <=> GtS(Lens(w, raw)[i], 0))
        <=> ~ (IsCont(b) <=> Expected(s, e + i))
  <2>1. GtS(Carry(w, raw, c)[i], Lens(w, raw)[i]) <=> Expected(s, e + i)
    BY LengthTest, OwedTest
  <2>2. GtS(Lens(w, raw)[i], 0) <=> ~ IsCont(b)
    BY <1>2, LengthTest, SeqLenRange
  <2> QED
    BY <2>1, <2>2
<1>7. BadLane(w, raw, prv, i) <=> b > 244 \/ ~ (IsCont(b) <=> Expected(s, e + i)) \/ PairBad(a, b)
  BY <1>2, <1>4, <1>5, <1>6 DEF BadLane, PairBad, Lookup
<1>8. SeqLen(a) >= 2 => e + i > 0 /\ Expected(s, e + i)
  <2>1. CASE e + i = 0
    BY <2>1 DEF SeqLen
  <2>2. CASE e + i # 0
    <3>1. SeqLen(a) >= 2 => SeqLen(At(s, e + i - 1)) > 1
      BY <1>3, <2>2, SeqLenRange DEF Byte
    <3> QED
      BY <1>1, <2>2, <3>1 DEF Expected
  <2> QED
    BY <2>1, <2>2
<1>9. ByteOk(s, e + i) <=> /\ b <= 244
                           /\ IsCont(b) <=> Expected(s, e + i)
                           /\ SeqLen(a) >= 2 => b \in SecondBytes(a)
  BY <1>1, <1>8 DEF ByteOk
<1>10. b <= 244 <=> ~ (b > 244)
  BY <1>2 DEF Byte
<1>11. CASE IsCont(b) <=> Expected(s, e + i)
  <2>1. PairBad(a, b) <=> ~ (SeqLen(a) >= 2 => b \in SecondBytes(a))
    BY <1>2, <1>3, <1>8, <1>11, PairTest
  <2> QED
    BY <1>7, <1>9, <1>10, <1>11, <2>1
<1>12. CASE ~ (IsCont(b) <=> Expected(s, e + i))
  BY <1>7, <1>9, <1>12
<1> QED
  BY <1>11, <1>12

\* If no lane is bad, or every byte is in order, lengths do not clash.
LEMMA NoClashByLanes ==
  ASSUME NEW w \in Widths, NEW s, NEW e, NEW raw,
         NEW prv, AtBlock(w, s, e, raw, prv), NEW j \in Lane(w),
         ~ BadLane(w, raw, prv, j)
  PROVE  NoClash(w, raw, prv.carry, j)
BY LengthTest DEF NoClash, BadLane

\* A byte that is in order does not break a length before it.
LEMMA NoClashByBytes ==
  ASSUME NEW w \in Widths, NEW s, NEW e, NEW raw,
         NEW prv, AtBlock(w, s, e, raw, prv), NEW j \in Lane(w),
         ByteOk(s, e + j)
  PROVE  NoClash(w, raw, prv.carry, j)
<1> SUFFICES ASSUME Begun(w, raw, prv.carry, j) > 1
             PROVE  SeqLen(raw[j]) = 0
  BY DEF NoClash
<1>1. /\ raw \in Vec(w) /\ e \in Nat /\ j \in Nat /\ j < w /\ w >= 4 /\ w \in Nat
      /\ s \in Seq(Byte) /\ e + w <= Len(s)
  BY LoadType DEF AtBlock, Lane, Widths
<1>2. Expected(s, e + j)
  <2>1. CASE j = 0
    <3>1. Owed(s, e, 0)
      BY <2>1 DEF AtBlock, CarryOwes, Begun
    <3> QED
      BY <1>1, <2>1, <3>1 DEF Owed, Expected
  <2>2. CASE j # 0
    <3>1. j - 1 \in Lane(w) /\ e + (j - 1) = (e + j) - 1
      BY <1>1, <2>2 DEF Lane
    <3>2. SeqLen(At(s, (e + j) - 1)) > 1
      BY <1>1, <2>2, <3>1, LoadType DEF AtBlock, Begun
    <3> QED
      BY <1>1, <2>2, <3>2 DEF Expected
  <2> QED
    BY <2>1, <2>2
<1>3. At(s, e + j) \in Byte /\ raw[j] = At(s, e + j)
  BY <1>1, ByteAt, LoadType DEF AtBlock
<1> QED
  BY <1>2, <1>3, SeqLenRange DEF ByteOk

\* A block is free of error lanes exactly when its bytes are free of
\* structural errors.
LEMMA BlockExact ==
  ASSUME NEW w \in Widths, NEW s, NEW e, NEW raw,
         NEW prv, AtBlock(w, s, e, raw, prv), StructOK(s, e)
  PROVE  (\A i \in Lane(w) : ~ BadLane(w, raw, prv, i))
            <=> (\A i \in Lane(w) : ByteOk(s, e + i))
<1>1. /\ e \in Nat /\ w >= 4 /\ w \in Nat /\ s \in Seq(Byte) /\ e + w <= Len(s)
      /\ raw \in Vec(w)
  BY LoadType DEF AtBlock, Widths
<1>2. e > 0 => At(s, e - 1) <= 244
  BY <1>1 DEF StructOK, ByteOk
<1>3. ASSUME \A i \in Lane(w) : ~ BadLane(w, raw, prv, i), NEW i \in Lane(w)
      PROVE  ByteOk(s, e + i)
  <2>1. i \in Nat /\ (i >= 2 => i - 2 \in Lane(w)) /\ (i # 0 => i - 1 \in Lane(w))
    BY <1>1 DEF Lane
  <2>2. i >= 2 => NoClash(w, raw, prv.carry, i - 2)
    BY <1>3, <2>1, NoClashByLanes
  <2>3. ASSUME i # 0 PROVE At(s, e + i - 1) <= 244
    <3>1. raw[i - 1] = At(s, e + i - 1) /\ raw[i - 1] \in Byte
      <4>1. e + (i - 1) = e + i - 1
        BY <1>1, <2>1
      <4> QED
        BY <1>1, <2>1, <2>3, <4>1, LoadType DEF AtBlock, Vec
    <3>2. SubSat(w, raw, 244)[i - 1] = 0
      BY <1>3, <2>1, <2>3 DEF BadLane
    <3> QED
      BY <2>1, <2>3, <3>1, <3>2 DEF SubSat, Byte
  <2>4. e + i > 0 => At(s, e + i - 1) <= 244
    <3>1. CASE i = 0
      BY <1>1, <1>2, <3>1
    <3> QED
      BY <2>3, <3>1
  <2> QED
    BY <1>3, <2>2, <2>4, LaneExact
<1>4. ASSUME \A i \in Lane(w) : ByteOk(s, e + i), NEW i \in Lane(w)
      PROVE  ~ BadLane(w, raw, prv, i)
  <2>1. i \in Nat /\ (i >= 2 => i - 2 \in Lane(w)) /\ (i # 0 => i - 1 \in Lane(w))
    BY <1>1 DEF Lane
  <2>2. i >= 2 => NoClash(w, raw, prv.carry, i - 2)
    BY <1>4, <2>1, NoClashByBytes
  <2>3. ASSUME i # 0 PROVE At(s, e + i - 1) <= 244
    <3>1. e + (i - 1) = e + i - 1
      BY <1>1, <2>1
    <3> QED
      BY <1>4, <2>1, <2>3, <3>1 DEF ByteOk
  <2>4. e + i > 0 => At(s, e + i - 1) <= 244
    <3>1. CASE i = 0
      BY <1>1, <1>2, <3>1
    <3> QED
      BY <2>3, <3>1
  <2> QED
    BY <1>4, <2>2, <2>4, LaneExact
<1> QED
  BY <1>3, <1>4

-----------------------------------------------------------------------------
(* What a good block leaves for the next one                               *)

\* l1..l4 are the lengths announced by the last four lanes, last first, and
\* l5 the length announced before them.
LEMMA CarryArithmetic ==
  ASSUME NEW l1 \in 0..4, NEW l2 \in 0..4, NEW l3 \in 0..4, NEW l4 \in 0..4,
         NEW l5 \in 0..4,
         l1 = 0 <=> (l2 > 1 \/ l3 + Monus(l4, 1) > 2),
         l2 = 0 <=> (l3 > 1 \/ l4 + Monus(l5, 1) > 2),
         l4 > 1 => l3 = 0,
         l5 > 1 => l4 = 0,
         l5 > 2 => l3 = 0
  PROVE  LET c1 == (l1 + Monus(l2, 1)) + Monus(l3 + Monus(l4, 1), 2)
             c2 == (l2 + Monus(l3, 1)) + Monus(l4 + Monus(l5, 1), 2)
         IN  /\ c1 <= 4 /\ c2 <= 4
             /\ (c1 > 1 \/ c2 > 2) <=> (l1 > 1 \/ l2 > 2 \/ l3 > 3)
             /\ c1 > 2 <=> (l1 > 2 \/ l2 > 3)
             /\ c1 > 3 <=> l1 > 3
<1> DEFINE c1 == (l1 + Monus(l2, 1)) + Monus(l3 + Monus(l4, 1), 2)
           c2 == (l2 + Monus(l3, 1)) + Monus(l4 + Monus(l5, 1), 2)
<1>1. c1 <= 4
  BY DEF Monus
<1>2. c2 <= 4
  BY DEF Monus
<1>3. (c1 > 1 \/ c2 > 2) <=> (l1 > 1 \/ l2 > 2 \/ l3 > 3)
  <2>1. c1 > 1 <=> (l1 > 1 \/ l2 > 2 \/ l3 > 3)
    BY DEF Monus
  <2>2. c2 > 2 => (l2 > 2 \/ l3 > 3)
    BY DEF Monus
  <2> QED
    BY <2>1, <2>2
<1>4. c1 > 2 <=> (l1 > 2 \/ l2 > 3)
  BY DEF Monus
<1>5. c1 > 3 <=> l1 > 3
  BY DEF Monus
<1> QED
  BY <1>1, <1>2, <1>3, <1>4, <1>5

\* A block without errors leaves carries that say how many of the next
\* three bytes are owed.
LEMMA CarriesOut ==
  ASSUME NEW w \in Widths, NEW s, NEW e, NEW raw,
         NEW prv, AtBlock(w, s, e, raw, prv),
         \A i \in Lane(w) : ~ BadLane(w, raw, prv, i)
  PROVE  CarryOwes(w, s, e + w, Carry(w, raw, prv.carry))
<1> DEFINE c    == prv.carry
           L(k) == SeqLen(raw[w - k])
           l5   == Begun(w, raw, c, w - 4)
           c1   == (L(1) + Monus(L(2), 1)) + Monus(L(3) + Monus(L(4), 1), 2)
           c2   == (L(2) + Monus(L(3), 1)) + Monus(L(4) + Monus(l5, 1), 2)
<1>1. /\ e \in Nat /\ w >= 4 /\ w \in Nat /\ s \in Seq(Byte) /\ e + w <= Len(s)
      /\ raw \in Vec(w) /\ c \in Vec(w) /\ c[w - 1] <= 4 /\ c[w - 2] <= 4
  BY LoadType DEF AtBlock, Regs, CarryOwes, Widths
<1>2. /\ w - 1 \in Lane(w) /\ w - 2 \in Lane(w) /\ w - 3 \in Lane(w) /\ w - 4 \in Lane(w)
      /\ (w - 1) - 1 = w - 2 /\ (w - 2) - 1 = w - 3 /\ (w - 3) - 1 = w - 4
      /\ (w - 1) - 2 = w - 3 /\ (w - 2) - 2 = w - 4
      /\ w - 1 # 0 /\ w - 2 # 0 /\ w - 3 # 0
      /\ ~ (w - 1 < 2) /\ ~ (w - 2 < 2)
  BY <1>1 DEF Lane
<1>3. L(1) \in 0..4 /\ L(2) \in 0..4 /\ L(3) \in 0..4 /\ L(4) \in 0..4 /\ l5 \in 0..4
  BY <1>1, <1>2, LensAt, SumAt
<1>4. /\ Begun(w, raw, c, w - 1) = L(2) /\ Begun(w, raw, c, w - 2) = L(3)
      /\ Begun(w, raw, c, w - 3) = L(4)
  BY <1>2 DEF Begun
<1>5. /\ Sum(w, raw, c)[w - 1] = L(1) + Monus(L(2), 1)
      /\ Sum(w, raw, c)[w - 2] = L(2) + Monus(L(3), 1)
      /\ Sum(w, raw, c)[w - 3] = L(3) + Monus(L(4), 1)
      /\ Sum(w, raw, c)[w - 4] = L(4) + Monus(l5, 1)
  BY <1>1, <1>2, <1>4, SumAt
<1>6. /\ Begun2(w, raw, c, w - 1) = L(3) + Monus(L(4), 1)
      /\ Begun2(w, raw, c, w - 2) = L(4) + Monus(l5, 1)
  BY <1>2, <1>5 DEF Begun2
<1>7. Carry(w, raw, c)[w - 1] = c1 /\ Carry(w, raw, c)[w - 2] = c2
  BY <1>1, <1>2, <1>5, <1>6, CarryAt
<1>8. /\ L(1) = 0 <=> (L(2) > 1 \/ L(3) + Monus(L(4), 1) > 2)
      /\ L(2) = 0 <=> (L(3) > 1 \/ L(4) + Monus(l5, 1) > 2)
  BY <1>2, <1>4, <1>6, LengthTest DEF BadLane
<1>9. (L(4) > 1 => L(3) = 0) /\ (l5 > 1 => L(4) = 0)
  BY <1>2, <1>4, NoClashByLanes DEF NoClash
<1>9a. l5 > 2 => L(3) = 0
  <2>1. Begun2(w, raw, c, w - 3) > 2 => L(3) = 0
    BY <1>2, LengthTest DEF BadLane
  <2>2. CASE w = 4
    <3>1. Begun2(w, raw, c, w - 3) = l5
      BY <2>2 DEF Begun2, Begun
    <3> QED
      BY <2>1, <3>1
  <2>3. CASE w # 4
    <3>1. w - 5 \in Lane(w) /\ ~ (w - 3 < 2) /\ (w - 3) - 2 = w - 5 /\ (w - 4) - 1 = w - 5
          /\ w - 4 # 0
      BY <1>1, <2>3 DEF Lane, Widths
    <3>2. l5 = SeqLen(raw[w - 5]) /\ Begun2(w, raw, c, w - 3) = Sum(w, raw, c)[w - 5]
      BY <3>1 DEF Begun, Begun2
    <3>3. /\ Sum(w, raw, c)[w - 5] = SeqLen(raw[w - 5]) + Monus(Begun(w, raw, c, w - 5), 1)
          /\ Begun(w, raw, c, w - 5) \in 0..4
      BY <1>1, <3>1, SumAt
    <3>4. Sum(w, raw, c)[w - 5] >= l5
      BY <1>3, <3>2, <3>3 DEF Monus
    <3>5. Sum(w, raw, c)[w - 5] \in Int
      BY <1>1, <3>1, SumAt
    <3> HIDE DEF l5
    <3> QED
      BY <1>3, <2>1, <3>2, <3>4, <3>5
  <2> QED
    BY <2>2, <2>3
<1>10. /\ c1 <= 4 /\ c2 <= 4
       /\ (c1 > 1 \/ c2 > 2) <=> (L(1) > 1 \/ L(2) > 2 \/ L(3) > 3)
       /\ c1 > 2 <=> (L(1) > 2 \/ L(2) > 3)
       /\ c1 > 3 <=> L(1) > 3
  <2> HIDE DEF L, l5
  <2> QED
    BY <1>3, <1>8, <1>9, <1>9a, CarryArithmetic
<1>11. \A k \in 1..3 : SeqLen(At(s, e + w - k)) = L(k)
  <2>1. \A k \in 1..3 : w - k \in Lane(w) /\ e + (w - k) = e + w - k
    BY <1>1 DEF Lane
  <2> QED
    BY <1>1, <2>1, LoadType DEF AtBlock
<1> DEFINE M(k) == SeqLen(At(s, e + w - k))
<1>12. /\ Owed(s, e + w, 0) <=> (M(1) > 1 \/ M(2) > 2 \/ M(3) > 3)
       /\ Owed(s, e + w, 1) <=> (M(1) > 2 \/ M(2) > 3)
       /\ Owed(s, e + w, 2) <=> M(1) > 3
  <2>1. Owed(s, e + w, 0) <=> (M(1) > 1 \/ M(2) > 2 \/ M(3) > 3)
    BY <1>1 DEF Owed
  <2>2. Owed(s, e + w, 1) <=> (M(1) > 2 \/ M(2) > 3)
    BY <1>1 DEF Owed
  <2>3. Owed(s, e + w, 2) <=> M(1) > 3
    BY <1>1 DEF Owed
  <2> QED
    BY <2>1, <2>2, <2>3
<1>13. M(1) = L(1) /\ M(2) = L(2) /\ M(3) = L(3)
  BY <1>11
<1> HIDE DEF L, l5, c1, c2, M
<1> QED
  BY <1>7, <1>10, <1>12, <1>13 DEF CarryOwes

\* A block leaves registers and marks lanes.
LEMMA BlockType ==
  ASSUME NEW w \in Widths, NEW p \in Validators, NEW raw \in Vec(w), NEW prv \in Regs(w)
  PROVE  Block(w, p, raw, prv).regs \in Regs(w) /\ Block(w, p, raw, prv).bad \subseteq Lane(w)
<1>1. Block(w, p, raw, prv) = Body(w, raw, prv)
  BY PortsAgree
<1>2. HighByByte(w, raw) \in [Lane(w) -> 0..15] /\ Carry(w, raw, prv.carry) \in Vec(w)
  BY HighType, CarryType DEF Regs
<1> QED
  BY <1>1, <1>2 DEF Body, Regs

-----------------------------------------------------------------------------
(* From block to block                                                     *)

\* The state of a kernel after the first e bytes of s: the error register is
\* clear exactly when they are free of structural errors, and the other
\* registers describe the last of them.  (After an error the carries may be
\* anything; the result is decided.)
BlocksJudged(w, s, e, regs, err) ==
  /\ regs \in Regs(w) /\ err \subseteq Lane(w)
  /\ (err = {}) <=> StructOK(s, e)
  /\ Mirrors(w, s, e, regs)
  /\ err = {} => CarryOwes(w, s, e, regs.carry)

\* The width, and the lanes the next block looks back at.
LEMMA LastLanes ==
  ASSUME NEW w \in Widths
  PROVE  w \in Nat /\ w >= 4 /\ w - 1 \in Lane(w) /\ w - 2 \in Lane(w)
BY DEF Lane, Widths

\* The prologue clears all registers: nothing is judged yet.
LEMMA JudgedNone ==
  ASSUME NEW w \in Widths, NEW s
  PROVE  BlocksJudged(w, s, 0, [raw |-> Zero(w), high |-> Zero(w), carry |-> Zero(w)], {})
<1> DEFINE regs == [raw |-> Zero(w), high |-> Zero(w), carry |-> Zero(w)]
<1>1. Zero(w) \in Vec(w) /\ Zero(w) \in [Lane(w) -> 0..15]
  BY DEF Zero, Vec, Byte
<1>2. regs \in Regs(w)
  BY <1>1 DEF Regs
<1>3. Zero(w)[w - 1] = 0 /\ Zero(w)[w - 2] = 0
  BY LastLanes DEF Zero
<1>4. Mirrors(w, s, 0, regs)
  <2>1. 0 \div 16 = 0
    OBVIOUS
  <2> QED
    BY <1>3, <2>1 DEF Mirrors
<1>5. CarryOwes(w, s, 0, regs.carry)
  <2>1. ~ Owed(s, 0, 0) /\ ~ Owed(s, 0, 1) /\ ~ Owed(s, 0, 2)
    BY DEF Owed
  <2> QED
    BY <1>3, <2>1 DEF CarryOwes
<1>6. StructOK(s, 0)
  BY DEF StructOK
<1> QED
  BY <1>2, <1>4, <1>5, <1>6 DEF BlocksJudged

\* Bytes are in order up to the end of a block if they are up to its beginning
\* and in it.
LEMMA StructFurther ==
  ASSUME NEW w \in Widths, NEW s, NEW e \in Nat
  PROVE  StructOK(s, e + w) <=> StructOK(s, e) /\ \A i \in Lane(w) : ByteOk(s, e + i)
<1>1. ASSUME StructOK(s, e), \A i \in Lane(w) : ByteOk(s, e + i), NEW j \in 0..(e + w - 1)
      PROVE  ByteOk(s, j)
  <2>1. CASE j < e
    BY <1>1, <2>1 DEF StructOK
  <2>2. CASE j >= e
    <3>1. j - e \in Lane(w) /\ e + (j - e) = j
      BY <1>1, <2>2, LastLanes DEF Lane
    <3> QED
      BY <1>1, <3>1
  <2> QED
    BY <2>1, <2>2
<1>2. ASSUME StructOK(s, e + w)
      PROVE  StructOK(s, e) /\ \A i \in Lane(w) : ByteOk(s, e + i)
  BY <1>2, LastLanes DEF StructOK, Lane
<1>3. ASSUME StructOK(s, e), \A i \in Lane(w) : ByteOk(s, e + i)
      PROVE  StructOK(s, e + w)
  <2>1. \A j \in 0..(e + w - 1) : ByteOk(s, j)
    BY <1>1, <1>3
  <2> QED
    BY <2>1, LastLanes DEF StructOK
<1> QED
  BY <1>2, <1>3

\* An iteration judges one block more.
THEOREM JudgedFurther ==
  ASSUME NEW w \in Widths, NEW port \in Validators, NEW s \in Seq(Byte), NEW e \in Nat,
         e + w <= Len(s), NEW regs, NEW err, BlocksJudged(w, s, e, regs, err)
  PROVE  LET block == Block(w, port, Load(w, s, e), regs)
         IN  BlocksJudged(w, s, e + w, block.regs, err \cup block.bad)
<1> DEFINE raw   == Load(w, s, e)
           block == Block(w, port, raw, regs)
<1>1. regs \in Regs(w) /\ err \subseteq Lane(w)
  BY DEF BlocksJudged
<1>2. raw \in Vec(w) /\ \A i \in Lane(w) : raw[i] = At(s, e + i)
  BY LoadType
<1>3. block = Body(w, raw, regs)
  BY <1>1, <1>2, PortsAgree
<1>4. block.regs \in Regs(w) /\ block.bad \subseteq Lane(w)
  BY <1>1, <1>2, BlockType
<1>5. /\ block.regs.raw = raw /\ block.regs.high = HighByByte(w, raw)
      /\ block.regs.carry = Carry(w, raw, regs.carry)
      /\ block.bad = {} <=> \A i \in Lane(w) : ~ BadLane(w, raw, regs, i)
  BY <1>3 DEF Body
<1>6. ASSUME err = {}
      PROVE  AtBlock(w, s, e, raw, regs) /\ StructOK(s, e)
  BY <1>1, <1>6 DEF BlocksJudged, AtBlock
<1> DEFINE errs == err \cup block.bad
<1>7. errs = {} <=> err = {} /\ block.bad = {}
  OBVIOUS
<1> HIDE DEF raw, block, errs
<1>8. (errs = {}) <=> StructOK(s, e + w)
  <2>1. StructOK(s, e + w) <=> StructOK(s, e) /\ \A i \in Lane(w) : ByteOk(s, e + i)
    BY StructFurther
  <2>2. CASE err = {}
    <3>1. (\A i \in Lane(w) : ~ BadLane(w, raw, regs, i)) <=> (\A i \in Lane(w) : ByteOk(s, e + i))
      BY <1>6, <2>2, BlockExact
    <3> QED
      BY <1>5, <1>6, <1>7, <2>1, <2>2, <3>1
  <2>3. CASE err # {}
    BY <1>7, <2>1, <2>3 DEF BlocksJudged
  <2> QED
    BY <2>2, <2>3
<1>9. Mirrors(w, s, e + w, block.regs)
  <2>1. w \in Nat /\ w >= 4 /\ w - 1 \in Lane(w) /\ e + w # 0 /\ e + (w - 1) = e + w - 1
    BY LastLanes
  <2>2. raw[w - 1] = At(s, e + w - 1)
    BY <1>2, <2>1
  <2>3. HighByByte(w, raw)[w - 1] = raw[w - 1] \div 16
    BY <2>1 DEF HighByByte
  <2> QED
    BY <1>5, <2>1, <2>2, <2>3 DEF Mirrors
<1>10. errs = {} => CarryOwes(w, s, e + w, block.regs.carry)
  BY <1>5, <1>6, <1>7, CarriesOut
<1>11. errs \subseteq Lane(w)
  BY <1>1, <1>4 DEF errs
<1>12. BlocksJudged(w, s, e + w, block.regs, errs)
  BY <1>4, <1>8, <1>9, <1>10, <1>11 DEF BlocksJudged
<1> QED
  BY <1>12 DEF raw, block, errs

-----------------------------------------------------------------------------
(* The size of the carries, also after an error                            *)

\* A bound for the carries that is inductive: lane 2 looks back at lane 0
\* only if the register has four lanes, and the last lane never does.
CarriesLow(w, c) == c[w - 1] <= 12 /\ c[w - 2] <= 20

\* Lane 0 looks back at the last lane of the block before, the others at a
\* length.
LEMMA SumBound ==
  ASSUME NEW w \in Widths, NEW raw \in Vec(w),
         NEW c \in Vec(w), c[w - 1] <= 12, NEW i \in Lane(w)
  PROVE  Sum(w, raw, c)[i] \in Nat /\ Sum(w, raw, c)[i] <= IF i = 0 THEN 15 ELSE 7
<1> DEFINE u == ShiftIn(w, 1, c, Lens(w, raw))
           v == SubSat(w, u, 1)
<1>1. w - 1 \in Lane(w) /\ i \in Nat /\ (i # 0 => i - 1 \in Lane(w) /\ ~ (i < 1))
  BY DEF Lane, Widths
<1>2. u[i] \in Nat /\ u[i] <= IF i = 0 THEN 12 ELSE 4
  <2>1. CASE i = 0
    <3>1. w - 1 + 0 = w - 1 /\ c[w - 1] \in 0..255
      BY <1>1 DEF Vec, Byte, Widths
    <3>2. u[i] = c[w - 1]
      BY <2>1, <3>1 DEF ShiftIn
    <3> QED
      BY <2>1, <3>1, <3>2
  <2>2. CASE i # 0
    <3>1. u[i] = Lens(w, raw)[i - 1] /\ Lens(w, raw)[i - 1] \in 0..4
      BY <1>1, <2>2, LensType DEF ShiftIn
    <3> QED
      BY <2>2, <3>1
  <2> QED
    BY <2>1, <2>2
<1>3. v[i] \in Nat /\ v[i] <= IF i = 0 THEN 11 ELSE 3
  BY <1>2 DEF SubSat
<1>4. Lens(w, raw) \in Vec(w) /\ v \in Vec(w)
  <2>1. Lens(w, raw) \in Vec(w) /\ 1 \in Byte
    BY LensType DEF Byte
  <2>2. u \in Vec(w)
    BY <2>1, ShiftType DEF Vec
  <2> HIDE DEF u
  <2>3. SubSat(w, u, 1) \in Vec(w)
    BY <2>1, <2>2, SubType
  <2> QED
    BY <2>1, <2>3
<1>5. Lens(w, raw)[i] \in 0..4
  BY LensType
<1> HIDE DEF v
<1>6. Lens(w, raw)[i] + v[i] <= 255
  BY <1>3, <1>5
<1>7. Sum(w, raw, c)[i] = Lens(w, raw)[i] + v[i]
  BY <1>4, <1>6, AddAt DEF Sum, v
<1> QED
  BY <1>3, <1>5, <1>7

\* Lanes 0 and 1 look back at the last two carries, the others at a sum.
LEMMA CarryBound ==
  ASSUME NEW w \in Widths, NEW raw \in Vec(w), NEW c \in Vec(w), CarriesLow(w, c)
  PROVE  CarriesLow(w, Carry(w, raw, c)) /\ \A i \in Lane(w) : Carry(w, raw, c)[i] <= 33
<1>1. w - 1 \in Lane(w) /\ w - 2 \in Lane(w) /\ 0 \in Lane(w) /\ w \in Nat /\ w >= 4
  BY DEF Lane, Widths
<1>2. c[w - 1] \in 0..12 /\ c[w - 2] \in 0..20
  BY <1>1 DEF CarriesLow, Vec, Byte
<1>3. c[w - 1] <= 12
  BY <1>2
<1>4. \A i \in Lane(w) : Sum(w, raw, c)[i] \in Nat /\ Sum(w, raw, c)[i] <= IF i
         = 0 THEN 15 ELSE 7
  BY <1>3, SumBound
<1>5. ASSUME NEW i \in Lane(w)
      PROVE  /\ Carry(w, raw, c)[i] \in Nat
             /\ i = 0 => Carry(w, raw, c)[i] <= 33
             /\ i = 1 => Carry(w, raw, c)[i] <= 17
             /\ i = 2 => Carry(w, raw, c)[i] <= 20
             /\ i > 2 => Carry(w, raw, c)[i] <= 12
  <2> DEFINE u == ShiftIn(w, 2, c, Sum(w, raw, c))
             v == SubSat(w, u, 2)
  <2>1. i \in Nat /\ (i >= 2 => i - 2 \in Lane(w))
    BY <1>1 DEF Lane
  <2>2. /\ u[i] \in Nat
        /\ i = 0 => u[i] <= 20
        /\ i = 1 => u[i] <= 12
        /\ i = 2 => u[i] <= 15
        /\ i > 2 => u[i] <= 7
    <3>1. CASE i = 0
      <4>1. u[i] = c[w - 2]
        <5>1. w - 2 + 0 = w - 2
          BY <1>1
        <5> QED
          BY <3>1, <5>1 DEF ShiftIn
      <4> QED
        BY <1>2, <3>1, <4>1
    <3>2. CASE i = 1
      <4>1. u[i] = c[w - 1]
        <5>1. w - 2 + 1 = w - 1
          BY <1>1
        <5> QED
          BY <3>2, <5>1 DEF ShiftIn
      <4> QED
        BY <1>2, <3>2, <4>1
    <3>3. CASE i >= 2
      <4>1. u[i] = Sum(w, raw, c)[i - 2] /\ i - 2 \in Lane(w)
        BY <2>1, <3>3 DEF ShiftIn
      <4>2. Sum(w, raw, c)[i - 2] \in Nat /\ Sum(w, raw, c)[i - 2] <= IF i - 2
         = 0 THEN 15 ELSE 7
        BY <1>4, <4>1
      <4> HIDE DEF u
      <4> QED
        BY <2>1, <3>3, <4>1, <4>2
    <3> QED
      BY <2>1, <3>1, <3>2, <3>3
  <2>3. /\ v[i] \in Nat
        /\ i = 0 => v[i] <= 18
        /\ i = 1 => v[i] <= 10
        /\ i = 2 => v[i] <= 13
        /\ i > 2 => v[i] <= 5
    <3>1. v[i] = IF u[i] > 2 THEN u[i] - 2 ELSE 0
      BY DEF SubSat
    <3> HIDE DEF u, v
    <3> QED
      BY <2>1, <2>2, <3>1
  <2>4. Sum(w, raw, c) \in Vec(w) /\ v \in Vec(w)
    <3>1. Sum(w, raw, c) \in Vec(w)
      BY SumType
    <3>2. u \in Vec(w)
      BY <3>1, ShiftType DEF Vec
    <3>3. 2 \in Byte
      BY DEF Byte
    <3> HIDE DEF u
    <3>4. SubSat(w, u, 2) \in Vec(w)
      BY <3>2, <3>3, SubType
    <3> QED
      BY <3>1, <3>4
  <2>5. Sum(w, raw, c)[i] \in Nat /\ Sum(w, raw, c)[i] <= IF i = 0 THEN 15 ELSE 7
    BY <1>4
  <2> HIDE DEF v
  <2>6. Sum(w, raw, c)[i] + v[i] <= 255
    BY <2>1, <2>3, <2>5
  <2>7. Carry(w, raw, c)[i] = Sum(w, raw, c)[i] + v[i]
    BY <2>4, <2>6, AddAt DEF Carry, v
  <2> QED
    BY <2>1, <2>3, <2>5, <2>7
<1>6. CarriesLow(w, Carry(w, raw, c))
  <2>1. w - 1 > 2 /\ (w - 2 = 2 \/ w - 2 > 2)
    BY <1>1
  <2>2. Carry(w, raw, c)[w - 1] <= 12
    BY <1>1, <1>5, <2>1
  <2>3. Carry(w, raw, c)[w - 2] \in Nat
      /\ (Carry(w, raw, c)[w - 2] <= 20 \/ Carry(w, raw, c)[w - 2] <= 12)
    BY <1>1, <1>5, <2>1
  <2> QED
    BY <2>2, <2>3 DEF CarriesLow
<1>7. ASSUME NEW i \in Lane(w) PROVE Carry(w, raw, c)[i] <= 33
  <2>1. i = 0 \/ i = 1 \/ i = 2 \/ i > 2
    BY <1>1 DEF Lane
  <2> QED
    BY <1>5, <2>1
<1> QED
  BY <1>6, <1>7
=============================================================================
