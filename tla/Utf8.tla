-------------------------------- MODULE Utf8 --------------------------------
(***************************************************************************)
(* What unicode/utf8 of the Go standard library says of a byte slice.      *)
(* The library is not part of the repository, which calls it for every     *)
(* scalar tail (utf8.Valid, utf8.RuneCount) and promises in utf8.go:6-7    *)
(* to agree with it on all input; it is therefore external here.           *)
(*                                                                         *)
(* Nothing below is recursive: a decoder that advances by the width of     *)
(* each rune visits exactly the positions that no well-formed rune covers  *)
(* from the left, and module ReferenceDecoder checks that this is the      *)
(* sequence of positions the decoding loop stops at.                       *)
(***************************************************************************)
EXTENDS Integers, Sequences, FiniteSets

Byte == 0..255

\* Go slices count from 0, TLA+ sequences from 1.
At(s, i) == s[i + 1]
Index(s) == 0..(Len(s) - 1)

IsCont(b) == b \in 128..191              \* b & 0xC0 == 0x80

\* The number of bytes a lead byte announces; a continuation byte announces
\* none.  0xC0, 0xC1 and 0xF5..0xFF announce a length too, and are refused
\* by SecondBytes.
SeqLen(b) == CASE b < 128            -> 1
               [] b \in 128..191     -> 0
               [] b \in 192..223     -> 2
               [] b \in 224..239     -> 3
               [] OTHER              -> 4

\* The bytes that may follow a lead byte: overlong forms, surrogates and
\* code points above U+10FFFF are excluded by the second byte.
SecondBytes(b) ==
  CASE b \in 194..223 \cup 225..236 \cup 238..239 \cup 241..243 -> 128..191
    [] b = 224 -> 160..191               \* E0: no overlong form
    [] b = 237 -> 128..159               \* ED: no surrogate
    [] b = 240 -> 144..191               \* F0: no overlong form
    [] b = 244 -> 128..143               \* F4: nothing above U+10FFFF
    [] OTHER   -> {}

\* A well-formed rune of s starts at i.
RuneOk(s, i) ==
  LET w == SeqLen(At(s, i))
  IN  \/ w = 1
      \/ /\ w >= 2
         /\ i + w <= Len(s)
         /\ At(s, i + 1) \in SecondBytes(At(s, i))
         /\ \A d \in 2..3 : d < w => IsCont(At(s, i + d))

\* A position the decoder stops at: no well-formed rune that starts up to
\* three bytes earlier extends over it.  A malformed byte counts as a rune
\* of width one.
IsStart(s, i) ==
  ~ \E d \in 1..3 : d <= i /\ SeqLen(At(s, i - d)) > d /\ RuneOk(s, i - d)

Starts(s)    == {i \in Index(s) : IsStart(s, i)}
Valid(s)     == \A i \in Starts(s) : RuneOk(s, i)
RuneCount(s) == Cardinality(Starts(s))

\* The library's function of the same name, for slices and for strings; a bool
\* is 0 or 1.
SliceOps  == {"valid", "runeCount"}
StringOps == {"validString", "runeCountInString"}
Answer(op, s) ==
  IF op \in {"valid", "validString"} THEN (IF Valid(s) THEN 1 ELSE 0) ELSE RuneCount(s)

Suffix(s, k) == SubSeq(s, k + 1, Len(s)) \* p[k:]

-----------------------------------------------------------------------------
(* What the assembly kernels promise about the first e bytes of s, e a     *)
(* whole number of blocks (the declarations of utf8_amd64.go).             *)

IsAscii(b) == b < 128

\* Byte i is a continuation byte exactly when a lead up to three bytes
\* earlier still waits for one.
Expected(s, i) == \E d \in 1..3 : d <= i /\ SeqLen(At(s, i - d)) > d

\* (A kernel without the tables of minima and the ED and F4 comparisons.)
ByteOkUnpaired(s, i) ==
  At(s, i) <= 244 /\ (IsCont(At(s, i)) <=> Expected(s, i))

\* Byte i is no structural error: not too large, a continuation byte exactly
\* where one is due, and a legal second byte of the lead before it.  A lead
\* is judged with its successor: as the last byte of a range it passes.
ByteOk(s, i) ==
  /\ At(s, i) <= 244
  /\ IsCont(At(s, i)) <=> Expected(s, i)
  /\ (i > 0 /\ SeqLen(At(s, i - 1)) >= 2) => At(s, i) \in SecondBytes(At(s, i - 1))

StructOK(s, e) == \A i \in 0..(e - 1) : ByteOk(s, i)
Conts(s, e)    == {i \in 0..(e - 1) : IsCont(At(s, i))}
AllAscii(s, e) == \A i \in 0..(e - 1) : IsAscii(At(s, i))
\* How many of the first m blocks of w bytes are ASCII, up to the first that
\* is not.
LeadingAscii(s, m, w) ==
  CHOOSE k \in 0..m : AllAscii(s, k * w) /\ (k < m => ~ AllAscii(s, (k + 1) * w))
=============================================================================
