-------------------------- MODULE ReferenceDecoder --------------------------
(***************************************************************************)
(* The decoding loops of unicode/utf8.Valid and unicode/utf8.RuneCount,    *)
(* rune by rune from the left.  The repository calls them for every tail   *)
(* it does not vectorise, and they are the standard it is measured by;     *)
(* they are not part of it, so this module is external.                    *)
(*                                                                         *)
(* It is here to justify module Utf8, which says without a loop what the   *)
(* loops compute, and what the block kernels' notion of a structural error *)
(* has to do with it.                                                      *)
(***************************************************************************)
EXTENDS Utf8

CONSTANT Sources
ASSUME SourcesAssumption == Sources \subseteq Seq(Byte)

VARIABLES
  op, p,       \* the function called and its argument
  i,           \* the next byte to decode
  count,       \* runes decoded
  pc, result

vars == << op, p, i, count, pc, result >>

Init ==
  /\ op \in {"valid", "runeCount"}
  /\ p \in Sources
  /\ i = 0 /\ count = 0
  /\ pc = "loop" /\ result = 0

\* Decode one rune.  A byte that starts no well-formed rune is decoded by
\* itself; it ends Valid and counts for RuneCount.
WidthTrusting(k) ==          \* (believing the lead byte)
  IF SeqLen(At(p, k)) > 1 /\ k + SeqLen(At(p, k)) <= Len(p) THEN SeqLen(At(p, k)) ELSE 1
WidthAnnounced(k) ==         \* (and the end of the slice too)
  IF SeqLen(At(p, k)) > 1 THEN SeqLen(At(p, k)) ELSE 1
Width(k) == IF RuneOk(p, k) THEN SeqLen(At(p, k)) ELSE 1
Rune ==
  /\ pc = "loop" /\ i < Len(p)
  /\ IF op = "valid" /\ ~ RuneOk(p, i)
     THEN pc' = "done" /\ result' = 0 /\ UNCHANGED << i, count >>
     ELSE i' = i + Width(i) /\ count' = count + 1 /\ UNCHANGED << pc, result >>
  /\ UNCHANGED << op, p >>

Return ==
  /\ pc = "loop" /\ i = Len(p)
  /\ result' = IF op = "valid" THEN 1 ELSE count
  /\ pc' = "done"
  /\ UNCHANGED << op, p, i, count >>

Next == Rune \/ Return
Spec == Init /\ [][Next]_vars /\ WF_vars(Next)

-----------------------------------------------------------------------------
(* Properties                                                              *)

TypeOK ==
  /\ op \in {"valid", "runeCount"} /\ p \in Seq(Byte)
  /\ i \in 0..Len(p) /\ count \in 0..i
  /\ pc \in {"loop", "done"} /\ result \in Nat

\* The loop stops at the positions Starts names, at all of them and at no
\* other: a position is skipped exactly when a well-formed rune that begins
\* up to three bytes earlier covers it.
StopsAtStarts ==
  /\ i = Len(p) \/ i \in Starts(p)
  /\ count = Cardinality({k \in Starts(p) : k < i})

\* What the kernels establish about a prefix is what the drivers take it for:
\* the prefix is valid UTF-8 exactly when it has no structural error and its
\* last bytes do not leave a sequence open.
PrefixJudged ==
  Valid(SubSeq(p, 1, i)) <=> StructOK(p, i) /\ ~ Expected(p, i)

API == INSTANCE UTF8API WITH pc <- IF pc = "done" THEN "done" ELSE "call"

\* The loops return what module Utf8 says they return.
Decodes == API!Spec
=============================================================================
