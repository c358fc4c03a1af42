--------------------------- MODULE AsciiPrefixLen ---------------------------
(***************************************************************************)
(* asciiPrefixLen of utf8_ppc64le.go: the number of leading ASCII bytes of *)
(* a slice, found with a loop over four words, one over single words and   *)
(* one over bytes.  Each loop takes the bytes it has passed off the slice  *)
(* and leaves what it cannot pass to the next.                             *)
(***************************************************************************)
EXTENDS Utf8

CONSTANTS Word, Sources          \* bytes per word: 8
ASSUME WordAssumption == Word \in Nat \ {0}
ASSUME SourcesAssumption == Sources \subseteq Seq(Byte)

VARIABLES
  orig,     \* the argument
  p,        \* what is left of it
  pc, ret

vars == << orig, p, pc, ret >>

Init ==
  /\ orig \in Sources
  /\ p = orig
  /\ pc = "quads"
  /\ ret = 0

\* One iteration of a loop over chunks of size bytes: enough bytes and no
\* high bit among them, or on to the next loop.
\* (The variants take the chunk off even so, and take none off at all.)
ScanPast(here, size, next) ==
  /\ pc = here
  /\ p' = IF Len(p) >= size THEN Suffix(p, size) ELSE p
  /\ pc' = IF Len(p) >= size /\ AllAscii(p, size) THEN here ELSE next
  /\ UNCHANGED << orig, ret >>
ScanStill(here, size, next) ==
  /\ pc = here
  /\ pc' = IF Len(p) >= size /\ AllAscii(p, size) THEN here ELSE next
  /\ UNCHANGED << orig, p, ret >>
Scan(here, size, next) ==
  /\ pc = here
  /\ IF Len(p) >= size /\ AllAscii(p, size)
     THEN p' = Suffix(p, size) /\ pc' = here
     ELSE p' = p /\ pc' = next
  /\ UNCHANGED << orig, ret >>

Quads == Scan("quads", 4 * Word, "words")
WordsOnly == Scan("words", Word, "exit")        \* (no byte loop)
Words == Scan("words", Word, "bytes")
Bytes == Scan("bytes", 1, "exit")

TakenBack == Len(p) - Len(orig)                 \* (the wrong way round)
Taken == Len(orig) - Len(p)
Return ==
  /\ pc = "exit"
  /\ ret' = Taken
  /\ pc' = "done"
  /\ UNCHANGED << orig, p >>

Next == Quads \/ Words \/ Bytes \/ Return
Spec == Init /\ [][Next]_vars /\ WF_vars(Next)

-----------------------------------------------------------------------------
(* Properties                                                              *)

TypeOK ==
  /\ orig \in Seq(Byte) /\ p \in Seq(Byte) /\ Len(p) <= Len(orig)
  /\ pc \in {"quads", "words", "bytes", "exit", "done"}
  /\ ret \in 0..Len(orig)

\* What is left is always the end of the argument, and what was taken off it
\* is ASCII: a loop that stops early gives nothing away.
OnlyAsciiTaken ==
  LET taken == Len(orig) - Len(p)
  IN  p = Suffix(orig, taken) /\ AllAscii(orig, taken)

\* When the call returns, ret is the length of the whole ASCII prefix: the
\* caller takes ret = len(p) for "all ASCII", and the byte at ret for the
\* first one the validator has to see.
Maximal ==
  pc = "done" => /\ AllAscii(orig, ret)
                 /\ ret < Len(orig) => ~ IsAscii(At(orig, ret))

\* The three loops end, on every input.
Returns == <>(pc = "done")
=============================================================================
