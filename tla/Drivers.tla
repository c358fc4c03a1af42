------------------------------ MODULE Drivers -------------------------------
(***************************************************************************)
(* One call of the package on one machine: Valid and RuneCount with the    *)
(* valid and runeCount of utf8_amd64.go, utf8_arm64.go, utf8_s390x.go,     *)
(* utf8_ppc64le.go and utf8_generic.go, or one of the string functions.    *)
(*                                                                         *)
(* The five pairs cut the input at a block boundary, ask vector kernels    *)
(* about the blocks, step back over the rune that may straddle the cut and *)
(* leave the rest to the standard library; strings go there at once.       *)
(*                                                                         *)
(* A kernel call is one step here and returns what its declaration says.   *)
(* An operator ...Gives(r) is what a driver does when the call returns r;  *)
(* module WholeCall has the kernels step and return to it.                 *)
(***************************************************************************)
EXTENDS Utf8

CONSTANTS
  B,          \* bytes per block: 16, and twice that for the AVX2 kernels
  Machines,   \* where the package runs
  Sources     \* the byte slices it is called on

ASSUME BAssumption == B \in Nat /\ B >= 4
ASSUME SourcesAssumption == Sources \subseteq Seq(Byte)
ASSUME MachinesAssumption ==
  Machines \subseteq
    [arch : {"amd64", "arm64", "s390x", "ppc64le", "generic"},
     isa  : SUBSET {"SSSE3", "SSE41", "POPCNT", "AVX2", "POWER9"}]

VARIABLES
  machine,          \* architecture the binary is built for, features of the CPU
  op, p,            \* the function called and its argument
  base,             \* the slice at work is p[base:] (ppc64le's tail, else p)
  width, blocks,    \* block size and number of full blocks of that slice
  acc,              \* runes runeCount has already counted
  from,             \* the slice's suffix left to the standard library
  pc, result

vars == << machine, op, p, base, width, blocks, acc, from, pc, result >>

q == Suffix(p, base)
end == blocks * width                     \* bytes the kernels are asked about

\* The dispatch variables, read from the CPU once at program start.
hasAVX2   == "AVX2" \in machine.isa
hasPOPCNT == "POPCNT" \in machine.isa
hasVSX    == "POWER9" \in machine.isa

\* The instruction-set extensions a kernel executes beyond the baseline of
\* its architecture: PSHUFB and PALIGNR are SSSE3, PTEST is SSE4.1, POPCNTL
\* is POPCNT, LXVB16X is POWER9.  asciiBlocksSSE, NEON and VX need none.
Needs(kernel) ==
  CASE machine.arch = "amd64" /\ width = 2 * B -> {"AVX2"} \cup
         IF kernel = "count" THEN {"POPCNT"} ELSE {}
    [] machine.arch = "amd64" /\ width = B /\ kernel = "validate" -> {"SSSE3", "SSE41"}
    [] machine.arch = "amd64" /\ width = B /\ kernel = "count"    -> {"POPCNT"}
    [] machine.arch = "ppc64le" -> {"POWER9"}
    [] OTHER -> {}
Executable(kernel) == Needs(kernel) \subseteq machine.isa

\* asciiPrefixLen: the length of the longest pure-ASCII prefix.
asciiPrefixLen(s) == LeadingAscii(s, Len(s), 1)

\* runeStart: back over at most three continuation bytes, then one byte more.
Skipped(s, i) == CHOOSE j \in 0..3 :
  /\ j <= i /\ \A d \in 1..j : IsCont(At(s, i - d))
  /\ j = 3 \/ j = i \/ ~ IsCont(At(s, i - j - 1))
runeStartLast(s, i) == i - Skipped(s, i)       \* (without the byte more)
runeStart(s, i) ==
  LET k == i - Skipped(s, i) IN IF k > 0 THEN k - 1 ELSE k

-----------------------------------------------------------------------------

Init ==
  /\ machine \in Machines
  /\ op \in SliceOps \cup StringOps
  /\ p \in Sources
  /\ base = 0 /\ width = 0 /\ blocks = 0 /\ acc = 0 /\ from = 0
  /\ pc = CASE op \in StringOps -> "scalar"
             [] op \in SliceOps /\ machine.arch = "ppc64le" -> "prefix"
             [] OTHER -> "dispatch"
  /\ result = 0

Finish(r) == pc' = "done" /\ result' = r

\* ppc64le strips the ASCII prefix before anything else; valid looks only at
\* whether that is all of p, runeCount goes on with the tail.
AsciiPrefixGives(k) ==
  /\ pc = "prefix"
  /\ \/ /\ k = Len(p)
        /\ Finish(IF op = "valid" THEN 1 ELSE Len(p))
        /\ UNCHANGED << base, acc >>
     \/ /\ k # Len(p)
        /\ base' = IF op = "valid" THEN 0 ELSE k
        /\ acc'  = IF op = "valid" THEN 0 ELSE k
        /\ pc' = "dispatch"
        /\ UNCHANGED result
  /\ UNCHANGED << machine, op, p, width, blocks, from >>
AsciiPrefix == AsciiPrefixGives(asciiPrefixLen(p))

\* (The variants use the VSX kernels on any POWER, and ask for POPCNT before
\* valid uses the SSE kernel.)
BlockWidthPower(n) ==
  CASE machine.arch = "ppc64le" /\ n >= B -> B
    [] OTHER -> 0
BlockWidthPopcnt(n) ==
  CASE machine.arch = "amd64" /\ hasPOPCNT /\ n >= B -> B
    [] OTHER -> 0

\* The block size valid and runeCount use for a slice of n bytes, 0 for none.
\* On amd64 valid does not ask for any feature before it uses the SSE kernel.
BlockWidth(n) ==
  CASE machine.arch = "amd64" /\ hasAVX2 /\ n >= 2 * B -> 2 * B
    [] machine.arch = "amd64" /\ (op = "valid" \/ hasPOPCNT) /\ n >= B
         /\ ~ (hasAVX2 /\ n >= 2 * B) -> B
    [] machine.arch \in {"arm64", "s390x"} /\ n >= B -> B
    [] machine.arch = "ppc64le" /\ hasVSX /\ n >= B -> B
    [] OTHER -> 0

WholeUp(len, w) == (len + w - 1) \div w        \* (rounded up)
Whole(len, w) == len \div w

Dispatch ==
  /\ pc = "dispatch"
  /\ width' = BlockWidth(Len(q))
  /\ blocks' = IF width' = 0 THEN 0 ELSE Whole(Len(q), width')
  /\ pc' = CASE width' = 0 -> "scalar"
             [] width' # 0 /\ machine.arch = "ppc64le" -> "validate"
             [] OTHER -> "ascii"
  /\ UNCHANGED << machine, op, p, base, acc, from, result >>

\* A kernel with an instruction the CPU does not have ends the program.
Trap ==
  /\ pc \in {"ascii", "validate", "count"} /\ ~ Executable(pc)
  /\ pc' = "sigill"
  /\ UNCHANGED << machine, op, p, base, width, blocks, acc, from, result >>

\* The ASCII pre-scan: if it counts all blocks, only the tail is left.
AsciiScanGives(k) ==
  /\ pc = "ascii" /\ Executable("ascii")
  /\ IF k = blocks
     THEN /\ from' = end
          /\ acc' = IF op = "valid" THEN acc ELSE acc + end
          /\ pc' = "scalar"
     ELSE pc' = "validate" /\ UNCHANGED << acc, from >>
  /\ UNCHANGED << machine, op, p, base, width, blocks, result >>
AsciiScan == AsciiScanGives(LeadingAscii(q, blocks, width))

RefusedCount == "count"       \* (runeCount counts all the same)
Refused == "scalar"

\* The validator kernel.  If it refuses the blocks valid is done, and
\* runeCount leaves the whole slice to the standard library.
ValidateGives(v) ==
  /\ pc = "validate" /\ Executable("validate")
  /\ \/ /\ v # 0
        /\ pc' = IF op = "valid" THEN "split" ELSE "count"
        /\ UNCHANGED result
     \/ /\ v = 0
        /\ IF op = "valid" THEN Finish(0) ELSE pc' = Refused /\ UNCHANGED result
  /\ UNCHANGED << machine, op, p, base, width, blocks, acc, from >>
Validate == ValidateGives(IF StructOK(q, end) THEN 1 ELSE 0)

\* The counting kernel, and the arithmetic of countValidPrefix on what it
\* returns: the rune that straddles the cut is left to the tail.
prefixRunesAll(cont) == end - cont            \* (the straddling rune too)
prefixRunesNeg(cont) == (cont - end) - 1      \* (the wrong way round)
prefixRunes(cont) == (end - cont) - 1

CountGives(cont) ==
  /\ pc = "count" /\ Executable("count")
  /\ acc' = acc + prefixRunes(cont)
  /\ pc' = "split"
  /\ UNCHANGED << machine, op, p, base, width, blocks, from, result >>
Count == CountGives(Cardinality(Conts(q, end)))

Split ==
  /\ pc = "split"
  /\ from' = runeStart(q, end)
  /\ pc' = "scalar"
  /\ UNCHANGED << machine, op, p, base, width, blocks, acc, result >>

\* The library's answer on what is left (acc stays 0 where it is a bool).
LeftWhole == q                                 \* (from the start again)
Left == Suffix(q, from)
Scalar ==
  /\ pc = "scalar"
  /\ Finish(acc + Answer(op, Left))
  /\ UNCHANGED << machine, op, p, base, width, blocks, acc, from >>

Next == Trap \/ AsciiPrefix \/ Dispatch \/ AsciiScan \/ Validate \/ Count \/ Split \/ Scalar
Safety == Init /\ [][Next]_vars
Spec == Safety /\ WF_vars(Next)

-----------------------------------------------------------------------------
(* Properties                                                              *)

TypeOK ==
  /\ machine \in Machines /\ op \in SliceOps \cup StringOps /\ p \in Seq(Byte)
  /\ base \in 0..Len(p) /\ from \in 0..Len(q) /\ acc \in 0..Len(p)
  /\ op # "runeCount" => acc = 0
  /\ width \in {0, B, 2 * B} /\ blocks \in 0..Len(p)
  /\ pc \in {"prefix", "dispatch", "ascii", "validate", "count", "split",
             "scalar", "done", "sigill"}
  /\ result \in Nat

\* A kernel is only called on whole blocks of the slice, and on at least one:
\* it would read past the slice, or loop on, otherwise.
KernelBounds ==
  pc \in {"ascii", "validate", "count", "split"} => blocks >= 1 /\ end <= Len(q)

\* The cut is where the comment of valid wants it, at a rune boundary: the
\* decoder of the standard library stops there when it reads all of p, and
\* everything before is well formed.  So the rune that straddles the blocks
\* is decoded in full, and once.
CutAtRune ==
  (pc = "scalar" /\ from > 0) =>
    /\ from = Len(q) \/ from \in Starts(q)
    /\ \A i \in Starts(q) : i < from => RuneOk(q, i)

\* When runeCount turns to the standard library it has counted the runes of
\* p before the cut, all of them and no other: the straddling rune, which
\* the kernel saw in part, is not among them.
CountedOnce ==
  (pc = "scalar" /\ op = "runeCount") =>
    acc = Cardinality({i \in Starts(p) : i < base + from})

\* No call ends with an instruction the CPU lacks (.github/workflows/ci.yml:117:
\* "must not SIGILL").
NoIllegalInstruction == pc # "sigill"

API == INSTANCE UTF8API WITH
         pc <- IF pc = "done" THEN "done" ELSE "call",
         result <- IF pc = "done" THEN result ELSE 0

\* Every call on every machine returns what the standard library returns
\* (utf8.go:6-7: "byte-identical to unicode/utf8.Valid and
\* unicode/utf8.RuneCount on all input").
DropIn == API!Spec

\* The part of it that is left where a call may trap: if it returns, it
\* returns that.
RightIfReturned == API!Safety

\* On an amd64 CPU without the extensions of the SSE validator, the calls
\* that trap are those that find a byte that is not ASCII in the blocks of
\* their input; for runeCount, only if the CPU has POPCNT, which is all that
\* runeCount asks for.  Every other call returns.
TrapsWhereUngated ==
  pc \in {"done", "sigill"} =>
    (pc = "sigill" <=>
      /\ machine.arch = "amd64" /\ ~ {"SSSE3", "SSE41"} \subseteq machine.isa
      /\ op = "valid" \/ (op = "runeCount" /\ hasPOPCNT)
      /\ ~ AllAscii(p, (Len(p) \div B) * B))
=============================================================================
