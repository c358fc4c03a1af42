# A TLA+ model of go-simd/utf8

`go-simd/utf8` replaces `utf8.Valid` and `utf8.RuneCount` of Go's standard
library with vector code for five instruction sets. It promises results that are
*byte-identical to `unicode/utf8` on all input* (`utf8.go:6-7`). This directory
models the code behind that promise, model-checks it with TLC on small
registers, and proves with TLAPS, for every slice and every register width, that each
part returns what it promises when it returns; and, for the validators, that the
instructions the generators emit compute what the model of their loops says.

## 1. Inventory

| component | where | state | operations |
|---|---|---|---|
| public API | `utf8.go` | none | `Valid`, `RuneCount` (a driver each); `ValidString`, `RuneCountInString` (one library call each) |
| drivers | `utf8_{amd64,arm64,s390x,ppc64le,generic}.go` | locals of one call | `valid`, `runeCount`, `runeStart`, `countValidPrefix` |
| CPU dispatch | `hasAVX2`, `hasPOPCNT`, `hasVSX` | three flags set at program start | read by the drivers |
| validator kernels | `utf8_*.s` | pointer, counter, prevRaw, prevHigh, prevCarries, error register | `validBlocks{SSE,AVX2,,VSX,VX}` |
| ASCII scan kernels | `utf8_{amd64,arm64,s390x}.s` | pointer, block count, two loop counters | `asciiBlocks{SSE,AVX2,,VX}` |
| count kernels | `utf8_*.s` | pointer, counter, accumulator | `countCont{SSE,AVX2,,VSX,VX}` |
| ASCII prefix | `utf8_ppc64le.go` | the rest of the slice | `asciiPrefixLen` |
| standard library | not in the repository | none | `utf8.Valid`, `utf8.RuneCount` |
| kernel generators | `utf8_*gen.go` | none at run time | the register file and the instruction sequences they print |
| tests, CI | `*_test.go`, `.github/` | none at run time | not modelled (section 7) |

**How the parts interact.** There are only calls. A driver cuts its input at the
last whole block, asks the ASCII kernel whether all blocks are ASCII, and if not
asks the validator. If that refuses the blocks, `valid` is false and `runeCount`
gives the whole input to the standard library. If it accepts them, the driver
steps back over the rune that may straddle the cut (`runeStart`) and gives the
rest to the standard library; `runeCount` adds what the count kernel found before
the cut (`countValidPrefix`). ppc64le has no ASCII kernel; it strips the ASCII
prefix in Go first.

**What is hard.** The package has no concurrency, no I/O and no persistent state,
so there are no interleavings or crashes to explore. What can go wrong is carried
from one step of a loop to a later one, or from one component to another:

* a block is validated knowing nothing of earlier blocks but three registers; a
  sequence that straddles two blocks must be judged as if there were no boundary;
* the carries are 8-bit sums compared as signed bytes, and malformed input feeds
  them into themselves;
* AVX2 shifts its halves separately, SSE shifts 16-bit words, VX cannot saturate;
* an error is reported only at the end and must survive every later block;
* the validator accepts blocks that end inside a sequence, so its answer means
  less than "valid UTF-8", and the cut must make up for the difference;
* the rune at the cut must be counted once, on every alignment;
* two loops of the ASCII kernels share a pointer but not a counter;
* flags of the CPU decide which code runs, and are not the features it needs.

`PROJECT.json` lists each of these under `hazards`, at its line.

**What makes a component correct.** The kernels: return what their Go
declarations promise, and load nothing beyond their blocks. The drivers: return
what the standard library returns, for every input on every machine, and call
kernels only on whole blocks and only where the CPU can run them.

## 2. Modules

| module | models | uses |
|---|---|---|
| `Utf8` | the standard library's answer, and the vocabulary of the kernels' promises (`StructOK`, `Conts`, `AllAscii`) | |
| `ReferenceDecoder` | the decoding loops of the standard library | `Utf8`, implements `UTF8API` |
| `UTF8API` | abstract: a call returns the standard library's answer in one step | `Utf8` |
| `KernelCall` | abstract: a kernel call returns `Answers(src, n)` in one step | `Utf8` |
| `Kernels` | instructions, tables and the block function of the five validators | `Utf8` |
| `ValidBlocks` | a call of a validator kernel | `Kernels`, implements `KernelCall` |
| `AsciiBlocks` | a call of an ASCII kernel | implements `KernelCall` |
| `CountCont` | a call of a count kernel | implements `KernelCall` |
| `AsciiPrefixLen` | `asciiPrefixLen` | |
| `Drivers` | `valid` and `runeCount` on five architectures, and the two string functions | `Utf8`, implements `UTF8API` |
| `Instructions` | what each vector instruction of the five ports does to named registers | `Kernels` |
| `ValidLoops` | the validator kernels with every vector instruction of their loops, in the generators' registers | `Instructions`, implements `ValidBlocks` |
| `WholeCall` | a whole call: the drivers, with every kernel stepping inside | `ValidBlocks`, `AsciiBlocks`, `CountCont`, `AsciiPrefixLen`; implements `Drivers` |
| `MC*` | inputs and small constants for TLC | the module they are named after |
| `Lemmas` | lemmas about `Utf8` (where a slice may be cut, what a clean structure says of runes, counting) and about `Kernels`, for every register width (what one iteration of a validator computes) | `Kernels` |
| `ReferenceDecoderProofs`, `ValidBlocksProofs`, `AsciiBlocksProofs`, `CountContProofs`, `AsciiPrefixLenProofs` | the theorems about the module each is named after (section 4) | that module, `Lemmas` |
| `ValidLoopsProofs` | the theorems about `ValidLoops`, with a lemma per instruction and per loop body | `ValidLoops`, `Lemmas` |
| `CallProofs` | the theorems about `Drivers` and `WholeCall` | `WholeCall`, `Lemmas` |

The modules stand on three levels, each shown to implement the one above:

    UTF8API            a call is one step
      Drivers          a kernel call is one step, the declaration's answer
        WholeCall      kernels run inside; a step is one loop iteration
          ValidLoops   one iteration of a validator is its instruction sequence

The first two levels fit by contract. `Drivers` takes a kernel call as one step that
returns `StructOK`, `Conts` or `AllAscii` of the blocks; `ValidBlocks`,
`CountCont` and `AsciiBlocks` show, as refinements of `KernelCall`, that the
loops return exactly that. `Drivers` takes `utf8.Valid` and `utf8.RuneCount` as
`Answer`; `ReferenceDecoder` shows that a decoding loop returns it. Both levels
use the same operators of `Utf8`. `WholeCall` composes them again without the
contracts: it instantiates the kernels' modules over its own variables, so that a
mistake in the glue (a wrong slice, block size, count, or a register not reset)
is seen too, and implements `Drivers` with its variables as they are.

### State and code

* A byte is `0..255`, a slice a sequence of bytes. `At(s, i)` is `s[i]`,
  `Suffix(s, k)` is `s[k:]`.
* A register is a function from `Lane(w) == 0..w-1` to bytes. The width stands for
  16 (SSE, NEON, VSX, VX) or 32 (AVX2). Nothing in the loops depends on it except
  that look-back reaches at most three lanes (`w >= 4`) and that AVX2 has two
  halves and SSE 16-bit words (`w` even): these are the `Widths`. The tables keep
  their 16 entries. In `Kernels` the width is a parameter of every operator, because
  `WholeCall` has kernels of two widths; `ValidBlocks` has it as a constant.
* The error register only gathers bits with OR and is only compared with zero, so
  `err` is the set of lanes that have a bit set.
* In `ValidBlocks` an action is one iteration of the loop; everything between
  label and branch happens in it, in `ValidateBlock(W, isa, ...)`, with the port's own
  instructions and tables (`SSE`, `AVX2`, `NEON`, `VSX`, `VX`). `si` is the pointer's distance from `src`, `cx` the
  counter, `prev` the three registers, under the names of the generator's
  comments (`utf8_gen.go:102-106`).
* In `AsciiBlocks` `groups` is R8, `left` R9 and `count` AX of
  `utf8_amd64.s:145-230`; `Back` is the `SUB $64` of `utf8_arm64.s:100-101`.
  The high-bit test of a group is in `GroupClear` and `Folded`, per port. Every port
  ORs the four registers of a group; amd64 then gathers the high bits of all lanes
  in a mask (`PMOVMSKB`), NEON and VX OR the two doublewords and mask them with
  `0x8080808080808080`. For a single block NEON adds the high bits up (`VUADDLV`).
* In `CountCont` `BlockCount` is one operator with a case per way of adding up.
* In `Drivers` the control point says which call is next: `prefix`
  (`asciiPrefixLen`), `dispatch`, `ascii`, `validate`, `count`, `split`
  (`runeStart`), `scalar`. `base` is `asciiPfx` on ppc64le and 0 elsewhere. A
  kernel that needs a feature the machine lacks ends in `sigill`. `B` is the
  16-byte block, and AVX2's is `2 * B`.

* In `ValidLoops` `file` maps register names to vectors, under the names of the
  assembly; constants in memory have names like `cF4`. A kernel's body is a
  sequence of tuples, mnemonic first and destination last, the sources in between
  in the order in which the assembler writes them (`Meaning` says which is which);
  `Run` executes it from the first to the last. SSE's instructions have two operands and
  overwrite the second, which is also a source (`Onto`), so its body has the copies
  that save what would be lost. The bodies are complete: 60 instructions of SSE, 41
  of AVX2, 34 of NEON, 37 of VSX and 40 of VX. Only what works on general registers is
  not in them: pointer, counter (`si`, `cx`) and the addresses of constants. `Home` names the five
  registers that live across iterations; the refinement to `ValidBlocks` is by
  them. The prologue loads the constants (`Loaded`) and clears four registers
  (`Cleared`); the others start with what the caller left in them (`Left`, a parameter).
* `Instructions` has one operator on registers per operation (`SubSatB`, `Srl4W`,
  `HighThenLow`, ...); mnemonics of several ports share one.
* In `WholeCall` `kpc` is the kernel's control point, `idle` when none runs. A
  call step does what the kernel's prologue does (`CallAscii`, `CallValidate`,
  `CallCount`, `CallPrefix`), `Run...` are the steps of the kernels' own modules,
  `Return` hands the result to the driver through the same operators
  (`ValidateGives`, ...) that `Drivers` uses. `Kernel` is the kernel that the branch
  of the driver names and `BlockOf` the block size that kernel is written with;
  `width`, of `Drivers`, is the number by which the driver divides the length.
  In the code these are a name and a literal side by side in each branch.

Definitions marked in parentheses as variants (`ShiftInZero`, `IterateStale`,
`GroupsUp`, ...) are no part of the model. Each is the definition after it with a
plausible bug; substituting it must make the property named in
`PROJECT.json` fail.

## 3. Runs

| run (cfg) | question | size |
|---|---|---|
| `validator` (`MCValidBlocks`) | Do all five validators judge every straddling sequence correctly, keep the carries small and return what they promise? | 179,000 states |
| `ascii_scan` (`MCAsciiBlocks`) | Do the two loops count the leading ASCII blocks and stay inside the slice? | 36,000 |
| `count` (`MCCountCont`) | Do the five ways of counting agree with the declaration? | 246,000 |
| `ascii_prefix` (`MCAsciiPrefixLen`) | Do the three loops find the whole ASCII prefix and end? | 9,200 |
| `decoder` (`MCReferenceDecoder`) | Is the loop-free account of the standard library right, and what does "no structural error" mean for validity? | 206,000 |
| `drivers` (`MCDrivers`) | Is every answer the standard library's, with a sound cut and an exact count? Which calls trap below SSE4.1, and do no others? | 461,000 |
| `whole_call` (`MCWholeCall`) | Do the drivers and the kernels fit: is every call in the contract of the kernel it names, every load inside the caller's slice, every answer of a kernel the declared one, and the whole the same as the drivers with declared kernels, so that every call returns the library's answer and none ends in an illegal instruction? | 98,000 |
| `instructions` (`MCValidLoops`) | Do the instruction sequences of SSE, NEON, VSX and VX compute what `ValidBlocks` says, block after block, keep their constants and return the right verdict? | 35,000 |
| `instructions_avx2` (`MCWideLoops`) | Does that of AVX2, with registers of 32 bytes in two halves? | 7,700 |
| `trailing_sequence`, `rune_start`, `baseline_x86` | statements of comments and README that the code contradicts | counterexamples |

The properties worth knowing:

* `ErrExact`: after every iteration, `err = {}` exactly when the bytes consumed
  have no structural error, in terms of single bytes and not of blocks.
* `RegsExact`: while there is no error, the last two carries say how many of the
  next three bytes are owed, and the last lanes of the other registers are the
  last byte and its nibble. This is why a block needs to know no more.
* `CarryBounded`: carries stay at or below 33 on any input, also after an error,
  far from the sign bit.
* `CutAtRune`: the driver's cut is a position the decoder stops at, and all runes
  before it are well formed. `CountedOnce`: what `runeCount` has counted at that
  point is the number of decoder positions before the cut.
* `PrefixJudged`: a prefix is valid UTF-8 if and only if it has no structural
  error and no sequence is open at its end. This ties the kernels' notion to the
  library's.
* `DropIn`, `KeepsPromise`, `Decodes`: refinements, including that every call
  returns. `RightIfReturned` is `DropIn` without that; with `TrapsWhereUngated` it
  is what can be said of machines on which a call may trap, so `drivers` checks the
  two on every machine, and `whole_call` checks `DropIn` on the supported ones.
* `ImplementsLoop`: each operand is in its place, no result overwrites a value that
  is still needed, nothing is read that this or an earlier block did not write.
  `ConstantsKept`: no instruction of the body writes over a constant that the
  prologue of NEON, VSX or VX loaded once, which only the second block would show
  (SSE and AVX2 have their constants in memory). `ResultExact`: the
  verdict that comes out of the instructions and the epilogue is that of the bytes.
* `CallsInContract`: the blocks a driver asks for are, in the block size of the
  kernel it names, exactly the bytes up to which it believes the kernel's answer;
  and the state it calls in is an initial state of
  that kernel's module, so that what is shown of the kernels applies.
  `LoadsInside`: no load of any kernel lies outside the slice that the caller of
  the package passed. `KernelsAnswer`: what a kernel hands back, for whichever slice,
  number of blocks and block size its driver chose, is the declaration's answer.
  `ImplementsDrivers`: with the kernels running, a call still
  is a behaviour of `Drivers`, termination included.
* `TrapsWhereUngated`: on x86 CPUs without SSSE3 or SSE4.1 a call traps exactly
  if its blocks hold a byte that is not ASCII (and, for `runeCount`, POPCNT is
  there), and on no other machine.

### Bounds

* `validator`: `W = 4`, inputs of two and three blocks. Four lanes are the
  smallest register in which look-back by three stays within the block before,
  so each lane is at once near a boundary: boundaries are denser than at 16. The
  inputs are all arrangements of one byte per length class in five bytes around
  the seam and in the four before its second byte, all pairs of the 21 bytes at
  which some comparison or range changes its answer, within a block, at its end
  and across the seam, and malformed patterns over three blocks. With `W = 4` an
  AVX2 half is two lanes, so a look-back by two replaces a whole half.
* `ascii_scan`: `W = 2`, one to nine blocks (up to two groups of four, with every
  remainder), at most two bytes that are not ASCII, anywhere.
* `count`: `W = 4`, one to three blocks, bytes next to the continuation range.
  The 16-bit lane can hold 257 lanes of 255, hence `W <= 256`.
* `ascii_prefix`: words of two bytes, lengths 0 to 19: up to two quads, all
  remainders.
* `decoder`: all arrangements of the length classes in up to six bytes, edge
  bytes in second and third position.
* `instructions`, `instructions_avx2`: registers of the real 16 and 32 bytes; up
  to two blocks: what is carried is carried once, and the constants are used
  again. The inputs put every class arrangement and the edge bytes at the seam,
  and at the seam of the halves too; scratch registers start as all zeros or all ones.
* `whole_call`: `B = 4`, words of two bytes, inputs of 3, 9, 22 and 41 bytes: no
  block, two blocks or one of AVX2, a group of four with a block after it for
  each block size, all with tails; class arrangements in the first blocks, at the
  end of the group and across the cut (in the longest inputs without the lead bytes
  of three-byte sequences). The machines are one of each driver with kernels and
  block size, and POWER8, all with the extensions their kernels need, for `DropIn`
  says that every call returns.
* `drivers`: `B = 4`, inputs of 0 to 11 bytes: shorter than a block, exactly one
  or two blocks, and with tails; all class arrangements in the four bytes at
  every cut. A rune has at most four bytes, so a cut sees no more of it.

`CHECK_DEADLOCK FALSE` is in every cfg because a call that has returned stops.

### Fairness

Each specification is one call of one thread. `WF_vars(Next)` says that the thread
keeps running; every loop step is enabled until the call returns. `KernelCall` and
`UTF8API` state the same for the single step that is visible to the caller, so the
refinements include termination. `WholeCall` assumes the same of its own `Next`
and implements the fairness of `Drivers`: a kernel takes finitely many steps.
`ValidLoops` has no fairness and its refinement is one of safety; its control is
that of `ValidBlocks`, where termination is checked.

## 4. Proofs

| module | theorem | says |
|---|---|---|
| `Lemmas` | `PortsAgree` | the five block functions are the same function |
| | `JudgedFurther` | one iteration takes registers that describe the bytes before a block to registers that describe the bytes up to its end |
| `ValidBlocksProofs` | `Invariance`, with `TypeCorrect`, `ErrorRegisterExact`, `RegistersExact` | `Inv == TypeOK /\ ErrExact /\ RegsExact` always holds |
| | `CarriesBounded` | `CarryBounded` always holds, on malformed input too |
| | `KeepsPromiseSafely` | each step is a stutter or the one step of the declaration |
| `ValidLoopsProofs` | `LoopInvariance`, with `LoopTypes`, `ConstantsStay` | the instruction sequences write bytes, into registers of their port, and no constant |
| | `InstructionsImplementLoop` | each port's instruction sequence (of 34 to 60 instructions) is one iteration of `ValidBlocks`: `ImplementsLoop`, in full |
| | `InstructionsJudge` | so a call returns 1 exactly when its blocks have no structural error (`ResultExact`) |
| `AsciiBlocksProofs` | `ScanInvariance`, with `ScanTypeCorrect`, `ScanLoadsInBounds`, `ScanCountsPrefix` | the scan's three invariants |
| | `ScanKeepsPromise` | it returns the number of leading ASCII blocks |
| `CountContProofs` | `CountInvariance`, with `CountTypeCorrect`, `AccumulatorExact` | the count's two invariants |
| | `CountKeepsPromise` | it returns the number of continuation bytes |
| `AsciiPrefixLenProofs` | `PrefixInvariance`, with `PrefixTypeCorrect`, `PrefixOnlyAscii`, `PrefixMaximal` | the result is the longest ASCII prefix |
| `ReferenceDecoderProofs` | `DecoderInvariance`, with `DecoderTypeCorrect`, `DecoderStopsAtStarts`, `DecoderPrefixJudged` | the decoder's three invariants |
| | `DecodesSafely` | the decoding loops return `Answer` |
| `CallProofs` | `DriversInvariance`, with `DriversTypeCorrect`, `KernelsStayInSlice`, `CutsAtRunes`, `CountsOnce` | the drivers' four invariants |
| | `ReturnsRight` | a call that returns, returns the standard library's answer |
| | `NeverTraps`, `TrapsExactlyThere` | which calls trap on which processors |
| | `WholeInvariance`, with `LoadsStayInside`, `CallsKeepContract` | with the kernels running inside: no load outside the argument, every call with the kernel's own block size and in its contract |
| | `KernelsAnswerRight` | every kernel answers what `Drivers` takes for its answer |
| | `WholeImplementsSafety`, with `WholeTypeCorrect` | each step of `WholeCall` is a stutter or a step of `Drivers` |
| | `WholeReturnsRight` | so a call with its kernels inside that returns, returns the standard library's answer; its cut, its count and its traps are those of `Drivers` |

The theorems about `Drivers` are about `Safety`, which is `Spec` without the fairness;
so they hold of what implements it, and `WholeReturnsRight` is `WholeImplementsSafety`
applied to them.

### Assumptions

The theorems hold for all values of the constants that satisfy the `ASSUME`s of
their modules, which TLC evaluates in the runs:

* sources are any set of byte slices; machines any set of records of the five
  architectures with any instruction sets;
* validator registers have any even width from 4 up, count registers any even width
  up to 256 (NEON adds up lanes of 255 in 16 bits, `VUADDLV`), scan
  registers any even width below 65535 (the 16-bit sum of the NEON test), words any
  positive size, driver blocks any size from 4 up; `WholeCall` needs an even
  `B <= 128`, so that all kernels fit both `B` and `2 * B`. The code's 16, 32 and 8
  are among these;
* `ValidLoops` has the real register sizes, 16 bytes and 32 on AVX2: its tables are
  registers, and have as many entries as these. Slices, numbers of blocks and what
  the caller left in the scratch registers are arbitrary.

`NeverTraps` and `TrapsExactlyThere` have hypotheses about processors, because
the dispatch does: `NestedFeatures` says that a CPU with AVX2 has SSSE3, SSE4.1
and POPCNT, which is true of every CPU made (the drivers test AVX2 alone and call
kernels that use all of them). `HasSSE41`, of `NeverTraps` only, is what
the code uses without asking; `TrapsExactlyThere` says what happens without it.

### How the arguments go

**Slices** (`Lemmas`). The drivers judge a slice in two parts, so the question is when that
is allowed. `Cut(s, k)` says that `k` is the end or a decoder position. Decoding
from a cut continues the decoding of the whole (`SuffixStart`), so validity and
the number of runes are those of the parts (`ValidSplit`, `RuneCountSplit`).
`CleanCut` adds that the runes before are well formed. `ValidStruct` says that a
valid prefix has no structural error; `StructLeads` and `StructStarts`, that in a
prefix without one, lead bytes are the decoder's positions and all but the last
rune are well formed. `LastLeadClean` draws from these what the drivers need: the last lead
of a clean prefix is a clean cut, although the rune that begins there may be broken.
There is no induction over data (the prover cannot
instantiate an induction theorem); where a position has to be followed along the slice,
the argument takes the least one at which it fails (`LeastNat`).

**Validator** (`Lemmas`, `ValidBlocksProofs`). `ErrExact` is not inductive by itself: whether the next block is judged
rightly depends on what the registers say of the block before. `RegsExact` says
what, and only while there is no error, because after one the carries may be
anything and nothing depends on them any more. The step has two halves.

1. *In.* If the registers describe the bytes before the block (`AtBlock`), each
   lane computes from them and its own block what the bytes up to three places
   earlier announce. The two look-backs (1 then 2 lanes) do not compute that
   exactly: a length of four that is broken two lanes later leaves a wrong value
   behind. But then an earlier lane has already reported the clash (`NoClash`),
   so the *set* of bad lanes is empty exactly when all bytes are in order
   (`BlockExact`), though single lanes may differ.
2. *Out.* If no lane is bad, the last two carries are the owed bytes again
   (`CarriesOut`).

`JudgedFurther` puts the two together, for one iteration at any width. `PortsAgree` lets both be proved once. Its own parts are the equalities of the
instruction variants (`Alike...`, from `HighAgree`, `ShiftAgree`, `SubAgree`, `LookAgree`).

`CarryBounded` needs another invariant, because it holds on malformed input too, where
the carries feed on themselves. What a block takes from the one before are its last
two carries; if the last but one is at most 20 and the last at most 12 (`CarriesLow`), the
sums stay at or below 33 lane by lane, and the last two are within these bounds again.

**Instructions** (`ValidLoopsProofs`). The question is what 34 (NEON) to 60 (SSE) instructions leave in
a register file, for each of five ports. It is answered in four steps.

1. One instruction. `Puts` says that a register file differs from the one before in one
   register. For each operation there is a lemma (`DoAnd`, ..., `DoMove`): an instruction with one of
   its mnemonics puts the value of the operation into its destination. `Runs` gives, for a sequence
   of instructions, the register files between them: the recursive function by which `Run` is
   defined exists, since there is no least number of instructions for which it does not.
2. The vectors. The ports differ in instructions and registers, not in what they compute: every
   body goes through the vectors that `Vectors` lists (nibbles, lengths, sums, look-backs, masks, the
   error register after each check). `Ways` lists the equations by which the instructions of some port
   lead from one to the next, and `VectorWays` proves them: that a mask with 15 of shifted 16-bit
   words is the shift of bytes, that a minimum and a subtraction are the saturated subtraction, that two AVX2
   instructions are a shift across the halves, that a lookup of a nibble in its half of a doubled table is
   the lookup in the table. For these the bitwise AND is taken apart into bits (`AndBytes`).
3. The bodies. `BodySSE`, `BodyAVX2`, `BodyNEON`, `BodyVSX` and `BodyVX` follow the sequence: after each
   check of the source, which vector is in which live register, and that the constants are where they were.
   This is where a wrong operand, a wrong order or a register used too early would stop the proof.
4. The loop. With `VectorErrors` the last vectors are those of `Body`, and by `PortsAgree` those of
   `Block` (`IterateBlock`). `IInv` is `TypeOK`, `ConstantsKept` and `BlocksJudged`, what the registers say
   of the bytes consumed, here of the registers in the file; it is inductive by `JudgedFurther`. `ClearAll` is the
   epilogue: each port's way of reading the error register sees all of its lanes.

Both invariants of the runs need each other: the constants must be in place for the block function to come out,
and the registers' types for the instructions to do what they say.

**ASCII scan.** `CountedPrefix` says that the counted blocks are ASCII and that the
pointer is where the count says. To be inductive it needs that a group, and then a
block, still fits (`GroupsFit`, `RestFits`), and why the loop stopped (`Stopped`). The three
high-bit tests of the ports are one test (`TestsAgree`); the NEON one, which adds lanes
in 16 bits, needs the bound on `W`.

**Count.** `AccExact` is inductive with `TypeOK`. The work is in `BlockCountExact`: mask
bits, doublewords and the weighted 16-bit sum all are the cardinality of the same set of
lanes.

**asciiPrefixLen.** Inductive with one addition: at the exit the rest is empty or begins
with a byte that is not ASCII (`Stuck`), so the prefix is maximal.

**Decoder.** `StopsAtStarts` with `GoodSoFar`, the runes passed by `valid` were well
formed. That the loop finds *every* position is `NextStart`: no position lies
between a rune's first byte and the byte after it.

**Drivers.** `Inv` adds to the checked invariants what the driver knows at each control
point: bytes stripped on ppc64le are ASCII (`Stripped`), nothing is counted or cut yet
(`NotYetCut`), the block size is the machine's (`Chosen`), the blocks have no structural error
when the count and the split run (`Judged`), and after the count `acc` is the number of
runes before the cut (`Counted`). Why the cut is clean is `RuneStartCut`: behind clean blocks three
steps back suffice for `runeStart` to find the last lead. `ReturnsRight` follows: what is
handed to the standard library begins at a clean cut.

**WholeCall.** Each kernel step is first reduced to what it does to the registers, the pointer
and the counters (`ValidStep`, `AsciiStep`, `CountStep`, `PrefixStep`). These take the block size
as a parameter, so that the narrow and the wide instance are one case. `WholeInv` then relates the
kernel's frame to its driver, whatever the kernels answer: the slice and the number of blocks are
the driver's (`SliceFrame`), and the pointer is the number of blocks done, times the width
(`LoopFrame`, `ScanFrame`). That is enough for the loads and for the contracts. That a
driver's `width` is the block size of the kernel it calls (`TwoWidths`) follows from the
branch it took (`Control`).

What the kernels answer is a second invariant on top of it, `SoFar`: what a running kernel has
established about the driver's slice so far (taken off and ASCII; blocks counted and ASCII; judged,
as `BlocksJudged` says; continuation bytes counted), and that its result, once there, is the
declaration's. The theorems of the kernels' own modules cannot be cited here, because `WholeCall`
has these modules as instances; the lemmas they rest on can, because they are about operators
(`Lemmas`). `SameNarrow` and `SameWide` say that the instances' block
function is that of `Kernels`. With `KernelsAnswer`, the return of a kernel is the step of `Drivers`
that asks it, all other steps of kernels leave the driver's variables alone, and what the driver
does itself is the same in both modules: `WholeImplementsSafety`.

### Only model-checked

* Liveness: that a call returns (the liveness parts of `KeepsPromise`, `Decodes`,
  `DropIn`, `ImplementsDrivers`, and `Returns`). The prover has no rules for fairness
  and `ENABLED`.

Every safety property of the passing runs is proved.

## 5. Where code and documentation differ

* `trailing_sequence`: the generator's header (`utf8_gen.go:13-15`) promises a
  final check that rejects an incomplete trailing sequence. There is none; a
  comment further down (`utf8_gen.go:207-211`) and the Go declarations say so.
* `rune_start`: the comment on `runeStart` (`utf8_amd64.go:44-48`) describes a
  function that returns `i` if a rune begins there. The code returns the rune
  before, and `countValidPrefix` depends on that.
* `baseline_x86`: on amd64 the SSE validator is reached without asking for SSSE3
  or SSE4.1 (`utf8_amd64.go:82`, `:121`), although `README.md:23` calls the kernels
  runtime-dispatched. `TrapsWhereUngated` (in `drivers`) says which calls are affected.

Three more were found by reading; no run is spent on them, because each can be
seen on one line and concerns wording or work, not results:

* `README.md:29-30` says ppc64le has no runtime dispatch; it has
  one on POWER9 (`utf8_ppc64le.go:34`), and POWER8 never runs the kernels.
* The comment on the ASCII kernels (`utf8_gen.go:337-339`, and its
  like on arm64 and s390x) says that the block count is used *to skip the heavy
  validator over the ASCII prefix*. The drivers compare it with the number of
  blocks and, if it is less, validate all blocks from the first
  (`utf8_amd64.go:77-82`). Only ppc64le skips a prefix.
* `utf8_gen.go:73-75` says the count kernels return the
  non-continuation bytes; they return the continuation bytes.

None of these but `baseline_x86` makes a result wrong.

## 6. Plan

Done: the core (validators, contracts, drivers, scans, counts, decoder); the
string functions, the instruction sequences of the validators, and the
composition of drivers and kernels (`WholeCall`); the theorems of section 4, which
cover every safety property of the runs. What is left:

* The instruction sequences of the scans and counts, in the manner of `ValidLoops`: two or three
  vector instructions per block, so the gain is small (section 7).
* Liveness stays with TLC.

## 7. Not modelled

* Of the generators: flags, file names, the text of the assembly, argument offsets
  and frame sizes, and the addressing of the constants. The instruction sequences
  of the validators are modelled (`ValidLoops`), and the loops of the ASCII and
  count kernels at the level of lanes (`AsciiBlocks`, `CountCont`): they have two
  or three vector instructions per block, so a register model would say no more.
* Addresses, alignment, `VZEROUPPER`, the calling convention; int overflow of
  lengths (a slice is shorter than 2^63 bytes, and all quantities are bounded by
  its length).
* Tests, fuzzers, benchmarks, CI and module files. Their statements are used: the
  differential tests state `DropIn`, the count tests `CountedOnce`.
