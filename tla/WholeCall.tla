------------------------------ MODULE WholeCall ------------------------------
(***************************************************************************)
(* Drivers with the kernels inside: a call of the package down to the      *)
(* single loads.  Where a driver asks a kernel in one step of Drivers, it  *)
(* calls it here, the kernel runs, and the driver goes on with its result. *)
(*                                                                         *)
(* The kernels are those of ValidBlocks, AsciiBlocks, CountCont and        *)
(* AsciiPrefixLen, with registers of B bytes, or 2B for AVX2.              *)
(***************************************************************************)
EXTENDS Drivers

ASSUME HalvesAssumption == B <= 128 /\ B % 2 = 0

VARIABLES
  port, src, n,           \* the kernel running, and its arguments
  si, cx,                 \* of all kernels
  prev, err,              \* of the validator
  count, groups, left,    \* of the ASCII scan
  sum,                    \* of the count
  rest,                   \* of asciiPrefixLen
  kpc, kret               \* "idle" when no kernel is running

driver == vars
frame == << port, src, n, si, cx, prev, err, count, groups, left, sum, rest, kpc, kret >>

NarrowValid == INSTANCE ValidBlocks WITH W <- B, Sources <- Seq(Byte), pc <- kpc, ret <- kret
WideValid   == INSTANCE ValidBlocks WITH W <- 2 * B, Sources <- Seq(Byte), pc <- kpc, ret <- kret
NarrowAscii == INSTANCE AsciiBlocks WITH W <- B, Sources <- Seq(Byte), pc <- kpc, ret <- kret
WideAscii   == INSTANCE AsciiBlocks WITH W <- 2 * B, Sources <- Seq(Byte), pc <- kpc, ret <- kret
NarrowCount == INSTANCE CountCont WITH
                 W <- B, Sources <- Seq(Byte), acc <- sum, pc <- kpc, ret <- kret
WideCount   == INSTANCE CountCont WITH
                 W <- 2 * B, Sources <- Seq(Byte), acc <- sum, pc <- kpc, ret <- kret
Prefix      == INSTANCE AsciiPrefixLen WITH
                 Word <- B \div 2, Sources <- Seq(Byte), orig <- src, p <- rest,
                 pc <- kpc, ret <- kret

-----------------------------------------------------------------------------
(* Calling a kernel                                                        *)

\* The kernels named in the branch a driver takes.  (The variant names the SSE
\* kernels in both branches of utf8_amd64.go.)
KernelSSE ==
  CASE machine.arch = "amd64"   -> "SSE"
    [] machine.arch = "arm64"   -> "NEON"
    [] machine.arch = "ppc64le" -> "VSX"
    [] machine.arch = "s390x"   -> "VX"
    [] OTHER -> "none"
Kernel ==
  CASE machine.arch = "amd64" /\ hasAVX2 /\ Len(q) >= 2 * B -> "AVX2"
    [] machine.arch = "amd64" /\ ~ (hasAVX2 /\ Len(q) >= 2 * B) -> "SSE"
    [] machine.arch = "arm64"   -> "NEON"
    [] machine.arch = "ppc64le" -> "VSX"
    [] machine.arch = "s390x"   -> "VX"
    [] OTHER -> "none"

\* The block size a kernel is written with.  (That of the driver, width, is a
\* number of its own: the literal it divides the length of the slice by.)
BlockOf(kernel) == IF kernel = "AVX2" THEN 2 * B ELSE B

\* The slice every kernel of a call is given.  (The variant passes ppc64le's
\* kernels p with the number of blocks of the tail.)
ArgumentWhole == p
Argument == q

Zeros(size) == [raw |-> [i \in 0..(size - 1) |-> 0], high |-> [i \in 0..(size - 1) |-> 0],
                carry |-> [i \in 0..(size - 1) |-> 0]]

Calling(kernel) == pc = kernel /\ Executable(kernel) /\ kpc = "idle" /\ UNCHANGED driver
Entered(who, s, m) == port' = who /\ src' = s /\ n' = m /\ si' = 0 /\ kret' = 0

CallPrefix ==
  /\ pc = "prefix" /\ kpc = "idle" /\ UNCHANGED driver
  /\ Entered("go", p, 0)
  /\ rest' = p
  /\ kpc' = "quads"
  /\ UNCHANGED << cx, prev, err, count, groups, left, sum >>

CallAscii ==
  /\ Calling("ascii")
  /\ Entered(Kernel, Argument, blocks)
  /\ groups' = NarrowAscii!Groups(blocks)
  /\ count' = 0 /\ left' = 0
  /\ kpc' = IF groups' = 0 THEN "tail" ELSE "loop4"
  /\ UNCHANGED << cx, prev, err, sum, rest >>

CallValidate ==
  /\ Calling("validate")
  /\ Entered(Kernel, Argument, blocks)
  /\ cx' = blocks
  /\ prev' = Zeros(BlockOf(Kernel)) /\ err' = {}
  /\ kpc' = "loop"
  /\ UNCHANGED << count, groups, left, sum, rest >>

CallCount ==
  /\ Calling("count")
  /\ Entered(Kernel, Argument, blocks)
  /\ cx' = blocks
  /\ sum' = 0
  /\ kpc' = "loop"
  /\ UNCHANGED << prev, err, count, groups, left, rest >>

Call == CallPrefix \/ CallAscii \/ CallValidate \/ CallCount

-----------------------------------------------------------------------------
(* The kernel runs, and returns                                            *)

Running == kpc \notin {"idle", "done"} /\ UNCHANGED driver

RunPrefix ==
  /\ Running /\ pc = "prefix"
  /\ Prefix!Next
  /\ UNCHANGED << port, n, si, cx, prev, err, count, groups, left, sum >>
RunAscii ==
  /\ Running /\ pc = "ascii"
  /\ IF BlockOf(port) = B THEN NarrowAscii!Next ELSE WideAscii!Next
  /\ UNCHANGED << cx, prev, err, sum, rest >>
RunValidate ==
  /\ Running /\ pc = "validate"
  /\ IF BlockOf(port) = B THEN NarrowValid!Next ELSE WideValid!Next
  /\ UNCHANGED << count, groups, left, sum, rest >>
RunCount ==
  /\ Running /\ pc = "count"
  /\ IF BlockOf(port) = B THEN NarrowCount!Next ELSE WideCount!Next
  /\ UNCHANGED << prev, err, count, groups, left, rest >>

Run == RunPrefix \/ RunAscii \/ RunValidate \/ RunCount

\* The driver takes the result; nothing reads what is left of the frame.
Return ==
  /\ kpc = "done"
  /\ \/ AsciiPrefixGives(kret)
     \/ AsciiScanGives(kret)
     \/ ValidateGives(kret)
     \/ CountGives(kret)
  /\ kpc' = "idle"
  /\ UNCHANGED << port, src, n, si, cx, prev, err, count, groups, left, sum, rest, kret >>

\* What the driver does itself.
Go ==
  /\ kpc = "idle" /\ UNCHANGED frame
  /\ Trap \/ Dispatch \/ Split \/ Scalar

WholeInit ==
  /\ Init
  /\ port = "none" /\ src = << >> /\ n = 0 /\ si = 0 /\ cx = 0
  /\ prev = Zeros(0) /\ err = {}
  /\ count = 0 /\ groups = 0 /\ left = 0 /\ sum = 0 /\ rest = << >>
  /\ kpc = "idle" /\ kret = 0
WholeNext == Call \/ Run \/ Return \/ Go
WholeSpec == WholeInit /\ [][WholeNext]_<< driver, frame >> /\ WF_<< driver, frame >>(WholeNext)

-----------------------------------------------------------------------------
(* Properties                                                              *)

\* A kernel runs exactly while its driver waits for it, on the driver's slice.
WholeTypeOK ==
  /\ TypeOK
  /\ kpc # "idle" => pc \in {"prefix", "ascii", "validate", "count"}
  /\ kpc # "idle" /\ pc # "prefix" => port = Kernel /\ n = blocks /\ base + n * width <= Len(p)
  /\ rest \in Seq(Byte) /\ err \subseteq 0..(width - 1) /\ kret \in Nat

\* No kernel reads a byte outside the argument of the package.  A driver cuts
\* the slice and counts blocks of the size it believes in, a kernel counts
\* groups and blocks of its own size down and moves a pointer, and no load
\* is checked.
LoadsInside ==
  LET reach == CASE kpc = "loop4" -> 4 * BlockOf(port)
                 [] kpc \in {"loop", "loop1"} -> BlockOf(port)
                 [] OTHER -> 0
  IN  base + si + reach <= Len(p)

\* The block size a driver counts with is that of the kernel it calls: the
\* blocks it asks for are the bytes it goes on with (end), no fewer and no
\* more.  And each call begins where the module of the kernel begins: on a
\* port that has this kernel, with a block at least.
CallsInContract ==
  [][ /\ CallAscii \/ CallValidate \/ CallCount => n' * BlockOf(port') = end
      /\ CallAscii =>
           IF BlockOf(port') = B THEN NarrowAscii!Init' ELSE WideAscii!Init'
      /\ CallValidate =>
           IF BlockOf(port') = B THEN NarrowValid!Init' ELSE WideValid!Init'
      /\ CallCount =>
           IF BlockOf(port') = B THEN NarrowCount!Init' ELSE WideCount!Init' ]_frame

\* What a kernel hands to its driver is what the driver asked for: the answer of
\* the declaration, for the driver's slice, blocks and block size.
KernelsAnswer ==
  kpc = "done" =>
    kret = CASE pc = "prefix"   -> asciiPrefixLen(p)
             [] pc = "ascii"    -> LeadingAscii(q, blocks, width)
             [] pc = "validate" -> IF StructOK(q, end) THEN 1 ELSE 0
             [] pc = "count"    -> Cardinality(Conts(q, end))

\* The two levels fit: with the kernels as they run, a call does what it does
\* with the kernels as they are declared, in particular it returns, with the
\* answer of the standard library (DropIn).  (Init is a conjunct of WholeInit.)
ImplementsDrivers == [][Next]_vars /\ WF_vars(Next)
=============================================================================
