------------------------------ MODULE ValidLoops -----------------------------
(***************************************************************************)
(* The five validator kernels as the generators write them: the register   *)
(* file, and the loop body as the sequence of all its vector instructions, *)
(* copies and loads of constants included.  Register allocation, operand   *)
(* order and the order of the checks are those of the source; ValidBlocks  *)
(* says what they amount to.                                               *)
(***************************************************************************)
EXTENDS Instructions

CONSTANTS
  Targets,    \* the ports that are run: all with registers of W bytes
  Sources,    \* the byte slices the kernels are called on
  Left(_)     \* what a caller may leave in the scratch registers of a kernel

\* The real sizes: the tables have as many entries as a register has lanes.
ASSUME TargetsAssumption ==
  \/ W = 16 /\ Targets \subseteq {"SSE", "NEON", "VSX", "VX"}
  \/ W = 32 /\ Targets \subseteq {"AVX2"}
ASSUME SourcesAssumption == Sources \subseteq Seq(Byte)

VARIABLES
  port, src, n,  \* which kernel, and its arguments
  si, cx,        \* bytes the source pointer has moved, iterations left
  file,          \* the vector registers and constants, by name
  pc, ret

vars == << port, src, n, si, cx, file, pc, ret >>

-----------------------------------------------------------------------------
(* The loop bodies, from the block in the first register on                *)

validBlocksSSE == <<
  << "MOVO", "X0", "X1" >>, << "PSRLW_4", "X1", "X1" >>, << "MOVOU", "c0F", "X2" >>,
  Onto("PAND", "X2", "X1"), << "MOVO", "X0", "X3" >>, << "MOVOU", "cF4", "X4" >>,
  Onto("PSUBUSB", "X4", "X3"), Onto("POR", "X3", "X15"), << "MOVOU", "contLen", "X2" >>,
  Onto("PSHUFB", "X1", "X2"), << "MOVO", "X2", "X3" >>, << "MOVO", "X12", "X4" >>,
  Onto("PALIGNR_15", "X4", "X3"), Onto("PSUBUSB", "c01", "X3"), Onto("PADDB", "X2", "X3"),
  << "MOVO", "X3", "X5" >>, << "MOVO", "X12", "X4" >>, Onto("PALIGNR_14", "X4", "X5"),
  Onto("PSUBUSB", "c02", "X5"), Onto("PADDB", "X5", "X3"), << "MOVO", "X3", "X5" >>,
  Onto("PCMPGTB", "X2", "X5"), << "MOVO", "X2", "X6" >>, << "MOVOU", "c00", "X7" >>,
  Onto("PCMPGTB", "X7", "X6"), Onto("PCMPEQB", "X6", "X5"), Onto("POR", "X5", "X15"),
  << "MOVO", "X0", "X8" >>, << "MOVO", "X13", "X9" >>, Onto("PALIGNR_15", "X9", "X8"),
  << "MOVO", "X8", "X9" >>, << "MOVOU", "cED", "X10" >>, Onto("PCMPEQB", "X10", "X9"),
  << "MOVO", "X0", "X10" >>, << "MOVOU", "c9F", "X11" >>, Onto("PCMPGTB", "X11", "X10"),
  Onto("PAND", "X10", "X9"), Onto("POR", "X9", "X15"), << "MOVO", "X8", "X9" >>,
  << "MOVOU", "cF4", "X10" >>, Onto("PCMPEQB", "X10", "X9"), << "MOVO", "X0", "X10" >>,
  << "MOVOU", "c8F", "X11" >>, Onto("PCMPGTB", "X11", "X10"), Onto("PAND", "X10", "X9"),
  Onto("POR", "X9", "X15"), << "MOVO", "X1", "X9" >>, << "MOVO", "X14", "X10" >>,
  Onto("PALIGNR_15", "X10", "X9"), << "MOVOU", "initMins", "X10" >>,
  Onto("PSHUFB", "X9", "X10"), Onto("PCMPGTB", "X8", "X10"), << "MOVOU", "secMins", "X11" >>,
  Onto("PSHUFB", "X9", "X11"), Onto("PCMPGTB", "X0", "X11"), Onto("PAND", "X11", "X10"),
  Onto("POR", "X10", "X15"), << "MOVO", "X0", "X13" >>, << "MOVO", "X1", "X14" >>,
  << "MOVO", "X3", "X12" >> >>

\* (Two instructions push the last bytes of the block before in.)
validBlocksAVX2 == <<
  << "VPSRLW_4", "Y0", "Y1" >>, << "VPAND", "c0F", "Y1", "Y1" >>,
  << "VPSUBUSB", "cF4", "Y0", "Y3" >>, << "VPOR", "Y3", "Y15", "Y15" >>,
  << "VMOVDQU", "contLen", "Y2" >>, << "VPSHUFB", "Y1", "Y2", "Y2" >>,
  << "VPERM2I128", "Y2", "Y12", "Y4" >>, << "VPALIGNR_15", "Y4", "Y2", "Y3" >>,
  << "VPSUBUSB", "c01", "Y3", "Y3" >>, << "VPADDB", "Y2", "Y3", "Y3" >>,
  << "VPERM2I128", "Y3", "Y12", "Y4" >>, << "VPALIGNR_14", "Y4", "Y3", "Y5" >>,
  << "VPSUBUSB", "c02", "Y5", "Y5" >>, << "VPADDB", "Y5", "Y3", "Y3" >>,
  << "VPCMPGTB", "Y2", "Y3", "Y5" >>, << "VPCMPGTB", "c00", "Y2", "Y6" >>,
  << "VPCMPEQB", "Y6", "Y5", "Y5" >>, << "VPOR", "Y5", "Y15", "Y15" >>,
  << "VPERM2I128", "Y0", "Y13", "Y8" >>, << "VPALIGNR_15", "Y8", "Y0", "Y8" >>,
  << "VPCMPEQB", "cED", "Y8", "Y9" >>, << "VPCMPGTB", "c9F", "Y0", "Y10" >>,
  << "VPAND", "Y10", "Y9", "Y9" >>, << "VPOR", "Y9", "Y15", "Y15" >>,
  << "VPCMPEQB", "cF4", "Y8", "Y9" >>, << "VPCMPGTB", "c8F", "Y0", "Y10" >>,
  << "VPAND", "Y10", "Y9", "Y9" >>, << "VPOR", "Y9", "Y15", "Y15" >>,
  << "VPERM2I128", "Y1", "Y14", "Y9" >>, << "VPALIGNR_15", "Y9", "Y1", "Y9" >>,
  << "VMOVDQU", "initMins", "Y10" >>, << "VPSHUFB", "Y9", "Y10", "Y10" >>,
  << "VPCMPGTB", "Y8", "Y10", "Y10" >>,
  << "VMOVDQU", "secMins", "Y11" >>, << "VPSHUFB", "Y9", "Y11", "Y11" >>,
  << "VPCMPGTB", "Y0", "Y11", "Y11" >>,
  << "VPAND", "Y11", "Y10", "Y10" >>, << "VPOR", "Y10", "Y15", "Y15" >>,
  << "VMOVDQA", "Y0", "Y13" >>, << "VMOVDQA", "Y1", "Y14" >>, << "VMOVDQA", "Y3", "Y12" >> >>

\* a > b.  (The variant has no register of its own for the result.)
emitSGTInPlace(a, b, dst) == << "VCMGT", b, a, b >>
emitSGT(a, b, dst) == << "VCMGT", b, a, dst >>

validBlocksNEON == <<
  << "VUSHR_4", "V0", "V1" >>, << "VUQSUB", "V24", "V0", "V3" >>, << "VORR", "V3", "V15", "V15" >>,
  << "VTBL", "V1", "V20", "V2" >>,
  << "VEXT_15", "V2", "V12", "V3" >>, << "VUQSUB", "V30", "V3", "V3" >>, << "VADD", "V2", "V3", "V3" >>,
  << "VEXT_14", "V3", "V12", "V5" >>, << "VUQSUB", "V31", "V5", "V5" >>, << "VADD", "V5", "V3", "V3" >>,
  emitSGT("V3", "V2", "V5"), << "VMOVI_0", "V7" >>, emitSGT("V2", "V7", "V6"),
  << "VCMEQ", "V6", "V5", "V5" >>, << "VORR", "V5", "V15", "V15" >>,
  << "VEXT_15", "V0", "V13", "V8" >>,
  << "VCMEQ", "V25", "V8", "V9" >>, emitSGT("V0", "V26", "V10"),
  << "VAND", "V10", "V9", "V9" >>, << "VORR", "V9", "V15", "V15" >>,
  << "VCMEQ", "V24", "V8", "V9" >>, emitSGT("V0", "V27", "V10"),
  << "VAND", "V10", "V9", "V9" >>, << "VORR", "V9", "V15", "V15" >>,
  << "VEXT_15", "V1", "V14", "V9" >>,
  << "VTBL", "V9", "V21", "V10" >>, emitSGT("V10", "V8", "V10"),
  << "VTBL", "V9", "V22", "V11" >>, emitSGT("V11", "V0", "V11"),
  << "VAND", "V11", "V10", "V10" >>, << "VORR", "V10", "V15", "V15" >>,
  << "VORR", "V0", "V0", "V13" >>, << "VORR", "V1", "V1", "V14" >>, << "VORR", "V3", "V3", "V12" >> >>

validBlocksVSX == <<
  << "VSRB", "V0", "V27", "V1" >>, << "VSUBUBS", "V0", "V30", "V3" >>, << "VOR", "V3", "V20", "V20" >>,
  << "VPERM", "V24", "V24", "V1", "V2" >>,
  << "VSLDOI_15", "V23", "V2", "V3" >>, << "VSUBUBS", "V3", "V28", "V3" >>, << "VADDUBM", "V2", "V3", "V3" >>,
  << "VSLDOI_14", "V23", "V3", "V5" >>, << "VSUBUBS", "V5", "V29", "V5" >>, << "VADDUBM", "V5", "V3", "V3" >>,
  << "VCMPGTSB", "V3", "V2", "V5" >>, << "VCMPGTSB", "V2", "V31", "V6" >>,
  << "VCMPEQUB", "V6", "V5", "V5" >>, << "VOR", "V5", "V20", "V20" >>,
  << "VSLDOI_15", "V21", "V0", "V8" >>,
  << "LXVB16X", "cED", "V9" >>, << "VCMPEQUB", "V9", "V8", "V9" >>,
  << "LXVB16X", "c9F", "V10" >>, << "VCMPGTSB", "V0", "V10", "V10" >>,
  << "VAND", "V10", "V9", "V9" >>, << "VOR", "V9", "V20", "V20" >>,
  << "LXVB16X", "cF4", "V9" >>, << "VCMPEQUB", "V9", "V8", "V9" >>,
  << "LXVB16X", "c8F", "V10" >>, << "VCMPGTSB", "V0", "V10", "V10" >>,
  << "VAND", "V10", "V9", "V9" >>, << "VOR", "V9", "V20", "V20" >>,
  << "VSLDOI_15", "V22", "V1", "V9" >>,
  << "VPERM", "V25", "V25", "V9", "V10" >>, << "VCMPGTSB", "V10", "V8", "V10" >>,
  << "VPERM", "V26", "V26", "V9", "V11" >>, << "VCMPGTSB", "V11", "V0", "V11" >>,
  << "VAND", "V11", "V10", "V10" >>, << "VOR", "V10", "V20", "V20" >>,
  << "VOR", "V0", "V0", "V21" >>, << "VOR", "V1", "V1", "V22" >>, << "VOR", "V3", "V3", "V23" >> >>

validBlocksVX == <<
  << "VESRLB_4", "V0", "V1" >>,
  << "VMNLB", "V0", "V27", "V3" >>, << "VSB", "V3", "V0", "V3" >>, << "VO", "V3", "V20", "V20" >>,
  << "VPERM", "V24", "V24", "V1", "V2" >>,
  << "VSLDB_15", "V23", "V2", "V3" >>, << "VMNLB", "V3", "V28", "V4" >>,
  << "VSB", "V4", "V3", "V3" >>, << "VAB", "V2", "V3", "V3" >>,
  << "VSLDB_14", "V23", "V3", "V5" >>, << "VMNLB", "V5", "V29", "V4" >>,
  << "VSB", "V4", "V5", "V5" >>, << "VAB", "V5", "V3", "V3" >>,
  << "VCHB", "V3", "V2", "V5" >>, << "VCHB", "V2", "V30", "V6" >>,
  << "VCEQB", "V6", "V5", "V5" >>, << "VO", "V5", "V20", "V20" >>,
  << "VSLDB_15", "V21", "V0", "V8" >>,
  << "VL", "cED", "V9" >>, << "VCEQB", "V9", "V8", "V9" >>,
  << "VL", "c9F", "V10" >>, << "VCHB", "V0", "V10", "V10" >>,
  << "VN", "V10", "V9", "V9" >>, << "VO", "V9", "V20", "V20" >>,
  << "VL", "cF4", "V9" >>, << "VCEQB", "V9", "V8", "V9" >>,
  << "VL", "c8F", "V10" >>, << "VCHB", "V0", "V10", "V10" >>,
  << "VN", "V10", "V9", "V9" >>, << "VO", "V9", "V20", "V20" >>,
  << "VSLDB_15", "V22", "V1", "V9" >>,
  << "VPERM", "V25", "V25", "V9", "V10" >>, << "VCHB", "V10", "V8", "V10" >>,
  << "VPERM", "V26", "V26", "V9", "V11" >>, << "VCHB", "V11", "V0", "V11" >>,
  << "VN", "V11", "V10", "V10" >>, << "VO", "V10", "V20", "V20" >>,
  << "VLR", "V0", "V21" >>, << "VLR", "V1", "V22" >>, << "VLR", "V3", "V23" >> >>

LoopBody(kernel) == CASE kernel = "SSE"  -> validBlocksSSE
                      [] kernel = "AVX2" -> validBlocksAVX2
                      [] kernel = "NEON" -> validBlocksNEON
                      [] kernel = "VSX"  -> validBlocksVSX
                      [] kernel = "VX"   -> validBlocksVX
-----------------------------------------------------------------------------
(* The call                                                                *)

\* Where a kernel keeps the block and what it carries from block to block.
Home(kernel) ==
  CASE kernel = "SSE"  -> [block |-> "X0", err |-> "X15", raw |-> "X13", high |-> "X14", carry |-> "X12"]
    [] kernel = "AVX2" -> [block |-> "Y0", err |-> "Y15", raw |-> "Y13", high |-> "Y14", carry |-> "Y12"]
    [] kernel = "NEON" -> [block |-> "V0", err |-> "V15", raw |-> "V13", high |-> "V14", carry |-> "V12"]
    [] OTHER           -> [block |-> "V0", err |-> "V20", raw |-> "V21", high |-> "V22", carry |-> "V23"]
Held(part) == file[Home(port)[part]]

\* Constants in memory, and those the prologue has put into registers.  (NEON
\* also loads V23, which nothing reads.)
Every(b) == [i \in Lane(W) |-> b]
Entries(table) == [i \in Lane(W) |-> table[i + 1]]
Memory == [c0F |-> Every(15), c01 |-> Every(1), c02 |-> Every(2), cF4 |-> Every(244),
           cED |-> Every(237), c9F |-> Every(159), c8F |-> Every(143), c00 |-> Zero(W)]
Loaded(kernel) ==
  LET lens  == Entries(Code(kernel).lens)
      inits == Entries(Code(kernel).inits)
      secs  == Entries(Code(kernel).secs)
  IN  CASE kernel \in {"SSE", "AVX2"} -> [contLen |-> lens, initMins |-> inits, secMins |-> secs]
        [] kernel = "NEON" -> [V20 |-> lens, V21 |-> inits, V22 |-> secs, V24 |-> Every(244),
                               V25 |-> Every(237), V26 |-> Every(159), V27 |-> Every(143),
                               V30 |-> Every(1), V31 |-> Every(2)]
        [] kernel = "VSX"  -> [V24 |-> lens, V25 |-> inits, V26 |-> secs, V27 |-> Every(4),
                               V28 |-> Every(1), V29 |-> Every(2), V30 |-> Every(244), V31 |-> Zero(W)]
        [] kernel = "VX"   -> [V24 |-> lens, V25 |-> inits, V26 |-> secs, V27 |-> Every(244),
                               V28 |-> Every(1), V29 |-> Every(2), V30 |-> Zero(W)]
Scratch(kernel) ==
  CASE kernel = "SSE"  -> {"X0", "X1", "X2", "X3", "X4", "X5", "X6", "X7", "X8", "X9", "X10", "X11"}
    [] kernel = "AVX2" -> {"Y0", "Y1", "Y2", "Y3", "Y4", "Y5", "Y6", "Y8", "Y9", "Y10", "Y11"}
    [] OTHER           -> {"V0", "V1", "V2", "V3", "V4", "V5", "V6", "V7", "V8", "V9", "V10", "V11"}
ASSUME LeftAssumption == \A kernel \in Targets : Left(kernel) \subseteq [Scratch(kernel) -> Vec(W)]

\* f, and g where f says nothing.
Over(f, g) == [r \in DOMAIN f \cup DOMAIN g |-> IF r \in DOMAIN f THEN f[r] ELSE g[r]]
Constants(kernel) == Over(Memory, Loaded(kernel))
Cleared(kernel) == [r \in {Home(kernel)[part] : part \in {"err", "raw", "high", "carry"}} |-> Zero(W)]

\* The prologue loads the constants and clears four registers; the others
\* hold whatever the caller left in them.
Init ==
  /\ port \in Targets
  /\ src \in Sources
  /\ n \in 1..Len(src) /\ n * W <= Len(src)
  /\ si = 0 /\ cx = n
  /\ \E left \in Left(port) : file = Over(Constants(port), Over(Cleared(port), left))
  /\ pc = "loop"
  /\ ret = 0

StrideHalf == W \div 2                  \* (16 bytes in every port)
Stride == W
\* MOVOU, VMOVDQU, VLD1, LXVB16X, VL: the byte at the lowest address goes to
\* lane 0.  (LXVD2X swaps the doublewords on a little-endian machine.)
LoadBlockSwapped(k) ==
  LET natural == [i \in Lane(W) |-> At(src, k + i)]
  IN  IF port = "VSX" THEN Swapped(natural) ELSE natural
LoadBlock(k) == Load(W, src, k)

Iterate ==
  /\ pc = "loop"
  /\ file' = Run([file EXCEPT ![Home(port).block] = LoadBlock(si)], LoopBody(port))
  /\ si' = si + Stride
  /\ cx' = cx - 1
  /\ pc' = IF cx' # 0 THEN "loop" ELSE "exit"
  /\ UNCHANGED << port, src, n, ret >>

\* Is the error register clear?  PTEST looks at all of it.  The other ports
\* extract two doublewords and OR them; VSX can only extract the first one
\* and rotates the register to get at the other.
First(v) == {i \in 0..(Half(W) - 1) : v[i] # 0}
ClearFirst(v) == First(v) = {}          \* (VPTEST X15, X15)
Clear(v) ==
  CASE port \in {"SSE", "AVX2"} -> \A i \in Lane(W) : v[i] = 0
    [] port = "VSX"             -> First(v) \cup First(Swapped(v)) = {}
    [] port \in {"NEON", "VX"}  -> First(v) \cup {i \in Half(W)..(W - 1) : v[i] # 0} = {}

Return ==
  /\ pc = "exit"
  /\ ret' = IF Clear(Held("err")) THEN 1 ELSE 0
  /\ pc' = "done"
  /\ UNCHANGED << port, src, n, si, cx, file >>

Next == Iterate \/ Return
Spec == Init /\ [][Next]_vars          \* (termination: see ValidBlocks)

-----------------------------------------------------------------------------
(* Properties                                                              *)

Names(kernel) == DOMAIN Constants(kernel) \cup DOMAIN Cleared(kernel) \cup Scratch(kernel)

\* The state keeps its shape: every instruction writes bytes, into a register
\* of its port, and the pointer moves with the counter.
TypeOK ==
  /\ port \in Targets /\ src \in Seq(Byte) /\ n \in 1..Len(src)
  /\ cx \in 0..n /\ si = (n - cx) * W
  /\ file \in [Names(port) -> Vec(W)]
  /\ pc \in {"loop", "exit", "done"} /\ ret \in {0, 1}

\* The prologue of NEON, VSX and VX loads the constants once
\* (utf8_arm64_gen.go:90-100 and its likes).  No instruction of the body may use
\* one of their registers for a result: the first block would be judged rightly
\* and the later ones not.  (SSE and AVX2 have their constants in memory, where
\* no instruction writes; of them this says nothing.)
ConstantsKept == \A r \in DOMAIN Constants(port) : file[r] = Constants(port)[r]

\* With the instructions as they are emitted, registers of the real size and
\* the epilogue of each port, a call returns 1 exactly when its blocks have no
\* structural error (the declarations, utf8_amd64.go:11-19).
ResultExact == pc = "done" => (ret = 1 <=> StructOK(src, n * W))

Loop == INSTANCE ValidBlocks WITH Sources <- Seq(Byte),
          prev <- [raw |-> Held("raw"), high |-> Held("high"), carry |-> Held("carry")],
          err <- {i \in Lane(W) : Held("err")[i] # 0}

\* The instruction sequences compute, in every lane, what ValidBlocks says
\* they compute: each operand in its place, no result in a register whose value
\* is still needed (SSE overwrites one operand of each instruction and copies
\* what it must keep), and nothing read that was not written before ("the gate
\* that [...] every operand order [is] correct", utf8_ppc64le_gen.go:35-38, is a
\* fuzz test that runs on one machine at a time).
ImplementsLoop == Loop!Init /\ [][Loop!Next]_(Loop!vars)
=============================================================================
