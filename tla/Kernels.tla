------------------------------ MODULE Kernels -------------------------------
(***************************************************************************)
(* The vector code of the five validator kernels, one block at a time:     *)
(* utf8_amd64.s (validBlocksSSE, validBlocksAVX2), utf8_arm64.s,           *)
(* utf8_ppc64le.s and utf8_s390x.s.                                        *)
(*                                                                         *)
(* The five loops are the same Lemire-Keiser computation; they differ in   *)
(* how the instruction set shifts a nibble down, moves lanes across the    *)
(* block boundary and subtracts with saturation, and each has its own copy *)
(* of the three lookup tables.  ValidateBlock is the computation; what a   *)
(* port has of its own is in its record.                                   *)
(*                                                                         *)
(* w is the number of byte lanes of a register: 16 in four of the ports    *)
(* and 32 in AVX2.  The tables are indexed by a nibble, so they have 16    *)
(* entries (or two copies of them in a 32-lane register) whatever w is.    *)
(***************************************************************************)
EXTENDS Utf8

Widths == {w \in Nat : w >= 4 /\ w % 2 = 0}

Lane(w) == 0..(w - 1)
Half(w) == w \div 2
Vec(w)  == [Lane(w) -> Byte]
Zero(w) == [i \in Lane(w) |-> 0]

-----------------------------------------------------------------------------
(* Instructions                                                            *)

Signed(b)  == IF b < 128 THEN b ELSE b - 256
GtS(a, b)  == Signed(a) > Signed(b)      \* PCMPGTB, VCMGT, VCMPGTSB, VCHB
AddB(w, u, v) == [i \in Lane(w) |-> (u[i] + v[i]) % 256]
Least(a, b) == IF a < b THEN a ELSE b

\* PSUBUSB, VUQSUB, VSUBUBS: unsigned, saturating at zero.
SubWrap(w, u, c) == [i \in Lane(w) |-> (u[i] - c) % 256]          \* (PSUBB)
SubSat(w, u, c) == [i \in Lane(w) |-> IF u[i] > c THEN u[i] - c ELSE 0]
\* VX has no saturating subtraction: u - min(u, c) with VMNLB and VSB.
SubMin(w, u, c) == [i \in Lane(w) |-> (u[i] - Least(u[i], c)) % 256]

\* The last k lanes of prev, then the first w - k of cur: PALIGNR, VEXT,
\* VSLDOI and VSLDB with the immediate 16 - k.
ShiftInZero(w, k, prev, cur) ==                                \* (PSLLDQ)
  [i \in Lane(w) |-> IF i < k THEN 0 ELSE cur[i - k]]
ShiftIn(w, k, prev, cur) ==
  [i \in Lane(w) |-> IF i < k THEN prev[w - k + i] ELSE cur[i - k]]
\* AVX2 aligns each 128-bit half by itself.  VPERM2I128 $0x21 puts the high
\* half of prev below the low half of cur, and VPALIGNR takes for each half
\* of cur the lanes before it from the same half of that.
ShiftInHalves(w, k, prev, cur) ==
  LET seam == [i \in Lane(w) |-> IF i < Half(w) THEN prev[Half(w) + i] ELSE cur[i - Half(w)]]
      base(i) == IF i < Half(w) THEN 0 ELSE Half(w)
  IN  [i \in Lane(w) |-> IF i - base(i) < k THEN seam[Half(w) - k + i] ELSE cur[i - k]]

\* NEON, VSX and VX shift each byte.  PSRLW shifts 16-bit words, so the low
\* nibble of an odd byte arrives above the high nibble of the even byte
\* before it and PAND with 0x0F clears it.
HighByByte(w, raw) == [i \in Lane(w) |-> raw[i] \div 16]
HighByWord(w, raw) ==
  [i \in Lane(w) |-> (raw[i] \div 16 + IF i % 2 = 0 THEN (raw[i + 1] % 16) * 16 ELSE 0) % 16]

Lookup(w, table, idx) == [i \in Lane(w) |-> table[idx[i] + 1]]
\* VPSHUFB looks a lane up in the half of the table register it lies in.
LookupHalves(w, table, idx) ==
  [i \in Lane(w) |-> table[(IF i < Half(w) THEN 0 ELSE 16) + idx[i] + 1]]

-----------------------------------------------------------------------------
(* Tables, indexed by the high nibble of a byte                            *)

\* ASCII nibbles 0..7, continuation nibbles 8..B, then C, D, E and F.
Table(ascii, cont, c, d, e, f) ==
  << ascii, ascii, ascii, ascii, ascii, ascii, ascii, ascii,
     cont, cont, cont, cont, c, d, e, f >>
Twice(table) == [i \in 1..32 |-> table[IF i <= 16 THEN i ELSE i - 16]]

\* contLen: the number of bytes a lead announces.  A lead below initMins
\* followed by a byte below secMins, compared as signed bytes, is an overlong
\* form: C0, C1, E0, F0.  128 is the least signed byte: nothing is below it.
contLen    == Table(1, 0, 2, 2, 3, 4)
initMins   == Table(128, 128, 194, 128, 225, 241)
secMins    == Table(128, 128, 127, 127, 160, 144)
contLenB   == Twice(Table(1, 0, 2, 2, 3, 4))
initMinsB  == Twice(Table(128, 128, 194, 128, 225, 241))
secMinsB   == Twice(Table(128, 128, 127, 127, 160, 144))
contLenN   == Table(1, 0, 2, 2, 3, 4)              \* utf8_arm64.s
initMinsN  == Table(128, 128, 194, 128, 225, 241)
secMinsN   == Table(128, 128, 127, 127, 160, 144)
contLen_p  == Table(1, 0, 2, 2, 3, 4)
initMins_p == Table(128, 128, 194, 128, 225, 241)
secMins_p  == Table(128, 128, 127, 127, 160, 144)
contLen_z  == Table(1, 0, 2, 2, 3, 4)
initMins_z == Table(128, 128, 194, 128, 225, 241)
secMins_z  == Table(128, 128, 127, 127, 160, 144)

-----------------------------------------------------------------------------
(* The ports                                                               *)

SSE  == [words |-> TRUE, halves |-> FALSE, saturates |-> TRUE,
         lens |-> contLen, inits |-> initMins, secs |-> secMins]
AVX2 == [words |-> TRUE, halves |-> TRUE, saturates |-> TRUE,
         lens |-> contLenB, inits |-> initMinsB, secs |-> secMinsB]
NEON == [words |-> FALSE, halves |-> FALSE, saturates |-> TRUE,
         lens |-> contLenN, inits |-> initMinsN, secs |-> secMinsN]
VSX  == [words |-> FALSE, halves |-> FALSE, saturates |-> TRUE,
         lens |-> contLen_p, inits |-> initMins_p, secs |-> secMins_p]
VX   == [words |-> FALSE, halves |-> FALSE, saturates |-> FALSE,
         lens |-> contLen_z, inits |-> initMins_z, secs |-> secMins_z]

Validators == {"SSE", "AVX2", "NEON", "VSX", "VX"}
Code(port) == CASE port = "SSE"  -> SSE
                [] port = "AVX2" -> AVX2
                [] port = "NEON" -> NEON
                [] port = "VSX"  -> VSX
                [] port = "VX"   -> VX

High(w, isa, raw) == IF isa.words THEN HighByWord(w, raw) ELSE HighByByte(w, raw)
Look(w, isa, table, idx) ==
  IF isa.halves THEN LookupHalves(w, table, idx) ELSE Lookup(w, table, idx)
Shift(w, isa, k, prev, cur) ==
  IF isa.halves THEN ShiftInHalves(w, k, prev, cur) ELSE ShiftIn(w, k, prev, cur)
Sub(w, isa, u, c) == IF isa.saturates THEN SubSat(w, u, c) ELSE SubMin(w, u, c)

-----------------------------------------------------------------------------
(* One iteration of the validator loop                                     *)

\* raw is the block loaded and prev what the last iteration left in the
\* registers prevRaw, prevHigh and prevCarries.  The error register only
\* gathers bits, so it is the set of lanes that have one (bad).
ValidateBlock(w, isa, raw, prev) ==
  LET high   == High(w, isa, raw)
      len    == Look(w, isa, isa.lens, high)
      sum    == AddB(w, len, Sub(w, isa, Shift(w, isa, 1, prev.carry, len), 1))
      carry  == AddB(w, sum, Sub(w, isa, Shift(w, isa, 2, prev.carry, sum), 2))
      off1   == Shift(w, isa, 1, prev.raw, raw)
      off1hi == Shift(w, isa, 1, prev.high, high)
      init   == Look(w, isa, isa.inits, off1hi)
      sec    == Look(w, isa, isa.secs, off1hi)
      excess == Sub(w, isa, raw, 244)
      bad    == {i \in Lane(w) :
                   \/ excess[i] # 0
                   \/ GtS(carry[i], len[i]) <=> GtS(len[i], 0)
                   \/ off1[i] = 237 /\ GtS(raw[i], 159)
                   \/ off1[i] = 244 /\ GtS(raw[i], 143)
                   \/ GtS(init[i], off1[i]) /\ GtS(sec[i], raw[i])}
  IN  [regs |-> [raw |-> raw, high |-> high, carry |-> carry], bad |-> bad]

Block(w, port, raw, prev) == ValidateBlock(w, Code(port), raw, prev)

Load(w, s, k) == [i \in Lane(w) |-> At(s, k + i)]     \* a full block from s[k]

-----------------------------------------------------------------------------
(* What the registers say of the bytes before the next block               *)

Regs(w) == [raw : Vec(w), high : [Lane(w) -> 0..15], carry : Vec(w)]

\* A sequence that begins before byte e announces a byte at e + k.
Owed(s, e, k) ==
  \E d \in 1..(3 - k) : d <= e /\ SeqLen(At(s, e - d)) > d + k

\* The last lanes of prevRaw and prevHigh are the byte before e.
Mirrors(w, s, e, r) ==
  /\ r.raw[w - 1] = IF e = 0 THEN 0 ELSE At(s, e - 1)
  /\ r.high[w - 1] = r.raw[w - 1] \div 16

\* The last two carries say how many of the next three bytes are owed.  They
\* are all the next block knows of the sequences it continues.
CarryOwes(w, s, e, c) ==
  /\ c[w - 1] <= 4 /\ c[w - 2] <= 4
  /\ (c[w - 1] > 1 \/ c[w - 2] > 2) <=> Owed(s, e, 0)
  /\ c[w - 1] > 2 <=> Owed(s, e, 1)
  /\ c[w - 1] > 3 <=> Owed(s, e, 2)
=============================================================================
