---------------------------- MODULE Instructions ----------------------------
(***************************************************************************)
(* The instructions the validator loops are made of, on registers of W     *)
(* bytes.  The five assemblers name their operands in different orders, so *)
(* the meaning of an instruction is given in terms of its source operands  *)
(* as they are written: x[1] first.  The instruction sets are not part of  *)
(* the repository; the generators say what they use each mnemonic for.     *)
(*                                                                         *)
(* An instruction is << mnemonic, sources..., destination >>.  An          *)
(* immediate is part of the mnemonic (PALIGNR_15 is PALIGNR $15;           *)
(* VPERM2I128 has one immediate only, $0x21).  A constant in memory is an  *)
(* operand by its name; the general register that POWER and z load its     *)
(* address into is left out.                                               *)
(***************************************************************************)
EXTENDS Kernels

CONSTANT W     \* bytes of a register

\* Bitwise on bytes, a nibble at a time.
Bit(k, b) == (b \div 2 ^ k) % 2
AndNibble == [a \in 0..15 |-> [b \in 0..15 |->
  Bit(0, a) * Bit(0, b) + 2 * (Bit(1, a) * Bit(1, b)) +
  4 * (Bit(2, a) * Bit(2, b)) + 8 * (Bit(3, a) * Bit(3, b))]]
And(a, b) == 16 * AndNibble[a \div 16][b \div 16] + AndNibble[a % 16][b % 16]

\* The operations on lanes.  A comparison gives 255 where it holds.
AndB(u, v)    == [i \in Lane(W) |-> And(u[i], v[i])]
OrB(u, v)     == [i \in Lane(W) |-> u[i] + v[i] - And(u[i], v[i])]
SubSatB(u, v) == [i \in Lane(W) |-> IF u[i] > v[i] THEN u[i] - v[i] ELSE 0]
SubB(u, v)    == [i \in Lane(W) |-> (u[i] - v[i]) % 256]
MinB(u, v)    == [i \in Lane(W) |-> Least(u[i], v[i])]
EqB(u, v)     == [i \in Lane(W) |-> IF u[i] = v[i] THEN 255 ELSE 0]
GtB(u, v)     == [i \in Lane(W) |-> IF GtS(u[i], v[i]) THEN 255 ELSE 0]
SrlB(u, v)    == [i \in Lane(W) |-> u[i] \div 2 ^ (v[i] % 8)]
Srl4W(u)      ==                                          \* of 16-bit words
  [i \in Lane(W) |-> u[i] \div 16 + IF i % 2 = 0 THEN (u[i + 1] % 16) * 16 ELSE 0]

\* Both halves of a register shifted by themselves (VPALIGNR): for each half
\* the last k bytes of the one in t, then those of the one in b.
AlignHalves(k, t, b) ==
  [i \in Lane(W) |-> IF i % Half(W) < k THEN t[i - k + Half(W)] ELSE b[i - k]]
\* (VPERM2I128 $0x31: [a.hi | b.hi].)
HighThenHigh(a, b) == [i \in Lane(W) |-> IF i < Half(W) THEN a[i + Half(W)] ELSE b[i]]
\* [a.hi | b.lo], the low half written first (VPERM2I128 $0x21).
HighThenLow(a, b) == [i \in Lane(W) |-> IF i < Half(W) THEN a[i + Half(W)] ELSE b[i - Half(W)]]
Swapped(v) == [i \in Lane(W) |-> v[(i + Half(W)) % W]]     \* its doublewords (VSLDOI $8)
Pick(table, idx) == [i \in Lane(W) |-> IF idx[i] < 16 THEN table[idx[i]] ELSE 0]
\* VPSHUFB looks a lane up in its own half of the table register.
PickHalves(table, idx) ==
  [i \in Lane(W) |-> IF idx[i] < 16 THEN table[(i \div Half(W)) * Half(W) + idx[i]] ELSE 0]

Meaning(mnemonic, x) ==
  CASE mnemonic \in {"PAND", "VPAND", "VAND", "VN"}  -> AndB(x[1], x[2])
    [] mnemonic \in {"POR", "VPOR", "VORR", "VOR", "VO"} -> OrB(x[1], x[2])
    [] mnemonic \in {"PADDB", "VPADDB", "VADD", "VADDUBM", "VAB"} -> AddB(W, x[1], x[2])
    [] mnemonic \in {"PSUBUSB", "VPSUBUSB", "VUQSUB"} -> SubSatB(x[2], x[1])
    [] mnemonic = "VSUBUBS" -> SubSatB(x[1], x[2])
    [] mnemonic = "VSB"     -> SubB(x[2], x[1])
    [] mnemonic = "VMNLB"   -> MinB(x[1], x[2])
    [] mnemonic \in {"PCMPEQB", "VPCMPEQB", "VCMEQ", "VCMPEQUB", "VCEQB"} -> EqB(x[1], x[2])
    [] mnemonic \in {"PCMPGTB", "VPCMPGTB", "VCMGT"} -> GtB(x[2], x[1])
    [] mnemonic \in {"VCMPGTSB", "VCHB"} -> GtB(x[1], x[2])
    [] mnemonic \in {"PSRLW_4", "VPSRLW_4"} -> Srl4W(x[1])
    [] mnemonic \in {"VUSHR_4", "VESRLB_4"} -> HighByByte(W, x[1])
    [] mnemonic = "VSRB"    -> SrlB(x[1], x[2])
    [] mnemonic \in {"PSHUFB", "VTBL"} -> Pick(x[2], x[1])
    [] mnemonic = "VPSHUFB" -> PickHalves(x[2], x[1])
    [] mnemonic = "VPERM"   -> Pick(x[1], x[3])     \* x[2] is the same table
    [] mnemonic \in {"PALIGNR_15", "VSLDOI_15", "VSLDB_15"} -> ShiftIn(W, 1, x[1], x[2])
    [] mnemonic \in {"PALIGNR_14", "VSLDOI_14", "VSLDB_14"} -> ShiftIn(W, 2, x[1], x[2])
    [] mnemonic = "VEXT_15" -> ShiftIn(W, 1, x[2], x[1])
    [] mnemonic = "VEXT_14" -> ShiftIn(W, 2, x[2], x[1])
    [] mnemonic = "VPERM2I128" -> HighThenLow(x[2], x[1])
    [] mnemonic = "VPALIGNR_15" -> AlignHalves(1, x[1], x[2])
    [] mnemonic = "VPALIGNR_14" -> AlignHalves(2, x[1], x[2])
    [] mnemonic \in {"MOVO", "MOVOU", "VMOVDQA", "VMOVDQU", "VLR", "LXVB16X", "VL"} -> x[1]
    [] mnemonic = "VMOVI_0" -> Zero(W)

\* The form with two operands (SSE): the second is a source too, and is
\* overwritten.
Onto(mnemonic, x, y) == << mnemonic, x, y, y >>

\* Executing one instruction, and a sequence of them, on a register file.
\* (Asking whether the result is a register makes TLC evaluate it once.)
Execute(file, ins) ==
  LET last   == Len(ins)
      result == Meaning(ins[1], [k \in 1..(last - 2) |-> file[ins[k + 1]]])
  IN  [file EXCEPT ![ins[last]] = CHOOSE v \in {result} : v \in Vec(W)]
Run(file, code) ==
  LET after[k \in 0..Len(code)] ==        \* the first k instructions
        IF k = 0 THEN file ELSE Execute(after[k - 1], code[k])
  IN  after[Len(code)]
=============================================================================
