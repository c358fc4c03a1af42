-------------------------- MODULE ValidLoopsProofs --------------------------
(***************************************************************************)
(* The five instruction sequences of the validators compute the block      *)
(* function of Kernels, never write a constant, and so a call decides      *)
(* whether its blocks have a structural error.                             *)
(*                                                                         *)
(* 1. An instruction puts a value into one register and leaves the others  *)
(*    (Puts, and a lemma Do... per operation); a sequence leaves what its  *)
(*    last instruction leaves (Runs).                                      *)
(* 2. All five bodies go through the same vectors (Vectors), though in     *)
(*    other registers and by other instructions; Ways lists what the       *)
(*    instructions make of them, VectorWays proves it.                     *)
(* 3. The body of each kernel is followed instruction by instruction       *)
(*    (BodySSE, ..., BodyVX): which vector is in which register, and that  *)
(*    the constants are where they were.                                   *)
(* 4. So an iteration is Block (IterateBlock), the registers describe the  *)
(*    bytes consumed (IInv, by JudgedFurther), and every step is one of    *)
(*    ValidBlocks.                                                         *)
(***************************************************************************)
EXTENDS ValidLoops, Lemmas

-----------------------------------------------------------------------------
(* Bytes, a bit at a time                                                  *)

\* The bits of a nibble.
LEMMA Bits ==
  ASSUME NEW a \in 0..15
  PROVE  /\ Bit(0, a) \in {0, 1} /\ Bit(1, a) \in {0, 1}
         /\ Bit(2, a) \in {0, 1} /\ Bit(3, a) \in {0, 1}
         /\ a = Bit(0, a) + 2 * Bit(1, a) + 4 * Bit(2, a) + 8 * Bit(3, a)
BY DEF Bit

\* The bitwise AND of nibbles.
LEMMA AndOfNibbles ==
  ASSUME NEW a \in 0..15, NEW b \in 0..15
  PROVE  /\ AndNibble[a][b] \in 0..15
         /\ AndNibble[a][b] <= a /\ AndNibble[a][b] <= b
         /\ a + b - AndNibble[a][b] <= 15
<1>1. \A x, y \in {0, 1} : /\ x * y \in {0, 1}
                           /\ x * y <= x /\ x * y <= y /\ x + y - x * y <= 1
  OBVIOUS
<1>2. AndNibble[a][b] = Bit(0, a) * Bit(0, b) + 2 * (Bit(1, a) * Bit(1, b)) +
                        4 * (Bit(2, a) * Bit(2, b)) + 8 * (Bit(3, a) * Bit(3, b))
  BY DEF AndNibble
<1> DEFINE and(k) == Bit(k, a) * Bit(k, b)
           All(k) == /\ and(k) \in {0, 1} /\ and(k) <= Bit(k, a) /\ and(k) <= Bit(k, b)
                     /\ Bit(k, a) + Bit(k, b) - and(k) <= 1
<1>3. All(0) /\ All(1) /\ All(2) /\ All(3)
  BY <1>1, Bits
<1>4. AndNibble[a][b] = and(0) + 2 * and(1) + 4 * and(2) + 8 * and(3)
  BY <1>2
<1> QED
  <2> HIDE DEF and
  <2> QED
    BY <1>3, <1>4, Bits

\* The AND of a nibble with itself, with all ones, and with none.
LEMMA AndSpecial ==
  ASSUME NEW a \in 0..15
  PROVE  AndNibble[a][a] = a /\ AndNibble[15][a] = a /\ AndNibble[0][a] = 0
<1>1. \A x \in {0, 1} : x * x = x
  OBVIOUS
<1>2. AndNibble[a][a] = a
  <2>1. AndNibble[a][a] = Bit(0, a) * Bit(0, a) + 2 * (Bit(1, a) * Bit(1, a)) +
                          4 * (Bit(2, a) * Bit(2, a)) + 8 * (Bit(3, a) * Bit(3, a))
    BY DEF AndNibble
  <2> QED
    BY <1>1, <2>1, Bits
<1>3. AndNibble[15][a] = a
  BY DEF AndNibble, Bit
<1>4. AndNibble[0][a] = 0
  BY DEF AndNibble, Bit
<1> QED
  BY <1>2, <1>3, <1>4

\* The two nibbles of a byte.
LEMMA Nibbles ==
  ASSUME NEW a \in Byte
  PROVE  a \div 16 \in 0..15 /\ a % 16 \in 0..15 /\ a = 16 * (a \div 16) + (a % 16)
BY DEF Byte

\* The bitwise AND and OR of bytes are bytes, and the OR is zero only if both
\* bytes are.
LEMMA AndOrBytes ==
  ASSUME NEW a \in Byte, NEW b \in Byte
  PROVE  /\ And(a, b) \in Byte /\ a + b - And(a, b) \in Byte
         /\ a + b - And(a, b) = 0 <=> (a = 0 /\ b = 0)
<1> DEFINE x == a \div 16  y == a % 16  u == b \div 16  v == b % 16
           p == AndNibble[x][u]  q == AndNibble[y][v]
<1>1. /\ x \in 0..15 /\ y \in 0..15 /\ a = 16 * x + y
      /\ u \in 0..15 /\ v \in 0..15 /\ b = 16 * u + v
  BY Nibbles, SMTT(30)
<1>2. /\ p \in 0..15 /\ p <= x /\ p <= u /\ x + u - p <= 15
      /\ q \in 0..15 /\ q <= y /\ q <= v /\ y + v - q <= 15
  BY <1>1, AndOfNibbles
<1>3. And(a, b) = 16 * p + q
  BY DEF And
<1> HIDE DEF x, y, u, v, p, q
<1>4. And(a, b) \in 0..255
  BY <1>2, <1>3
<1>5. a + b - And(a, b) = 16 * (x + u - p) + (y + v - q)
  BY <1>1, <1>2, <1>3
<1>6. x + u - p \in 0..15 /\ y + v - q \in 0..15
  BY <1>1, <1>2
<1>7. a + b - And(a, b) \in 0..255
  BY <1>5, <1>6
<1>8. a + b - And(a, b) = 0 <=> (x + u - p = 0 /\ y + v - q = 0)
  BY <1>5, <1>6
<1>9. a + b - And(a, b) = 0 <=> (a = 0 /\ b = 0)
  BY <1>1, <1>2, <1>8
<1> QED
  BY <1>4, <1>7, <1>9 DEF Byte

\* ANDs that the kernels rely on: of a byte with itself, with the mask 0x0F, with
\* zero, and of two masks.
LEMMA AndBytes ==
  ASSUME NEW a \in Byte
  PROVE  And(a, a) = a /\ And(15, a) = a % 16 /\ And(0, a) = 0 /\ And(255, 255) = 255
         /\ And(255, 0) = 0
<1>1. And(a, a) = a
  BY Nibbles, AndSpecial DEF And
<1>2. And(15, a) = a % 16
  <2>1. 15 \div 16 = 0 /\ 15 % 16 = 15
    OBVIOUS
  <2> QED
    BY <2>1, Nibbles, AndSpecial DEF And
<1>3. And(0, a) = 0
  <2>1. 0 \div 16 = 0 /\ 0 % 16 = 0
    OBVIOUS
  <2> QED
    BY <2>1, Nibbles, AndSpecial DEF And
<1>4. And(255, 255) = 255 /\ And(255, 0) = 0
  <2>1. 255 \div 16 = 15 /\ 255 % 16 = 15 /\ 0 \div 16 = 0 /\ 0 % 16 = 0 /\ 15 \in 0..15 /\ 0 \in 0..15
    OBVIOUS
  <2> QED
    BY <2>1, AndSpecial DEF And
<1> QED
  BY <1>1, <1>2, <1>3, <1>4

-----------------------------------------------------------------------------
(* Registers                                                               *)

Hot(v) == {i \in Lane(W) : v[i] # 0}                   \* lanes with a bit set
Masks  == [Lane(W) -> {0, 255}]

\* The sizes of registers.
LEMMA Sizes == W \in {16, 32} /\ W \in Widths /\ Half(W) \in {8, 16} /\ W = 2 * Half(W)
BY TargetsAssumption DEF Widths, Half

\* The operations on lanes give registers.
LEMMA LaneOps ==
  ASSUME NEW u \in Vec(W), NEW v \in Vec(W)
  PROVE  /\ AndB(u, v) \in Vec(W) /\ OrB(u, v) \in Vec(W) /\ AddB(W, u, v) \in Vec(W)
         /\ SubSatB(u, v) \in Vec(W) /\ SubB(u, v) \in Vec(W) /\ MinB(u, v) \in Vec(W)
         /\ EqB(u, v) \in Masks /\ GtB(u, v) \in Masks /\ Masks \subseteq Vec(W)
<1>1. \A i \in Lane(W) : u[i] \in Byte /\ v[i] \in Byte
  BY DEF Vec
<1>2. \A i \in Lane(W) : And(u[i], v[i]) \in Byte /\ u[i] + v[i] - And(u[i], v[i]) \in Byte
  BY <1>1, AndOrBytes
<1>3. AndB(u, v) \in Vec(W) /\ OrB(u, v) \in Vec(W)
  BY <1>2 DEF AndB, OrB, Vec
<1>4. \A a, b \in Byte : /\ (a + b) % 256 \in Byte /\ (a - b) % 256 \in Byte
                         /\ (IF a > b THEN a - b ELSE 0) \in Byte /\ Least(a, b) \in Byte
  BY DEF Byte, Least
<1>5. /\ AddB(W, u, v) \in Vec(W) /\ SubB(u, v) \in Vec(W)
      /\ SubSatB(u, v) \in Vec(W) /\ MinB(u, v) \in Vec(W)
  BY <1>1, <1>4 DEF AddB, SubB, SubSatB, MinB, Vec
<1>6. EqB(u, v) \in Masks /\ GtB(u, v) \in Masks /\ Masks \subseteq Vec(W)
  BY DEF EqB, GtB, Masks, Vec, Byte
<1> QED
  BY <1>3, <1>5, <1>6

\* So do the operations that move lanes and bits.
LEMMA MoveOps ==
  ASSUME NEW u \in Vec(W), NEW v \in Vec(W), NEW k \in {1, 2}
  PROVE  /\ Srl4W(u) \in Vec(W) /\ HighByByte(W, u) \in [Lane(W) -> 0..15]
         /\ HighByByte(W, u) \in Vec(W)
         /\ ShiftIn(W, k, u, v) \in Vec(W) /\ HighThenLow(u, v) \in Vec(W)
         /\ AlignHalves(k, HighThenLow(u, v), v) = ShiftIn(W, k, u, v)
<1>1. Srl4W(u) \in Vec(W)
  <2>1. ASSUME NEW i \in Lane(W)
        PROVE  u[i] \div 16 + (IF i % 2 = 0 THEN (u[i + 1] % 16) * 16 ELSE 0) \in Byte
    <3>1. u[i] \div 16 \in 0..15
      BY NibbleRange DEF Vec
    <3>2. CASE i % 2 = 0
      <4>1. i + 1 \in Lane(W)
        BY <3>2, Sizes DEF Lane, Widths
      <4>2. u[i + 1] % 16 \in 0..15
        BY <4>1 DEF Vec, Byte
      <4>3. (u[i + 1] % 16) * 16 \in 0..240
        BY <4>2
      <4> QED
        BY <3>1, <3>2, <4>3 DEF Byte
    <3>3. CASE i % 2 # 0
      BY <3>1, <3>3 DEF Byte
    <3> QED
      BY <3>2, <3>3
  <2> QED
    BY <2>1 DEF Srl4W, Vec
<1>2. HighByByte(W, u) \in [Lane(W) -> 0..15] /\ HighByByte(W, u) \in Vec(W)
  BY Sizes, HighType DEF Vec, Byte
<1>3. ShiftIn(W, k, u, v) \in Vec(W)
  BY Sizes DEF ShiftIn, Lane, Vec
<1>4. HighThenLow(u, v) \in Vec(W)
  BY Sizes DEF HighThenLow, Lane, Vec
<1>5. ASSUME NEW i \in Lane(W)
      PROVE  AlignHalves(k, HighThenLow(u, v), v)[i] = ShiftIn(W, k, u, v)[i]
  <2> DEFINE h == Half(W)
  <2>1. h \in {8, 16} /\ W = 2 * h /\ i \in 0..(W - 1)
    BY Sizes DEF Lane
  <2>2. CASE i < k
    <3>1. i % h = i /\ i - k + h \in Lane(W) /\ i - k + h < h
      BY <2>1, <2>2 DEF Lane
    <3>2. HighThenLow(u, v)[i - k + h] = u[W - k + i]
      BY <2>1, <3>1 DEF HighThenLow
    <3> QED
      BY <2>2, <3>1, <3>2 DEF AlignHalves, ShiftIn
  <2>3. CASE i >= h /\ i < h + k
    <3>1. i % h < k /\ ~ (i < k) /\ i - k + h \in Lane(W) /\ ~ (i - k + h < h)
          /\ i - k + h - h = i - k
      BY <2>1, <2>3 DEF Lane
    <3>2. HighThenLow(u, v)[i - k + h] = v[i - k]
      BY <2>1, <3>1 DEF HighThenLow
    <3> QED
      BY <3>1, <3>2 DEF AlignHalves, ShiftIn
  <2>4. CASE i >= k /\ (i < h \/ i >= h + k)
    <3>1. ~ (i % h < k) /\ ~ (i < k)
      BY <2>1, <2>4
    <3> QED
      BY <3>1 DEF AlignHalves, ShiftIn
  <2> QED
    BY <2>1, <2>2, <2>3, <2>4
<1>6. AlignHalves(k, HighThenLow(u, v), v) = ShiftIn(W, k, u, v)
  BY <1>5 DEF AlignHalves, ShiftIn
<1> QED
  BY <1>1, <1>2, <1>3, <1>4, <1>6

\* A mask holds where its condition does.
LEMMA HotCompare ==
  ASSUME NEW u, NEW v
  PROVE  /\ Hot(EqB(u, v)) = {i \in Lane(W) : u[i] = v[i]}
         /\ Hot(GtB(u, v)) = {i \in Lane(W) : GtS(u[i], v[i])}
BY DEF Hot, EqB, GtB

\* The OR of registers has a bit where one of them has.
LEMMA HotOr ==
  ASSUME NEW u \in Vec(W), NEW v \in Vec(W)
  PROVE  Hot(OrB(u, v)) = Hot(u) \cup Hot(v)
<1>1. \A i \in Lane(W) : u[i] \in Byte /\ v[i] \in Byte
  BY DEF Vec
<1>2. \A i \in Lane(W) : u[i] + v[i] - And(u[i], v[i]) = 0 <=> (u[i] = 0 /\ v[i] = 0)
  BY <1>1, AndOrBytes
<1> QED
  BY <1>2 DEF Hot, OrB

\* Masks are joined with AND, and compared with each other.
LEMMA HotMasks ==
  ASSUME NEW u \in Masks, NEW v \in Masks
  PROVE  /\ Hot(AndB(u, v)) = Hot(u) \cap Hot(v)
         /\ Hot(EqB(u, v)) = {i \in Lane(W) : i \in Hot(u) <=> i \in Hot(v)}
<1>1. And(255, 255) = 255 /\ And(255, 0) = 0 /\ And(0, 255) = 0 /\ And(0, 0) = 0
  <2>1. 0 \in Byte /\ 255 \in Byte
    BY DEF Byte
  <2> QED
    BY <2>1, AndBytes
<1>2. ASSUME NEW i \in Lane(W)
      PROVE  And(u[i], v[i]) # 0 <=> (u[i] # 0 /\ v[i] # 0)
  <2>1. u[i] \in {0, 255} /\ v[i] \in {0, 255}
    BY DEF Masks
  <2> QED
    BY <1>1, <2>1
<1>3. \A i \in Lane(W) : u[i] = v[i] <=> (u[i] # 0 <=> v[i] # 0)
  BY DEF Masks
<1> QED
  BY <1>2, <1>3 DEF Hot, AndB, EqB

\* The ways to take the high nibbles.
LEMMA HighWays ==
  ASSUME NEW u \in Vec(W)
  PROVE  /\ AndB(Every(15), Srl4W(u)) = HighByByte(W, u)
         /\ SrlB(u, Every(4)) = HighByByte(W, u)
<1>1. ASSUME NEW i \in Lane(W)
      PROVE  And(15, Srl4W(u)[i]) = u[i] \div 16
  <2>1. Srl4W(u)[i] \in Byte
    BY MoveOps DEF Vec
  <2>2. And(15, Srl4W(u)[i]) = Srl4W(u)[i] % 16
    BY <2>1, AndBytes
  <2>3. Srl4W(u)[i] % 16 = HighByWord(W, u)[i]
    BY DEF Srl4W, HighByWord
  <2> QED
    BY <2>2, <2>3, Sizes, HighAgree DEF HighByByte
<1>2. 2 ^ (4 % 8) = 16
  OBVIOUS
<1> QED
  BY <1>1, <1>2 DEF AndB, SrlB, Every, HighByByte

\* The ways to subtract a constant, and the OR of a register with itself.
LEMMA SubWays ==
  ASSUME NEW u \in Vec(W), NEW c \in Byte
  PROVE  /\ SubSatB(u, Every(c)) = SubSat(W, u, c)
         /\ SubB(u, MinB(u, Every(c))) = SubSat(W, u, c)
         /\ SubSat(W, u, c) \in Vec(W)
         /\ OrB(u, u) = u
<1>1. \A i \in Lane(W) : u[i] \in Byte
  BY DEF Vec
<1>2. SubSatB(u, Every(c)) = SubSat(W, u, c)
  BY DEF SubSatB, SubSat, Every
<1>3. \A a \in Byte : (a - Least(a, c)) % 256 = IF a > c THEN a - c ELSE 0
  BY DEF Byte, Least
<1>4. SubB(u, MinB(u, Every(c))) = SubSat(W, u, c)
  BY <1>1, <1>3 DEF SubB, MinB, Every, SubSat
<1>5. Every(c) \in Vec(W)
  BY DEF Every, Vec
<1>6. SubSat(W, u, c) \in Vec(W)
  BY <1>2, <1>5, LaneOps
<1>7. \A a \in Byte : a + a - a = a
  BY DEF Byte
<1>8. \A i \in Lane(W) : u[i] + u[i] - And(u[i], u[i]) = u[i]
  BY <1>1, <1>7, AndBytes
<1>9. OrB(u, u) = u
  BY <1>8 DEF OrB, Vec
<1> QED
  BY <1>2, <1>4, <1>6, <1>9

\* A lookup in a table of sixteen, and in two copies of it.
LEMMA LookWays ==
  ASSUME NEW idx \in [Lane(W) -> 0..15], NEW table \in [1..16 -> Byte]
  PROVE  /\ Pick(Entries(table), idx) = Lookup(W, table, idx)
         /\ W = 32 => PickHalves(Entries(Twice(table)), idx) = Lookup(W, table, idx)
         /\ Lookup(W, table, idx) \in Vec(W)
<1>1. \A i \in Lane(W) : idx[i] \in 0..15 /\ idx[i] \in Lane(W)
  BY Sizes, SMTT(30) DEF Lane
<1>2. Pick(Entries(table), idx) = Lookup(W, table, idx)
  BY <1>1 DEF Pick, Entries, Lookup
<1>3. ASSUME W = 32
      PROVE  PickHalves(Entries(Twice(table)), idx) = Lookup(W, table, idx)
  <2>1. ASSUME NEW i \in Lane(W)
        PROVE  Entries(Twice(table))[(i \div Half(W)) * Half(W) + idx[i]] = table[idx[i] + 1]
    <3>1. Half(W) = 16 /\ i \in 0..31 /\ idx[i] \in 0..15
      BY <1>1, <1>3 DEF Half, Lane
    <3>2. CASE i < 16
      <4>1. (i \div Half(W)) * Half(W) + idx[i] = idx[i]
        BY <3>1, <3>2
      <4>2. idx[i] \in Lane(W) /\ idx[i] + 1 \in 1..32 /\ idx[i] + 1 <= 16
        BY <1>1, <3>1
      <4>3. Entries(Twice(table))[idx[i]] = Twice(table)[idx[i] + 1]
        BY <4>2 DEF Entries
      <4> QED
        BY <4>1, <4>2, <4>3 DEF Twice
    <3>3. CASE i >= 16
      <4>1. (i \div Half(W)) * Half(W) + idx[i] = 16 + idx[i]
        BY <3>1, <3>3
      <4>2. 16 + idx[i] \in Lane(W) /\ 16 + idx[i] + 1 \in 1..32 /\ ~ (16 + idx[i] + 1 <= 16)
            /\ 16 + idx[i] + 1 - 16 = idx[i] + 1
        BY <1>3, <3>1 DEF Lane
      <4>3. Entries(Twice(table))[16 + idx[i]] = Twice(table)[16 + idx[i] + 1]
        BY <4>2 DEF Entries
      <4> QED
        BY <4>1, <4>2, <4>3 DEF Twice
    <3> QED
      BY <3>1, <3>2, <3>3
  <2> QED
    BY <1>1, <2>1 DEF PickHalves, Lookup
<1>4. Lookup(W, table, idx) \in Vec(W)
  BY <1>1 DEF Lookup, Vec
<1> QED
  BY <1>2, <1>3, <1>4

\* The tables of the NEON port hold bytes.
LEMMA TableTypes ==
  contLenN \in [1..16 -> Byte] /\ initMinsN \in [1..16 -> Byte] /\ secMinsN \in [1..16 -> Byte]
<1>1. 0 \in Byte /\ 1 \in Byte /\ 2 \in Byte /\ 3 \in Byte /\ 4 \in Byte /\ 127 \in Byte
      /\ 128 \in Byte /\ 144 \in Byte /\ 160 \in Byte /\ 194 \in Byte /\ 225 \in Byte /\ 241 \in Byte
  BY DEF Byte
<1>2. contLenN \in [1..16 -> Byte]
  BY <1>1 DEF contLenN, Table
<1>3. initMinsN \in [1..16 -> Byte]
  BY <1>1 DEF initMinsN, Table
<1>4. secMinsN \in [1..16 -> Byte]
  BY <1>1 DEF secMinsN, Table
<1> QED
  BY <1>2, <1>3, <1>4

\* g is the register file f with v in the register d.
Puts(R, f, g, d, v) == g \in [R -> Vec(W)] /\ g[d] = v /\ \A r \in R \ {d} : g[r] = f[r]

\* An instruction of one, two or three sources puts its meaning into its destination
\* and leaves all other registers as they are.
LEMMA Unary ==
  ASSUME NEW R, NEW f \in [R -> Vec(W)], NEW m, NEW a, NEW d \in R, NEW v \in Vec(W),
         Meaning(m, << f[a] >>) = v, NEW ins, ins = << m, a, d >>
  PROVE  Puts(R, f, Execute(f, ins), d, v)
<1>1. [k \in 1..(Len(ins) - 2) |-> f[ins[k + 1]]] = << f[a] >>
  OBVIOUS
<1> QED
  BY <1>1 DEF Execute, Puts

LEMMA Binary ==
  ASSUME NEW R, NEW f \in [R -> Vec(W)], NEW m, NEW a, NEW b, NEW d \in R, NEW v \in Vec(W),
         Meaning(m, << f[a], f[b] >>) = v, NEW ins, ins = << m, a, b, d >>
  PROVE  Puts(R, f, Execute(f, ins), d, v)
<1>1. [k \in 1..(Len(ins) - 2) |-> f[ins[k + 1]]] = << f[a], f[b] >>
  OBVIOUS
<1> QED
  BY <1>1 DEF Execute, Puts

LEMMA Ternary ==
  ASSUME NEW R, NEW f \in [R -> Vec(W)], NEW m, NEW a, NEW b, NEW c, NEW d \in R, NEW v \in Vec(W),
         Meaning(m, << f[a], f[b], f[c] >>) = v,
         NEW ins, ins = << m, a, b, c, d >>
  PROVE  Puts(R, f, Execute(f, ins), d, v)
<1>1. [k \in 1..(Len(ins) - 2) |-> f[ins[k + 1]]] = << f[a], f[b], f[c] >>
  OBVIOUS
<1> QED
  BY <1>1 DEF Execute, Puts

\* The case of Meaning that a mnemonic picks, for each operation on lanes.
LEMMA PickOps ==
  ASSUME NEW u \in Vec(W), NEW v \in Vec(W), NEW k \in {1, 2}
  PROVE  /\ Pick(u, v) \in Vec(W) /\ SrlB(u, v) \in Vec(W)
         /\ AlignHalves(k, u, v) \in Vec(W)
         /\ W = 32 => PickHalves(u, v) \in Vec(W)
<1>1. \A i \in Lane(W) : u[i] \in Byte /\ v[i] \in Byte
  BY DEF Vec
<1>2. Pick(u, v) \in Vec(W)
  <2>1. ASSUME NEW i \in Lane(W)
        PROVE  (IF v[i] < 16 THEN u[v[i]] ELSE 0) \in Byte
    <3>1. v[i] < 16 => v[i] \in Lane(W)
      <4>1. v[i] \in 0..255
        BY <1>1 DEF Byte
      <4>2. W = 16 \/ W = 32
        BY Sizes
      <4> QED
        BY <4>1, <4>2 DEF Lane
    <3> QED
      BY <1>1, <3>1 DEF Byte
  <2> QED
    BY <2>1 DEF Pick, Vec
<1>3. SrlB(u, v) \in Vec(W)
  <2>1. \A k7 \in 0..7 : 2 ^ k7 \in {1, 2, 4, 8, 16, 32, 64, 128}
    <3>1. 2 ^ 0 = 1 /\ 2 ^ 1 = 2 /\ 2 ^ 2 = 4 /\ 2 ^ 3 = 8 /\ 2 ^ 4 = 16 /\ 2 ^ 5 = 32
          /\ 2 ^ 6 = 64 /\ 2 ^ 7 = 128
      OBVIOUS
    <3>2. \A k7 \in 0..7 : k7 \in {0, 1, 2, 3, 4, 5, 6, 7}
      OBVIOUS
    <3> QED
      BY <3>1, <3>2, ZenonT(60)
  <2>2. \A a \in Byte, p \in {1, 2, 4, 8, 16, 32, 64, 128} : a \div p \in Byte
    BY DEF Byte
  <2>3. \A i \in Lane(W) : v[i] % 8 \in 0..7
    BY <1>1 DEF Byte
  <2>4. ASSUME NEW i \in Lane(W)
        PROVE  u[i] \div 2 ^ (v[i] % 8) \in Byte
    <3>1. 2 ^ (v[i] % 8) \in {1, 2, 4, 8, 16, 32, 64, 128}
      BY <2>1, <2>3
    <3> QED
      BY <1>1, <2>2, <3>1
  <2> QED
    BY <2>4 DEF SrlB, Vec
<1>4. AlignHalves(k, u, v) \in Vec(W)
  <2>1. ASSUME NEW i \in Lane(W)
        PROVE  (IF i % Half(W) < k THEN u[i - k + Half(W)] ELSE v[i - k]) \in Byte
    <3>1. CASE i % Half(W) < k
      <4> DEFINE h == Half(W)
      <4>1. h \in {8, 16} /\ W = 2 * h /\ i \in 0..(W - 1)
        BY Sizes DEF Lane
      <4>2. i >= h => i % h = i - h
        BY <4>1
      <4>3. i - k + h \in 0..(W - 1)
        <5> HIDE DEF h
        <5> QED
          BY <3>1, <4>1, <4>2 DEF h
      <4> QED
        BY <1>1, <3>1, <4>3 DEF Lane
    <3>2. CASE ~ (i % Half(W) < k)
      <4>1. i - k \in Lane(W)
        BY <3>2, Sizes DEF Lane
      <4> QED
        BY <1>1, <3>2, <4>1
    <3> QED
      BY <3>1, <3>2
  <2> QED
    BY <2>1 DEF AlignHalves, Vec
<1>5. ASSUME W = 32
      PROVE  PickHalves(u, v) \in Vec(W)
  <2>1. ASSUME NEW i \in Lane(W)
        PROVE  (IF v[i] < 16 THEN u[(i \div Half(W)) * Half(W) + v[i]] ELSE 0) \in Byte
    <3>1. Half(W) = 16 /\ i \in 0..31 /\ v[i] \in 0..255
      BY <1>1, <1>5 DEF Half, Lane, Byte
    <3>2. ASSUME v[i] < 16
          PROVE  (i \div Half(W)) * Half(W) + v[i] \in Lane(W)
      <4> DEFINE half == i \div 16  x == v[i]
      <4>1. half \in {0, 1} /\ x \in 0..15
        BY <3>1, <3>2
      <4> HIDE DEF half, x
      <4>2. half * 16 + x \in 0..31
        BY <4>1
      <4> QED
        BY <1>5, <3>1, <4>2 DEF Lane, half, x
    <3> QED
      BY <1>1, <3>2 DEF Byte
  <2> QED
    BY <2>1 DEF PickHalves, Vec
<1> QED
  BY <1>2, <1>3, <1>4, <1>5

\* One lemma per operation: an instruction with one of its mnemonics, whose operands
\* make v, puts v into its destination.
LEMMA DoAnd ==
  ASSUME NEW R, NEW f \in [R -> Vec(W)], NEW a \in R, NEW b \in R, NEW d \in R,
         NEW m \in {"PAND", "VPAND", "VAND", "VN"},
         NEW v, AndB(f[a], f[b]) = v
  PROVE  Puts(R, f, Execute(f, << m, a, b, d >>), d, v)
<1>1. Meaning(m, << f[a], f[b] >>) = v
  BY Zenon DEF Meaning
<1>2. v \in Vec(W)
  BY LaneOps, MoveOps, PickOps
<1> QED
  BY <1>1, <1>2, Binary

LEMMA DoOr ==
  ASSUME NEW R, NEW f \in [R -> Vec(W)], NEW a \in R, NEW b \in R, NEW d \in R,
         NEW m \in {"POR", "VPOR", "VORR", "VOR", "VO"},
         NEW v, OrB(f[a], f[b]) = v
  PROVE  Puts(R, f, Execute(f, << m, a, b, d >>), d, v)
<1>1. Meaning(m, << f[a], f[b] >>) = v
  BY Zenon DEF Meaning
<1>2. v \in Vec(W)
  BY LaneOps, MoveOps, PickOps
<1> QED
  BY <1>1, <1>2, Binary

LEMMA DoAdd ==
  ASSUME NEW R, NEW f \in [R -> Vec(W)], NEW a \in R, NEW b \in R, NEW d \in R,
         NEW m \in {"PADDB", "VPADDB", "VADD", "VADDUBM", "VAB"},
         NEW v, AddB(W, f[a], f[b]) = v
  PROVE  Puts(R, f, Execute(f, << m, a, b, d >>), d, v)
<1>1. Meaning(m, << f[a], f[b] >>) = v
  BY Zenon DEF Meaning
<1>2. v \in Vec(W)
  BY LaneOps, MoveOps, PickOps
<1> QED
  BY <1>1, <1>2, Binary

LEMMA DoSubSat ==
  ASSUME NEW R, NEW f \in [R -> Vec(W)], NEW a \in R, NEW b \in R, NEW d \in R,
         NEW m \in {"PSUBUSB", "VPSUBUSB", "VUQSUB"},
         NEW v, SubSatB(f[b], f[a]) = v
  PROVE  Puts(R, f, Execute(f, << m, a, b, d >>), d, v)
<1>1. Meaning(m, << f[a], f[b] >>) = v
  BY Zenon DEF Meaning
<1>2. v \in Vec(W)
  BY LaneOps, MoveOps, PickOps
<1> QED
  BY <1>1, <1>2, Binary

LEMMA DoSubSat2 ==
  ASSUME NEW R, NEW f \in [R -> Vec(W)], NEW a \in R, NEW b \in R, NEW d \in R,
         NEW m \in {"VSUBUBS"},
         NEW v, SubSatB(f[a], f[b]) = v
  PROVE  Puts(R, f, Execute(f, << m, a, b, d >>), d, v)
<1>1. Meaning(m, << f[a], f[b] >>) = v
  BY Zenon DEF Meaning
<1>2. v \in Vec(W)
  BY LaneOps, MoveOps, PickOps
<1> QED
  BY <1>1, <1>2, Binary

LEMMA DoSub ==
  ASSUME NEW R, NEW f \in [R -> Vec(W)], NEW a \in R, NEW b \in R, NEW d \in R,
         NEW m \in {"VSB"},
         NEW v, SubB(f[b], f[a]) = v
  PROVE  Puts(R, f, Execute(f, << m, a, b, d >>), d, v)
<1>1. Meaning(m, << f[a], f[b] >>) = v
  BY Zenon DEF Meaning
<1>2. v \in Vec(W)
  BY LaneOps, MoveOps, PickOps
<1> QED
  BY <1>1, <1>2, Binary

LEMMA DoMin ==
  ASSUME NEW R, NEW f \in [R -> Vec(W)], NEW a \in R, NEW b \in R, NEW d \in R,
         NEW m \in {"VMNLB"},
         NEW v, MinB(f[a], f[b]) = v
  PROVE  Puts(R, f, Execute(f, << m, a, b, d >>), d, v)
<1>1. Meaning(m, << f[a], f[b] >>) = v
  BY Zenon DEF Meaning
<1>2. v \in Vec(W)
  BY LaneOps, MoveOps, PickOps
<1> QED
  BY <1>1, <1>2, Binary

LEMMA DoEq ==
  ASSUME NEW R, NEW f \in [R -> Vec(W)], NEW a \in R, NEW b \in R, NEW d \in R,
         NEW m \in {"PCMPEQB", "VPCMPEQB", "VCMEQ", "VCMPEQUB", "VCEQB"},
         NEW v, EqB(f[a], f[b]) = v
  PROVE  Puts(R, f, Execute(f, << m, a, b, d >>), d, v)
<1>1. Meaning(m, << f[a], f[b] >>) = v
  BY Zenon DEF Meaning
<1>2. v \in Vec(W)
  BY LaneOps, MoveOps, PickOps
<1> QED
  BY <1>1, <1>2, Binary

LEMMA DoGt ==
  ASSUME NEW R, NEW f \in [R -> Vec(W)], NEW a \in R, NEW b \in R, NEW d \in R,
         NEW m \in {"PCMPGTB", "VPCMPGTB", "VCMGT"},
         NEW v, GtB(f[b], f[a]) = v
  PROVE  Puts(R, f, Execute(f, << m, a, b, d >>), d, v)
<1>1. Meaning(m, << f[a], f[b] >>) = v
  BY Zenon DEF Meaning
<1>2. v \in Vec(W)
  BY LaneOps, MoveOps, PickOps
<1> QED
  BY <1>1, <1>2, Binary

LEMMA DoGt2 ==
  ASSUME NEW R, NEW f \in [R -> Vec(W)], NEW a \in R, NEW b \in R, NEW d \in R,
         NEW m \in {"VCMPGTSB", "VCHB"},
         NEW v, GtB(f[a], f[b]) = v
  PROVE  Puts(R, f, Execute(f, << m, a, b, d >>), d, v)
<1>1. Meaning(m, << f[a], f[b] >>) = v
  BY Zenon DEF Meaning
<1>2. v \in Vec(W)
  BY LaneOps, MoveOps, PickOps
<1> QED
  BY <1>1, <1>2, Binary

LEMMA DoSrl4 ==
  ASSUME NEW R, NEW f \in [R -> Vec(W)], NEW a \in R, NEW d \in R,
         NEW m \in {"PSRLW_4", "VPSRLW_4"},
         NEW v, Srl4W(f[a]) = v
  PROVE  Puts(R, f, Execute(f, << m, a, d >>), d, v)
<1>1. Meaning(m, << f[a] >>) = v
  BY Zenon DEF Meaning
<1>2. v \in Vec(W)
  BY LaneOps, MoveOps, PickOps
<1> QED
  BY <1>1, <1>2, Unary

LEMMA DoSrl4B ==
  ASSUME NEW R, NEW f \in [R -> Vec(W)], NEW a \in R, NEW d \in R,
         NEW m \in {"VUSHR_4", "VESRLB_4"},
         NEW v, HighByByte(W, f[a]) = v
  PROVE  Puts(R, f, Execute(f, << m, a, d >>), d, v)
<1>1. Meaning(m, << f[a] >>) = v
  BY Zenon DEF Meaning
<1>2. v \in Vec(W)
  BY LaneOps, MoveOps, PickOps
<1> QED
  BY <1>1, <1>2, Unary

LEMMA DoSrlB ==
  ASSUME NEW R, NEW f \in [R -> Vec(W)], NEW a \in R, NEW b \in R, NEW d \in R,
         NEW m \in {"VSRB"},
         NEW v, SrlB(f[a], f[b]) = v
  PROVE  Puts(R, f, Execute(f, << m, a, b, d >>), d, v)
<1>1. Meaning(m, << f[a], f[b] >>) = v
  BY Zenon DEF Meaning
<1>2. v \in Vec(W)
  BY LaneOps, MoveOps, PickOps
<1> QED
  BY <1>1, <1>2, Binary

LEMMA DoPick ==
  ASSUME NEW R, NEW f \in [R -> Vec(W)], NEW a \in R, NEW b \in R, NEW d \in R,
         NEW m \in {"PSHUFB", "VTBL"},
         NEW v, Pick(f[b], f[a]) = v
  PROVE  Puts(R, f, Execute(f, << m, a, b, d >>), d, v)
<1>1. Meaning(m, << f[a], f[b] >>) = v
  BY Zenon DEF Meaning
<1>2. v \in Vec(W)
  BY LaneOps, MoveOps, PickOps
<1> QED
  BY <1>1, <1>2, Binary

LEMMA DoPickHalves ==
  ASSUME NEW R, NEW f \in [R -> Vec(W)], NEW a \in R, NEW b \in R, NEW d \in R,
         NEW m \in {"VPSHUFB"}, W = 32,
         NEW v, PickHalves(f[b], f[a]) = v
  PROVE  Puts(R, f, Execute(f, << m, a, b, d >>), d, v)
<1>1. Meaning(m, << f[a], f[b] >>) = v
  BY Zenon DEF Meaning
<1>2. v \in Vec(W)
  BY LaneOps, MoveOps, PickOps
<1> QED
  BY <1>1, <1>2, Binary

LEMMA DoPick3 ==
  ASSUME NEW R, NEW f \in [R -> Vec(W)], NEW a \in R, NEW b \in R, NEW c \in R, NEW d \in R,
         NEW m \in {"VPERM"},
         NEW v, Pick(f[a], f[c]) = v
  PROVE  Puts(R, f, Execute(f, << m, a, b, c, d >>), d, v)
<1>1. Meaning(m, << f[a], f[b], f[c] >>) = v
  BY Zenon DEF Meaning
<1>2. v \in Vec(W)
  BY LaneOps, MoveOps, PickOps
<1> QED
  BY <1>1, <1>2, Ternary

LEMMA DoIn1 ==
  ASSUME NEW R, NEW f \in [R -> Vec(W)], NEW a \in R, NEW b \in R, NEW d \in R,
         NEW m \in {"PALIGNR_15", "VSLDOI_15", "VSLDB_15"},
         NEW v, ShiftIn(W, 1, f[a], f[b]) = v
  PROVE  Puts(R, f, Execute(f, << m, a, b, d >>), d, v)
<1>1. Meaning(m, << f[a], f[b] >>) = v
  BY Zenon DEF Meaning
<1>2. v \in Vec(W)
  BY LaneOps, MoveOps, PickOps
<1> QED
  BY <1>1, <1>2, Binary

LEMMA DoIn2 ==
  ASSUME NEW R, NEW f \in [R -> Vec(W)], NEW a \in R, NEW b \in R, NEW d \in R,
         NEW m \in {"PALIGNR_14", "VSLDOI_14", "VSLDB_14"},
         NEW v, ShiftIn(W, 2, f[a], f[b]) = v
  PROVE  Puts(R, f, Execute(f, << m, a, b, d >>), d, v)
<1>1. Meaning(m, << f[a], f[b] >>) = v
  BY Zenon DEF Meaning
<1>2. v \in Vec(W)
  BY LaneOps, MoveOps, PickOps
<1> QED
  BY <1>1, <1>2, Binary

LEMMA DoExt1 ==
  ASSUME NEW R, NEW f \in [R -> Vec(W)], NEW a \in R, NEW b \in R, NEW d \in R,
         NEW m \in {"VEXT_15"},
         NEW v, ShiftIn(W, 1, f[b], f[a]) = v
  PROVE  Puts(R, f, Execute(f, << m, a, b, d >>), d, v)
<1>1. Meaning(m, << f[a], f[b] >>) = v
  BY Zenon DEF Meaning
<1>2. v \in Vec(W)
  BY LaneOps, MoveOps, PickOps
<1> QED
  BY <1>1, <1>2, Binary

LEMMA DoExt2 ==
  ASSUME NEW R, NEW f \in [R -> Vec(W)], NEW a \in R, NEW b \in R, NEW d \in R,
         NEW m \in {"VEXT_14"},
         NEW v, ShiftIn(W, 2, f[b], f[a]) = v
  PROVE  Puts(R, f, Execute(f, << m, a, b, d >>), d, v)
<1>1. Meaning(m, << f[a], f[b] >>) = v
  BY Zenon DEF Meaning
<1>2. v \in Vec(W)
  BY LaneOps, MoveOps, PickOps
<1> QED
  BY <1>1, <1>2, Binary

LEMMA DoSeam ==
  ASSUME NEW R, NEW f \in [R -> Vec(W)], NEW a \in R, NEW b \in R, NEW d \in R,
         NEW m \in {"VPERM2I128"},
         NEW v, HighThenLow(f[b], f[a]) = v
  PROVE  Puts(R, f, Execute(f, << m, a, b, d >>), d, v)
<1>1. Meaning(m, << f[a], f[b] >>) = v
  BY Zenon DEF Meaning
<1>2. v \in Vec(W)
  BY LaneOps, MoveOps, PickOps
<1> QED
  BY <1>1, <1>2, Binary

LEMMA DoAlign1 ==
  ASSUME NEW R, NEW f \in [R -> Vec(W)], NEW a \in R, NEW b \in R, NEW d \in R,
         NEW m \in {"VPALIGNR_15"},
         NEW v, AlignHalves(1, f[a], f[b]) = v
  PROVE  Puts(R, f, Execute(f, << m, a, b, d >>), d, v)
<1>1. Meaning(m, << f[a], f[b] >>) = v
  BY Zenon DEF Meaning
<1>2. v \in Vec(W)
  BY LaneOps, MoveOps, PickOps
<1> QED
  BY <1>1, <1>2, Binary

LEMMA DoAlign2 ==
  ASSUME NEW R, NEW f \in [R -> Vec(W)], NEW a \in R, NEW b \in R, NEW d \in R,
         NEW m \in {"VPALIGNR_14"},
         NEW v, AlignHalves(2, f[a], f[b]) = v
  PROVE  Puts(R, f, Execute(f, << m, a, b, d >>), d, v)
<1>1. Meaning(m, << f[a], f[b] >>) = v
  BY Zenon DEF Meaning
<1>2. v \in Vec(W)
  BY LaneOps, MoveOps, PickOps
<1> QED
  BY <1>1, <1>2, Binary

LEMMA DoMove ==
  ASSUME NEW R, NEW f \in [R -> Vec(W)], NEW a \in R, NEW d \in R,
         NEW m \in {"MOVO", "MOVOU", "VMOVDQA", "VMOVDQU", "VLR", "LXVB16X", "VL"},
         NEW v, f[a] = v
  PROVE  Puts(R, f, Execute(f, << m, a, d >>), d, v)
<1>1. Meaning(m, << f[a] >>) = v
  BY Zenon DEF Meaning
<1>2. v \in Vec(W)
  BY LaneOps, MoveOps, PickOps
<1> QED
  BY <1>1, <1>2, Unary

LEMMA DoZero ==
  ASSUME NEW R, NEW f \in [R -> Vec(W)], NEW d \in R, NEW m \in {"VMOVI_0"},
         NEW v, Zero(W) = v
  PROVE  Puts(R, f, Execute(f, << m, d >>), d, v)
<1>1. \A x : Meaning(m, x) = v
  BY Zenon DEF Meaning
<1>2. v \in Vec(W)
  BY LaneOps, MoveOps DEF Zero, Vec, Byte
<1> QED
  BY <1>1, <1>2 DEF Execute, Puts

\* a[k] is the register file after k of the len instructions of code.
Traces(a, f, code, len) ==
  /\ a[0] = f /\ a[len] = Run(f, code)
  /\ \A k \in 1..len : a[k] = Execute(a[k - 1], code[k])

\* A sequence of instructions leaves what the last one leaves.  (The recursive function
\* of Run exists: there is no least number of instructions for which it does not.)
LEMMA Runs ==
  ASSUME NEW f, NEW code, Len(code) \in Nat
  PROVE  \E a : Traces(a, f, code, Len(code))
<1> DEFINE N == Len(code)
           Def(g, m) == g = [k \in 0..m |-> IF k = 0 THEN f ELSE Execute(g[k - 1], code[k])]
           Missing == {m \in 0..N : ~ \E g : Def(g, m)}
<1>1. Missing = {}
  <2> SUFFICES ASSUME Missing # {}
               PROVE  FALSE
    OBVIOUS
  <2>1. PICK m \in Missing : \A k \in Missing : m <= k
    <3>1. Missing \subseteq Nat
      OBVIOUS
    <3> HIDE DEF Missing
    <3> QED
      BY <3>1, LeastNat
  <2>2. CASE m = 0
    <3>1. Def([k \in 0..0 |-> f], 0)
      OBVIOUS
    <3> QED
      BY <2>1, <2>2, <3>1
  <2>3. CASE m # 0
    <3>1. m - 1 \in 0..N /\ m - 1 \notin Missing
      BY <2>1, <2>3
    <3>2. PICK g : Def(g, m - 1)
      BY <3>1
    <3> DEFINE h == [k \in 0..m |-> IF k = m THEN Execute(g[m - 1], code[m]) ELSE g[k]]
    <3>3. Def(h, m)
      <4> SUFFICES ASSUME NEW k \in 0..m
                   PROVE  h[k] = IF k = 0 THEN f ELSE Execute(h[k - 1], code[k])
        OBVIOUS
      <4>1. CASE k = m
        <5>1. h[k - 1] = g[m - 1]
          BY <2>3, <4>1
        <5> QED
          BY <2>3, <4>1, <5>1
      <4>2. CASE k # m
        <5>1. k \in 0..(m - 1) /\ h[k] = g[k]
          BY <4>2
        <5>2. g[k] = IF k = 0 THEN f ELSE Execute(g[k - 1], code[k])
          BY <3>2, <5>1
        <5>3. k # 0 => h[k - 1] = g[k - 1]
          BY <4>2, <5>1
        <5> QED
          BY <5>1, <5>2, <5>3
      <4> QED
        BY <4>1, <4>2
    <3> HIDE DEF h, Def
    <3> QED
      BY <2>1, <3>3
  <2> QED
    BY <2>2, <2>3
<1> DEFINE after == CHOOSE g : Def(g, N)
<1>2. Run(f, code) = after[N]
  BY DEF Run
<1>3. Def(after, N)
  <2>1. \E g : Def(g, N)
    BY <1>1
  <2> HIDE DEF Def
  <2> QED
    BY <2>1
<1>4. /\ after[0] = f
      /\ \A k \in 1..N : after[k] = Execute(after[k - 1], code[k])
  <2> HIDE DEF after
  <2>1. \A k \in 0..N : after[k] = IF k = 0 THEN f ELSE Execute(after[k - 1], code[k])
    BY <1>3
  <2> QED
    BY <2>1
<1> QED
  BY <1>2, <1>4 DEF Traces

-----------------------------------------------------------------------------
(* The loop bodies                                                         *)

\* A register file while a kernel runs: its constants are in place.
Steady(kernel, g) ==
  /\ g \in [Names(kernel) -> Vec(W)]
  /\ \A r \in DOMAIN Constants(kernel) : g[r] = Constants(kernel)[r]

-----------------------------------------------------------------------------
(* The vectors of an iteration                                             *)

\* Those that the instructions of the five ports go through for the block raw,
\* with what the last iteration left in last and in the error register e.
Vectors(raw, last, e) ==
  LET high   == HighByByte(W, raw)
      len    == Lens(W, raw)
      sum    == Sum(W, raw, last.carry)
      carry  == Carry(W, raw, last.carry)
      in1    == ShiftIn(W, 1, last.carry, len)
      in2    == ShiftIn(W, 2, last.carry, sum)
      off1   == Off1(W, raw, last)
      off1hi == Off1Hi(W, raw, last)
      init   == Lookup(W, initMinsN, off1hi)
      sec    == Lookup(W, secMinsN, off1hi)
      more   == GtB(carry, len)
      lead   == GtB(len, Zero(W))
      gap    == EqB(lead, more)
      isED   == EqB(Every(237), off1)
      isF4   == EqB(Every(244), off1)
      over9F == GtB(raw, Every(159))
      over8F == GtB(raw, Every(143))
      half   == AndB(over9F, isED)
      beyond == AndB(over8F, isF4)
      first  == GtB(init, off1)
      second == GtB(sec, raw)
      long   == AndB(second, first)
      excess == SubSat(W, raw, 244)
      err1   == OrB(excess, e)
      err2   == OrB(gap, err1)
      err3   == OrB(half, err2)
      err4   == OrB(beyond, err3)
  IN  [lastRaw |-> last.raw, lastHigh |-> last.high, lastCarry |-> last.carry, err0 |-> e,
       raw |-> raw, high |-> high, excess |-> excess, err1 |-> err1, len |-> len,
       in1 |-> in1, less1 |-> SubSat(W, in1, 1), sum |-> sum,
       in2 |-> in2, less2 |-> SubSat(W, in2, 2), carry |-> carry,
       more |-> more, lead |-> lead, gap |-> gap, err2 |-> err2,
       off1 |-> off1, isED |-> isED, over9F |-> over9F, half |-> half, err3 |-> err3,
       isF4 |-> isF4, over8F |-> over8F, beyond |-> beyond, err4 |-> err4,
       off1hi |-> off1hi, init |-> init, first |-> first, sec |-> sec, second |-> second,
       long |-> long, err5 |-> OrB(long, err4)]

\* What the instructions make of them.
Ways(v) ==
  /\ AndB(Every(15), Srl4W(v.raw)) = v.high
  /\ HighByByte(W, v.raw) = v.high
  /\ SrlB(v.raw, Every(4)) = v.high
  /\ SubSatB(v.raw, Every(244)) = v.excess
  /\ SubB(v.raw, MinB(v.raw, Every(244))) = v.excess
  /\ OrB(v.excess, v.err0) = v.err1
  /\ Pick(Entries(contLenN), v.high) = v.len
  /\ ShiftIn(W, 1, v.lastCarry, v.len) = v.in1
  /\ AlignHalves(1, HighThenLow(v.lastCarry, v.len), v.len) = v.in1
  /\ SubSatB(v.in1, Every(1)) = v.less1
  /\ SubB(v.in1, MinB(v.in1, Every(1))) = v.less1
  /\ AddB(W, v.len, v.less1) = v.sum
  /\ ShiftIn(W, 2, v.lastCarry, v.sum) = v.in2
  /\ AlignHalves(2, HighThenLow(v.lastCarry, v.sum), v.sum) = v.in2
  /\ SubSatB(v.in2, Every(2)) = v.less2
  /\ SubB(v.in2, MinB(v.in2, Every(2))) = v.less2
  /\ AddB(W, v.less2, v.sum) = v.carry
  /\ GtB(v.carry, v.len) = v.more
  /\ GtB(v.len, Zero(W)) = v.lead
  /\ EqB(v.lead, v.more) = v.gap
  /\ OrB(v.gap, v.err1) = v.err2
  /\ ShiftIn(W, 1, v.lastRaw, v.raw) = v.off1
  /\ AlignHalves(1, HighThenLow(v.lastRaw, v.raw), v.raw) = v.off1
  /\ EqB(Every(237), v.off1) = v.isED
  /\ GtB(v.raw, Every(159)) = v.over9F
  /\ AndB(v.over9F, v.isED) = v.half
  /\ OrB(v.half, v.err2) = v.err3
  /\ EqB(Every(244), v.off1) = v.isF4
  /\ GtB(v.raw, Every(143)) = v.over8F
  /\ AndB(v.over8F, v.isF4) = v.beyond
  /\ OrB(v.beyond, v.err3) = v.err4
  /\ ShiftIn(W, 1, v.lastHigh, v.high) = v.off1hi
  /\ AlignHalves(1, HighThenLow(v.lastHigh, v.high), v.high) = v.off1hi
  /\ Pick(Entries(initMinsN), v.off1hi) = v.init
  /\ Pick(Entries(secMinsN), v.off1hi) = v.sec
  /\ GtB(v.init, v.off1) = v.first
  /\ GtB(v.sec, v.raw) = v.second
  /\ AndB(v.second, v.first) = v.long
  /\ OrB(v.long, v.err4) = v.err5
  /\ OrB(v.raw, v.raw) = v.raw /\ OrB(v.high, v.high) = v.high /\ OrB(v.carry, v.carry) = v.carry
  /\ W = 32 =>
       /\ PickHalves(Entries(Twice(contLenN)), v.high) = v.len
       /\ PickHalves(Entries(Twice(initMinsN)), v.off1hi) = v.init
       /\ PickHalves(Entries(Twice(secMinsN)), v.off1hi) = v.sec

\* The vectors one by one, each from the ones before it.
LEMMA VectorFields ==
  ASSUME NEW raw, NEW last, NEW e, NEW v, v = Vectors(raw, last, e)
  PROVE  /\ v.lastRaw = last.raw /\ v.lastHigh = last.high /\ v.lastCarry = last.carry
         /\ v.err0 = e /\ v.raw = raw /\ v.high = HighByByte(W, raw)
         /\ v.excess = SubSat(W, raw, 244) /\ v.len = Lens(W, raw)
         /\ v.in1 = ShiftIn(W, 1, v.lastCarry, v.len) /\ v.less1 = SubSat(W, v.in1, 1)
         /\ v.sum = Sum(W, raw, last.carry)
         /\ v.in2 = ShiftIn(W, 2, v.lastCarry, v.sum) /\ v.less2 = SubSat(W, v.in2, 2)
         /\ v.carry = Carry(W, raw, last.carry)
         /\ v.off1 = Off1(W, raw, last) /\ v.off1hi = Off1Hi(W, raw, last)
         /\ v.init = Lookup(W, initMinsN, v.off1hi) /\ v.sec = Lookup(W, secMinsN, v.off1hi)
         /\ v.more = GtB(v.carry, v.len) /\ v.lead = GtB(v.len, Zero(W))
         /\ v.gap = EqB(v.lead, v.more)
         /\ v.isED = EqB(Every(237), v.off1) /\ v.over9F = GtB(v.raw, Every(159))
         /\ v.half = AndB(v.over9F, v.isED)
         /\ v.isF4 = EqB(Every(244), v.off1) /\ v.over8F = GtB(v.raw, Every(143))
         /\ v.beyond = AndB(v.over8F, v.isF4)
         /\ v.first = GtB(v.init, v.off1) /\ v.second = GtB(v.sec, v.raw)
         /\ v.long = AndB(v.second, v.first)
         /\ v.err1 = OrB(v.excess, v.err0) /\ v.err2 = OrB(v.gap, v.err1)
         /\ v.err3 = OrB(v.half, v.err2) /\ v.err4 = OrB(v.beyond, v.err3)
         /\ v.err5 = OrB(v.long, v.err4)
BY DEF Vectors

\* They are registers, and the nibbles are nibbles.
LEMMA VectorTypes ==
  ASSUME NEW raw \in Vec(W), NEW last \in Regs(W), NEW e \in Vec(W),
         NEW v, v = Vectors(raw, last, e)
  PROVE  /\ v.raw \in Vec(W) /\ v.lastRaw \in Vec(W) /\ v.lastCarry \in Vec(W) /\ v.err0 \in Vec(W)
         /\ v.lastHigh \in [Lane(W) -> 0..15] /\ v.lastHigh \in Vec(W)
         /\ v.high \in [Lane(W) -> 0..15] /\ v.high \in Vec(W)
         /\ v.len \in Vec(W) /\ v.in1 \in Vec(W) /\ v.less1 \in Vec(W) /\ v.sum \in Vec(W)
         /\ v.in2 \in Vec(W) /\ v.less2 \in Vec(W) /\ v.carry \in Vec(W)
         /\ v.off1 \in Vec(W) /\ v.off1hi \in [Lane(W) -> 0..15]
         /\ v.excess \in Vec(W) /\ v.init \in Vec(W) /\ v.sec \in Vec(W)
<1>1. /\ v.raw \in Vec(W) /\ v.lastRaw \in Vec(W) /\ v.lastCarry \in Vec(W) /\ v.err0 \in Vec(W)
      /\ v.lastHigh \in [Lane(W) -> 0..15]
  BY VectorFields DEF Regs
<1>2. v.lastHigh \in Vec(W)
  BY <1>1 DEF Vec, Byte
<1>3. v.high \in [Lane(W) -> 0..15] /\ v.high \in Vec(W)
  BY VectorFields, MoveOps
<1>4. v.len \in Vec(W)
  BY VectorFields, LensType, Sizes
<1>5. last.carry \in Vec(W)
  BY DEF Regs
<1>6. v.sum \in Vec(W) /\ v.carry \in Vec(W)
  BY <1>5, VectorFields, SumType, CarryType, Sizes
<1>7. v.in1 \in Vec(W) /\ v.in2 \in Vec(W)
  BY <1>1, <1>4, <1>6, VectorFields, MoveOps
<1>8. 1 \in Byte /\ 2 \in Byte /\ 244 \in Byte
  BY DEF Byte
<1>9. v.less1 \in Vec(W) /\ v.less2 \in Vec(W) /\ v.excess \in Vec(W)
  BY <1>7, <1>8, VectorFields, SubWays
<1>10. v.off1 \in Vec(W)
  <2>1. v.off1 = ShiftIn(W, 1, v.lastRaw, v.raw)
    BY VectorFields DEF Off1
  <2>2. ShiftIn(W, 1, v.lastRaw, v.raw) \in Vec(W)
    BY <1>1, MoveOps
  <2> QED
    BY <2>1, <2>2
<1>11. v.off1hi \in [Lane(W) -> 0..15]
  <2>1. v.off1hi = ShiftIn(W, 1, v.lastHigh, v.high)
    BY VectorFields DEF Off1Hi
  <2>2. ShiftIn(W, 1, v.lastHigh, v.high) \in [Lane(W) -> 0..15]
    BY <1>1, <1>3, ShiftType, Sizes
  <2> QED
    BY <2>1, <2>2
<1>12. v.init \in Vec(W) /\ v.sec \in Vec(W)
  BY <1>11, VectorFields, LookWays, TableTypes
<1> QED
  BY <1>1, <1>2, <1>3, <1>4, <1>6, <1>7, <1>9, <1>10, <1>11, <1>12

\* The sum of bytes does not depend on their order.
LEMMA AddBSwap ==
  ASSUME NEW u \in Vec(W), NEW v \in Vec(W)
  PROVE  AddB(W, u, v) = AddB(W, v, u)
<1>1. \A i \in Lane(W) : u[i] \in Int /\ v[i] \in Int
  BY DEF Vec, Byte
<1>2. \A a, b \in Int : a + b = b + a
  OBVIOUS
<1> QED
  BY <1>1, <1>2 DEF AddB

\* The instructions of the ports lead to these vectors.
LEMMA VectorWays ==
  ASSUME NEW raw \in Vec(W), NEW last \in Regs(W), NEW e \in Vec(W),
         NEW v, v = Vectors(raw, last, e)
  PROVE  Ways(v)
<1>1. 1 \in Byte /\ 2 \in Byte /\ 244 \in Byte
  BY DEF Byte
<1>2. /\ AndB(Every(15), Srl4W(v.raw)) = v.high
      /\ HighByByte(W, v.raw) = v.high
      /\ SrlB(v.raw, Every(4)) = v.high
  BY VectorFields, VectorTypes, HighWays
<1>3. /\ SubSatB(v.raw, Every(244)) = v.excess
      /\ SubB(v.raw, MinB(v.raw, Every(244))) = v.excess
      /\ SubSatB(v.in1, Every(1)) = v.less1
      /\ SubB(v.in1, MinB(v.in1, Every(1))) = v.less1
      /\ SubSatB(v.in2, Every(2)) = v.less2
      /\ SubB(v.in2, MinB(v.in2, Every(2))) = v.less2
      /\ OrB(v.raw, v.raw) = v.raw /\ OrB(v.high, v.high) = v.high /\ OrB(v.carry, v.carry) = v.carry
  <2>1. /\ v.raw \in Vec(W) /\ v.in1 \in Vec(W) /\ v.in2 \in Vec(W) /\ v.high \in Vec(W)
        /\ v.carry \in Vec(W)
    BY VectorTypes
  <2>2. /\ v.excess = SubSat(W, v.raw, 244) /\ v.less1 = SubSat(W, v.in1, 1)
        /\ v.less2 = SubSat(W, v.in2, 2)
    BY VectorFields
  <2> QED
    BY <1>1, <2>1, <2>2, SubWays
<1>4. /\ Pick(Entries(contLenN), v.high) = v.len
      /\ Pick(Entries(initMinsN), v.off1hi) = v.init
      /\ Pick(Entries(secMinsN), v.off1hi) = v.sec
      /\ W = 32 =>
           /\ PickHalves(Entries(Twice(contLenN)), v.high) = v.len
           /\ PickHalves(Entries(Twice(initMinsN)), v.off1hi) = v.init
           /\ PickHalves(Entries(Twice(secMinsN)), v.off1hi) = v.sec
  <2>1. v.high \in [Lane(W) -> 0..15] /\ v.off1hi \in [Lane(W) -> 0..15]
    BY VectorTypes
  <2>2. /\ v.len = Lookup(W, contLenN, v.high) /\ v.init = Lookup(W, initMinsN, v.off1hi)
        /\ v.sec = Lookup(W, secMinsN, v.off1hi)
    BY VectorFields DEF Lens
  <2> QED
    BY <2>1, <2>2, LookWays, TableTypes
<1>5. /\ ShiftIn(W, 1, v.lastCarry, v.len) = v.in1
      /\ AlignHalves(1, HighThenLow(v.lastCarry, v.len), v.len) = v.in1
      /\ ShiftIn(W, 2, v.lastCarry, v.sum) = v.in2
      /\ AlignHalves(2, HighThenLow(v.lastCarry, v.sum), v.sum) = v.in2
      /\ ShiftIn(W, 1, v.lastRaw, v.raw) = v.off1
      /\ AlignHalves(1, HighThenLow(v.lastRaw, v.raw), v.raw) = v.off1
      /\ ShiftIn(W, 1, v.lastHigh, v.high) = v.off1hi
      /\ AlignHalves(1, HighThenLow(v.lastHigh, v.high), v.high) = v.off1hi
  <2>1. /\ v.lastCarry \in Vec(W) /\ v.len \in Vec(W) /\ v.sum \in Vec(W) /\ v.lastRaw \in Vec(W)
        /\ v.raw \in Vec(W) /\ v.lastHigh \in Vec(W) /\ v.high \in Vec(W)
    BY VectorTypes
  <2>2. /\ v.in1 = ShiftIn(W, 1, v.lastCarry, v.len) /\ v.in2 = ShiftIn(W, 2, v.lastCarry, v.sum)
        /\ v.off1 = ShiftIn(W, 1, v.lastRaw, v.raw)
        /\ v.off1hi = ShiftIn(W, 1, v.lastHigh, v.high)
    BY VectorFields DEF Off1, Off1Hi
  <2>3. \A u, t \in Vec(W) : \A k \in {1, 2} :
          AlignHalves(k, HighThenLow(u, t), t) = ShiftIn(W, k, u, t)
    BY MoveOps
  <2> QED
    BY <2>1, <2>2, <2>3
<1>6. AddB(W, v.len, v.less1) = v.sum
  BY VectorFields DEF Sum
<1>7. AddB(W, v.less2, v.sum) = v.carry
  <2>1. v.carry = AddB(W, v.sum, v.less2)
    BY VectorFields DEF Carry
  <2> QED
    BY <2>1, VectorTypes, AddBSwap
<1>8. /\ OrB(v.excess, v.err0) = v.err1 /\ OrB(v.gap, v.err1) = v.err2
      /\ OrB(v.half, v.err2) = v.err3 /\ OrB(v.beyond, v.err3) = v.err4
      /\ OrB(v.long, v.err4) = v.err5
      /\ GtB(v.carry, v.len) = v.more /\ GtB(v.len, Zero(W)) = v.lead
      /\ EqB(v.lead, v.more) = v.gap
      /\ EqB(Every(237), v.off1) = v.isED /\ GtB(v.raw, Every(159)) = v.over9F
      /\ AndB(v.over9F, v.isED) = v.half
      /\ EqB(Every(244), v.off1) = v.isF4 /\ GtB(v.raw, Every(143)) = v.over8F
      /\ AndB(v.over8F, v.isF4) = v.beyond
      /\ GtB(v.init, v.off1) = v.first /\ GtB(v.sec, v.raw) = v.second
      /\ AndB(v.second, v.first) = v.long
  BY VectorFields
<1> QED
  BY <1>2, <1>3, <1>4, <1>5, <1>6, <1>7, <1>8 DEF Ways

\* The error register gains a bit in the lanes that BadLane speaks of.
LEMMA VectorErrors ==
  ASSUME NEW raw \in Vec(W), NEW last \in Regs(W), NEW e \in Vec(W),
         NEW v, v = Vectors(raw, last, e)
  PROVE  /\ v.err5 \in Vec(W)
         /\ Hot(v.err5) = Hot(e) \cup {i \in Lane(W) : BadLane(W, raw, last, i)}
<1>1. /\ v.more \in Masks /\ v.lead \in Masks /\ v.isED \in Masks /\ v.over9F \in Masks
      /\ v.isF4 \in Masks /\ v.over8F \in Masks /\ v.first \in Masks /\ v.second \in Masks
      /\ v.gap \in Masks /\ Masks \subseteq Vec(W)
  <2>1. \A u, t : EqB(u, t) \in Masks /\ GtB(u, t) \in Masks
    BY DEF EqB, GtB, Masks
  <2>2. Masks \subseteq Vec(W)
    BY VectorTypes, LaneOps
  <2> QED
    BY <2>1, <2>2, VectorFields
<1>2. v.half \in Vec(W) /\ v.beyond \in Vec(W) /\ v.long \in Vec(W)
  BY <1>1, VectorFields, LaneOps
<1>3. /\ v.err1 \in Vec(W) /\ v.err2 \in Vec(W) /\ v.err3 \in Vec(W) /\ v.err4 \in Vec(W)
      /\ v.err5 \in Vec(W)
  <2>1. v.err1 \in Vec(W)
    BY VectorFields, VectorTypes, LaneOps
  <2>2. v.err2 \in Vec(W)
    BY <1>1, <2>1, VectorFields, LaneOps
  <2>3. v.err3 \in Vec(W)
    BY <1>2, <2>2, VectorFields, LaneOps
  <2>4. v.err4 \in Vec(W)
    BY <1>2, <2>3, VectorFields, LaneOps
  <2>5. v.err5 \in Vec(W)
    BY <1>2, <2>4, VectorFields, LaneOps
  <2> QED
    BY <2>1, <2>2, <2>3, <2>4, <2>5
<1>4. Hot(v.err5) = Hot(v.long) \cup (Hot(v.beyond) \cup (Hot(v.half) \cup
                      (Hot(v.gap) \cup (Hot(v.excess) \cup Hot(e)))))
  <2>1. Hot(v.err1) = Hot(v.excess) \cup Hot(e)
    BY VectorFields, VectorTypes, HotOr
  <2>2. Hot(v.err2) = Hot(v.gap) \cup Hot(v.err1)
    BY <1>1, <1>3, VectorFields, HotOr
  <2>3. Hot(v.err3) = Hot(v.half) \cup Hot(v.err2)
    BY <1>2, <1>3, VectorFields, HotOr
  <2>4. Hot(v.err4) = Hot(v.beyond) \cup Hot(v.err3)
    BY <1>2, <1>3, VectorFields, HotOr
  <2>5. Hot(v.err5) = Hot(v.long) \cup Hot(v.err4)
    BY <1>2, <1>3, VectorFields, HotOr
  <2> QED
    BY <2>1, <2>2, <2>3, <2>4, <2>5
<1>5. Hot(v.excess) = {i \in Lane(W) : SubSat(W, raw, 244)[i] # 0}
  BY VectorFields DEF Hot
<1>6. Hot(v.gap) = {i \in Lane(W) : GtS(Carry(W, raw, last.carry)[i], Lens(W, raw)[i])
                                      <=> GtS(Lens(W, raw)[i], 0)}
  <2>1. /\ Hot(v.more) = {i \in Lane(W) : GtS(v.carry[i], v.len[i])}
        /\ Hot(v.lead) = {i \in Lane(W) : GtS(v.len[i], Zero(W)[i])}
    BY VectorFields, HotCompare
  <2>2. Hot(v.gap) = {i \in Lane(W) : i \in Hot(v.lead) <=> i \in Hot(v.more)}
    BY <1>1, VectorFields, HotMasks
  <2>3. \A i \in Lane(W) : Zero(W)[i] = 0
    BY DEF Zero
  <2>4. v.carry = Carry(W, raw, last.carry) /\ v.len = Lens(W, raw)
    BY VectorFields
  <2> QED
    BY <2>1, <2>2, <2>3, <2>4
<1>7. \A i \in Lane(W) : /\ Every(237)[i] = 237 /\ Every(159)[i] = 159
                         /\ Every(244)[i] = 244 /\ Every(143)[i] = 143
  BY DEF Every
<1>8. Hot(v.half) = {i \in Lane(W) : Off1(W, raw, last)[i] = 237 /\ GtS(raw[i], 159)}
  <2>1. /\ Hot(v.isED) = {i \in Lane(W) : Every(237)[i] = v.off1[i]}
        /\ Hot(v.over9F) = {i \in Lane(W) : GtS(v.raw[i], Every(159)[i])}
    BY VectorFields, HotCompare
  <2>2. Hot(v.half) = Hot(v.over9F) \cap Hot(v.isED)
    BY <1>1, VectorFields, HotMasks
  <2>3. v.off1 = Off1(W, raw, last) /\ v.raw = raw
    BY VectorFields
  <2> QED
    BY <1>7, <2>1, <2>2, <2>3
<1>9. Hot(v.beyond) = {i \in Lane(W) : Off1(W, raw, last)[i] = 244 /\ GtS(raw[i], 143)}
  <2>1. /\ Hot(v.isF4) = {i \in Lane(W) : Every(244)[i] = v.off1[i]}
        /\ Hot(v.over8F) = {i \in Lane(W) : GtS(v.raw[i], Every(143)[i])}
    BY VectorFields, HotCompare
  <2>2. Hot(v.beyond) = Hot(v.over8F) \cap Hot(v.isF4)
    BY <1>1, VectorFields, HotMasks
  <2>3. v.off1 = Off1(W, raw, last) /\ v.raw = raw
    BY VectorFields
  <2> QED
    BY <1>7, <2>1, <2>2, <2>3
<1>10. Hot(v.long) =
         {i \in Lane(W) :
            /\ GtS(Lookup(W, initMinsN, Off1Hi(W, raw, last))[i], Off1(W, raw, last)[i])
            /\ GtS(Lookup(W, secMinsN, Off1Hi(W, raw, last))[i], raw[i])}
  <2>1. /\ Hot(v.first) = {i \in Lane(W) : GtS(v.init[i], v.off1[i])}
        /\ Hot(v.second) = {i \in Lane(W) : GtS(v.sec[i], v.raw[i])}
    BY VectorFields, HotCompare
  <2>2. Hot(v.long) = Hot(v.second) \cap Hot(v.first)
    BY <1>1, VectorFields, HotMasks
  <2>3. /\ v.off1 = Off1(W, raw, last) /\ v.raw = raw
        /\ v.init = Lookup(W, initMinsN, Off1Hi(W, raw, last))
        /\ v.sec = Lookup(W, secMinsN, Off1Hi(W, raw, last))
    BY VectorFields
  <2> QED
    BY <2>1, <2>2, <2>3
<1> QED
  BY <1>3, <1>4, <1>5, <1>6, <1>8, <1>9, <1>10 DEF BadLane

\* The names of the SSE kernel, and the constants it keeps in them.
LEMMA FileSSE ==
  /\ Home("SSE") = [block |-> "X0", err |-> "X15", raw |-> "X13", high |-> "X14",
                           carry |-> "X12"]
  /\ DOMAIN Constants("SSE") = {"c0F", "c01", "c02", "cF4", "cED", "c9F", "c8F",
                                  "c00", "contLen", "initMins", "secMins"}
  /\ DOMAIN Cleared("SSE") = {"X15", "X13", "X14", "X12"}
  /\ Scratch("SSE") = {"X0", "X1", "X2", "X3", "X4", "X5", "X6", "X7", "X8", "X9",
                         "X10", "X11"}
  /\ Constants("SSE")["c0F"] = Every(15) /\ Constants("SSE")["c01"] = Every(1)
  /\ Constants("SSE")["c02"] = Every(2) /\ Constants("SSE")["cF4"] = Every(244)
  /\ Constants("SSE")["cED"] = Every(237) /\ Constants("SSE")["c9F"] = Every(159)
  /\ Constants("SSE")["c8F"] = Every(143) /\ Constants("SSE")["c00"] = Zero(W)
  /\ Constants("SSE")["contLen"] = Entries(contLenN)
  /\ Constants("SSE")["initMins"] = Entries(initMinsN)
  /\ Constants("SSE")["secMins"] = Entries(secMinsN) /\ Len(validBlocksSSE) = 60
<1>1. Home("SSE") = [block |-> "X0", err |-> "X15", raw |-> "X13", high |-> "X14",
                     carry |-> "X12"]
  BY Zenon DEF Home
<1>2. Code("SSE") = SSE
  BY Zenon DEF Code
<1>3. /\ SSE.lens = contLenN /\ SSE.inits = initMinsN
      /\ SSE.secs = secMinsN
  BY DEF SSE, contLen, initMins, secMins, contLenN, initMinsN, secMinsN
<1>4. Loaded("SSE") = [contLen |-> Entries(Code("SSE").lens),
   initMins |-> Entries(Code("SSE").inits), secMins |-> Entries(Code("SSE").secs)]
  BY ZenonT(60) DEF Loaded
<1>5. Scratch("SSE") = {"X0", "X1", "X2", "X3", "X4", "X5", "X6", "X7", "X8", "X9",
                         "X10", "X11"}
  BY Zenon DEF Scratch
<1>6. DOMAIN Constants("SSE") = {"c0F", "c01", "c02", "cF4", "cED", "c9F", "c8F",
                                  "c00", "contLen", "initMins", "secMins"}
  BY <1>4 DEF Constants, Over, Memory
<1>7. DOMAIN Cleared("SSE") = {"X15", "X13", "X14", "X12"}
  BY <1>1 DEF Cleared
<1>8. /\ Constants("SSE")["c0F"] = Every(15) /\ Constants("SSE")["c01"] = Every(1)
      /\ Constants("SSE")["c02"] = Every(2) /\ Constants("SSE")["cF4"] = Every(244)
      /\ Constants("SSE")["cED"] = Every(237) /\ Constants("SSE")["c9F"] = Every(159)
      /\ Constants("SSE")["c8F"] = Every(143) /\ Constants("SSE")["c00"] = Zero(W)
      /\ Constants("SSE")["contLen"] = Entries(contLenN)
      /\ Constants("SSE")["initMins"] = Entries(initMinsN)
      /\ Constants("SSE")["secMins"] = Entries(secMinsN)
  BY <1>2, <1>3, <1>4 DEF Constants, Over, Memory
<1>9. Len(validBlocksSSE) = 60
  BY DEF validBlocksSSE, Onto
<1> QED
  BY <1>1, <1>5, <1>6, <1>7, <1>8, <1>9

\* The loop body of the SSE kernel: what it leaves in the registers.
LEMMA BodySSE ==
  ASSUME NEW f, Steady("SSE", f), NEW v, Ways(v),
         f["X0"] = v.raw, f["X15"] = v.err0,
         f["X13"] = v.lastRaw, f["X14"] = v.lastHigh, f["X12"] = v.lastCarry
  PROVE  /\ Steady("SSE", Run(f, validBlocksSSE))
         /\ Run(f, validBlocksSSE)["X13"] = v.raw /\ Run(f, validBlocksSSE)["X14"] = v.high
         /\ Run(f, validBlocksSSE)["X12"] = v.carry /\ Run(f, validBlocksSSE)["X15"] = v.err5
<1> DEFINE R     == Names("SSE")
           Fixed == {"c0F", "c01", "c02", "cF4", "cED", "c9F", "c8F", "c00", "contLen",
                     "initMins", "secMins", "X0", "X13", "X14", "X12"}
<1>1. Len(validBlocksSSE) = 60
  BY FileSSE
<1>2. PICK a : /\ a[0] = f /\ a[60] = Run(f, validBlocksSSE)
               /\ \A k \in 1..60 : a[k] = Execute(a[k - 1], validBlocksSSE[k])
  <2>1. Len(validBlocksSSE) \in Nat
    BY <1>1
  <2>2. PICK a : Traces(a, f, validBlocksSSE, Len(validBlocksSSE))
    BY <2>1, Runs
  <2> QED
    BY <1>1, <2>2 DEF Traces
<1>3. /\ {"c0F", "c01", "c02", "cF4", "cED", "c9F", "c8F", "c00", "contLen",
          "initMins", "secMins", "X0", "X1", "X2", "X3", "X4", "X5", "X6", "X7", "X8",
          "X9", "X10", "X11", "X15", "X13", "X14", "X12"} \subseteq R
      /\ f \in [R -> Vec(W)] /\ DOMAIN Constants("SSE") \subseteq Fixed
  BY FileSSE DEF Steady, Names
<1>4. /\ f["c0F"] = Every(15) /\ f["c01"] = Every(1) /\ f["c02"] = Every(2)
      /\ f["cF4"] = Every(244) /\ f["cED"] = Every(237) /\ f["c9F"] = Every(159)
      /\ f["c8F"] = Every(143) /\ f["c00"] = Zero(W) /\ f["contLen"] = Entries(contLenN)
      /\ f["initMins"] = Entries(initMinsN) /\ f["secMins"] = Entries(secMinsN)
  BY FileSSE DEF Steady
\* The register file after k instructions.
<1> DEFINE g0 == a[0]  g1 == a[1]  g2 == a[2]  g3 == a[3]  g4 == a[4]  g5 == a[5]
           g6 == a[6]  g7 == a[7]  g8 == a[8]  g9 == a[9]  g10 == a[10]  g11 == a[11]
           g12 == a[12]  g13 == a[13]  g14 == a[14]  g15 == a[15]  g16 == a[16]  g17 == a[17]
           g18 == a[18]  g19 == a[19]  g20 == a[20]  g21 == a[21]  g22 == a[22]  g23 == a[23]
           g24 == a[24]  g25 == a[25]  g26 == a[26]  g27 == a[27]  g28 == a[28]  g29 == a[29]
           g30 == a[30]  g31 == a[31]  g32 == a[32]  g33 == a[33]  g34 == a[34]  g35 == a[35]
           g36 == a[36]  g37 == a[37]  g38 == a[38]  g39 == a[39]  g40 == a[40]  g41 == a[41]
           g42 == a[42]  g43 == a[43]  g44 == a[44]  g45 == a[45]  g46 == a[46]  g47 == a[47]
           g48 == a[48]  g49 == a[49]  g50 == a[50]  g51 == a[51]  g52 == a[52]  g53 == a[53]
           g54 == a[54]  g55 == a[55]  g56 == a[56]  g57 == a[57]  g58 == a[58]  g59 == a[59]
           g60 == a[60]
<1> HIDE DEF R, g0, g1, g2, g3, g4, g5, g6, g7, g8, g9, g10, g11, g12, g13, g14, g15, g16,
   g17, g18, g19, g20, g21, g22, g23, g24, g25, g26, g27, g28, g29, g30, g31, g32, g33, g34,
   g35, g36, g37, g38, g39, g40, g41, g42, g43, g44, g45, g46, g47, g48, g49, g50, g51, g52,
   g53, g54, g55, g56, g57, g58, g59, g60
<1> DEFINE Live(g) == g \in [R -> Vec(W)] /\ \A r \in Fixed : g[r] = f[r]
<1>5. Live(g0) /\ g0["X15"] = v.err0
  BY <1>2, <1>3 DEF g0
<1>6. /\ Live(g4) /\ g4["X15"] = v.err0 /\ g4["X1"] = v.high
  <2>1. Puts(R, g0, g1, "X1", v.raw)
    <3>1. g1 = Execute(g0, << "MOVO", "X0", "X1" >>)
      BY <1>2 DEF g0, g1, validBlocksSSE
    <3>2. /\ g0 \in [R -> Vec(W)] /\ "X0" \in R /\ "X1" \in R
          /\ g0["X0"] = v.raw
      BY <1>3, <1>4, <1>5 DEF Puts
    <3> QED
      BY <3>1, <3>2, DoMove, Zenon
  <2>2. Puts(R, g1, g2, "X1", Srl4W(v.raw))
    <3>1. g2 = Execute(g1, << "PSRLW_4", "X1", "X1" >>)
      BY <1>2 DEF g1, g2, validBlocksSSE
    <3>2. /\ g1 \in [R -> Vec(W)] /\ "X1" \in R
          /\ Srl4W(g1["X1"]) = Srl4W(v.raw)
      BY <1>3, <1>4, <1>5, <2>1 DEF Puts
    <3> QED
      BY <3>1, <3>2, DoSrl4, Zenon
  <2>3. Puts(R, g2, g3, "X2", f["c0F"])
    <3>1. g3 = Execute(g2, << "MOVOU", "c0F", "X2" >>)
      BY <1>2 DEF g2, g3, validBlocksSSE
    <3>2. /\ g2 \in [R -> Vec(W)] /\ "c0F" \in R /\ "X2" \in R
          /\ g2["c0F"] = f["c0F"]
      BY <1>3, <1>4, <1>5, <2>1, <2>2 DEF Puts
    <3> QED
      BY <3>1, <3>2, DoMove, Zenon
  <2>4. Puts(R, g3, g4, "X1", v.high)
    <3>1. g4 = Execute(g3, << "PAND", "X2", "X1", "X1" >>)
      BY <1>2 DEF g3, g4, validBlocksSSE, Onto
    <3>2. /\ g3 \in [R -> Vec(W)] /\ "X2" \in R /\ "X1" \in R
          /\ AndB(g3["X2"], g3["X1"]) = v.high
      BY <1>3, <1>4, <1>5, <2>1, <2>2, <2>3 DEF Puts, Ways
    <3> QED
      BY <3>1, <3>2, DoAnd, Zenon
  <2> QED
    BY <1>5, <1>3, <2>1, <2>2, <2>3, <2>4 DEF Puts
<1>7. /\ Live(g8) /\ g8["X15"] = v.err1 /\ g8["X1"] = v.high
  <2>1. Puts(R, g4, g5, "X3", v.raw)
    <3>1. g5 = Execute(g4, << "MOVO", "X0", "X3" >>)
      BY <1>2 DEF g4, g5, validBlocksSSE
    <3>2. /\ g4 \in [R -> Vec(W)] /\ "X0" \in R /\ "X3" \in R
          /\ g4["X0"] = v.raw
      BY <1>3, <1>4, <1>6 DEF Puts
    <3> QED
      BY <3>1, <3>2, DoMove, Zenon
  <2>2. Puts(R, g5, g6, "X4", f["cF4"])
    <3>1. g6 = Execute(g5, << "MOVOU", "cF4", "X4" >>)
      BY <1>2 DEF g5, g6, validBlocksSSE
    <3>2. /\ g5 \in [R -> Vec(W)] /\ "cF4" \in R /\ "X4" \in R
          /\ g5["cF4"] = f["cF4"]
      BY <1>3, <1>4, <1>6, <2>1 DEF Puts
    <3> QED
      BY <3>1, <3>2, DoMove, Zenon
  <2>3. Puts(R, g6, g7, "X3", v.excess)
    <3>1. g7 = Execute(g6, << "PSUBUSB", "X4", "X3", "X3" >>)
      BY <1>2 DEF g6, g7, validBlocksSSE, Onto
    <3>2. /\ g6 \in [R -> Vec(W)] /\ "X4" \in R /\ "X3" \in R
          /\ SubSatB(g6["X3"], g6["X4"]) = v.excess
      BY <1>3, <1>4, <1>6, <2>1, <2>2 DEF Puts, Ways
    <3> QED
      BY <3>1, <3>2, DoSubSat, Zenon
  <2>4. Puts(R, g7, g8, "X15", v.err1)
    <3>1. g8 = Execute(g7, << "POR", "X3", "X15", "X15" >>)
      BY <1>2 DEF g7, g8, validBlocksSSE, Onto
    <3>2. /\ g7 \in [R -> Vec(W)] /\ "X3" \in R /\ "X15" \in R
          /\ OrB(g7["X3"], g7["X15"]) = v.err1
      BY <1>3, <1>4, <1>6, <2>1, <2>2, <2>3 DEF Puts, Ways
    <3> QED
      BY <3>1, <3>2, DoOr, Zenon
  <2> QED
    BY <1>6, <1>3, <2>1, <2>2, <2>3, <2>4 DEF Puts
<1>8. /\ Live(g10) /\ g10["X15"] = v.err1 /\ g10["X1"] = v.high /\ g10["X2"] = v.len
  <2>1. Puts(R, g8, g9, "X2", f["contLen"])
    <3>1. g9 = Execute(g8, << "MOVOU", "contLen", "X2" >>)
      BY <1>2 DEF g8, g9, validBlocksSSE
    <3>2. /\ g8 \in [R -> Vec(W)] /\ "contLen" \in R /\ "X2" \in R
          /\ g8["contLen"] = f["contLen"]
      BY <1>3, <1>4, <1>7 DEF Puts
    <3> QED
      BY <3>1, <3>2, DoMove, Zenon
  <2>2. Puts(R, g9, g10, "X2", v.len)
    <3>1. g10 = Execute(g9, << "PSHUFB", "X1", "X2", "X2" >>)
      BY <1>2 DEF g9, g10, validBlocksSSE, Onto
    <3>2. /\ g9 \in [R -> Vec(W)] /\ "X1" \in R /\ "X2" \in R
          /\ Pick(g9["X2"], g9["X1"]) = v.len
      BY <1>3, <1>4, <1>7, <2>1 DEF Puts, Ways
    <3> QED
      BY <3>1, <3>2, DoPick, Zenon
  <2> QED
    BY <1>7, <1>3, <2>1, <2>2 DEF Puts
<1>9. /\ Live(g15) /\ g15["X15"] = v.err1 /\ g15["X1"] = v.high /\ g15["X2"] = v.len
       /\ g15["X3"] = v.sum
  <2>1. Puts(R, g10, g11, "X3", v.len)
    <3>1. g11 = Execute(g10, << "MOVO", "X2", "X3" >>)
      BY <1>2 DEF g10, g11, validBlocksSSE
    <3>2. /\ g10 \in [R -> Vec(W)] /\ "X2" \in R /\ "X3" \in R
          /\ g10["X2"] = v.len
      BY <1>3, <1>4, <1>8 DEF Puts
    <3> QED
      BY <3>1, <3>2, DoMove, Zenon
  <2>2. Puts(R, g11, g12, "X4", v.lastCarry)
    <3>1. g12 = Execute(g11, << "MOVO", "X12", "X4" >>)
      BY <1>2 DEF g11, g12, validBlocksSSE
    <3>2. /\ g11 \in [R -> Vec(W)] /\ "X12" \in R /\ "X4" \in R
          /\ g11["X12"] = v.lastCarry
      BY <1>3, <1>4, <1>8, <2>1 DEF Puts
    <3> QED
      BY <3>1, <3>2, DoMove, Zenon
  <2>3. Puts(R, g12, g13, "X3", v.in1)
    <3>1. g13 = Execute(g12, << "PALIGNR_15", "X4", "X3", "X3" >>)
      BY <1>2 DEF g12, g13, validBlocksSSE, Onto
    <3>2. /\ g12 \in [R -> Vec(W)] /\ "X4" \in R /\ "X3" \in R
          /\ ShiftIn(W, 1, g12["X4"], g12["X3"]) = v.in1
      BY <1>3, <1>4, <1>8, <2>1, <2>2 DEF Puts, Ways
    <3> QED
      BY <3>1, <3>2, DoIn1, Zenon
  <2>4. Puts(R, g13, g14, "X3", v.less1)
    <3>1. g14 = Execute(g13, << "PSUBUSB", "c01", "X3", "X3" >>)
      BY <1>2 DEF g13, g14, validBlocksSSE, Onto
    <3>2. /\ g13 \in [R -> Vec(W)] /\ "c01" \in R /\ "X3" \in R
          /\ SubSatB(g13["X3"], g13["c01"]) = v.less1
      BY <1>3, <1>4, <1>8, <2>1, <2>2, <2>3 DEF Puts, Ways
    <3> QED
      BY <3>1, <3>2, DoSubSat, Zenon
  <2>5. Puts(R, g14, g15, "X3", v.sum)
    <3>1. g15 = Execute(g14, << "PADDB", "X2", "X3", "X3" >>)
      BY <1>2 DEF g14, g15, validBlocksSSE, Onto
    <3>2. /\ g14 \in [R -> Vec(W)] /\ "X2" \in R /\ "X3" \in R
          /\ AddB(W, g14["X2"], g14["X3"]) = v.sum
      BY <1>3, <1>4, <1>8, <2>1, <2>2, <2>3, <2>4 DEF Puts, Ways
    <3> QED
      BY <3>1, <3>2, DoAdd, Zenon
  <2> QED
    BY <1>8, <1>3, <2>1, <2>2, <2>3, <2>4, <2>5 DEF Puts
<1>10. /\ Live(g20) /\ g20["X15"] = v.err1 /\ g20["X1"] = v.high /\ g20["X2"] = v.len
       /\ g20["X3"] = v.carry
  <2>1. Puts(R, g15, g16, "X5", v.sum)
    <3>1. g16 = Execute(g15, << "MOVO", "X3", "X5" >>)
      BY <1>2 DEF g15, g16, validBlocksSSE
    <3>2. /\ g15 \in [R -> Vec(W)] /\ "X3" \in R /\ "X5" \in R
          /\ g15["X3"] = v.sum
      BY <1>3, <1>4, <1>9 DEF Puts
    <3> QED
      BY <3>1, <3>2, DoMove, Zenon
  <2>2. Puts(R, g16, g17, "X4", v.lastCarry)
    <3>1. g17 = Execute(g16, << "MOVO", "X12", "X4" >>)
      BY <1>2 DEF g16, g17, validBlocksSSE
    <3>2. /\ g16 \in [R -> Vec(W)] /\ "X12" \in R /\ "X4" \in R
          /\ g16["X12"] = v.lastCarry
      BY <1>3, <1>4, <1>9, <2>1 DEF Puts
    <3> QED
      BY <3>1, <3>2, DoMove, Zenon
  <2>3. Puts(R, g17, g18, "X5", v.in2)
    <3>1. g18 = Execute(g17, << "PALIGNR_14", "X4", "X5", "X5" >>)
      BY <1>2 DEF g17, g18, validBlocksSSE, Onto
    <3>2. /\ g17 \in [R -> Vec(W)] /\ "X4" \in R /\ "X5" \in R
          /\ ShiftIn(W, 2, g17["X4"], g17["X5"]) = v.in2
      BY <1>3, <1>4, <1>9, <2>1, <2>2 DEF Puts, Ways
    <3> QED
      BY <3>1, <3>2, DoIn2, Zenon
  <2>4. Puts(R, g18, g19, "X5", v.less2)
    <3>1. g19 = Execute(g18, << "PSUBUSB", "c02", "X5", "X5" >>)
      BY <1>2 DEF g18, g19, validBlocksSSE, Onto
    <3>2. /\ g18 \in [R -> Vec(W)] /\ "c02" \in R /\ "X5" \in R
          /\ SubSatB(g18["X5"], g18["c02"]) = v.less2
      BY <1>3, <1>4, <1>9, <2>1, <2>2, <2>3 DEF Puts, Ways
    <3> QED
      BY <3>1, <3>2, DoSubSat, Zenon
  <2>5. Puts(R, g19, g20, "X3", v.carry)
    <3>1. g20 = Execute(g19, << "PADDB", "X5", "X3", "X3" >>)
      BY <1>2 DEF g19, g20, validBlocksSSE, Onto
    <3>2. /\ g19 \in [R -> Vec(W)] /\ "X5" \in R /\ "X3" \in R
          /\ AddB(W, g19["X5"], g19["X3"]) = v.carry
      BY <1>3, <1>4, <1>9, <2>1, <2>2, <2>3, <2>4 DEF Puts, Ways
    <3> QED
      BY <3>1, <3>2, DoAdd, Zenon
  <2> QED
    BY <1>9, <1>3, <2>1, <2>2, <2>3, <2>4, <2>5 DEF Puts
<1>11. /\ Live(g27) /\ g27["X15"] = v.err2 /\ g27["X1"] = v.high /\ g27["X3"] = v.carry
  <2>1. Puts(R, g20, g21, "X5", v.carry)
    <3>1. g21 = Execute(g20, << "MOVO", "X3", "X5" >>)
      BY <1>2 DEF g20, g21, validBlocksSSE
    <3>2. /\ g20 \in [R -> Vec(W)] /\ "X3" \in R /\ "X5" \in R
          /\ g20["X3"] = v.carry
      BY <1>3, <1>4, <1>10 DEF Puts
    <3> QED
      BY <3>1, <3>2, DoMove, Zenon
  <2>2. Puts(R, g21, g22, "X5", v.more)
    <3>1. g22 = Execute(g21, << "PCMPGTB", "X2", "X5", "X5" >>)
      BY <1>2 DEF g21, g22, validBlocksSSE, Onto
    <3>2. /\ g21 \in [R -> Vec(W)] /\ "X2" \in R /\ "X5" \in R
          /\ GtB(g21["X5"], g21["X2"]) = v.more
      BY <1>3, <1>4, <1>10, <2>1 DEF Puts, Ways
    <3> QED
      BY <3>1, <3>2, DoGt, Zenon
  <2>3. Puts(R, g22, g23, "X6", v.len)
    <3>1. g23 = Execute(g22, << "MOVO", "X2", "X6" >>)
      BY <1>2 DEF g22, g23, validBlocksSSE
    <3>2. /\ g22 \in [R -> Vec(W)] /\ "X2" \in R /\ "X6" \in R
          /\ g22["X2"] = v.len
      BY <1>3, <1>4, <1>10, <2>1, <2>2 DEF Puts
    <3> QED
      BY <3>1, <3>2, DoMove, Zenon
  <2>4. Puts(R, g23, g24, "X7", f["c00"])
    <3>1. g24 = Execute(g23, << "MOVOU", "c00", "X7" >>)
      BY <1>2 DEF g23, g24, validBlocksSSE
    <3>2. /\ g23 \in [R -> Vec(W)] /\ "c00" \in R /\ "X7" \in R
          /\ g23["c00"] = f["c00"]
      BY <1>3, <1>4, <1>10, <2>1, <2>2, <2>3 DEF Puts
    <3> QED
      BY <3>1, <3>2, DoMove, Zenon
  <2>5. Puts(R, g24, g25, "X6", v.lead)
    <3>1. g25 = Execute(g24, << "PCMPGTB", "X7", "X6", "X6" >>)
      BY <1>2 DEF g24, g25, validBlocksSSE, Onto
    <3>2. /\ g24 \in [R -> Vec(W)] /\ "X7" \in R /\ "X6" \in R
          /\ GtB(g24["X6"], g24["X7"]) = v.lead
      BY <1>3, <1>4, <1>10, <2>1, <2>2, <2>3, <2>4 DEF Puts, Ways
    <3> QED
      BY <3>1, <3>2, DoGt, Zenon
  <2>6. Puts(R, g25, g26, "X5", v.gap)
    <3>1. g26 = Execute(g25, << "PCMPEQB", "X6", "X5", "X5" >>)
      BY <1>2 DEF g25, g26, validBlocksSSE, Onto
    <3>2. /\ g25 \in [R -> Vec(W)] /\ "X6" \in R /\ "X5" \in R
          /\ EqB(g25["X6"], g25["X5"]) = v.gap
      BY <1>3, <1>4, <1>10, <2>1, <2>2, <2>3, <2>4, <2>5 DEF Puts, Ways
    <3> QED
      BY <3>1, <3>2, DoEq, Zenon
  <2>7. Puts(R, g26, g27, "X15", v.err2)
    <3>1. g27 = Execute(g26, << "POR", "X5", "X15", "X15" >>)
      BY <1>2 DEF g26, g27, validBlocksSSE, Onto
    <3>2. /\ g26 \in [R -> Vec(W)] /\ "X5" \in R /\ "X15" \in R
          /\ OrB(g26["X5"], g26["X15"]) = v.err2
      BY <1>3, <1>4, <1>10, <2>1, <2>2, <2>3, <2>4, <2>5, <2>6 DEF Puts, Ways
    <3> QED
      BY <3>1, <3>2, DoOr, Zenon
  <2> QED
    BY <1>10, <1>3, <2>1, <2>2, <2>3, <2>4, <2>5, <2>6, <2>7 DEF Puts
<1>12. /\ Live(g30) /\ g30["X15"] = v.err2 /\ g30["X1"] = v.high /\ g30["X3"] = v.carry
       /\ g30["X8"] = v.off1
  <2>1. Puts(R, g27, g28, "X8", v.raw)
    <3>1. g28 = Execute(g27, << "MOVO", "X0", "X8" >>)
      BY <1>2 DEF g27, g28, validBlocksSSE
    <3>2. /\ g27 \in [R -> Vec(W)] /\ "X0" \in R /\ "X8" \in R
          /\ g27["X0"] = v.raw
      BY <1>3, <1>4, <1>11 DEF Puts
    <3> QED
      BY <3>1, <3>2, DoMove, Zenon
  <2>2. Puts(R, g28, g29, "X9", v.lastRaw)
    <3>1. g29 = Execute(g28, << "MOVO", "X13", "X9" >>)
      BY <1>2 DEF g28, g29, validBlocksSSE
    <3>2. /\ g28 \in [R -> Vec(W)] /\ "X13" \in R /\ "X9" \in R
          /\ g28["X13"] = v.lastRaw
      BY <1>3, <1>4, <1>11, <2>1 DEF Puts
    <3> QED
      BY <3>1, <3>2, DoMove, Zenon
  <2>3. Puts(R, g29, g30, "X8", v.off1)
    <3>1. g30 = Execute(g29, << "PALIGNR_15", "X9", "X8", "X8" >>)
      BY <1>2 DEF g29, g30, validBlocksSSE, Onto
    <3>2. /\ g29 \in [R -> Vec(W)] /\ "X9" \in R /\ "X8" \in R
          /\ ShiftIn(W, 1, g29["X9"], g29["X8"]) = v.off1
      BY <1>3, <1>4, <1>11, <2>1, <2>2 DEF Puts, Ways
    <3> QED
      BY <3>1, <3>2, DoIn1, Zenon
  <2> QED
    BY <1>11, <1>3, <2>1, <2>2, <2>3 DEF Puts
<1>13. /\ Live(g38) /\ g38["X15"] = v.err3 /\ g38["X1"] = v.high /\ g38["X3"] = v.carry
       /\ g38["X8"] = v.off1
  <2>1. Puts(R, g30, g31, "X9", v.off1)
    <3>1. g31 = Execute(g30, << "MOVO", "X8", "X9" >>)
      BY <1>2 DEF g30, g31, validBlocksSSE
    <3>2. /\ g30 \in [R -> Vec(W)] /\ "X8" \in R /\ "X9" \in R
          /\ g30["X8"] = v.off1
      BY <1>3, <1>4, <1>12 DEF Puts
    <3> QED
      BY <3>1, <3>2, DoMove, Zenon
  <2>2. Puts(R, g31, g32, "X10", f["cED"])
    <3>1. g32 = Execute(g31, << "MOVOU", "cED", "X10" >>)
      BY <1>2 DEF g31, g32, validBlocksSSE
    <3>2. /\ g31 \in [R -> Vec(W)] /\ "cED" \in R /\ "X10" \in R
          /\ g31["cED"] = f["cED"]
      BY <1>3, <1>4, <1>12, <2>1 DEF Puts
    <3> QED
      BY <3>1, <3>2, DoMove, Zenon
  <2>3. Puts(R, g32, g33, "X9", v.isED)
    <3>1. g33 = Execute(g32, << "PCMPEQB", "X10", "X9", "X9" >>)
      BY <1>2 DEF g32, g33, validBlocksSSE, Onto
    <3>2. /\ g32 \in [R -> Vec(W)] /\ "X10" \in R /\ "X9" \in R
          /\ EqB(g32["X10"], g32["X9"]) = v.isED
      BY <1>3, <1>4, <1>12, <2>1, <2>2 DEF Puts, Ways
    <3> QED
      BY <3>1, <3>2, DoEq, Zenon
  <2>4. Puts(R, g33, g34, "X10", v.raw)
    <3>1. g34 = Execute(g33, << "MOVO", "X0", "X10" >>)
      BY <1>2 DEF g33, g34, validBlocksSSE
    <3>2. /\ g33 \in [R -> Vec(W)] /\ "X0" \in R /\ "X10" \in R
          /\ g33["X0"] = v.raw
      BY <1>3, <1>4, <1>12, <2>1, <2>2, <2>3 DEF Puts
    <3> QED
      BY <3>1, <3>2, DoMove, Zenon
  <2>5. Puts(R, g34, g35, "X11", f["c9F"])
    <3>1. g35 = Execute(g34, << "MOVOU", "c9F", "X11" >>)
      BY <1>2 DEF g34, g35, validBlocksSSE
    <3>2. /\ g34 \in [R -> Vec(W)] /\ "c9F" \in R /\ "X11" \in R
          /\ g34["c9F"] = f["c9F"]
      BY <1>3, <1>4, <1>12, <2>1, <2>2, <2>3, <2>4 DEF Puts
    <3> QED
      BY <3>1, <3>2, DoMove, Zenon
  <2>6. Puts(R, g35, g36, "X10", v.over9F)
    <3>1. g36 = Execute(g35, << "PCMPGTB", "X11", "X10", "X10" >>)
      BY <1>2 DEF g35, g36, validBlocksSSE, Onto
    <3>2. /\ g35 \in [R -> Vec(W)] /\ "X11" \in R /\ "X10" \in R
          /\ GtB(g35["X10"], g35["X11"]) = v.over9F
      BY <1>3, <1>4, <1>12, <2>1, <2>2, <2>3, <2>4, <2>5 DEF Puts, Ways
    <3> QED
      BY <3>1, <3>2, DoGt, Zenon
  <2>7. Puts(R, g36, g37, "X9", v.half)
    <3>1. g37 = Execute(g36, << "PAND", "X10", "X9", "X9" >>)
      BY <1>2 DEF g36, g37, validBlocksSSE, Onto
    <3>2. /\ g36 \in [R -> Vec(W)] /\ "X10" \in R /\ "X9" \in R
          /\ AndB(g36["X10"], g36["X9"]) = v.half
      BY <1>3, <1>4, <1>12, <2>1, <2>2, <2>3, <2>4, <2>5, <2>6 DEF Puts, Ways
    <3> QED
      BY <3>1, <3>2, DoAnd, Zenon
  <2>8. Puts(R, g37, g38, "X15", v.err3)
    <3>1. g38 = Execute(g37, << "POR", "X9", "X15", "X15" >>)
      BY <1>2 DEF g37, g38, validBlocksSSE, Onto
    <3>2. /\ g37 \in [R -> Vec(W)] /\ "X9" \in R /\ "X15" \in R
          /\ OrB(g37["X9"], g37["X15"]) = v.err3
      BY <1>3, <1>4, <1>12, <2>1, <2>2, <2>3, <2>4, <2>5, <2>6, <2>7 DEF Puts, Ways
    <3> QED
      BY <3>1, <3>2, DoOr, Zenon
  <2> QED
    BY <1>12, <1>3, <2>1, <2>2, <2>3, <2>4, <2>5, <2>6, <2>7, <2>8 DEF Puts
<1>14. /\ Live(g46) /\ g46["X15"] = v.err4 /\ g46["X1"] = v.high /\ g46["X3"] = v.carry
       /\ g46["X8"] = v.off1
  <2>1. Puts(R, g38, g39, "X9", v.off1)
    <3>1. g39 = Execute(g38, << "MOVO", "X8", "X9" >>)
      BY <1>2 DEF g38, g39, validBlocksSSE
    <3>2. /\ g38 \in [R -> Vec(W)] /\ "X8" \in R /\ "X9" \in R
          /\ g38["X8"] = v.off1
      BY <1>3, <1>4, <1>13 DEF Puts
    <3> QED
      BY <3>1, <3>2, DoMove, Zenon
  <2>2. Puts(R, g39, g40, "X10", f["cF4"])
    <3>1. g40 = Execute(g39, << "MOVOU", "cF4", "X10" >>)
      BY <1>2 DEF g39, g40, validBlocksSSE
    <3>2. /\ g39 \in [R -> Vec(W)] /\ "cF4" \in R /\ "X10" \in R
          /\ g39["cF4"] = f["cF4"]
      BY <1>3, <1>4, <1>13, <2>1 DEF Puts
    <3> QED
      BY <3>1, <3>2, DoMove, Zenon
  <2>3. Puts(R, g40, g41, "X9", v.isF4)
    <3>1. g41 = Execute(g40, << "PCMPEQB", "X10", "X9", "X9" >>)
      BY <1>2 DEF g40, g41, validBlocksSSE, Onto
    <3>2. /\ g40 \in [R -> Vec(W)] /\ "X10" \in R /\ "X9" \in R
          /\ EqB(g40["X10"], g40["X9"]) = v.isF4
      BY <1>3, <1>4, <1>13, <2>1, <2>2 DEF Puts, Ways
    <3> QED
      BY <3>1, <3>2, DoEq, Zenon
  <2>4. Puts(R, g41, g42, "X10", v.raw)
    <3>1. g42 = Execute(g41, << "MOVO", "X0", "X10" >>)
      BY <1>2 DEF g41, g42, validBlocksSSE
    <3>2. /\ g41 \in [R -> Vec(W)] /\ "X0" \in R /\ "X10" \in R
          /\ g41["X0"] = v.raw
      BY <1>3, <1>4, <1>13, <2>1, <2>2, <2>3 DEF Puts
    <3> QED
      BY <3>1, <3>2, DoMove, Zenon
  <2>5. Puts(R, g42, g43, "X11", f["c8F"])
    <3>1. g43 = Execute(g42, << "MOVOU", "c8F", "X11" >>)
      BY <1>2 DEF g42, g43, validBlocksSSE
    <3>2. /\ g42 \in [R -> Vec(W)] /\ "c8F" \in R /\ "X11" \in R
          /\ g42["c8F"] = f["c8F"]
      BY <1>3, <1>4, <1>13, <2>1, <2>2, <2>3, <2>4 DEF Puts
    <3> QED
      BY <3>1, <3>2, DoMove, Zenon
  <2>6. Puts(R, g43, g44, "X10", v.over8F)
    <3>1. g44 = Execute(g43, << "PCMPGTB", "X11", "X10", "X10" >>)
      BY <1>2 DEF g43, g44, validBlocksSSE, Onto
    <3>2. /\ g43 \in [R -> Vec(W)] /\ "X11" \in R /\ "X10" \in R
          /\ GtB(g43["X10"], g43["X11"]) = v.over8F
      BY <1>3, <1>4, <1>13, <2>1, <2>2, <2>3, <2>4, <2>5 DEF Puts, Ways
    <3> QED
      BY <3>1, <3>2, DoGt, Zenon
  <2>7. Puts(R, g44, g45, "X9", v.beyond)
    <3>1. g45 = Execute(g44, << "PAND", "X10", "X9", "X9" >>)
      BY <1>2 DEF g44, g45, validBlocksSSE, Onto
    <3>2. /\ g44 \in [R -> Vec(W)] /\ "X10" \in R /\ "X9" \in R
          /\ AndB(g44["X10"], g44["X9"]) = v.beyond
      BY <1>3, <1>4, <1>13, <2>1, <2>2, <2>3, <2>4, <2>5, <2>6 DEF Puts, Ways
    <3> QED
      BY <3>1, <3>2, DoAnd, Zenon
  <2>8. Puts(R, g45, g46, "X15", v.err4)
    <3>1. g46 = Execute(g45, << "POR", "X9", "X15", "X15" >>)
      BY <1>2 DEF g45, g46, validBlocksSSE, Onto
    <3>2. /\ g45 \in [R -> Vec(W)] /\ "X9" \in R /\ "X15" \in R
          /\ OrB(g45["X9"], g45["X15"]) = v.err4
      BY <1>3, <1>4, <1>13, <2>1, <2>2, <2>3, <2>4, <2>5, <2>6, <2>7 DEF Puts, Ways
    <3> QED
      BY <3>1, <3>2, DoOr, Zenon
  <2> QED
    BY <1>13, <1>3, <2>1, <2>2, <2>3, <2>4, <2>5, <2>6, <2>7, <2>8 DEF Puts
<1>15. /\ Live(g49) /\ g49["X15"] = v.err4 /\ g49["X1"] = v.high /\ g49["X3"] = v.carry
       /\ g49["X8"] = v.off1 /\ g49["X9"] = v.off1hi
  <2>1. Puts(R, g46, g47, "X9", v.high)
    <3>1. g47 = Execute(g46, << "MOVO", "X1", "X9" >>)
      BY <1>2 DEF g46, g47, validBlocksSSE
    <3>2. /\ g46 \in [R -> Vec(W)] /\ "X1" \in R /\ "X9" \in R
          /\ g46["X1"] = v.high
      BY <1>3, <1>4, <1>14 DEF Puts
    <3> QED
      BY <3>1, <3>2, DoMove, Zenon
  <2>2. Puts(R, g47, g48, "X10", v.lastHigh)
    <3>1. g48 = Execute(g47, << "MOVO", "X14", "X10" >>)
      BY <1>2 DEF g47, g48, validBlocksSSE
    <3>2. /\ g47 \in [R -> Vec(W)] /\ "X14" \in R /\ "X10" \in R
          /\ g47["X14"] = v.lastHigh
      BY <1>3, <1>4, <1>14, <2>1 DEF Puts
    <3> QED
      BY <3>1, <3>2, DoMove, Zenon
  <2>3. Puts(R, g48, g49, "X9", v.off1hi)
    <3>1. g49 = Execute(g48, << "PALIGNR_15", "X10", "X9", "X9" >>)
      BY <1>2 DEF g48, g49, validBlocksSSE, Onto
    <3>2. /\ g48 \in [R -> Vec(W)] /\ "X10" \in R /\ "X9" \in R
          /\ ShiftIn(W, 1, g48["X10"], g48["X9"]) = v.off1hi
      BY <1>3, <1>4, <1>14, <2>1, <2>2 DEF Puts, Ways
    <3> QED
      BY <3>1, <3>2, DoIn1, Zenon
  <2> QED
    BY <1>14, <1>3, <2>1, <2>2, <2>3 DEF Puts
<1>16. /\ Live(g57) /\ g57["X15"] = v.err5 /\ g57["X1"] = v.high /\ g57["X3"] = v.carry
  <2>1. Puts(R, g49, g50, "X10", f["initMins"])
    <3>1. g50 = Execute(g49, << "MOVOU", "initMins", "X10" >>)
      BY <1>2 DEF g49, g50, validBlocksSSE
    <3>2. /\ g49 \in [R -> Vec(W)] /\ "initMins" \in R /\ "X10" \in R
          /\ g49["initMins"] = f["initMins"]
      BY <1>3, <1>4, <1>15 DEF Puts
    <3> QED
      BY <3>1, <3>2, DoMove, Zenon
  <2>2. Puts(R, g50, g51, "X10", v.init)
    <3>1. g51 = Execute(g50, << "PSHUFB", "X9", "X10", "X10" >>)
      BY <1>2 DEF g50, g51, validBlocksSSE, Onto
    <3>2. /\ g50 \in [R -> Vec(W)] /\ "X9" \in R /\ "X10" \in R
          /\ Pick(g50["X10"], g50["X9"]) = v.init
      BY <1>3, <1>4, <1>15, <2>1 DEF Puts, Ways
    <3> QED
      BY <3>1, <3>2, DoPick, Zenon
  <2>3. Puts(R, g51, g52, "X10", v.first)
    <3>1. g52 = Execute(g51, << "PCMPGTB", "X8", "X10", "X10" >>)
      BY <1>2 DEF g51, g52, validBlocksSSE, Onto
    <3>2. /\ g51 \in [R -> Vec(W)] /\ "X8" \in R /\ "X10" \in R
          /\ GtB(g51["X10"], g51["X8"]) = v.first
      BY <1>3, <1>4, <1>15, <2>1, <2>2 DEF Puts, Ways
    <3> QED
      BY <3>1, <3>2, DoGt, Zenon
  <2>4. Puts(R, g52, g53, "X11", f["secMins"])
    <3>1. g53 = Execute(g52, << "MOVOU", "secMins", "X11" >>)
      BY <1>2 DEF g52, g53, validBlocksSSE
    <3>2. /\ g52 \in [R -> Vec(W)] /\ "secMins" \in R /\ "X11" \in R
          /\ g52["secMins"] = f["secMins"]
      BY <1>3, <1>4, <1>15, <2>1, <2>2, <2>3 DEF Puts
    <3> QED
      BY <3>1, <3>2, DoMove, Zenon
  <2>5. Puts(R, g53, g54, "X11", v.sec)
    <3>1. g54 = Execute(g53, << "PSHUFB", "X9", "X11", "X11" >>)
      BY <1>2 DEF g53, g54, validBlocksSSE, Onto
    <3>2. /\ g53 \in [R -> Vec(W)] /\ "X9" \in R /\ "X11" \in R
          /\ Pick(g53["X11"], g53["X9"]) = v.sec
      BY <1>3, <1>4, <1>15, <2>1, <2>2, <2>3, <2>4 DEF Puts, Ways
    <3> QED
      BY <3>1, <3>2, DoPick, Zenon
  <2>6. Puts(R, g54, g55, "X11", v.second)
    <3>1. g55 = Execute(g54, << "PCMPGTB", "X0", "X11", "X11" >>)
      BY <1>2 DEF g54, g55, validBlocksSSE, Onto
    <3>2. /\ g54 \in [R -> Vec(W)] /\ "X0" \in R /\ "X11" \in R
          /\ GtB(g54["X11"], g54["X0"]) = v.second
      BY <1>3, <1>4, <1>15, <2>1, <2>2, <2>3, <2>4, <2>5 DEF Puts, Ways
    <3> QED
      BY <3>1, <3>2, DoGt, Zenon
  <2>7. Puts(R, g55, g56, "X10", v.long)
    <3>1. g56 = Execute(g55, << "PAND", "X11", "X10", "X10" >>)
      BY <1>2 DEF g55, g56, validBlocksSSE, Onto
    <3>2. /\ g55 \in [R -> Vec(W)] /\ "X11" \in R /\ "X10" \in R
          /\ AndB(g55["X11"], g55["X10"]) = v.long
      BY <1>3, <1>4, <1>15, <2>1, <2>2, <2>3, <2>4, <2>5, <2>6 DEF Puts, Ways
    <3> QED
      BY <3>1, <3>2, DoAnd, Zenon
  <2>8. Puts(R, g56, g57, "X15", v.err5)
    <3>1. g57 = Execute(g56, << "POR", "X10", "X15", "X15" >>)
      BY <1>2 DEF g56, g57, validBlocksSSE, Onto
    <3>2. /\ g56 \in [R -> Vec(W)] /\ "X10" \in R /\ "X15" \in R
          /\ OrB(g56["X10"], g56["X15"]) = v.err5
      BY <1>3, <1>4, <1>15, <2>1, <2>2, <2>3, <2>4, <2>5, <2>6, <2>7 DEF Puts, Ways
    <3> QED
      BY <3>1, <3>2, DoOr, Zenon
  <2> QED
    BY <1>15, <1>3, <2>1, <2>2, <2>3, <2>4, <2>5, <2>6, <2>7, <2>8 DEF Puts
<1>17. /\ g60 \in [R -> Vec(W)] /\ \A r \in DOMAIN Constants("SSE") : g60[r] = f[r]
       /\ g60["X13"] = v.raw /\ g60["X14"] = v.high /\ g60["X12"] = v.carry
       /\ g60["X15"] = v.err5
  <2>1. Puts(R, g57, g58, "X13", v.raw)
    <3>1. g58 = Execute(g57, << "MOVO", "X0", "X13" >>)
      BY <1>2 DEF g57, g58, validBlocksSSE
    <3>2. /\ g57 \in [R -> Vec(W)] /\ "X0" \in R /\ "X13" \in R
          /\ g57["X0"] = v.raw
      BY <1>3, <1>4, <1>16 DEF Puts
    <3> QED
      BY <3>1, <3>2, DoMove, Zenon
  <2>2. Puts(R, g58, g59, "X14", v.high)
    <3>1. g59 = Execute(g58, << "MOVO", "X1", "X14" >>)
      BY <1>2 DEF g58, g59, validBlocksSSE
    <3>2. /\ g58 \in [R -> Vec(W)] /\ "X1" \in R /\ "X14" \in R
          /\ g58["X1"] = v.high
      BY <1>3, <1>4, <1>16, <2>1 DEF Puts
    <3> QED
      BY <3>1, <3>2, DoMove, Zenon
  <2>3. Puts(R, g59, g60, "X12", v.carry)
    <3>1. g60 = Execute(g59, << "MOVO", "X3", "X12" >>)
      BY <1>2 DEF g59, g60, validBlocksSSE
    <3>2. /\ g59 \in [R -> Vec(W)] /\ "X3" \in R /\ "X12" \in R
          /\ g59["X3"] = v.carry
      BY <1>3, <1>4, <1>16, <2>1, <2>2 DEF Puts
    <3> QED
      BY <3>1, <3>2, DoMove, Zenon
  <2> QED
    BY <1>3, <1>16, <2>1, <2>2, <2>3, FileSSE DEF Puts
<1>18. g60 = Run(f, validBlocksSSE)
  BY <1>2 DEF g60
<1> QED
  BY <1>17, <1>18 DEF Steady, R

\* The names of the AVX2 kernel, and the constants it keeps in them.
LEMMA FileAVX2 ==
  /\ Home("AVX2") = [block |-> "Y0", err |-> "Y15", raw |-> "Y13", high |-> "Y14",
                           carry |-> "Y12"]
  /\ DOMAIN Constants("AVX2") = {"c0F", "c01", "c02", "cF4", "cED", "c9F", "c8F",
                                  "c00", "contLen", "initMins", "secMins"}
  /\ DOMAIN Cleared("AVX2") = {"Y15", "Y13", "Y14", "Y12"}
  /\ Scratch("AVX2") = {"Y0", "Y1", "Y2", "Y3", "Y4", "Y5", "Y6", "Y8", "Y9", "Y10",
                         "Y11"}
  /\ Constants("AVX2")["c0F"] = Every(15) /\ Constants("AVX2")["c01"] = Every(1)
  /\ Constants("AVX2")["c02"] = Every(2) /\ Constants("AVX2")["cF4"] = Every(244)
  /\ Constants("AVX2")["cED"] = Every(237) /\ Constants("AVX2")["c9F"] = Every(159)
  /\ Constants("AVX2")["c8F"] = Every(143) /\ Constants("AVX2")["c00"] = Zero(W)
  /\ Constants("AVX2")["contLen"] = Entries(Twice(contLenN))
  /\ Constants("AVX2")["initMins"] = Entries(Twice(initMinsN))
  /\ Constants("AVX2")["secMins"] = Entries(Twice(secMinsN)) /\ Len(validBlocksAVX2) = 41
<1>1. Home("AVX2") = [block |-> "Y0", err |-> "Y15", raw |-> "Y13", high |-> "Y14",
                     carry |-> "Y12"]
  BY Zenon DEF Home
<1>2. Code("AVX2") = AVX2
  BY Zenon DEF Code
<1>3. /\ AVX2.lens = Twice(contLenN) /\ AVX2.inits = Twice(initMinsN)
      /\ AVX2.secs = Twice(secMinsN)
  BY DEF AVX2, contLenB, initMinsB, secMinsB, contLenN, initMinsN, secMinsN
<1>4. Loaded("AVX2") = [contLen |-> Entries(Code("AVX2").lens),
   initMins |-> Entries(Code("AVX2").inits), secMins |-> Entries(Code("AVX2").secs)]
  BY ZenonT(60) DEF Loaded
<1>5. Scratch("AVX2") = {"Y0", "Y1", "Y2", "Y3", "Y4", "Y5", "Y6", "Y8", "Y9", "Y10",
                         "Y11"}
  BY Zenon DEF Scratch
<1>6. DOMAIN Constants("AVX2") = {"c0F", "c01", "c02", "cF4", "cED", "c9F", "c8F",
                                  "c00", "contLen", "initMins", "secMins"}
  BY <1>4 DEF Constants, Over, Memory
<1>7. DOMAIN Cleared("AVX2") = {"Y15", "Y13", "Y14", "Y12"}
  BY <1>1 DEF Cleared
<1>8. /\ Constants("AVX2")["c0F"] = Every(15) /\ Constants("AVX2")["c01"] = Every(1)
      /\ Constants("AVX2")["c02"] = Every(2) /\ Constants("AVX2")["cF4"] = Every(244)
      /\ Constants("AVX2")["cED"] = Every(237) /\ Constants("AVX2")["c9F"] = Every(159)
      /\ Constants("AVX2")["c8F"] = Every(143) /\ Constants("AVX2")["c00"] = Zero(W)
      /\ Constants("AVX2")["contLen"] = Entries(Twice(contLenN))
      /\ Constants("AVX2")["initMins"] = Entries(Twice(initMinsN))
      /\ Constants("AVX2")["secMins"] = Entries(Twice(secMinsN))
  BY <1>2, <1>3, <1>4 DEF Constants, Over, Memory
<1>9. Len(validBlocksAVX2) = 41
  BY DEF validBlocksAVX2
<1> QED
  BY <1>1, <1>5, <1>6, <1>7, <1>8, <1>9

\* The loop body of the AVX2 kernel: what it leaves in the registers.
LEMMA BodyAVX2 ==
  ASSUME W = 32, NEW f, Steady("AVX2", f), NEW v, Ways(v),
         f["Y0"] = v.raw, f["Y15"] = v.err0,
         f["Y13"] = v.lastRaw, f["Y14"] = v.lastHigh, f["Y12"] = v.lastCarry
  PROVE  /\ Steady("AVX2", Run(f, validBlocksAVX2))
         /\ Run(f, validBlocksAVX2)["Y13"] = v.raw /\ Run(f, validBlocksAVX2)["Y14"] = v.high
         /\ Run(f, validBlocksAVX2)["Y12"] = v.carry /\ Run(f, validBlocksAVX2)["Y15"] = v.err5
<1> DEFINE R     == Names("AVX2")
           Fixed == {"c0F", "c01", "c02", "cF4", "cED", "c9F", "c8F", "c00", "contLen",
                     "initMins", "secMins", "Y0", "Y13", "Y14", "Y12"}
<1>1. Len(validBlocksAVX2) = 41
  BY FileAVX2
<1>2. PICK a : /\ a[0] = f /\ a[41] = Run(f, validBlocksAVX2)
               /\ \A k \in 1..41 : a[k] = Execute(a[k - 1], validBlocksAVX2[k])
  <2>1. Len(validBlocksAVX2) \in Nat
    BY <1>1
  <2>2. PICK a : Traces(a, f, validBlocksAVX2, Len(validBlocksAVX2))
    BY <2>1, Runs
  <2> QED
    BY <1>1, <2>2 DEF Traces
<1>3. /\ {"c0F", "c01", "c02", "cF4", "cED", "c9F", "c8F", "c00", "contLen",
          "initMins", "secMins", "Y0", "Y1", "Y2", "Y3", "Y4", "Y5", "Y6", "Y8", "Y9",
          "Y10", "Y11", "Y15", "Y13", "Y14", "Y12"} \subseteq R
      /\ f \in [R -> Vec(W)] /\ DOMAIN Constants("AVX2") \subseteq Fixed
  BY FileAVX2 DEF Steady, Names
<1>4. /\ f["c0F"] = Every(15) /\ f["c01"] = Every(1) /\ f["c02"] = Every(2)
      /\ f["cF4"] = Every(244) /\ f["cED"] = Every(237) /\ f["c9F"] = Every(159)
      /\ f["c8F"] = Every(143) /\ f["c00"] = Zero(W)
      /\ f["contLen"] = Entries(Twice(contLenN))
      /\ f["initMins"] = Entries(Twice(initMinsN))
      /\ f["secMins"] = Entries(Twice(secMinsN))
  BY FileAVX2 DEF Steady
\* The register file after k instructions.
<1> DEFINE g0 == a[0]  g1 == a[1]  g2 == a[2]  g3 == a[3]  g4 == a[4]  g5 == a[5]
           g6 == a[6]  g7 == a[7]  g8 == a[8]  g9 == a[9]  g10 == a[10]  g11 == a[11]
           g12 == a[12]  g13 == a[13]  g14 == a[14]  g15 == a[15]  g16 == a[16]  g17 == a[17]
           g18 == a[18]  g19 == a[19]  g20 == a[20]  g21 == a[21]  g22 == a[22]  g23 == a[23]
           g24 == a[24]  g25 == a[25]  g26 == a[26]  g27 == a[27]  g28 == a[28]  g29 == a[29]
           g30 == a[30]  g31 == a[31]  g32 == a[32]  g33 == a[33]  g34 == a[34]  g35 == a[35]
           g36 == a[36]  g37 == a[37]  g38 == a[38]  g39 == a[39]  g40 == a[40]  g41 == a[41]
<1> HIDE DEF R, g0, g1, g2, g3, g4, g5, g6, g7, g8, g9, g10, g11, g12, g13, g14, g15, g16,
   g17, g18, g19, g20, g21, g22, g23, g24, g25, g26, g27, g28, g29, g30, g31, g32, g33, g34,
   g35, g36, g37, g38, g39, g40, g41
<1> DEFINE Live(g) == g \in [R -> Vec(W)] /\ \A r \in Fixed : g[r] = f[r]
<1>5. Live(g0) /\ g0["Y15"] = v.err0
  BY <1>2, <1>3 DEF g0
<1>6. /\ Live(g2) /\ g2["Y15"] = v.err0 /\ g2["Y1"] = v.high
  <2>1. Puts(R, g0, g1, "Y1", Srl4W(v.raw))
    <3>1. g1 = Execute(g0, << "VPSRLW_4", "Y0", "Y1" >>)
      BY <1>2 DEF g0, g1, validBlocksAVX2
    <3>2. /\ g0 \in [R -> Vec(W)] /\ "Y0" \in R /\ "Y1" \in R
          /\ Srl4W(g0["Y0"]) = Srl4W(v.raw)
      BY <1>3, <1>4, <1>5 DEF Puts
    <3> QED
      BY <3>1, <3>2, DoSrl4, Zenon
  <2>2. Puts(R, g1, g2, "Y1", v.high)
    <3>1. g2 = Execute(g1, << "VPAND", "c0F", "Y1", "Y1" >>)
      BY <1>2 DEF g1, g2, validBlocksAVX2
    <3>2. /\ g1 \in [R -> Vec(W)] /\ "c0F" \in R /\ "Y1" \in R
          /\ AndB(g1["c0F"], g1["Y1"]) = v.high
      BY <1>3, <1>4, <1>5, <2>1 DEF Puts, Ways
    <3> QED
      BY <3>1, <3>2, DoAnd, Zenon
  <2> QED
    BY <1>5, <1>3, <2>1, <2>2 DEF Puts
<1>7. /\ Live(g4) /\ g4["Y15"] = v.err1 /\ g4["Y1"] = v.high
  <2>1. Puts(R, g2, g3, "Y3", v.excess)
    <3>1. g3 = Execute(g2, << "VPSUBUSB", "cF4", "Y0", "Y3" >>)
      BY <1>2 DEF g2, g3, validBlocksAVX2
    <3>2. /\ g2 \in [R -> Vec(W)] /\ "cF4" \in R /\ "Y0" \in R /\ "Y3" \in R
          /\ SubSatB(g2["Y0"], g2["cF4"]) = v.excess
      BY <1>3, <1>4, <1>6 DEF Puts, Ways
    <3> QED
      BY <3>1, <3>2, DoSubSat, Zenon
  <2>2. Puts(R, g3, g4, "Y15", v.err1)
    <3>1. g4 = Execute(g3, << "VPOR", "Y3", "Y15", "Y15" >>)
      BY <1>2 DEF g3, g4, validBlocksAVX2
    <3>2. /\ g3 \in [R -> Vec(W)] /\ "Y3" \in R /\ "Y15" \in R
          /\ OrB(g3["Y3"], g3["Y15"]) = v.err1
      BY <1>3, <1>4, <1>6, <2>1 DEF Puts, Ways
    <3> QED
      BY <3>1, <3>2, DoOr, Zenon
  <2> QED
    BY <1>6, <1>3, <2>1, <2>2 DEF Puts
<1>8. /\ Live(g6) /\ g6["Y15"] = v.err1 /\ g6["Y1"] = v.high /\ g6["Y2"] = v.len
  <2>1. Puts(R, g4, g5, "Y2", f["contLen"])
    <3>1. g5 = Execute(g4, << "VMOVDQU", "contLen", "Y2" >>)
      BY <1>2 DEF g4, g5, validBlocksAVX2
    <3>2. /\ g4 \in [R -> Vec(W)] /\ "contLen" \in R /\ "Y2" \in R
          /\ g4["contLen"] = f["contLen"]
      BY <1>3, <1>4, <1>7 DEF Puts
    <3> QED
      BY <3>1, <3>2, DoMove, Zenon
  <2>2. Puts(R, g5, g6, "Y2", v.len)
    <3>1. g6 = Execute(g5, << "VPSHUFB", "Y1", "Y2", "Y2" >>)
      BY <1>2 DEF g5, g6, validBlocksAVX2
    <3>2. /\ g5 \in [R -> Vec(W)] /\ "Y1" \in R /\ "Y2" \in R
          /\ PickHalves(g5["Y2"], g5["Y1"]) = v.len
      BY <1>3, <1>4, <1>7, <2>1 DEF Puts, Ways
    <3> QED
      BY <3>1, <3>2, DoPickHalves, Zenon
  <2> QED
    BY <1>7, <1>3, <2>1, <2>2 DEF Puts
<1>9. /\ Live(g10) /\ g10["Y15"] = v.err1 /\ g10["Y1"] = v.high /\ g10["Y2"] = v.len
       /\ g10["Y3"] = v.sum
  <2>1. Puts(R, g6, g7, "Y4", HighThenLow(v.lastCarry, v.len))
    <3>1. g7 = Execute(g6, << "VPERM2I128", "Y2", "Y12", "Y4" >>)
      BY <1>2 DEF g6, g7, validBlocksAVX2
    <3>2. /\ g6 \in [R -> Vec(W)] /\ "Y2" \in R /\ "Y12" \in R /\ "Y4" \in R
          /\ HighThenLow(g6["Y12"], g6["Y2"]) = HighThenLow(v.lastCarry, v.len)
      BY <1>3, <1>4, <1>8 DEF Puts
    <3> QED
      BY <3>1, <3>2, DoSeam, Zenon
  <2>2. Puts(R, g7, g8, "Y3", v.in1)
    <3>1. g8 = Execute(g7, << "VPALIGNR_15", "Y4", "Y2", "Y3" >>)
      BY <1>2 DEF g7, g8, validBlocksAVX2
    <3>2. /\ g7 \in [R -> Vec(W)] /\ "Y4" \in R /\ "Y2" \in R /\ "Y3" \in R
          /\ AlignHalves(1, g7["Y4"], g7["Y2"]) = v.in1
      BY <1>3, <1>4, <1>8, <2>1 DEF Puts, Ways
    <3> QED
      BY <3>1, <3>2, DoAlign1, Zenon
  <2>3. Puts(R, g8, g9, "Y3", v.less1)
    <3>1. g9 = Execute(g8, << "VPSUBUSB", "c01", "Y3", "Y3" >>)
      BY <1>2 DEF g8, g9, validBlocksAVX2
    <3>2. /\ g8 \in [R -> Vec(W)] /\ "c01" \in R /\ "Y3" \in R
          /\ SubSatB(g8["Y3"], g8["c01"]) = v.less1
      BY <1>3, <1>4, <1>8, <2>1, <2>2 DEF Puts, Ways
    <3> QED
      BY <3>1, <3>2, DoSubSat, Zenon
  <2>4. Puts(R, g9, g10, "Y3", v.sum)
    <3>1. g10 = Execute(g9, << "VPADDB", "Y2", "Y3", "Y3" >>)
      BY <1>2 DEF g9, g10, validBlocksAVX2
    <3>2. /\ g9 \in [R -> Vec(W)] /\ "Y2" \in R /\ "Y3" \in R
          /\ AddB(W, g9["Y2"], g9["Y3"]) = v.sum
      BY <1>3, <1>4, <1>8, <2>1, <2>2, <2>3 DEF Puts, Ways
    <3> QED
      BY <3>1, <3>2, DoAdd, Zenon
  <2> QED
    BY <1>8, <1>3, <2>1, <2>2, <2>3, <2>4 DEF Puts
<1>10. /\ Live(g14) /\ g14["Y15"] = v.err1 /\ g14["Y1"] = v.high /\ g14["Y2"] = v.len
       /\ g14["Y3"] = v.carry
  <2>1. Puts(R, g10, g11, "Y4", HighThenLow(v.lastCarry, v.sum))
    <3>1. g11 = Execute(g10, << "VPERM2I128", "Y3", "Y12", "Y4" >>)
      BY <1>2 DEF g10, g11, validBlocksAVX2
    <3>2. /\ g10 \in [R -> Vec(W)] /\ "Y3" \in R /\ "Y12" \in R /\ "Y4" \in R
          /\ HighThenLow(g10["Y12"], g10["Y3"]) = HighThenLow(v.lastCarry, v.sum)
      BY <1>3, <1>4, <1>9 DEF Puts
    <3> QED
      BY <3>1, <3>2, DoSeam, Zenon
  <2>2. Puts(R, g11, g12, "Y5", v.in2)
    <3>1. g12 = Execute(g11, << "VPALIGNR_14", "Y4", "Y3", "Y5" >>)
      BY <1>2 DEF g11, g12, validBlocksAVX2
    <3>2. /\ g11 \in [R -> Vec(W)] /\ "Y4" \in R /\ "Y3" \in R /\ "Y5" \in R
          /\ AlignHalves(2, g11["Y4"], g11["Y3"]) = v.in2
      BY <1>3, <1>4, <1>9, <2>1 DEF Puts, Ways
    <3> QED
      BY <3>1, <3>2, DoAlign2, Zenon
  <2>3. Puts(R, g12, g13, "Y5", v.less2)
    <3>1. g13 = Execute(g12, << "VPSUBUSB", "c02", "Y5", "Y5" >>)
      BY <1>2 DEF g12, g13, validBlocksAVX2
    <3>2. /\ g12 \in [R -> Vec(W)] /\ "c02" \in R /\ "Y5" \in R
          /\ SubSatB(g12["Y5"], g12["c02"]) = v.less2
      BY <1>3, <1>4, <1>9, <2>1, <2>2 DEF Puts, Ways
    <3> QED
      BY <3>1, <3>2, DoSubSat, Zenon
  <2>4. Puts(R, g13, g14, "Y3", v.carry)
    <3>1. g14 = Execute(g13, << "VPADDB", "Y5", "Y3", "Y3" >>)
      BY <1>2 DEF g13, g14, validBlocksAVX2
    <3>2. /\ g13 \in [R -> Vec(W)] /\ "Y5" \in R /\ "Y3" \in R
          /\ AddB(W, g13["Y5"], g13["Y3"]) = v.carry
      BY <1>3, <1>4, <1>9, <2>1, <2>2, <2>3 DEF Puts, Ways
    <3> QED
      BY <3>1, <3>2, DoAdd, Zenon
  <2> QED
    BY <1>9, <1>3, <2>1, <2>2, <2>3, <2>4 DEF Puts
<1>11. /\ Live(g18) /\ g18["Y15"] = v.err2 /\ g18["Y1"] = v.high /\ g18["Y3"] = v.carry
  <2>1. Puts(R, g14, g15, "Y5", v.more)
    <3>1. g15 = Execute(g14, << "VPCMPGTB", "Y2", "Y3", "Y5" >>)
      BY <1>2 DEF g14, g15, validBlocksAVX2
    <3>2. /\ g14 \in [R -> Vec(W)] /\ "Y2" \in R /\ "Y3" \in R /\ "Y5" \in R
          /\ GtB(g14["Y3"], g14["Y2"]) = v.more
      BY <1>3, <1>4, <1>10 DEF Puts, Ways
    <3> QED
      BY <3>1, <3>2, DoGt, Zenon
  <2>2. Puts(R, g15, g16, "Y6", v.lead)
    <3>1. g16 = Execute(g15, << "VPCMPGTB", "c00", "Y2", "Y6" >>)
      BY <1>2 DEF g15, g16, validBlocksAVX2
    <3>2. /\ g15 \in [R -> Vec(W)] /\ "c00" \in R /\ "Y2" \in R /\ "Y6" \in R
          /\ GtB(g15["Y2"], g15["c00"]) = v.lead
      BY <1>3, <1>4, <1>10, <2>1 DEF Puts, Ways
    <3> QED
      BY <3>1, <3>2, DoGt, Zenon
  <2>3. Puts(R, g16, g17, "Y5", v.gap)
    <3>1. g17 = Execute(g16, << "VPCMPEQB", "Y6", "Y5", "Y5" >>)
      BY <1>2 DEF g16, g17, validBlocksAVX2
    <3>2. /\ g16 \in [R -> Vec(W)] /\ "Y6" \in R /\ "Y5" \in R
          /\ EqB(g16["Y6"], g16["Y5"]) = v.gap
      BY <1>3, <1>4, <1>10, <2>1, <2>2 DEF Puts, Ways
    <3> QED
      BY <3>1, <3>2, DoEq, Zenon
  <2>4. Puts(R, g17, g18, "Y15", v.err2)
    <3>1. g18 = Execute(g17, << "VPOR", "Y5", "Y15", "Y15" >>)
      BY <1>2 DEF g17, g18, validBlocksAVX2
    <3>2. /\ g17 \in [R -> Vec(W)] /\ "Y5" \in R /\ "Y15" \in R
          /\ OrB(g17["Y5"], g17["Y15"]) = v.err2
      BY <1>3, <1>4, <1>10, <2>1, <2>2, <2>3 DEF Puts, Ways
    <3> QED
      BY <3>1, <3>2, DoOr, Zenon
  <2> QED
    BY <1>10, <1>3, <2>1, <2>2, <2>3, <2>4 DEF Puts
<1>12. /\ Live(g20) /\ g20["Y15"] = v.err2 /\ g20["Y1"] = v.high /\ g20["Y3"] = v.carry
       /\ g20["Y8"] = v.off1
  <2>1. Puts(R, g18, g19, "Y8", HighThenLow(v.lastRaw, v.raw))
    <3>1. g19 = Execute(g18, << "VPERM2I128", "Y0", "Y13", "Y8" >>)
      BY <1>2 DEF g18, g19, validBlocksAVX2
    <3>2. /\ g18 \in [R -> Vec(W)] /\ "Y0" \in R /\ "Y13" \in R /\ "Y8" \in R
          /\ HighThenLow(g18["Y13"], g18["Y0"]) = HighThenLow(v.lastRaw, v.raw)
      BY <1>3, <1>4, <1>11 DEF Puts
    <3> QED
      BY <3>1, <3>2, DoSeam, Zenon
  <2>2. Puts(R, g19, g20, "Y8", v.off1)
    <3>1. g20 = Execute(g19, << "VPALIGNR_15", "Y8", "Y0", "Y8" >>)
      BY <1>2 DEF g19, g20, validBlocksAVX2
    <3>2. /\ g19 \in [R -> Vec(W)] /\ "Y8" \in R /\ "Y0" \in R
          /\ AlignHalves(1, g19["Y8"], g19["Y0"]) = v.off1
      BY <1>3, <1>4, <1>11, <2>1 DEF Puts, Ways
    <3> QED
      BY <3>1, <3>2, DoAlign1, Zenon
  <2> QED
    BY <1>11, <1>3, <2>1, <2>2 DEF Puts
<1>13. /\ Live(g24) /\ g24["Y15"] = v.err3 /\ g24["Y1"] = v.high /\ g24["Y3"] = v.carry
       /\ g24["Y8"] = v.off1
  <2>1. Puts(R, g20, g21, "Y9", v.isED)
    <3>1. g21 = Execute(g20, << "VPCMPEQB", "cED", "Y8", "Y9" >>)
      BY <1>2 DEF g20, g21, validBlocksAVX2
    <3>2. /\ g20 \in [R -> Vec(W)] /\ "cED" \in R /\ "Y8" \in R /\ "Y9" \in R
          /\ EqB(g20["cED"], g20["Y8"]) = v.isED
      BY <1>3, <1>4, <1>12 DEF Puts, Ways
    <3> QED
      BY <3>1, <3>2, DoEq, Zenon
  <2>2. Puts(R, g21, g22, "Y10", v.over9F)
    <3>1. g22 = Execute(g21, << "VPCMPGTB", "c9F", "Y0", "Y10" >>)
      BY <1>2 DEF g21, g22, validBlocksAVX2
    <3>2. /\ g21 \in [R -> Vec(W)] /\ "c9F" \in R /\ "Y0" \in R /\ "Y10" \in R
          /\ GtB(g21["Y0"], g21["c9F"]) = v.over9F
      BY <1>3, <1>4, <1>12, <2>1 DEF Puts, Ways
    <3> QED
      BY <3>1, <3>2, DoGt, Zenon
  <2>3. Puts(R, g22, g23, "Y9", v.half)
    <3>1. g23 = Execute(g22, << "VPAND", "Y10", "Y9", "Y9" >>)
      BY <1>2 DEF g22, g23, validBlocksAVX2
    <3>2. /\ g22 \in [R -> Vec(W)] /\ "Y10" \in R /\ "Y9" \in R
          /\ AndB(g22["Y10"], g22["Y9"]) = v.half
      BY <1>3, <1>4, <1>12, <2>1, <2>2 DEF Puts, Ways
    <3> QED
      BY <3>1, <3>2, DoAnd, Zenon
  <2>4. Puts(R, g23, g24, "Y15", v.err3)
    <3>1. g24 = Execute(g23, << "VPOR", "Y9", "Y15", "Y15" >>)
      BY <1>2 DEF g23, g24, validBlocksAVX2
    <3>2. /\ g23 \in [R -> Vec(W)] /\ "Y9" \in R /\ "Y15" \in R
          /\ OrB(g23["Y9"], g23["Y15"]) = v.err3
      BY <1>3, <1>4, <1>12, <2>1, <2>2, <2>3 DEF Puts, Ways
    <3> QED
      BY <3>1, <3>2, DoOr, Zenon
  <2> QED
    BY <1>12, <1>3, <2>1, <2>2, <2>3, <2>4 DEF Puts
<1>14. /\ Live(g28) /\ g28["Y15"] = v.err4 /\ g28["Y1"] = v.high /\ g28["Y3"] = v.carry
       /\ g28["Y8"] = v.off1
  <2>1. Puts(R, g24, g25, "Y9", v.isF4)
    <3>1. g25 = Execute(g24, << "VPCMPEQB", "cF4", "Y8", "Y9" >>)
      BY <1>2 DEF g24, g25, validBlocksAVX2
    <3>2. /\ g24 \in [R -> Vec(W)] /\ "cF4" \in R /\ "Y8" \in R /\ "Y9" \in R
          /\ EqB(g24["cF4"], g24["Y8"]) = v.isF4
      BY <1>3, <1>4, <1>13 DEF Puts, Ways
    <3> QED
      BY <3>1, <3>2, DoEq, Zenon
  <2>2. Puts(R, g25, g26, "Y10", v.over8F)
    <3>1. g26 = Execute(g25, << "VPCMPGTB", "c8F", "Y0", "Y10" >>)
      BY <1>2 DEF g25, g26, validBlocksAVX2
    <3>2. /\ g25 \in [R -> Vec(W)] /\ "c8F" \in R /\ "Y0" \in R /\ "Y10" \in R
          /\ GtB(g25["Y0"], g25["c8F"]) = v.over8F
      BY <1>3, <1>4, <1>13, <2>1 DEF Puts, Ways
    <3> QED
      BY <3>1, <3>2, DoGt, Zenon
  <2>3. Puts(R, g26, g27, "Y9", v.beyond)
    <3>1. g27 = Execute(g26, << "VPAND", "Y10", "Y9", "Y9" >>)
      BY <1>2 DEF g26, g27, validBlocksAVX2
    <3>2. /\ g26 \in [R -> Vec(W)] /\ "Y10" \in R /\ "Y9" \in R
          /\ AndB(g26["Y10"], g26["Y9"]) = v.beyond
      BY <1>3, <1>4, <1>13, <2>1, <2>2 DEF Puts, Ways
    <3> QED
      BY <3>1, <3>2, DoAnd, Zenon
  <2>4. Puts(R, g27, g28, "Y15", v.err4)
    <3>1. g28 = Execute(g27, << "VPOR", "Y9", "Y15", "Y15" >>)
      BY <1>2 DEF g27, g28, validBlocksAVX2
    <3>2. /\ g27 \in [R -> Vec(W)] /\ "Y9" \in R /\ "Y15" \in R
          /\ OrB(g27["Y9"], g27["Y15"]) = v.err4
      BY <1>3, <1>4, <1>13, <2>1, <2>2, <2>3 DEF Puts, Ways
    <3> QED
      BY <3>1, <3>2, DoOr, Zenon
  <2> QED
    BY <1>13, <1>3, <2>1, <2>2, <2>3, <2>4 DEF Puts
<1>15. /\ Live(g30) /\ g30["Y15"] = v.err4 /\ g30["Y1"] = v.high /\ g30["Y3"] = v.carry
       /\ g30["Y8"] = v.off1 /\ g30["Y9"] = v.off1hi
  <2>1. Puts(R, g28, g29, "Y9", HighThenLow(v.lastHigh, v.high))
    <3>1. g29 = Execute(g28, << "VPERM2I128", "Y1", "Y14", "Y9" >>)
      BY <1>2 DEF g28, g29, validBlocksAVX2
    <3>2. /\ g28 \in [R -> Vec(W)] /\ "Y1" \in R /\ "Y14" \in R /\ "Y9" \in R
          /\ HighThenLow(g28["Y14"], g28["Y1"]) = HighThenLow(v.lastHigh, v.high)
      BY <1>3, <1>4, <1>14 DEF Puts
    <3> QED
      BY <3>1, <3>2, DoSeam, Zenon
  <2>2. Puts(R, g29, g30, "Y9", v.off1hi)
    <3>1. g30 = Execute(g29, << "VPALIGNR_15", "Y9", "Y1", "Y9" >>)
      BY <1>2 DEF g29, g30, validBlocksAVX2
    <3>2. /\ g29 \in [R -> Vec(W)] /\ "Y9" \in R /\ "Y1" \in R
          /\ AlignHalves(1, g29["Y9"], g29["Y1"]) = v.off1hi
      BY <1>3, <1>4, <1>14, <2>1 DEF Puts, Ways
    <3> QED
      BY <3>1, <3>2, DoAlign1, Zenon
  <2> QED
    BY <1>14, <1>3, <2>1, <2>2 DEF Puts
<1>16. /\ Live(g38) /\ g38["Y15"] = v.err5 /\ g38["Y1"] = v.high /\ g38["Y3"] = v.carry
  <2>1. Puts(R, g30, g31, "Y10", f["initMins"])
    <3>1. g31 = Execute(g30, << "VMOVDQU", "initMins", "Y10" >>)
      BY <1>2 DEF g30, g31, validBlocksAVX2
    <3>2. /\ g30 \in [R -> Vec(W)] /\ "initMins" \in R /\ "Y10" \in R
          /\ g30["initMins"] = f["initMins"]
      BY <1>3, <1>4, <1>15 DEF Puts
    <3> QED
      BY <3>1, <3>2, DoMove, Zenon
  <2>2. Puts(R, g31, g32, "Y10", v.init)
    <3>1. g32 = Execute(g31, << "VPSHUFB", "Y9", "Y10", "Y10" >>)
      BY <1>2 DEF g31, g32, validBlocksAVX2
    <3>2. /\ g31 \in [R -> Vec(W)] /\ "Y9" \in R /\ "Y10" \in R
          /\ PickHalves(g31["Y10"], g31["Y9"]) = v.init
      BY <1>3, <1>4, <1>15, <2>1 DEF Puts, Ways
    <3> QED
      BY <3>1, <3>2, DoPickHalves, Zenon
  <2>3. Puts(R, g32, g33, "Y10", v.first)
    <3>1. g33 = Execute(g32, << "VPCMPGTB", "Y8", "Y10", "Y10" >>)
      BY <1>2 DEF g32, g33, validBlocksAVX2
    <3>2. /\ g32 \in [R -> Vec(W)] /\ "Y8" \in R /\ "Y10" \in R
          /\ GtB(g32["Y10"], g32["Y8"]) = v.first
      BY <1>3, <1>4, <1>15, <2>1, <2>2 DEF Puts, Ways
    <3> QED
      BY <3>1, <3>2, DoGt, Zenon
  <2>4. Puts(R, g33, g34, "Y11", f["secMins"])
    <3>1. g34 = Execute(g33, << "VMOVDQU", "secMins", "Y11" >>)
      BY <1>2 DEF g33, g34, validBlocksAVX2
    <3>2. /\ g33 \in [R -> Vec(W)] /\ "secMins" \in R /\ "Y11" \in R
          /\ g33["secMins"] = f["secMins"]
      BY <1>3, <1>4, <1>15, <2>1, <2>2, <2>3 DEF Puts
    <3> QED
      BY <3>1, <3>2, DoMove, Zenon
  <2>5. Puts(R, g34, g35, "Y11", v.sec)
    <3>1. g35 = Execute(g34, << "VPSHUFB", "Y9", "Y11", "Y11" >>)
      BY <1>2 DEF g34, g35, validBlocksAVX2
    <3>2. /\ g34 \in [R -> Vec(W)] /\ "Y9" \in R /\ "Y11" \in R
          /\ PickHalves(g34["Y11"], g34["Y9"]) = v.sec
      BY <1>3, <1>4, <1>15, <2>1, <2>2, <2>3, <2>4 DEF Puts, Ways
    <3> QED
      BY <3>1, <3>2, DoPickHalves, Zenon
  <2>6. Puts(R, g35, g36, "Y11", v.second)
    <3>1. g36 = Execute(g35, << "VPCMPGTB", "Y0", "Y11", "Y11" >>)
      BY <1>2 DEF g35, g36, validBlocksAVX2
    <3>2. /\ g35 \in [R -> Vec(W)] /\ "Y0" \in R /\ "Y11" \in R
          /\ GtB(g35["Y11"], g35["Y0"]) = v.second
      BY <1>3, <1>4, <1>15, <2>1, <2>2, <2>3, <2>4, <2>5 DEF Puts, Ways
    <3> QED
      BY <3>1, <3>2, DoGt, Zenon
  <2>7. Puts(R, g36, g37, "Y10", v.long)
    <3>1. g37 = Execute(g36, << "VPAND", "Y11", "Y10", "Y10" >>)
      BY <1>2 DEF g36, g37, validBlocksAVX2
    <3>2. /\ g36 \in [R -> Vec(W)] /\ "Y11" \in R /\ "Y10" \in R
          /\ AndB(g36["Y11"], g36["Y10"]) = v.long
      BY <1>3, <1>4, <1>15, <2>1, <2>2, <2>3, <2>4, <2>5, <2>6 DEF Puts, Ways
    <3> QED
      BY <3>1, <3>2, DoAnd, Zenon
  <2>8. Puts(R, g37, g38, "Y15", v.err5)
    <3>1. g38 = Execute(g37, << "VPOR", "Y10", "Y15", "Y15" >>)
      BY <1>2 DEF g37, g38, validBlocksAVX2
    <3>2. /\ g37 \in [R -> Vec(W)] /\ "Y10" \in R /\ "Y15" \in R
          /\ OrB(g37["Y10"], g37["Y15"]) = v.err5
      BY <1>3, <1>4, <1>15, <2>1, <2>2, <2>3, <2>4, <2>5, <2>6, <2>7 DEF Puts, Ways
    <3> QED
      BY <3>1, <3>2, DoOr, Zenon
  <2> QED
    BY <1>15, <1>3, <2>1, <2>2, <2>3, <2>4, <2>5, <2>6, <2>7, <2>8 DEF Puts
<1>17. /\ g41 \in [R -> Vec(W)] /\ \A r \in DOMAIN Constants("AVX2") : g41[r] = f[r]
       /\ g41["Y13"] = v.raw /\ g41["Y14"] = v.high /\ g41["Y12"] = v.carry
       /\ g41["Y15"] = v.err5
  <2>1. Puts(R, g38, g39, "Y13", v.raw)
    <3>1. g39 = Execute(g38, << "VMOVDQA", "Y0", "Y13" >>)
      BY <1>2 DEF g38, g39, validBlocksAVX2
    <3>2. /\ g38 \in [R -> Vec(W)] /\ "Y0" \in R /\ "Y13" \in R
          /\ g38["Y0"] = v.raw
      BY <1>3, <1>4, <1>16 DEF Puts
    <3> QED
      BY <3>1, <3>2, DoMove, Zenon
  <2>2. Puts(R, g39, g40, "Y14", v.high)
    <3>1. g40 = Execute(g39, << "VMOVDQA", "Y1", "Y14" >>)
      BY <1>2 DEF g39, g40, validBlocksAVX2
    <3>2. /\ g39 \in [R -> Vec(W)] /\ "Y1" \in R /\ "Y14" \in R
          /\ g39["Y1"] = v.high
      BY <1>3, <1>4, <1>16, <2>1 DEF Puts
    <3> QED
      BY <3>1, <3>2, DoMove, Zenon
  <2>3. Puts(R, g40, g41, "Y12", v.carry)
    <3>1. g41 = Execute(g40, << "VMOVDQA", "Y3", "Y12" >>)
      BY <1>2 DEF g40, g41, validBlocksAVX2
    <3>2. /\ g40 \in [R -> Vec(W)] /\ "Y3" \in R /\ "Y12" \in R
          /\ g40["Y3"] = v.carry
      BY <1>3, <1>4, <1>16, <2>1, <2>2 DEF Puts
    <3> QED
      BY <3>1, <3>2, DoMove, Zenon
  <2> QED
    BY <1>3, <1>16, <2>1, <2>2, <2>3, FileAVX2 DEF Puts
<1>18. g41 = Run(f, validBlocksAVX2)
  BY <1>2 DEF g41
<1> QED
  BY <1>17, <1>18 DEF Steady, R

\* The names of the NEON kernel, and the constants it keeps in them.
LEMMA FileNEON ==
  /\ Home("NEON") = [block |-> "V0", err |-> "V15", raw |-> "V13", high |-> "V14",
                           carry |-> "V12"]
  /\ DOMAIN Constants("NEON") = {"c0F", "c01", "c02", "cF4", "cED", "c9F", "c8F",
                                  "c00", "V20", "V21", "V22", "V24", "V25", "V26",
                                  "V27", "V30", "V31"}
  /\ DOMAIN Cleared("NEON") = {"V15", "V13", "V14", "V12"}
  /\ Scratch("NEON") = {"V0", "V1", "V2", "V3", "V4", "V5", "V6", "V7", "V8", "V9",
                         "V10", "V11"}
  /\ Constants("NEON")["c0F"] = Every(15) /\ Constants("NEON")["c01"] = Every(1)
  /\ Constants("NEON")["c02"] = Every(2) /\ Constants("NEON")["cF4"] = Every(244)
  /\ Constants("NEON")["cED"] = Every(237) /\ Constants("NEON")["c9F"] = Every(159)
  /\ Constants("NEON")["c8F"] = Every(143) /\ Constants("NEON")["c00"] = Zero(W)
  /\ Constants("NEON")["V20"] = Entries(contLenN)
  /\ Constants("NEON")["V21"] = Entries(initMinsN)
  /\ Constants("NEON")["V22"] = Entries(secMinsN) /\ Constants("NEON")["V24"] = Every(244)
  /\ Constants("NEON")["V25"] = Every(237) /\ Constants("NEON")["V26"] = Every(159)
  /\ Constants("NEON")["V27"] = Every(143) /\ Constants("NEON")["V30"] = Every(1)
  /\ Constants("NEON")["V31"] = Every(2) /\ Len(validBlocksNEON) = 34
<1>1. Home("NEON") = [block |-> "V0", err |-> "V15", raw |-> "V13", high |-> "V14",
                     carry |-> "V12"]
  BY Zenon DEF Home
<1>2. Code("NEON") = NEON
  BY Zenon DEF Code
<1>3. /\ NEON.lens = contLenN /\ NEON.inits = initMinsN
      /\ NEON.secs = secMinsN
  BY DEF NEON
<1>4. Loaded("NEON") = [V20 |-> Entries(Code("NEON").lens),
   V21 |-> Entries(Code("NEON").inits), V22 |-> Entries(Code("NEON").secs),
   V24 |-> Every(244), V25 |-> Every(237), V26 |-> Every(159), V27 |-> Every(143),
   V30 |-> Every(1), V31 |-> Every(2)]
  BY ZenonT(60) DEF Loaded
<1>5. Scratch("NEON") = {"V0", "V1", "V2", "V3", "V4", "V5", "V6", "V7", "V8", "V9",
                         "V10", "V11"}
  BY Zenon DEF Scratch
<1>6. DOMAIN Constants("NEON") = {"c0F", "c01", "c02", "cF4", "cED", "c9F", "c8F",
                                  "c00", "V20", "V21", "V22", "V24", "V25", "V26",
                                  "V27", "V30", "V31"}
  BY <1>4 DEF Constants, Over, Memory
<1>7. DOMAIN Cleared("NEON") = {"V15", "V13", "V14", "V12"}
  BY <1>1 DEF Cleared
<1>8. /\ Constants("NEON")["c0F"] = Every(15) /\ Constants("NEON")["c01"] = Every(1)
      /\ Constants("NEON")["c02"] = Every(2) /\ Constants("NEON")["cF4"] = Every(244)
      /\ Constants("NEON")["cED"] = Every(237) /\ Constants("NEON")["c9F"] = Every(159)
      /\ Constants("NEON")["c8F"] = Every(143) /\ Constants("NEON")["c00"] = Zero(W)
      /\ Constants("NEON")["V20"] = Entries(contLenN)
      /\ Constants("NEON")["V21"] = Entries(initMinsN)
      /\ Constants("NEON")["V22"] = Entries(secMinsN)
      /\ Constants("NEON")["V24"] = Every(244) /\ Constants("NEON")["V25"] = Every(237)
      /\ Constants("NEON")["V26"] = Every(159) /\ Constants("NEON")["V27"] = Every(143)
      /\ Constants("NEON")["V30"] = Every(1) /\ Constants("NEON")["V31"] = Every(2)
  BY <1>2, <1>3, <1>4 DEF Constants, Over, Memory
<1>9. Len(validBlocksNEON) = 34
  BY DEF validBlocksNEON, emitSGT
<1> QED
  BY <1>1, <1>5, <1>6, <1>7, <1>8, <1>9

\* The loop body of the NEON kernel: what it leaves in the registers.
LEMMA BodyNEON ==
  ASSUME NEW f, Steady("NEON", f), NEW v, Ways(v),
         f["V0"] = v.raw, f["V15"] = v.err0,
         f["V13"] = v.lastRaw, f["V14"] = v.lastHigh, f["V12"] = v.lastCarry
  PROVE  /\ Steady("NEON", Run(f, validBlocksNEON))
         /\ Run(f, validBlocksNEON)["V13"] = v.raw /\ Run(f, validBlocksNEON)["V14"] = v.high
         /\ Run(f, validBlocksNEON)["V12"] = v.carry /\ Run(f, validBlocksNEON)["V15"] = v.err5
<1> DEFINE R     == Names("NEON")
           Fixed == {"c0F", "c01", "c02", "cF4", "cED", "c9F", "c8F", "c00", "V20",
                     "V21", "V22", "V24", "V25", "V26", "V27", "V30", "V31", "V0",
                     "V13", "V14", "V12"}
<1>1. Len(validBlocksNEON) = 34
  BY FileNEON
<1>2. PICK a : /\ a[0] = f /\ a[34] = Run(f, validBlocksNEON)
               /\ \A k \in 1..34 : a[k] = Execute(a[k - 1], validBlocksNEON[k])
  <2>1. Len(validBlocksNEON) \in Nat
    BY <1>1
  <2>2. PICK a : Traces(a, f, validBlocksNEON, Len(validBlocksNEON))
    BY <2>1, Runs
  <2> QED
    BY <1>1, <2>2 DEF Traces
<1>3. /\ {"c0F", "c01", "c02", "cF4", "cED", "c9F", "c8F", "c00", "V20", "V21", "V22",
          "V24", "V25", "V26", "V27", "V30", "V31", "V0", "V1", "V2", "V3", "V4", "V5",
          "V6", "V7", "V8", "V9", "V10", "V11", "V15", "V13", "V14", "V12"} \subseteq R
      /\ f \in [R -> Vec(W)] /\ DOMAIN Constants("NEON") \subseteq Fixed
  BY FileNEON DEF Steady, Names
<1>4. /\ f["V20"] = Entries(contLenN) /\ f["V21"] = Entries(initMinsN)
      /\ f["V22"] = Entries(secMinsN) /\ f["V24"] = Every(244) /\ f["V25"] = Every(237)
      /\ f["V26"] = Every(159) /\ f["V27"] = Every(143) /\ f["V30"] = Every(1)
      /\ f["V31"] = Every(2)
  BY FileNEON DEF Steady
\* The register file after k instructions.
<1> DEFINE g0 == a[0]  g1 == a[1]  g2 == a[2]  g3 == a[3]  g4 == a[4]  g5 == a[5]
           g6 == a[6]  g7 == a[7]  g8 == a[8]  g9 == a[9]  g10 == a[10]  g11 == a[11]
           g12 == a[12]  g13 == a[13]  g14 == a[14]  g15 == a[15]  g16 == a[16]  g17 == a[17]
           g18 == a[18]  g19 == a[19]  g20 == a[20]  g21 == a[21]  g22 == a[22]  g23 == a[23]
           g24 == a[24]  g25 == a[25]  g26 == a[26]  g27 == a[27]  g28 == a[28]  g29 == a[29]
           g30 == a[30]  g31 == a[31]  g32 == a[32]  g33 == a[33]  g34 == a[34]
<1> HIDE DEF R, g0, g1, g2, g3, g4, g5, g6, g7, g8, g9, g10, g11, g12, g13, g14, g15, g16,
   g17, g18, g19, g20, g21, g22, g23, g24, g25, g26, g27, g28, g29, g30, g31, g32, g33, g34
<1> DEFINE Live(g) == g \in [R -> Vec(W)] /\ \A r \in Fixed : g[r] = f[r]
<1>5. Live(g0) /\ g0["V15"] = v.err0
  BY <1>2, <1>3 DEF g0
<1>6. /\ Live(g1) /\ g1["V15"] = v.err0 /\ g1["V1"] = v.high
  <2>1. Puts(R, g0, g1, "V1", v.high)
    <3>1. g1 = Execute(g0, << "VUSHR_4", "V0", "V1" >>)
      BY <1>2 DEF g0, g1, validBlocksNEON
    <3>2. /\ g0 \in [R -> Vec(W)] /\ "V0" \in R /\ "V1" \in R
          /\ HighByByte(W, g0["V0"]) = v.high
      BY <1>3, <1>4, <1>5 DEF Puts, Ways
    <3> QED
      BY <3>1, <3>2, DoSrl4B, Zenon
  <2> QED
    BY <1>5, <1>3, <2>1 DEF Puts
<1>7. /\ Live(g3) /\ g3["V15"] = v.err1 /\ g3["V1"] = v.high
  <2>1. Puts(R, g1, g2, "V3", v.excess)
    <3>1. g2 = Execute(g1, << "VUQSUB", "V24", "V0", "V3" >>)
      BY <1>2 DEF g1, g2, validBlocksNEON
    <3>2. /\ g1 \in [R -> Vec(W)] /\ "V24" \in R /\ "V0" \in R /\ "V3" \in R
          /\ SubSatB(g1["V0"], g1["V24"]) = v.excess
      BY <1>3, <1>4, <1>6 DEF Puts, Ways
    <3> QED
      BY <3>1, <3>2, DoSubSat, Zenon
  <2>2. Puts(R, g2, g3, "V15", v.err1)
    <3>1. g3 = Execute(g2, << "VORR", "V3", "V15", "V15" >>)
      BY <1>2 DEF g2, g3, validBlocksNEON
    <3>2. /\ g2 \in [R -> Vec(W)] /\ "V3" \in R /\ "V15" \in R
          /\ OrB(g2["V3"], g2["V15"]) = v.err1
      BY <1>3, <1>4, <1>6, <2>1 DEF Puts, Ways
    <3> QED
      BY <3>1, <3>2, DoOr, Zenon
  <2> QED
    BY <1>6, <1>3, <2>1, <2>2 DEF Puts
<1>8. /\ Live(g4) /\ g4["V15"] = v.err1 /\ g4["V1"] = v.high /\ g4["V2"] = v.len
  <2>1. Puts(R, g3, g4, "V2", v.len)
    <3>1. g4 = Execute(g3, << "VTBL", "V1", "V20", "V2" >>)
      BY <1>2 DEF g3, g4, validBlocksNEON
    <3>2. /\ g3 \in [R -> Vec(W)] /\ "V1" \in R /\ "V20" \in R /\ "V2" \in R
          /\ Pick(g3["V20"], g3["V1"]) = v.len
      BY <1>3, <1>4, <1>7 DEF Puts, Ways
    <3> QED
      BY <3>1, <3>2, DoPick, Zenon
  <2> QED
    BY <1>7, <1>3, <2>1 DEF Puts
<1>9. /\ Live(g7) /\ g7["V15"] = v.err1 /\ g7["V1"] = v.high /\ g7["V2"] = v.len
       /\ g7["V3"] = v.sum
  <2>1. Puts(R, g4, g5, "V3", v.in1)
    <3>1. g5 = Execute(g4, << "VEXT_15", "V2", "V12", "V3" >>)
      BY <1>2 DEF g4, g5, validBlocksNEON
    <3>2. /\ g4 \in [R -> Vec(W)] /\ "V2" \in R /\ "V12" \in R /\ "V3" \in R
          /\ ShiftIn(W, 1, g4["V12"], g4["V2"]) = v.in1
      BY <1>3, <1>4, <1>8 DEF Puts, Ways
    <3> QED
      BY <3>1, <3>2, DoExt1, Zenon
  <2>2. Puts(R, g5, g6, "V3", v.less1)
    <3>1. g6 = Execute(g5, << "VUQSUB", "V30", "V3", "V3" >>)
      BY <1>2 DEF g5, g6, validBlocksNEON
    <3>2. /\ g5 \in [R -> Vec(W)] /\ "V30" \in R /\ "V3" \in R
          /\ SubSatB(g5["V3"], g5["V30"]) = v.less1
      BY <1>3, <1>4, <1>8, <2>1 DEF Puts, Ways
    <3> QED
      BY <3>1, <3>2, DoSubSat, Zenon
  <2>3. Puts(R, g6, g7, "V3", v.sum)
    <3>1. g7 = Execute(g6, << "VADD", "V2", "V3", "V3" >>)
      BY <1>2 DEF g6, g7, validBlocksNEON
    <3>2. /\ g6 \in [R -> Vec(W)] /\ "V2" \in R /\ "V3" \in R
          /\ AddB(W, g6["V2"], g6["V3"]) = v.sum
      BY <1>3, <1>4, <1>8, <2>1, <2>2 DEF Puts, Ways
    <3> QED
      BY <3>1, <3>2, DoAdd, Zenon
  <2> QED
    BY <1>8, <1>3, <2>1, <2>2, <2>3 DEF Puts
<1>10. /\ Live(g10) /\ g10["V15"] = v.err1 /\ g10["V1"] = v.high /\ g10["V2"] = v.len
       /\ g10["V3"] = v.carry
  <2>1. Puts(R, g7, g8, "V5", v.in2)
    <3>1. g8 = Execute(g7, << "VEXT_14", "V3", "V12", "V5" >>)
      BY <1>2 DEF g7, g8, validBlocksNEON
    <3>2. /\ g7 \in [R -> Vec(W)] /\ "V3" \in R /\ "V12" \in R /\ "V5" \in R
          /\ ShiftIn(W, 2, g7["V12"], g7["V3"]) = v.in2
      BY <1>3, <1>4, <1>9 DEF Puts, Ways
    <3> QED
      BY <3>1, <3>2, DoExt2, Zenon
  <2>2. Puts(R, g8, g9, "V5", v.less2)
    <3>1. g9 = Execute(g8, << "VUQSUB", "V31", "V5", "V5" >>)
      BY <1>2 DEF g8, g9, validBlocksNEON
    <3>2. /\ g8 \in [R -> Vec(W)] /\ "V31" \in R /\ "V5" \in R
          /\ SubSatB(g8["V5"], g8["V31"]) = v.less2
      BY <1>3, <1>4, <1>9, <2>1 DEF Puts, Ways
    <3> QED
      BY <3>1, <3>2, DoSubSat, Zenon
  <2>3. Puts(R, g9, g10, "V3", v.carry)
    <3>1. g10 = Execute(g9, << "VADD", "V5", "V3", "V3" >>)
      BY <1>2 DEF g9, g10, validBlocksNEON
    <3>2. /\ g9 \in [R -> Vec(W)] /\ "V5" \in R /\ "V3" \in R
          /\ AddB(W, g9["V5"], g9["V3"]) = v.carry
      BY <1>3, <1>4, <1>9, <2>1, <2>2 DEF Puts, Ways
    <3> QED
      BY <3>1, <3>2, DoAdd, Zenon
  <2> QED
    BY <1>9, <1>3, <2>1, <2>2, <2>3 DEF Puts
<1>11. /\ Live(g15) /\ g15["V15"] = v.err2 /\ g15["V1"] = v.high /\ g15["V3"] = v.carry
  <2>1. Puts(R, g10, g11, "V5", v.more)
    <3>1. g11 = Execute(g10, << "VCMGT", "V2", "V3", "V5" >>)
      BY <1>2 DEF g10, g11, validBlocksNEON, emitSGT
    <3>2. /\ g10 \in [R -> Vec(W)] /\ "V2" \in R /\ "V3" \in R /\ "V5" \in R
          /\ GtB(g10["V3"], g10["V2"]) = v.more
      BY <1>3, <1>4, <1>10 DEF Puts, Ways
    <3> QED
      BY <3>1, <3>2, DoGt, Zenon
  <2>2. Puts(R, g11, g12, "V7", Zero(W))
    <3>1. g12 = Execute(g11, << "VMOVI_0", "V7" >>)
      BY <1>2 DEF g11, g12, validBlocksNEON
    <3>2. /\ g11 \in [R -> Vec(W)] /\ "V7" \in R
          /\ Zero(W) = Zero(W)
      BY <1>3, <1>4, <1>10, <2>1 DEF Puts
    <3> QED
      BY <3>1, <3>2, DoZero, Zenon
  <2>3. Puts(R, g12, g13, "V6", v.lead)
    <3>1. g13 = Execute(g12, << "VCMGT", "V7", "V2", "V6" >>)
      BY <1>2 DEF g12, g13, validBlocksNEON, emitSGT
    <3>2. /\ g12 \in [R -> Vec(W)] /\ "V7" \in R /\ "V2" \in R /\ "V6" \in R
          /\ GtB(g12["V2"], g12["V7"]) = v.lead
      BY <1>3, <1>4, <1>10, <2>1, <2>2 DEF Puts, Ways
    <3> QED
      BY <3>1, <3>2, DoGt, Zenon
  <2>4. Puts(R, g13, g14, "V5", v.gap)
    <3>1. g14 = Execute(g13, << "VCMEQ", "V6", "V5", "V5" >>)
      BY <1>2 DEF g13, g14, validBlocksNEON
    <3>2. /\ g13 \in [R -> Vec(W)] /\ "V6" \in R /\ "V5" \in R
          /\ EqB(g13["V6"], g13["V5"]) = v.gap
      BY <1>3, <1>4, <1>10, <2>1, <2>2, <2>3 DEF Puts, Ways
    <3> QED
      BY <3>1, <3>2, DoEq, Zenon
  <2>5. Puts(R, g14, g15, "V15", v.err2)
    <3>1. g15 = Execute(g14, << "VORR", "V5", "V15", "V15" >>)
      BY <1>2 DEF g14, g15, validBlocksNEON
    <3>2. /\ g14 \in [R -> Vec(W)] /\ "V5" \in R /\ "V15" \in R
          /\ OrB(g14["V5"], g14["V15"]) = v.err2
      BY <1>3, <1>4, <1>10, <2>1, <2>2, <2>3, <2>4 DEF Puts, Ways
    <3> QED
      BY <3>1, <3>2, DoOr, Zenon
  <2> QED
    BY <1>10, <1>3, <2>1, <2>2, <2>3, <2>4, <2>5 DEF Puts
<1>12. /\ Live(g16) /\ g16["V15"] = v.err2 /\ g16["V1"] = v.high /\ g16["V3"] = v.carry
       /\ g16["V8"] = v.off1
  <2>1. Puts(R, g15, g16, "V8", v.off1)
    <3>1. g16 = Execute(g15, << "VEXT_15", "V0", "V13", "V8" >>)
      BY <1>2 DEF g15, g16, validBlocksNEON
    <3>2. /\ g15 \in [R -> Vec(W)] /\ "V0" \in R /\ "V13" \in R /\ "V8" \in R
          /\ ShiftIn(W, 1, g15["V13"], g15["V0"]) = v.off1
      BY <1>3, <1>4, <1>11 DEF Puts, Ways
    <3> QED
      BY <3>1, <3>2, DoExt1, Zenon
  <2> QED
    BY <1>11, <1>3, <2>1 DEF Puts
<1>13. /\ Live(g20) /\ g20["V15"] = v.err3 /\ g20["V1"] = v.high /\ g20["V3"] = v.carry
       /\ g20["V8"] = v.off1
  <2>1. Puts(R, g16, g17, "V9", v.isED)
    <3>1. g17 = Execute(g16, << "VCMEQ", "V25", "V8", "V9" >>)
      BY <1>2 DEF g16, g17, validBlocksNEON
    <3>2. /\ g16 \in [R -> Vec(W)] /\ "V25" \in R /\ "V8" \in R /\ "V9" \in R
          /\ EqB(g16["V25"], g16["V8"]) = v.isED
      BY <1>3, <1>4, <1>12 DEF Puts, Ways
    <3> QED
      BY <3>1, <3>2, DoEq, Zenon
  <2>2. Puts(R, g17, g18, "V10", v.over9F)
    <3>1. g18 = Execute(g17, << "VCMGT", "V26", "V0", "V10" >>)
      BY <1>2 DEF g17, g18, validBlocksNEON, emitSGT
    <3>2. /\ g17 \in [R -> Vec(W)] /\ "V26" \in R /\ "V0" \in R /\ "V10" \in R
          /\ GtB(g17["V0"], g17["V26"]) = v.over9F
      BY <1>3, <1>4, <1>12, <2>1 DEF Puts, Ways
    <3> QED
      BY <3>1, <3>2, DoGt, Zenon
  <2>3. Puts(R, g18, g19, "V9", v.half)
    <3>1. g19 = Execute(g18, << "VAND", "V10", "V9", "V9" >>)
      BY <1>2 DEF g18, g19, validBlocksNEON
    <3>2. /\ g18 \in [R -> Vec(W)] /\ "V10" \in R /\ "V9" \in R
          /\ AndB(g18["V10"], g18["V9"]) = v.half
      BY <1>3, <1>4, <1>12, <2>1, <2>2 DEF Puts, Ways
    <3> QED
      BY <3>1, <3>2, DoAnd, Zenon
  <2>4. Puts(R, g19, g20, "V15", v.err3)
    <3>1. g20 = Execute(g19, << "VORR", "V9", "V15", "V15" >>)
      BY <1>2 DEF g19, g20, validBlocksNEON
    <3>2. /\ g19 \in [R -> Vec(W)] /\ "V9" \in R /\ "V15" \in R
          /\ OrB(g19["V9"], g19["V15"]) = v.err3
      BY <1>3, <1>4, <1>12, <2>1, <2>2, <2>3 DEF Puts, Ways
    <3> QED
      BY <3>1, <3>2, DoOr, Zenon
  <2> QED
    BY <1>12, <1>3, <2>1, <2>2, <2>3, <2>4 DEF Puts
<1>14. /\ Live(g24) /\ g24["V15"] = v.err4 /\ g24["V1"] = v.high /\ g24["V3"] = v.carry
       /\ g24["V8"] = v.off1
  <2>1. Puts(R, g20, g21, "V9", v.isF4)
    <3>1. g21 = Execute(g20, << "VCMEQ", "V24", "V8", "V9" >>)
      BY <1>2 DEF g20, g21, validBlocksNEON
    <3>2. /\ g20 \in [R -> Vec(W)] /\ "V24" \in R /\ "V8" \in R /\ "V9" \in R
          /\ EqB(g20["V24"], g20["V8"]) = v.isF4
      BY <1>3, <1>4, <1>13 DEF Puts, Ways
    <3> QED
      BY <3>1, <3>2, DoEq, Zenon
  <2>2. Puts(R, g21, g22, "V10", v.over8F)
    <3>1. g22 = Execute(g21, << "VCMGT", "V27", "V0", "V10" >>)
      BY <1>2 DEF g21, g22, validBlocksNEON, emitSGT
    <3>2. /\ g21 \in [R -> Vec(W)] /\ "V27" \in R /\ "V0" \in R /\ "V10" \in R
          /\ GtB(g21["V0"], g21["V27"]) = v.over8F
      BY <1>3, <1>4, <1>13, <2>1 DEF Puts, Ways
    <3> QED
      BY <3>1, <3>2, DoGt, Zenon
  <2>3. Puts(R, g22, g23, "V9", v.beyond)
    <3>1. g23 = Execute(g22, << "VAND", "V10", "V9", "V9" >>)
      BY <1>2 DEF g22, g23, validBlocksNEON
    <3>2. /\ g22 \in [R -> Vec(W)] /\ "V10" \in R /\ "V9" \in R
          /\ AndB(g22["V10"], g22["V9"]) = v.beyond
      BY <1>3, <1>4, <1>13, <2>1, <2>2 DEF Puts, Ways
    <3> QED
      BY <3>1, <3>2, DoAnd, Zenon
  <2>4. Puts(R, g23, g24, "V15", v.err4)
    <3>1. g24 = Execute(g23, << "VORR", "V9", "V15", "V15" >>)
      BY <1>2 DEF g23, g24, validBlocksNEON
    <3>2. /\ g23 \in [R -> Vec(W)] /\ "V9" \in R /\ "V15" \in R
          /\ OrB(g23["V9"], g23["V15"]) = v.err4
      BY <1>3, <1>4, <1>13, <2>1, <2>2, <2>3 DEF Puts, Ways
    <3> QED
      BY <3>1, <3>2, DoOr, Zenon
  <2> QED
    BY <1>13, <1>3, <2>1, <2>2, <2>3, <2>4 DEF Puts
<1>15. /\ Live(g25) /\ g25["V15"] = v.err4 /\ g25["V1"] = v.high /\ g25["V3"] = v.carry
       /\ g25["V8"] = v.off1 /\ g25["V9"] = v.off1hi
  <2>1. Puts(R, g24, g25, "V9", v.off1hi)
    <3>1. g25 = Execute(g24, << "VEXT_15", "V1", "V14", "V9" >>)
      BY <1>2 DEF g24, g25, validBlocksNEON
    <3>2. /\ g24 \in [R -> Vec(W)] /\ "V1" \in R /\ "V14" \in R /\ "V9" \in R
          /\ ShiftIn(W, 1, g24["V14"], g24["V1"]) = v.off1hi
      BY <1>3, <1>4, <1>14 DEF Puts, Ways
    <3> QED
      BY <3>1, <3>2, DoExt1, Zenon
  <2> QED
    BY <1>14, <1>3, <2>1 DEF Puts
<1>16. /\ Live(g31) /\ g31["V15"] = v.err5 /\ g31["V1"] = v.high /\ g31["V3"] = v.carry
  <2>1. Puts(R, g25, g26, "V10", v.init)
    <3>1. g26 = Execute(g25, << "VTBL", "V9", "V21", "V10" >>)
      BY <1>2 DEF g25, g26, validBlocksNEON
    <3>2. /\ g25 \in [R -> Vec(W)] /\ "V9" \in R /\ "V21" \in R /\ "V10" \in R
          /\ Pick(g25["V21"], g25["V9"]) = v.init
      BY <1>3, <1>4, <1>15 DEF Puts, Ways
    <3> QED
      BY <3>1, <3>2, DoPick, Zenon
  <2>2. Puts(R, g26, g27, "V10", v.first)
    <3>1. g27 = Execute(g26, << "VCMGT", "V8", "V10", "V10" >>)
      BY <1>2 DEF g26, g27, validBlocksNEON, emitSGT
    <3>2. /\ g26 \in [R -> Vec(W)] /\ "V8" \in R /\ "V10" \in R
          /\ GtB(g26["V10"], g26["V8"]) = v.first
      BY <1>3, <1>4, <1>15, <2>1 DEF Puts, Ways
    <3> QED
      BY <3>1, <3>2, DoGt, Zenon
  <2>3. Puts(R, g27, g28, "V11", v.sec)
    <3>1. g28 = Execute(g27, << "VTBL", "V9", "V22", "V11" >>)
      BY <1>2 DEF g27, g28, validBlocksNEON
    <3>2. /\ g27 \in [R -> Vec(W)] /\ "V9" \in R /\ "V22" \in R /\ "V11" \in R
          /\ Pick(g27["V22"], g27["V9"]) = v.sec
      BY <1>3, <1>4, <1>15, <2>1, <2>2 DEF Puts, Ways
    <3> QED
      BY <3>1, <3>2, DoPick, Zenon
  <2>4. Puts(R, g28, g29, "V11", v.second)
    <3>1. g29 = Execute(g28, << "VCMGT", "V0", "V11", "V11" >>)
      BY <1>2 DEF g28, g29, validBlocksNEON, emitSGT
    <3>2. /\ g28 \in [R -> Vec(W)] /\ "V0" \in R /\ "V11" \in R
          /\ GtB(g28["V11"], g28["V0"]) = v.second
      BY <1>3, <1>4, <1>15, <2>1, <2>2, <2>3 DEF Puts, Ways
    <3> QED
      BY <3>1, <3>2, DoGt, Zenon
  <2>5. Puts(R, g29, g30, "V10", v.long)
    <3>1. g30 = Execute(g29, << "VAND", "V11", "V10", "V10" >>)
      BY <1>2 DEF g29, g30, validBlocksNEON
    <3>2. /\ g29 \in [R -> Vec(W)] /\ "V11" \in R /\ "V10" \in R
          /\ AndB(g29["V11"], g29["V10"]) = v.long
      BY <1>3, <1>4, <1>15, <2>1, <2>2, <2>3, <2>4 DEF Puts, Ways
    <3> QED
      BY <3>1, <3>2, DoAnd, Zenon
  <2>6. Puts(R, g30, g31, "V15", v.err5)
    <3>1. g31 = Execute(g30, << "VORR", "V10", "V15", "V15" >>)
      BY <1>2 DEF g30, g31, validBlocksNEON
    <3>2. /\ g30 \in [R -> Vec(W)] /\ "V10" \in R /\ "V15" \in R
          /\ OrB(g30["V10"], g30["V15"]) = v.err5
      BY <1>3, <1>4, <1>15, <2>1, <2>2, <2>3, <2>4, <2>5 DEF Puts, Ways
    <3> QED
      BY <3>1, <3>2, DoOr, Zenon
  <2> QED
    BY <1>15, <1>3, <2>1, <2>2, <2>3, <2>4, <2>5, <2>6 DEF Puts
<1>17. /\ g34 \in [R -> Vec(W)] /\ \A r \in DOMAIN Constants("NEON") : g34[r] = f[r]
       /\ g34["V13"] = v.raw /\ g34["V14"] = v.high /\ g34["V12"] = v.carry
       /\ g34["V15"] = v.err5
  <2>1. Puts(R, g31, g32, "V13", v.raw)
    <3>1. g32 = Execute(g31, << "VORR", "V0", "V0", "V13" >>)
      BY <1>2 DEF g31, g32, validBlocksNEON
    <3>2. /\ g31 \in [R -> Vec(W)] /\ "V0" \in R /\ "V13" \in R
          /\ OrB(g31["V0"], g31["V0"]) = v.raw
      BY <1>3, <1>4, <1>16 DEF Puts, Ways
    <3> QED
      BY <3>1, <3>2, DoOr, Zenon
  <2>2. Puts(R, g32, g33, "V14", v.high)
    <3>1. g33 = Execute(g32, << "VORR", "V1", "V1", "V14" >>)
      BY <1>2 DEF g32, g33, validBlocksNEON
    <3>2. /\ g32 \in [R -> Vec(W)] /\ "V1" \in R /\ "V14" \in R
          /\ OrB(g32["V1"], g32["V1"]) = v.high
      BY <1>3, <1>4, <1>16, <2>1 DEF Puts, Ways
    <3> QED
      BY <3>1, <3>2, DoOr, Zenon
  <2>3. Puts(R, g33, g34, "V12", v.carry)
    <3>1. g34 = Execute(g33, << "VORR", "V3", "V3", "V12" >>)
      BY <1>2 DEF g33, g34, validBlocksNEON
    <3>2. /\ g33 \in [R -> Vec(W)] /\ "V3" \in R /\ "V12" \in R
          /\ OrB(g33["V3"], g33["V3"]) = v.carry
      BY <1>3, <1>4, <1>16, <2>1, <2>2 DEF Puts, Ways
    <3> QED
      BY <3>1, <3>2, DoOr, Zenon
  <2> QED
    BY <1>3, <1>16, <2>1, <2>2, <2>3, FileNEON DEF Puts
<1>18. g34 = Run(f, validBlocksNEON)
  BY <1>2 DEF g34
<1> QED
  BY <1>17, <1>18 DEF Steady, R

\* The names of the VSX kernel, and the constants it keeps in them.
LEMMA FileVSX ==
  /\ Home("VSX") = [block |-> "V0", err |-> "V20", raw |-> "V21", high |-> "V22",
                           carry |-> "V23"]
  /\ DOMAIN Constants("VSX") = {"c0F", "c01", "c02", "cF4", "cED", "c9F", "c8F",
                                  "c00", "V24", "V25", "V26", "V27", "V28", "V29",
                                  "V30", "V31"}
  /\ DOMAIN Cleared("VSX") = {"V20", "V21", "V22", "V23"}
  /\ Scratch("VSX") = {"V0", "V1", "V2", "V3", "V4", "V5", "V6", "V7", "V8", "V9",
                         "V10", "V11"}
  /\ Constants("VSX")["c0F"] = Every(15) /\ Constants("VSX")["c01"] = Every(1)
  /\ Constants("VSX")["c02"] = Every(2) /\ Constants("VSX")["cF4"] = Every(244)
  /\ Constants("VSX")["cED"] = Every(237) /\ Constants("VSX")["c9F"] = Every(159)
  /\ Constants("VSX")["c8F"] = Every(143) /\ Constants("VSX")["c00"] = Zero(W)
  /\ Constants("VSX")["V24"] = Entries(contLenN)
  /\ Constants("VSX")["V25"] = Entries(initMinsN)
  /\ Constants("VSX")["V26"] = Entries(secMinsN) /\ Constants("VSX")["V27"] = Every(4)
  /\ Constants("VSX")["V28"] = Every(1) /\ Constants("VSX")["V29"] = Every(2)
  /\ Constants("VSX")["V30"] = Every(244) /\ Constants("VSX")["V31"] = Zero(W)
  /\ Len(validBlocksVSX) = 37
<1>1. Home("VSX") = [block |-> "V0", err |-> "V20", raw |-> "V21", high |-> "V22",
                     carry |-> "V23"]
  BY Zenon DEF Home
<1>2. Code("VSX") = VSX
  BY Zenon DEF Code
<1>3. /\ VSX.lens = contLenN /\ VSX.inits = initMinsN
      /\ VSX.secs = secMinsN
  BY DEF VSX, contLen_p, initMins_p, secMins_p, contLenN, initMinsN, secMinsN
<1>4. Loaded("VSX") = [V24 |-> Entries(Code("VSX").lens),
   V25 |-> Entries(Code("VSX").inits), V26 |-> Entries(Code("VSX").secs), V27 |-> Every(4),
   V28 |-> Every(1), V29 |-> Every(2), V30 |-> Every(244), V31 |-> Zero(W)]
  BY ZenonT(60) DEF Loaded
<1>5. Scratch("VSX") = {"V0", "V1", "V2", "V3", "V4", "V5", "V6", "V7", "V8", "V9",
                         "V10", "V11"}
  BY Zenon DEF Scratch
<1>6. DOMAIN Constants("VSX") = {"c0F", "c01", "c02", "cF4", "cED", "c9F", "c8F",
                                  "c00", "V24", "V25", "V26", "V27", "V28", "V29",
                                  "V30", "V31"}
  BY <1>4 DEF Constants, Over, Memory
<1>7. DOMAIN Cleared("VSX") = {"V20", "V21", "V22", "V23"}
  BY <1>1 DEF Cleared
<1>8. /\ Constants("VSX")["c0F"] = Every(15) /\ Constants("VSX")["c01"] = Every(1)
      /\ Constants("VSX")["c02"] = Every(2) /\ Constants("VSX")["cF4"] = Every(244)
      /\ Constants("VSX")["cED"] = Every(237) /\ Constants("VSX")["c9F"] = Every(159)
      /\ Constants("VSX")["c8F"] = Every(143) /\ Constants("VSX")["c00"] = Zero(W)
      /\ Constants("VSX")["V24"] = Entries(contLenN)
      /\ Constants("VSX")["V25"] = Entries(initMinsN)
      /\ Constants("VSX")["V26"] = Entries(secMinsN) /\ Constants("VSX")["V27"] = Every(4)
      /\ Constants("VSX")["V28"] = Every(1) /\ Constants("VSX")["V29"] = Every(2)
      /\ Constants("VSX")["V30"] = Every(244) /\ Constants("VSX")["V31"] = Zero(W)
  BY <1>2, <1>3, <1>4 DEF Constants, Over, Memory
<1>9. Len(validBlocksVSX) = 37
  BY DEF validBlocksVSX
<1> QED
  BY <1>1, <1>5, <1>6, <1>7, <1>8, <1>9

\* The loop body of the VSX kernel: what it leaves in the registers.
LEMMA BodyVSX ==
  ASSUME NEW f, Steady("VSX", f), NEW v, Ways(v),
         f["V0"] = v.raw, f["V20"] = v.err0,
         f["V21"] = v.lastRaw, f["V22"] = v.lastHigh, f["V23"] = v.lastCarry
  PROVE  /\ Steady("VSX", Run(f, validBlocksVSX))
         /\ Run(f, validBlocksVSX)["V21"] = v.raw /\ Run(f, validBlocksVSX)["V22"] = v.high
         /\ Run(f, validBlocksVSX)["V23"] = v.carry /\ Run(f, validBlocksVSX)["V20"] = v.err5
<1> DEFINE R     == Names("VSX")
           Fixed == {"c0F", "c01", "c02", "cF4", "cED", "c9F", "c8F", "c00", "V24",
                     "V25", "V26", "V27", "V28", "V29", "V30", "V31", "V0", "V21",
                     "V22", "V23"}
<1>1. Len(validBlocksVSX) = 37
  BY FileVSX
<1>2. PICK a : /\ a[0] = f /\ a[37] = Run(f, validBlocksVSX)
               /\ \A k \in 1..37 : a[k] = Execute(a[k - 1], validBlocksVSX[k])
  <2>1. Len(validBlocksVSX) \in Nat
    BY <1>1
  <2>2. PICK a : Traces(a, f, validBlocksVSX, Len(validBlocksVSX))
    BY <2>1, Runs
  <2> QED
    BY <1>1, <2>2 DEF Traces
<1>3. /\ {"c0F", "c01", "c02", "cF4", "cED", "c9F", "c8F", "c00", "V24", "V25", "V26",
          "V27", "V28", "V29", "V30", "V31", "V0", "V1", "V2", "V3", "V4", "V5", "V6",
          "V7", "V8", "V9", "V10", "V11", "V20", "V21", "V22", "V23"} \subseteq R
      /\ f \in [R -> Vec(W)] /\ DOMAIN Constants("VSX") \subseteq Fixed
  BY FileVSX DEF Steady, Names
<1>4. /\ f["cF4"] = Every(244) /\ f["cED"] = Every(237) /\ f["c9F"] = Every(159)
      /\ f["c8F"] = Every(143) /\ f["V24"] = Entries(contLenN)
      /\ f["V25"] = Entries(initMinsN) /\ f["V26"] = Entries(secMinsN)
      /\ f["V27"] = Every(4) /\ f["V28"] = Every(1) /\ f["V29"] = Every(2)
      /\ f["V30"] = Every(244) /\ f["V31"] = Zero(W)
  BY FileVSX DEF Steady
\* The register file after k instructions.
<1> DEFINE g0 == a[0]  g1 == a[1]  g2 == a[2]  g3 == a[3]  g4 == a[4]  g5 == a[5]
           g6 == a[6]  g7 == a[7]  g8 == a[8]  g9 == a[9]  g10 == a[10]  g11 == a[11]
           g12 == a[12]  g13 == a[13]  g14 == a[14]  g15 == a[15]  g16 == a[16]  g17 == a[17]
           g18 == a[18]  g19 == a[19]  g20 == a[20]  g21 == a[21]  g22 == a[22]  g23 == a[23]
           g24 == a[24]  g25 == a[25]  g26 == a[26]  g27 == a[27]  g28 == a[28]  g29 == a[29]
           g30 == a[30]  g31 == a[31]  g32 == a[32]  g33 == a[33]  g34 == a[34]  g35 == a[35]
           g36 == a[36]  g37 == a[37]
<1> HIDE DEF R, g0, g1, g2, g3, g4, g5, g6, g7, g8, g9, g10, g11, g12, g13, g14, g15, g16,
   g17, g18, g19, g20, g21, g22, g23, g24, g25, g26, g27, g28, g29, g30, g31, g32, g33, g34,
   g35, g36, g37
<1> DEFINE Live(g) == g \in [R -> Vec(W)] /\ \A r \in Fixed : g[r] = f[r]
<1>5. Live(g0) /\ g0["V20"] = v.err0
  BY <1>2, <1>3 DEF g0
<1>6. /\ Live(g1) /\ g1["V20"] = v.err0 /\ g1["V1"] = v.high
  <2>1. Puts(R, g0, g1, "V1", v.high)
    <3>1. g1 = Execute(g0, << "VSRB", "V0", "V27", "V1" >>)
      BY <1>2 DEF g0, g1, validBlocksVSX
    <3>2. /\ g0 \in [R -> Vec(W)] /\ "V0" \in R /\ "V27" \in R /\ "V1" \in R
          /\ SrlB(g0["V0"], g0["V27"]) = v.high
      BY <1>3, <1>4, <1>5 DEF Puts, Ways
    <3> QED
      BY <3>1, <3>2, DoSrlB, Zenon
  <2> QED
    BY <1>5, <1>3, <2>1 DEF Puts
<1>7. /\ Live(g3) /\ g3["V20"] = v.err1 /\ g3["V1"] = v.high
  <2>1. Puts(R, g1, g2, "V3", v.excess)
    <3>1. g2 = Execute(g1, << "VSUBUBS", "V0", "V30", "V3" >>)
      BY <1>2 DEF g1, g2, validBlocksVSX
    <3>2. /\ g1 \in [R -> Vec(W)] /\ "V0" \in R /\ "V30" \in R /\ "V3" \in R
          /\ SubSatB(g1["V0"], g1["V30"]) = v.excess
      BY <1>3, <1>4, <1>6 DEF Puts, Ways
    <3> QED
      BY <3>1, <3>2, DoSubSat2, Zenon
  <2>2. Puts(R, g2, g3, "V20", v.err1)
    <3>1. g3 = Execute(g2, << "VOR", "V3", "V20", "V20" >>)
      BY <1>2 DEF g2, g3, validBlocksVSX
    <3>2. /\ g2 \in [R -> Vec(W)] /\ "V3" \in R /\ "V20" \in R
          /\ OrB(g2["V3"], g2["V20"]) = v.err1
      BY <1>3, <1>4, <1>6, <2>1 DEF Puts, Ways
    <3> QED
      BY <3>1, <3>2, DoOr, Zenon
  <2> QED
    BY <1>6, <1>3, <2>1, <2>2 DEF Puts
<1>8. /\ Live(g4) /\ g4["V20"] = v.err1 /\ g4["V1"] = v.high /\ g4["V2"] = v.len
  <2>1. Puts(R, g3, g4, "V2", v.len)
    <3>1. g4 = Execute(g3, << "VPERM", "V24", "V24", "V1", "V2" >>)
      BY <1>2 DEF g3, g4, validBlocksVSX
    <3>2. /\ g3 \in [R -> Vec(W)] /\ "V24" \in R /\ "V1" \in R /\ "V2" \in R
          /\ Pick(g3["V24"], g3["V1"]) = v.len
      BY <1>3, <1>4, <1>7 DEF Puts, Ways
    <3> QED
      BY <3>1, <3>2, DoPick3, Zenon
  <2> QED
    BY <1>7, <1>3, <2>1 DEF Puts
<1>9. /\ Live(g7) /\ g7["V20"] = v.err1 /\ g7["V1"] = v.high /\ g7["V2"] = v.len
       /\ g7["V3"] = v.sum
  <2>1. Puts(R, g4, g5, "V3", v.in1)
    <3>1. g5 = Execute(g4, << "VSLDOI_15", "V23", "V2", "V3" >>)
      BY <1>2 DEF g4, g5, validBlocksVSX
    <3>2. /\ g4 \in [R -> Vec(W)] /\ "V23" \in R /\ "V2" \in R /\ "V3" \in R
          /\ ShiftIn(W, 1, g4["V23"], g4["V2"]) = v.in1
      BY <1>3, <1>4, <1>8 DEF Puts, Ways
    <3> QED
      BY <3>1, <3>2, DoIn1, Zenon
  <2>2. Puts(R, g5, g6, "V3", v.less1)
    <3>1. g6 = Execute(g5, << "VSUBUBS", "V3", "V28", "V3" >>)
      BY <1>2 DEF g5, g6, validBlocksVSX
    <3>2. /\ g5 \in [R -> Vec(W)] /\ "V3" \in R /\ "V28" \in R
          /\ SubSatB(g5["V3"], g5["V28"]) = v.less1
      BY <1>3, <1>4, <1>8, <2>1 DEF Puts, Ways
    <3> QED
      BY <3>1, <3>2, DoSubSat2, Zenon
  <2>3. Puts(R, g6, g7, "V3", v.sum)
    <3>1. g7 = Execute(g6, << "VADDUBM", "V2", "V3", "V3" >>)
      BY <1>2 DEF g6, g7, validBlocksVSX
    <3>2. /\ g6 \in [R -> Vec(W)] /\ "V2" \in R /\ "V3" \in R
          /\ AddB(W, g6["V2"], g6["V3"]) = v.sum
      BY <1>3, <1>4, <1>8, <2>1, <2>2 DEF Puts, Ways
    <3> QED
      BY <3>1, <3>2, DoAdd, Zenon
  <2> QED
    BY <1>8, <1>3, <2>1, <2>2, <2>3 DEF Puts
<1>10. /\ Live(g10) /\ g10["V20"] = v.err1 /\ g10["V1"] = v.high /\ g10["V2"] = v.len
       /\ g10["V3"] = v.carry
  <2>1. Puts(R, g7, g8, "V5", v.in2)
    <3>1. g8 = Execute(g7, << "VSLDOI_14", "V23", "V3", "V5" >>)
      BY <1>2 DEF g7, g8, validBlocksVSX
    <3>2. /\ g7 \in [R -> Vec(W)] /\ "V23" \in R /\ "V3" \in R /\ "V5" \in R
          /\ ShiftIn(W, 2, g7["V23"], g7["V3"]) = v.in2
      BY <1>3, <1>4, <1>9 DEF Puts, Ways
    <3> QED
      BY <3>1, <3>2, DoIn2, Zenon
  <2>2. Puts(R, g8, g9, "V5", v.less2)
    <3>1. g9 = Execute(g8, << "VSUBUBS", "V5", "V29", "V5" >>)
      BY <1>2 DEF g8, g9, validBlocksVSX
    <3>2. /\ g8 \in [R -> Vec(W)] /\ "V5" \in R /\ "V29" \in R
          /\ SubSatB(g8["V5"], g8["V29"]) = v.less2
      BY <1>3, <1>4, <1>9, <2>1 DEF Puts, Ways
    <3> QED
      BY <3>1, <3>2, DoSubSat2, Zenon
  <2>3. Puts(R, g9, g10, "V3", v.carry)
    <3>1. g10 = Execute(g9, << "VADDUBM", "V5", "V3", "V3" >>)
      BY <1>2 DEF g9, g10, validBlocksVSX
    <3>2. /\ g9 \in [R -> Vec(W)] /\ "V5" \in R /\ "V3" \in R
          /\ AddB(W, g9["V5"], g9["V3"]) = v.carry
      BY <1>3, <1>4, <1>9, <2>1, <2>2 DEF Puts, Ways
    <3> QED
      BY <3>1, <3>2, DoAdd, Zenon
  <2> QED
    BY <1>9, <1>3, <2>1, <2>2, <2>3 DEF Puts
<1>11. /\ Live(g14) /\ g14["V20"] = v.err2 /\ g14["V1"] = v.high /\ g14["V3"] = v.carry
  <2>1. Puts(R, g10, g11, "V5", v.more)
    <3>1. g11 = Execute(g10, << "VCMPGTSB", "V3", "V2", "V5" >>)
      BY <1>2 DEF g10, g11, validBlocksVSX
    <3>2. /\ g10 \in [R -> Vec(W)] /\ "V3" \in R /\ "V2" \in R /\ "V5" \in R
          /\ GtB(g10["V3"], g10["V2"]) = v.more
      BY <1>3, <1>4, <1>10 DEF Puts, Ways
    <3> QED
      BY <3>1, <3>2, DoGt2, Zenon
  <2>2. Puts(R, g11, g12, "V6", v.lead)
    <3>1. g12 = Execute(g11, << "VCMPGTSB", "V2", "V31", "V6" >>)
      BY <1>2 DEF g11, g12, validBlocksVSX
    <3>2. /\ g11 \in [R -> Vec(W)] /\ "V2" \in R /\ "V31" \in R /\ "V6" \in R
          /\ GtB(g11["V2"], g11["V31"]) = v.lead
      BY <1>3, <1>4, <1>10, <2>1 DEF Puts, Ways
    <3> QED
      BY <3>1, <3>2, DoGt2, Zenon
  <2>3. Puts(R, g12, g13, "V5", v.gap)
    <3>1. g13 = Execute(g12, << "VCMPEQUB", "V6", "V5", "V5" >>)
      BY <1>2 DEF g12, g13, validBlocksVSX
    <3>2. /\ g12 \in [R -> Vec(W)] /\ "V6" \in R /\ "V5" \in R
          /\ EqB(g12["V6"], g12["V5"]) = v.gap
      BY <1>3, <1>4, <1>10, <2>1, <2>2 DEF Puts, Ways
    <3> QED
      BY <3>1, <3>2, DoEq, Zenon
  <2>4. Puts(R, g13, g14, "V20", v.err2)
    <3>1. g14 = Execute(g13, << "VOR", "V5", "V20", "V20" >>)
      BY <1>2 DEF g13, g14, validBlocksVSX
    <3>2. /\ g13 \in [R -> Vec(W)] /\ "V5" \in R /\ "V20" \in R
          /\ OrB(g13["V5"], g13["V20"]) = v.err2
      BY <1>3, <1>4, <1>10, <2>1, <2>2, <2>3 DEF Puts, Ways
    <3> QED
      BY <3>1, <3>2, DoOr, Zenon
  <2> QED
    BY <1>10, <1>3, <2>1, <2>2, <2>3, <2>4 DEF Puts
<1>12. /\ Live(g15) /\ g15["V20"] = v.err2 /\ g15["V1"] = v.high /\ g15["V3"] = v.carry
       /\ g15["V8"] = v.off1
  <2>1. Puts(R, g14, g15, "V8", v.off1)
    <3>1. g15 = Execute(g14, << "VSLDOI_15", "V21", "V0", "V8" >>)
      BY <1>2 DEF g14, g15, validBlocksVSX
    <3>2. /\ g14 \in [R -> Vec(W)] /\ "V21" \in R /\ "V0" \in R /\ "V8" \in R
          /\ ShiftIn(W, 1, g14["V21"], g14["V0"]) = v.off1
      BY <1>3, <1>4, <1>11 DEF Puts, Ways
    <3> QED
      BY <3>1, <3>2, DoIn1, Zenon
  <2> QED
    BY <1>11, <1>3, <2>1 DEF Puts
<1>13. /\ Live(g21) /\ g21["V20"] = v.err3 /\ g21["V1"] = v.high /\ g21["V3"] = v.carry
       /\ g21["V8"] = v.off1
  <2>1. Puts(R, g15, g16, "V9", f["cED"])
    <3>1. g16 = Execute(g15, << "LXVB16X", "cED", "V9" >>)
      BY <1>2 DEF g15, g16, validBlocksVSX
    <3>2. /\ g15 \in [R -> Vec(W)] /\ "cED" \in R /\ "V9" \in R
          /\ g15["cED"] = f["cED"]
      BY <1>3, <1>4, <1>12 DEF Puts
    <3> QED
      BY <3>1, <3>2, DoMove, Zenon
  <2>2. Puts(R, g16, g17, "V9", v.isED)
    <3>1. g17 = Execute(g16, << "VCMPEQUB", "V9", "V8", "V9" >>)
      BY <1>2 DEF g16, g17, validBlocksVSX
    <3>2. /\ g16 \in [R -> Vec(W)] /\ "V9" \in R /\ "V8" \in R
          /\ EqB(g16["V9"], g16["V8"]) = v.isED
      BY <1>3, <1>4, <1>12, <2>1 DEF Puts, Ways
    <3> QED
      BY <3>1, <3>2, DoEq, Zenon
  <2>3. Puts(R, g17, g18, "V10", f["c9F"])
    <3>1. g18 = Execute(g17, << "LXVB16X", "c9F", "V10" >>)
      BY <1>2 DEF g17, g18, validBlocksVSX
    <3>2. /\ g17 \in [R -> Vec(W)] /\ "c9F" \in R /\ "V10" \in R
          /\ g17["c9F"] = f["c9F"]
      BY <1>3, <1>4, <1>12, <2>1, <2>2 DEF Puts
    <3> QED
      BY <3>1, <3>2, DoMove, Zenon
  <2>4. Puts(R, g18, g19, "V10", v.over9F)
    <3>1. g19 = Execute(g18, << "VCMPGTSB", "V0", "V10", "V10" >>)
      BY <1>2 DEF g18, g19, validBlocksVSX
    <3>2. /\ g18 \in [R -> Vec(W)] /\ "V0" \in R /\ "V10" \in R
          /\ GtB(g18["V0"], g18["V10"]) = v.over9F
      BY <1>3, <1>4, <1>12, <2>1, <2>2, <2>3 DEF Puts, Ways
    <3> QED
      BY <3>1, <3>2, DoGt2, Zenon
  <2>5. Puts(R, g19, g20, "V9", v.half)
    <3>1. g20 = Execute(g19, << "VAND", "V10", "V9", "V9" >>)
      BY <1>2 DEF g19, g20, validBlocksVSX
    <3>2. /\ g19 \in [R -> Vec(W)] /\ "V10" \in R /\ "V9" \in R
          /\ AndB(g19["V10"], g19["V9"]) = v.half
      BY <1>3, <1>4, <1>12, <2>1, <2>2, <2>3, <2>4 DEF Puts, Ways
    <3> QED
      BY <3>1, <3>2, DoAnd, Zenon
  <2>6. Puts(R, g20, g21, "V20", v.err3)
    <3>1. g21 = Execute(g20, << "VOR", "V9", "V20", "V20" >>)
      BY <1>2 DEF g20, g21, validBlocksVSX
    <3>2. /\ g20 \in [R -> Vec(W)] /\ "V9" \in R /\ "V20" \in R
          /\ OrB(g20["V9"], g20["V20"]) = v.err3
      BY <1>3, <1>4, <1>12, <2>1, <2>2, <2>3, <2>4, <2>5 DEF Puts, Ways
    <3> QED
      BY <3>1, <3>2, DoOr, Zenon
  <2> QED
    BY <1>12, <1>3, <2>1, <2>2, <2>3, <2>4, <2>5, <2>6 DEF Puts
<1>14. /\ Live(g27) /\ g27["V20"] = v.err4 /\ g27["V1"] = v.high /\ g27["V3"] = v.carry
       /\ g27["V8"] = v.off1
  <2>1. Puts(R, g21, g22, "V9", f["cF4"])
    <3>1. g22 = Execute(g21, << "LXVB16X", "cF4", "V9" >>)
      BY <1>2 DEF g21, g22, validBlocksVSX
    <3>2. /\ g21 \in [R -> Vec(W)] /\ "cF4" \in R /\ "V9" \in R
          /\ g21["cF4"] = f["cF4"]
      BY <1>3, <1>4, <1>13 DEF Puts
    <3> QED
      BY <3>1, <3>2, DoMove, Zenon
  <2>2. Puts(R, g22, g23, "V9", v.isF4)
    <3>1. g23 = Execute(g22, << "VCMPEQUB", "V9", "V8", "V9" >>)
      BY <1>2 DEF g22, g23, validBlocksVSX
    <3>2. /\ g22 \in [R -> Vec(W)] /\ "V9" \in R /\ "V8" \in R
          /\ EqB(g22["V9"], g22["V8"]) = v.isF4
      BY <1>3, <1>4, <1>13, <2>1 DEF Puts, Ways
    <3> QED
      BY <3>1, <3>2, DoEq, Zenon
  <2>3. Puts(R, g23, g24, "V10", f["c8F"])
    <3>1. g24 = Execute(g23, << "LXVB16X", "c8F", "V10" >>)
      BY <1>2 DEF g23, g24, validBlocksVSX
    <3>2. /\ g23 \in [R -> Vec(W)] /\ "c8F" \in R /\ "V10" \in R
          /\ g23["c8F"] = f["c8F"]
      BY <1>3, <1>4, <1>13, <2>1, <2>2 DEF Puts
    <3> QED
      BY <3>1, <3>2, DoMove, Zenon
  <2>4. Puts(R, g24, g25, "V10", v.over8F)
    <3>1. g25 = Execute(g24, << "VCMPGTSB", "V0", "V10", "V10" >>)
      BY <1>2 DEF g24, g25, validBlocksVSX
    <3>2. /\ g24 \in [R -> Vec(W)] /\ "V0" \in R /\ "V10" \in R
          /\ GtB(g24["V0"], g24["V10"]) = v.over8F
      BY <1>3, <1>4, <1>13, <2>1, <2>2, <2>3 DEF Puts, Ways
    <3> QED
      BY <3>1, <3>2, DoGt2, Zenon
  <2>5. Puts(R, g25, g26, "V9", v.beyond)
    <3>1. g26 = Execute(g25, << "VAND", "V10", "V9", "V9" >>)
      BY <1>2 DEF g25, g26, validBlocksVSX
    <3>2. /\ g25 \in [R -> Vec(W)] /\ "V10" \in R /\ "V9" \in R
          /\ AndB(g25["V10"], g25["V9"]) = v.beyond
      BY <1>3, <1>4, <1>13, <2>1, <2>2, <2>3, <2>4 DEF Puts, Ways
    <3> QED
      BY <3>1, <3>2, DoAnd, Zenon
  <2>6. Puts(R, g26, g27, "V20", v.err4)
    <3>1. g27 = Execute(g26, << "VOR", "V9", "V20", "V20" >>)
      BY <1>2 DEF g26, g27, validBlocksVSX
    <3>2. /\ g26 \in [R -> Vec(W)] /\ "V9" \in R /\ "V20" \in R
          /\ OrB(g26["V9"], g26["V20"]) = v.err4
      BY <1>3, <1>4, <1>13, <2>1, <2>2, <2>3, <2>4, <2>5 DEF Puts, Ways
    <3> QED
      BY <3>1, <3>2, DoOr, Zenon
  <2> QED
    BY <1>13, <1>3, <2>1, <2>2, <2>3, <2>4, <2>5, <2>6 DEF Puts
<1>15. /\ Live(g28) /\ g28["V20"] = v.err4 /\ g28["V1"] = v.high /\ g28["V3"] = v.carry
       /\ g28["V8"] = v.off1 /\ g28["V9"] = v.off1hi
  <2>1. Puts(R, g27, g28, "V9", v.off1hi)
    <3>1. g28 = Execute(g27, << "VSLDOI_15", "V22", "V1", "V9" >>)
      BY <1>2 DEF g27, g28, validBlocksVSX
    <3>2. /\ g27 \in [R -> Vec(W)] /\ "V22" \in R /\ "V1" \in R /\ "V9" \in R
          /\ ShiftIn(W, 1, g27["V22"], g27["V1"]) = v.off1hi
      BY <1>3, <1>4, <1>14 DEF Puts, Ways
    <3> QED
      BY <3>1, <3>2, DoIn1, Zenon
  <2> QED
    BY <1>14, <1>3, <2>1 DEF Puts
<1>16. /\ Live(g34) /\ g34["V20"] = v.err5 /\ g34["V1"] = v.high /\ g34["V3"] = v.carry
  <2>1. Puts(R, g28, g29, "V10", v.init)
    <3>1. g29 = Execute(g28, << "VPERM", "V25", "V25", "V9", "V10" >>)
      BY <1>2 DEF g28, g29, validBlocksVSX
    <3>2. /\ g28 \in [R -> Vec(W)] /\ "V25" \in R /\ "V9" \in R /\ "V10" \in R
          /\ Pick(g28["V25"], g28["V9"]) = v.init
      BY <1>3, <1>4, <1>15 DEF Puts, Ways
    <3> QED
      BY <3>1, <3>2, DoPick3, Zenon
  <2>2. Puts(R, g29, g30, "V10", v.first)
    <3>1. g30 = Execute(g29, << "VCMPGTSB", "V10", "V8", "V10" >>)
      BY <1>2 DEF g29, g30, validBlocksVSX
    <3>2. /\ g29 \in [R -> Vec(W)] /\ "V10" \in R /\ "V8" \in R
          /\ GtB(g29["V10"], g29["V8"]) = v.first
      BY <1>3, <1>4, <1>15, <2>1 DEF Puts, Ways
    <3> QED
      BY <3>1, <3>2, DoGt2, Zenon
  <2>3. Puts(R, g30, g31, "V11", v.sec)
    <3>1. g31 = Execute(g30, << "VPERM", "V26", "V26", "V9", "V11" >>)
      BY <1>2 DEF g30, g31, validBlocksVSX
    <3>2. /\ g30 \in [R -> Vec(W)] /\ "V26" \in R /\ "V9" \in R /\ "V11" \in R
          /\ Pick(g30["V26"], g30["V9"]) = v.sec
      BY <1>3, <1>4, <1>15, <2>1, <2>2 DEF Puts, Ways
    <3> QED
      BY <3>1, <3>2, DoPick3, Zenon
  <2>4. Puts(R, g31, g32, "V11", v.second)
    <3>1. g32 = Execute(g31, << "VCMPGTSB", "V11", "V0", "V11" >>)
      BY <1>2 DEF g31, g32, validBlocksVSX
    <3>2. /\ g31 \in [R -> Vec(W)] /\ "V11" \in R /\ "V0" \in R
          /\ GtB(g31["V11"], g31["V0"]) = v.second
      BY <1>3, <1>4, <1>15, <2>1, <2>2, <2>3 DEF Puts, Ways
    <3> QED
      BY <3>1, <3>2, DoGt2, Zenon
  <2>5. Puts(R, g32, g33, "V10", v.long)
    <3>1. g33 = Execute(g32, << "VAND", "V11", "V10", "V10" >>)
      BY <1>2 DEF g32, g33, validBlocksVSX
    <3>2. /\ g32 \in [R -> Vec(W)] /\ "V11" \in R /\ "V10" \in R
          /\ AndB(g32["V11"], g32["V10"]) = v.long
      BY <1>3, <1>4, <1>15, <2>1, <2>2, <2>3, <2>4 DEF Puts, Ways
    <3> QED
      BY <3>1, <3>2, DoAnd, Zenon
  <2>6. Puts(R, g33, g34, "V20", v.err5)
    <3>1. g34 = Execute(g33, << "VOR", "V10", "V20", "V20" >>)
      BY <1>2 DEF g33, g34, validBlocksVSX
    <3>2. /\ g33 \in [R -> Vec(W)] /\ "V10" \in R /\ "V20" \in R
          /\ OrB(g33["V10"], g33["V20"]) = v.err5
      BY <1>3, <1>4, <1>15, <2>1, <2>2, <2>3, <2>4, <2>5 DEF Puts, Ways
    <3> QED
      BY <3>1, <3>2, DoOr, Zenon
  <2> QED
    BY <1>15, <1>3, <2>1, <2>2, <2>3, <2>4, <2>5, <2>6 DEF Puts
<1>17. /\ g37 \in [R -> Vec(W)] /\ \A r \in DOMAIN Constants("VSX") : g37[r] = f[r]
       /\ g37["V21"] = v.raw /\ g37["V22"] = v.high /\ g37["V23"] = v.carry
       /\ g37["V20"] = v.err5
  <2>1. Puts(R, g34, g35, "V21", v.raw)
    <3>1. g35 = Execute(g34, << "VOR", "V0", "V0", "V21" >>)
      BY <1>2 DEF g34, g35, validBlocksVSX
    <3>2. /\ g34 \in [R -> Vec(W)] /\ "V0" \in R /\ "V21" \in R
          /\ OrB(g34["V0"], g34["V0"]) = v.raw
      BY <1>3, <1>4, <1>16 DEF Puts, Ways
    <3> QED
      BY <3>1, <3>2, DoOr, Zenon
  <2>2. Puts(R, g35, g36, "V22", v.high)
    <3>1. g36 = Execute(g35, << "VOR", "V1", "V1", "V22" >>)
      BY <1>2 DEF g35, g36, validBlocksVSX
    <3>2. /\ g35 \in [R -> Vec(W)] /\ "V1" \in R /\ "V22" \in R
          /\ OrB(g35["V1"], g35["V1"]) = v.high
      BY <1>3, <1>4, <1>16, <2>1 DEF Puts, Ways
    <3> QED
      BY <3>1, <3>2, DoOr, Zenon
  <2>3. Puts(R, g36, g37, "V23", v.carry)
    <3>1. g37 = Execute(g36, << "VOR", "V3", "V3", "V23" >>)
      BY <1>2 DEF g36, g37, validBlocksVSX
    <3>2. /\ g36 \in [R -> Vec(W)] /\ "V3" \in R /\ "V23" \in R
          /\ OrB(g36["V3"], g36["V3"]) = v.carry
      BY <1>3, <1>4, <1>16, <2>1, <2>2 DEF Puts, Ways
    <3> QED
      BY <3>1, <3>2, DoOr, Zenon
  <2> QED
    BY <1>3, <1>16, <2>1, <2>2, <2>3, FileVSX DEF Puts
<1>18. g37 = Run(f, validBlocksVSX)
  BY <1>2 DEF g37
<1> QED
  BY <1>17, <1>18 DEF Steady, R

\* The names of the VX kernel, and the constants it keeps in them.
LEMMA FileVX ==
  /\ Home("VX") = [block |-> "V0", err |-> "V20", raw |-> "V21", high |-> "V22",
                           carry |-> "V23"]
  /\ DOMAIN Constants("VX") = {"c0F", "c01", "c02", "cF4", "cED", "c9F", "c8F",
                                  "c00", "V24", "V25", "V26", "V27", "V28", "V29",
                                  "V30"}
  /\ DOMAIN Cleared("VX") = {"V20", "V21", "V22", "V23"}
  /\ Scratch("VX") = {"V0", "V1", "V2", "V3", "V4", "V5", "V6", "V7", "V8", "V9",
                         "V10", "V11"}
  /\ Constants("VX")["c0F"] = Every(15) /\ Constants("VX")["c01"] = Every(1)
  /\ Constants("VX")["c02"] = Every(2) /\ Constants("VX")["cF4"] = Every(244)
  /\ Constants("VX")["cED"] = Every(237) /\ Constants("VX")["c9F"] = Every(159)
  /\ Constants("VX")["c8F"] = Every(143) /\ Constants("VX")["c00"] = Zero(W)
  /\ Constants("VX")["V24"] = Entries(contLenN)
  /\ Constants("VX")["V25"] = Entries(initMinsN)
  /\ Constants("VX")["V26"] = Entries(secMinsN) /\ Constants("VX")["V27"] = Every(244)
  /\ Constants("VX")["V28"] = Every(1) /\ Constants("VX")["V29"] = Every(2)
  /\ Constants("VX")["V30"] = Zero(W) /\ Len(validBlocksVX) = 40
<1>1. Home("VX") = [block |-> "V0", err |-> "V20", raw |-> "V21", high |-> "V22",
                     carry |-> "V23"]
  BY Zenon DEF Home
<1>2. Code("VX") = VX
  BY Zenon DEF Code
<1>3. /\ VX.lens = contLenN /\ VX.inits = initMinsN
      /\ VX.secs = secMinsN
  BY DEF VX, contLen_z, initMins_z, secMins_z, contLenN, initMinsN, secMinsN
<1>4. Loaded("VX") = [V24 |-> Entries(Code("VX").lens), V25 |-> Entries(Code("VX").inits),
   V26 |-> Entries(Code("VX").secs), V27 |-> Every(244), V28 |-> Every(1), V29 |-> Every(2),
   V30 |-> Zero(W)]
  BY ZenonT(60) DEF Loaded
<1>5. Scratch("VX") = {"V0", "V1", "V2", "V3", "V4", "V5", "V6", "V7", "V8", "V9",
                         "V10", "V11"}
  BY Zenon DEF Scratch
<1>6. DOMAIN Constants("VX") = {"c0F", "c01", "c02", "cF4", "cED", "c9F", "c8F",
                                  "c00", "V24", "V25", "V26", "V27", "V28", "V29",
                                  "V30"}
  BY <1>4 DEF Constants, Over, Memory
<1>7. DOMAIN Cleared("VX") = {"V20", "V21", "V22", "V23"}
  BY <1>1 DEF Cleared
<1>8. /\ Constants("VX")["c0F"] = Every(15) /\ Constants("VX")["c01"] = Every(1)
      /\ Constants("VX")["c02"] = Every(2) /\ Constants("VX")["cF4"] = Every(244)
      /\ Constants("VX")["cED"] = Every(237) /\ Constants("VX")["c9F"] = Every(159)
      /\ Constants("VX")["c8F"] = Every(143) /\ Constants("VX")["c00"] = Zero(W)
      /\ Constants("VX")["V24"] = Entries(contLenN)
      /\ Constants("VX")["V25"] = Entries(initMinsN)
      /\ Constants("VX")["V26"] = Entries(secMinsN) /\ Constants("VX")["V27"] = Every(244)
      /\ Constants("VX")["V28"] = Every(1) /\ Constants("VX")["V29"] = Every(2)
      /\ Constants("VX")["V30"] = Zero(W)
  BY <1>2, <1>3, <1>4 DEF Constants, Over, Memory
<1>9. Len(validBlocksVX) = 40
  BY DEF validBlocksVX
<1> QED
  BY <1>1, <1>5, <1>6, <1>7, <1>8, <1>9

\* The loop body of the VX kernel: what it leaves in the registers.
LEMMA BodyVX ==
  ASSUME NEW f, Steady("VX", f), NEW v, Ways(v),
         f["V0"] = v.raw, f["V20"] = v.err0,
         f["V21"] = v.lastRaw, f["V22"] = v.lastHigh, f["V23"] = v.lastCarry
  PROVE  /\ Steady("VX", Run(f, validBlocksVX))
         /\ Run(f, validBlocksVX)["V21"] = v.raw /\ Run(f, validBlocksVX)["V22"] = v.high
         /\ Run(f, validBlocksVX)["V23"] = v.carry /\ Run(f, validBlocksVX)["V20"] = v.err5
<1> DEFINE R     == Names("VX")
           Fixed == {"c0F", "c01", "c02", "cF4", "cED", "c9F", "c8F", "c00", "V24",
                     "V25", "V26", "V27", "V28", "V29", "V30", "V0", "V21", "V22",
                     "V23"}
<1>1. Len(validBlocksVX) = 40
  BY FileVX
<1>2. PICK a : /\ a[0] = f /\ a[40] = Run(f, validBlocksVX)
               /\ \A k \in 1..40 : a[k] = Execute(a[k - 1], validBlocksVX[k])
  <2>1. Len(validBlocksVX) \in Nat
    BY <1>1
  <2>2. PICK a : Traces(a, f, validBlocksVX, Len(validBlocksVX))
    BY <2>1, Runs
  <2> QED
    BY <1>1, <2>2 DEF Traces
<1>3. /\ {"c0F", "c01", "c02", "cF4", "cED", "c9F", "c8F", "c00", "V24", "V25", "V26",
          "V27", "V28", "V29", "V30", "V0", "V1", "V2", "V3", "V4", "V5", "V6", "V7",
          "V8", "V9", "V10", "V11", "V20", "V21", "V22", "V23"} \subseteq R
      /\ f \in [R -> Vec(W)] /\ DOMAIN Constants("VX") \subseteq Fixed
  BY FileVX DEF Steady, Names
<1>4. /\ f["cF4"] = Every(244) /\ f["cED"] = Every(237) /\ f["c9F"] = Every(159)
      /\ f["c8F"] = Every(143) /\ f["V24"] = Entries(contLenN)
      /\ f["V25"] = Entries(initMinsN) /\ f["V26"] = Entries(secMinsN)
      /\ f["V27"] = Every(244) /\ f["V28"] = Every(1) /\ f["V29"] = Every(2)
      /\ f["V30"] = Zero(W)
  BY FileVX DEF Steady
\* The register file after k instructions.
<1> DEFINE g0 == a[0]  g1 == a[1]  g2 == a[2]  g3 == a[3]  g4 == a[4]  g5 == a[5]
           g6 == a[6]  g7 == a[7]  g8 == a[8]  g9 == a[9]  g10 == a[10]  g11 == a[11]
           g12 == a[12]  g13 == a[13]  g14 == a[14]  g15 == a[15]  g16 == a[16]  g17 == a[17]
           g18 == a[18]  g19 == a[19]  g20 == a[20]  g21 == a[21]  g22 == a[22]  g23 == a[23]
           g24 == a[24]  g25 == a[25]  g26 == a[26]  g27 == a[27]  g28 == a[28]  g29 == a[29]
           g30 == a[30]  g31 == a[31]  g32 == a[32]  g33 == a[33]  g34 == a[34]  g35 == a[35]
           g36 == a[36]  g37 == a[37]  g38 == a[38]  g39 == a[39]  g40 == a[40]
<1> HIDE DEF R, g0, g1, g2, g3, g4, g5, g6, g7, g8, g9, g10, g11, g12, g13, g14, g15, g16,
   g17, g18, g19, g20, g21, g22, g23, g24, g25, g26, g27, g28, g29, g30, g31, g32, g33, g34,
   g35, g36, g37, g38, g39, g40
<1> DEFINE Live(g) == g \in [R -> Vec(W)] /\ \A r \in Fixed : g[r] = f[r]
<1>5. Live(g0) /\ g0["V20"] = v.err0
  BY <1>2, <1>3 DEF g0
<1>6. /\ Live(g1) /\ g1["V20"] = v.err0 /\ g1["V1"] = v.high
  <2>1. Puts(R, g0, g1, "V1", v.high)
    <3>1. g1 = Execute(g0, << "VESRLB_4", "V0", "V1" >>)
      BY <1>2 DEF g0, g1, validBlocksVX
    <3>2. /\ g0 \in [R -> Vec(W)] /\ "V0" \in R /\ "V1" \in R
          /\ HighByByte(W, g0["V0"]) = v.high
      BY <1>3, <1>4, <1>5 DEF Puts, Ways
    <3> QED
      BY <3>1, <3>2, DoSrl4B, Zenon
  <2> QED
    BY <1>5, <1>3, <2>1 DEF Puts
<1>7. /\ Live(g4) /\ g4["V20"] = v.err1 /\ g4["V1"] = v.high
  <2>1. Puts(R, g1, g2, "V3", MinB(v.raw, Every(244)))
    <3>1. g2 = Execute(g1, << "VMNLB", "V0", "V27", "V3" >>)
      BY <1>2 DEF g1, g2, validBlocksVX
    <3>2. /\ g1 \in [R -> Vec(W)] /\ "V0" \in R /\ "V27" \in R /\ "V3" \in R
          /\ MinB(g1["V0"], g1["V27"]) = MinB(v.raw, Every(244))
      BY <1>3, <1>4, <1>6 DEF Puts
    <3> QED
      BY <3>1, <3>2, DoMin, ZenonT(60)
  <2>2. Puts(R, g2, g3, "V3", v.excess)
    <3>1. g3 = Execute(g2, << "VSB", "V3", "V0", "V3" >>)
      BY <1>2 DEF g2, g3, validBlocksVX
    <3>2. /\ g2 \in [R -> Vec(W)] /\ "V3" \in R /\ "V0" \in R
          /\ SubB(g2["V0"], g2["V3"]) = v.excess
      BY <1>3, <1>4, <1>6, <2>1 DEF Puts, Ways
    <3> QED
      BY <3>1, <3>2, DoSub, Zenon
  <2>3. Puts(R, g3, g4, "V20", v.err1)
    <3>1. g4 = Execute(g3, << "VO", "V3", "V20", "V20" >>)
      BY <1>2 DEF g3, g4, validBlocksVX
    <3>2. /\ g3 \in [R -> Vec(W)] /\ "V3" \in R /\ "V20" \in R
          /\ OrB(g3["V3"], g3["V20"]) = v.err1
      BY <1>3, <1>4, <1>6, <2>1, <2>2 DEF Puts, Ways
    <3> QED
      BY <3>1, <3>2, DoOr, Zenon
  <2> QED
    BY <1>6, <1>3, <2>1, <2>2, <2>3 DEF Puts
<1>8. /\ Live(g5) /\ g5["V20"] = v.err1 /\ g5["V1"] = v.high /\ g5["V2"] = v.len
  <2>1. Puts(R, g4, g5, "V2", v.len)
    <3>1. g5 = Execute(g4, << "VPERM", "V24", "V24", "V1", "V2" >>)
      BY <1>2 DEF g4, g5, validBlocksVX
    <3>2. /\ g4 \in [R -> Vec(W)] /\ "V24" \in R /\ "V1" \in R /\ "V2" \in R
          /\ Pick(g4["V24"], g4["V1"]) = v.len
      BY <1>3, <1>4, <1>7 DEF Puts, Ways
    <3> QED
      BY <3>1, <3>2, DoPick3, Zenon
  <2> QED
    BY <1>7, <1>3, <2>1 DEF Puts
<1>9. /\ Live(g9) /\ g9["V20"] = v.err1 /\ g9["V1"] = v.high /\ g9["V2"] = v.len
       /\ g9["V3"] = v.sum
  <2>1. Puts(R, g5, g6, "V3", v.in1)
    <3>1. g6 = Execute(g5, << "VSLDB_15", "V23", "V2", "V3" >>)
      BY <1>2 DEF g5, g6, validBlocksVX
    <3>2. /\ g5 \in [R -> Vec(W)] /\ "V23" \in R /\ "V2" \in R /\ "V3" \in R
          /\ ShiftIn(W, 1, g5["V23"], g5["V2"]) = v.in1
      BY <1>3, <1>4, <1>8 DEF Puts, Ways
    <3> QED
      BY <3>1, <3>2, DoIn1, Zenon
  <2>2. Puts(R, g6, g7, "V4", MinB(v.in1, Every(1)))
    <3>1. g7 = Execute(g6, << "VMNLB", "V3", "V28", "V4" >>)
      BY <1>2 DEF g6, g7, validBlocksVX
    <3>2. /\ g6 \in [R -> Vec(W)] /\ "V3" \in R /\ "V28" \in R /\ "V4" \in R
          /\ MinB(g6["V3"], g6["V28"]) = MinB(v.in1, Every(1))
      BY <1>3, <1>4, <1>8, <2>1 DEF Puts
    <3> QED
      BY <3>1, <3>2, DoMin, ZenonT(60)
  <2>3. Puts(R, g7, g8, "V3", v.less1)
    <3>1. g8 = Execute(g7, << "VSB", "V4", "V3", "V3" >>)
      BY <1>2 DEF g7, g8, validBlocksVX
    <3>2. /\ g7 \in [R -> Vec(W)] /\ "V4" \in R /\ "V3" \in R
          /\ SubB(g7["V3"], g7["V4"]) = v.less1
      BY <1>3, <1>4, <1>8, <2>1, <2>2 DEF Puts, Ways
    <3> QED
      BY <3>1, <3>2, DoSub, Zenon
  <2>4. Puts(R, g8, g9, "V3", v.sum)
    <3>1. g9 = Execute(g8, << "VAB", "V2", "V3", "V3" >>)
      BY <1>2 DEF g8, g9, validBlocksVX
    <3>2. /\ g8 \in [R -> Vec(W)] /\ "V2" \in R /\ "V3" \in R
          /\ AddB(W, g8["V2"], g8["V3"]) = v.sum
      BY <1>3, <1>4, <1>8, <2>1, <2>2, <2>3 DEF Puts, Ways
    <3> QED
      BY <3>1, <3>2, DoAdd, Zenon
  <2> QED
    BY <1>8, <1>3, <2>1, <2>2, <2>3, <2>4 DEF Puts
<1>10. /\ Live(g13) /\ g13["V20"] = v.err1 /\ g13["V1"] = v.high /\ g13["V2"] = v.len
       /\ g13["V3"] = v.carry
  <2>1. Puts(R, g9, g10, "V5", v.in2)
    <3>1. g10 = Execute(g9, << "VSLDB_14", "V23", "V3", "V5" >>)
      BY <1>2 DEF g9, g10, validBlocksVX
    <3>2. /\ g9 \in [R -> Vec(W)] /\ "V23" \in R /\ "V3" \in R /\ "V5" \in R
          /\ ShiftIn(W, 2, g9["V23"], g9["V3"]) = v.in2
      BY <1>3, <1>4, <1>9 DEF Puts, Ways
    <3> QED
      BY <3>1, <3>2, DoIn2, Zenon
  <2>2. Puts(R, g10, g11, "V4", MinB(v.in2, Every(2)))
    <3>1. g11 = Execute(g10, << "VMNLB", "V5", "V29", "V4" >>)
      BY <1>2 DEF g10, g11, validBlocksVX
    <3>2. /\ g10 \in [R -> Vec(W)] /\ "V5" \in R /\ "V29" \in R /\ "V4" \in R
          /\ MinB(g10["V5"], g10["V29"]) = MinB(v.in2, Every(2))
      BY <1>3, <1>4, <1>9, <2>1 DEF Puts
    <3> QED
      BY <3>1, <3>2, DoMin, ZenonT(60)
  <2>3. Puts(R, g11, g12, "V5", v.less2)
    <3>1. g12 = Execute(g11, << "VSB", "V4", "V5", "V5" >>)
      BY <1>2 DEF g11, g12, validBlocksVX
    <3>2. /\ g11 \in [R -> Vec(W)] /\ "V4" \in R /\ "V5" \in R
          /\ SubB(g11["V5"], g11["V4"]) = v.less2
      BY <1>3, <1>4, <1>9, <2>1, <2>2 DEF Puts, Ways
    <3> QED
      BY <3>1, <3>2, DoSub, Zenon
  <2>4. Puts(R, g12, g13, "V3", v.carry)
    <3>1. g13 = Execute(g12, << "VAB", "V5", "V3", "V3" >>)
      BY <1>2 DEF g12, g13, validBlocksVX
    <3>2. /\ g12 \in [R -> Vec(W)] /\ "V5" \in R /\ "V3" \in R
          /\ AddB(W, g12["V5"], g12["V3"]) = v.carry
      BY <1>3, <1>4, <1>9, <2>1, <2>2, <2>3 DEF Puts, Ways
    <3> QED
      BY <3>1, <3>2, DoAdd, Zenon
  <2> QED
    BY <1>9, <1>3, <2>1, <2>2, <2>3, <2>4 DEF Puts
<1>11. /\ Live(g17) /\ g17["V20"] = v.err2 /\ g17["V1"] = v.high /\ g17["V3"] = v.carry
  <2>1. Puts(R, g13, g14, "V5", v.more)
    <3>1. g14 = Execute(g13, << "VCHB", "V3", "V2", "V5" >>)
      BY <1>2 DEF g13, g14, validBlocksVX
    <3>2. /\ g13 \in [R -> Vec(W)] /\ "V3" \in R /\ "V2" \in R /\ "V5" \in R
          /\ GtB(g13["V3"], g13["V2"]) = v.more
      BY <1>3, <1>4, <1>10 DEF Puts, Ways
    <3> QED
      BY <3>1, <3>2, DoGt2, Zenon
  <2>2. Puts(R, g14, g15, "V6", v.lead)
    <3>1. g15 = Execute(g14, << "VCHB", "V2", "V30", "V6" >>)
      BY <1>2 DEF g14, g15, validBlocksVX
    <3>2. /\ g14 \in [R -> Vec(W)] /\ "V2" \in R /\ "V30" \in R /\ "V6" \in R
          /\ GtB(g14["V2"], g14["V30"]) = v.lead
      BY <1>3, <1>4, <1>10, <2>1 DEF Puts, Ways
    <3> QED
      BY <3>1, <3>2, DoGt2, Zenon
  <2>3. Puts(R, g15, g16, "V5", v.gap)
    <3>1. g16 = Execute(g15, << "VCEQB", "V6", "V5", "V5" >>)
      BY <1>2 DEF g15, g16, validBlocksVX
    <3>2. /\ g15 \in [R -> Vec(W)] /\ "V6" \in R /\ "V5" \in R
          /\ EqB(g15["V6"], g15["V5"]) = v.gap
      BY <1>3, <1>4, <1>10, <2>1, <2>2 DEF Puts, Ways
    <3> QED
      BY <3>1, <3>2, DoEq, Zenon
  <2>4. Puts(R, g16, g17, "V20", v.err2)
    <3>1. g17 = Execute(g16, << "VO", "V5", "V20", "V20" >>)
      BY <1>2 DEF g16, g17, validBlocksVX
    <3>2. /\ g16 \in [R -> Vec(W)] /\ "V5" \in R /\ "V20" \in R
          /\ OrB(g16["V5"], g16["V20"]) = v.err2
      BY <1>3, <1>4, <1>10, <2>1, <2>2, <2>3 DEF Puts, Ways
    <3> QED
      BY <3>1, <3>2, DoOr, Zenon
  <2> QED
    BY <1>10, <1>3, <2>1, <2>2, <2>3, <2>4 DEF Puts
<1>12. /\ Live(g18) /\ g18["V20"] = v.err2 /\ g18["V1"] = v.high /\ g18["V3"] = v.carry
       /\ g18["V8"] = v.off1
  <2>1. Puts(R, g17, g18, "V8", v.off1)
    <3>1. g18 = Execute(g17, << "VSLDB_15", "V21", "V0", "V8" >>)
      BY <1>2 DEF g17, g18, validBlocksVX
    <3>2. /\ g17 \in [R -> Vec(W)] /\ "V21" \in R /\ "V0" \in R /\ "V8" \in R
          /\ ShiftIn(W, 1, g17["V21"], g17["V0"]) = v.off1
      BY <1>3, <1>4, <1>11 DEF Puts, Ways
    <3> QED
      BY <3>1, <3>2, DoIn1, Zenon
  <2> QED
    BY <1>11, <1>3, <2>1 DEF Puts
<1>13. /\ Live(g24) /\ g24["V20"] = v.err3 /\ g24["V1"] = v.high /\ g24["V3"] = v.carry
       /\ g24["V8"] = v.off1
  <2>1. Puts(R, g18, g19, "V9", f["cED"])
    <3>1. g19 = Execute(g18, << "VL", "cED", "V9" >>)
      BY <1>2 DEF g18, g19, validBlocksVX
    <3>2. /\ g18 \in [R -> Vec(W)] /\ "cED" \in R /\ "V9" \in R
          /\ g18["cED"] = f["cED"]
      BY <1>3, <1>4, <1>12 DEF Puts
    <3> QED
      BY <3>1, <3>2, DoMove, Zenon
  <2>2. Puts(R, g19, g20, "V9", v.isED)
    <3>1. g20 = Execute(g19, << "VCEQB", "V9", "V8", "V9" >>)
      BY <1>2 DEF g19, g20, validBlocksVX
    <3>2. /\ g19 \in [R -> Vec(W)] /\ "V9" \in R /\ "V8" \in R
          /\ EqB(g19["V9"], g19["V8"]) = v.isED
      BY <1>3, <1>4, <1>12, <2>1 DEF Puts, Ways
    <3> QED
      BY <3>1, <3>2, DoEq, Zenon
  <2>3. Puts(R, g20, g21, "V10", f["c9F"])
    <3>1. g21 = Execute(g20, << "VL", "c9F", "V10" >>)
      BY <1>2 DEF g20, g21, validBlocksVX
    <3>2. /\ g20 \in [R -> Vec(W)] /\ "c9F" \in R /\ "V10" \in R
          /\ g20["c9F"] = f["c9F"]
      BY <1>3, <1>4, <1>12, <2>1, <2>2 DEF Puts
    <3> QED
      BY <3>1, <3>2, DoMove, Zenon
  <2>4. Puts(R, g21, g22, "V10", v.over9F)
    <3>1. g22 = Execute(g21, << "VCHB", "V0", "V10", "V10" >>)
      BY <1>2 DEF g21, g22, validBlocksVX
    <3>2. /\ g21 \in [R -> Vec(W)] /\ "V0" \in R /\ "V10" \in R
          /\ GtB(g21["V0"], g21["V10"]) = v.over9F
      BY <1>3, <1>4, <1>12, <2>1, <2>2, <2>3 DEF Puts, Ways
    <3> QED
      BY <3>1, <3>2, DoGt2, Zenon
  <2>5. Puts(R, g22, g23, "V9", v.half)
    <3>1. g23 = Execute(g22, << "VN", "V10", "V9", "V9" >>)
      BY <1>2 DEF g22, g23, validBlocksVX
    <3>2. /\ g22 \in [R -> Vec(W)] /\ "V10" \in R /\ "V9" \in R
          /\ AndB(g22["V10"], g22["V9"]) = v.half
      BY <1>3, <1>4, <1>12, <2>1, <2>2, <2>3, <2>4 DEF Puts, Ways
    <3> QED
      BY <3>1, <3>2, DoAnd, Zenon
  <2>6. Puts(R, g23, g24, "V20", v.err3)
    <3>1. g24 = Execute(g23, << "VO", "V9", "V20", "V20" >>)
      BY <1>2 DEF g23, g24, validBlocksVX
    <3>2. /\ g23 \in [R -> Vec(W)] /\ "V9" \in R /\ "V20" \in R
          /\ OrB(g23["V9"], g23["V20"]) = v.err3
      BY <1>3, <1>4, <1>12, <2>1, <2>2, <2>3, <2>4, <2>5 DEF Puts, Ways
    <3> QED
      BY <3>1, <3>2, DoOr, Zenon
  <2> QED
    BY <1>12, <1>3, <2>1, <2>2, <2>3, <2>4, <2>5, <2>6 DEF Puts
<1>14. /\ Live(g30) /\ g30["V20"] = v.err4 /\ g30["V1"] = v.high /\ g30["V3"] = v.carry
       /\ g30["V8"] = v.off1
  <2>1. Puts(R, g24, g25, "V9", f["cF4"])
    <3>1. g25 = Execute(g24, << "VL", "cF4", "V9" >>)
      BY <1>2 DEF g24, g25, validBlocksVX
    <3>2. /\ g24 \in [R -> Vec(W)] /\ "cF4" \in R /\ "V9" \in R
          /\ g24["cF4"] = f["cF4"]
      BY <1>3, <1>4, <1>13 DEF Puts
    <3> QED
      BY <3>1, <3>2, DoMove, Zenon
  <2>2. Puts(R, g25, g26, "V9", v.isF4)
    <3>1. g26 = Execute(g25, << "VCEQB", "V9", "V8", "V9" >>)
      BY <1>2 DEF g25, g26, validBlocksVX
    <3>2. /\ g25 \in [R -> Vec(W)] /\ "V9" \in R /\ "V8" \in R
          /\ EqB(g25["V9"], g25["V8"]) = v.isF4
      BY <1>3, <1>4, <1>13, <2>1 DEF Puts, Ways
    <3> QED
      BY <3>1, <3>2, DoEq, Zenon
  <2>3. Puts(R, g26, g27, "V10", f["c8F"])
    <3>1. g27 = Execute(g26, << "VL", "c8F", "V10" >>)
      BY <1>2 DEF g26, g27, validBlocksVX
    <3>2. /\ g26 \in [R -> Vec(W)] /\ "c8F" \in R /\ "V10" \in R
          /\ g26["c8F"] = f["c8F"]
      BY <1>3, <1>4, <1>13, <2>1, <2>2 DEF Puts
    <3> QED
      BY <3>1, <3>2, DoMove, Zenon
  <2>4. Puts(R, g27, g28, "V10", v.over8F)
    <3>1. g28 = Execute(g27, << "VCHB", "V0", "V10", "V10" >>)
      BY <1>2 DEF g27, g28, validBlocksVX
    <3>2. /\ g27 \in [R -> Vec(W)] /\ "V0" \in R /\ "V10" \in R
          /\ GtB(g27["V0"], g27["V10"]) = v.over8F
      BY <1>3, <1>4, <1>13, <2>1, <2>2, <2>3 DEF Puts, Ways
    <3> QED
      BY <3>1, <3>2, DoGt2, Zenon
  <2>5. Puts(R, g28, g29, "V9", v.beyond)
    <3>1. g29 = Execute(g28, << "VN", "V10", "V9", "V9" >>)
      BY <1>2 DEF g28, g29, validBlocksVX
    <3>2. /\ g28 \in [R -> Vec(W)] /\ "V10" \in R /\ "V9" \in R
          /\ AndB(g28["V10"], g28["V9"]) = v.beyond
      BY <1>3, <1>4, <1>13, <2>1, <2>2, <2>3, <2>4 DEF Puts, Ways
    <3> QED
      BY <3>1, <3>2, DoAnd, Zenon
  <2>6. Puts(R, g29, g30, "V20", v.err4)
    <3>1. g30 = Execute(g29, << "VO", "V9", "V20", "V20" >>)
      BY <1>2 DEF g29, g30, validBlocksVX
    <3>2. /\ g29 \in [R -> Vec(W)] /\ "V9" \in R /\ "V20" \in R
          /\ OrB(g29["V9"], g29["V20"]) = v.err4
      BY <1>3, <1>4, <1>13, <2>1, <2>2, <2>3, <2>4, <2>5 DEF Puts, Ways
    <3> QED
      BY <3>1, <3>2, DoOr, Zenon
  <2> QED
    BY <1>13, <1>3, <2>1, <2>2, <2>3, <2>4, <2>5, <2>6 DEF Puts
<1>15. /\ Live(g31) /\ g31["V20"] = v.err4 /\ g31["V1"] = v.high /\ g31["V3"] = v.carry
       /\ g31["V8"] = v.off1 /\ g31["V9"] = v.off1hi
  <2>1. Puts(R, g30, g31, "V9", v.off1hi)
    <3>1. g31 = Execute(g30, << "VSLDB_15", "V22", "V1", "V9" >>)
      BY <1>2 DEF g30, g31, validBlocksVX
    <3>2. /\ g30 \in [R -> Vec(W)] /\ "V22" \in R /\ "V1" \in R /\ "V9" \in R
          /\ ShiftIn(W, 1, g30["V22"], g30["V1"]) = v.off1hi
      BY <1>3, <1>4, <1>14 DEF Puts, Ways
    <3> QED
      BY <3>1, <3>2, DoIn1, Zenon
  <2> QED
    BY <1>14, <1>3, <2>1 DEF Puts
<1>16. /\ Live(g37) /\ g37["V20"] = v.err5 /\ g37["V1"] = v.high /\ g37["V3"] = v.carry
  <2>1. Puts(R, g31, g32, "V10", v.init)
    <3>1. g32 = Execute(g31, << "VPERM", "V25", "V25", "V9", "V10" >>)
      BY <1>2 DEF g31, g32, validBlocksVX
    <3>2. /\ g31 \in [R -> Vec(W)] /\ "V25" \in R /\ "V9" \in R /\ "V10" \in R
          /\ Pick(g31["V25"], g31["V9"]) = v.init
      BY <1>3, <1>4, <1>15 DEF Puts, Ways
    <3> QED
      BY <3>1, <3>2, DoPick3, Zenon
  <2>2. Puts(R, g32, g33, "V10", v.first)
    <3>1. g33 = Execute(g32, << "VCHB", "V10", "V8", "V10" >>)
      BY <1>2 DEF g32, g33, validBlocksVX
    <3>2. /\ g32 \in [R -> Vec(W)] /\ "V10" \in R /\ "V8" \in R
          /\ GtB(g32["V10"], g32["V8"]) = v.first
      BY <1>3, <1>4, <1>15, <2>1 DEF Puts, Ways
    <3> QED
      BY <3>1, <3>2, DoGt2, Zenon
  <2>3. Puts(R, g33, g34, "V11", v.sec)
    <3>1. g34 = Execute(g33, << "VPERM", "V26", "V26", "V9", "V11" >>)
      BY <1>2 DEF g33, g34, validBlocksVX
    <3>2. /\ g33 \in [R -> Vec(W)] /\ "V26" \in R /\ "V9" \in R /\ "V11" \in R
          /\ Pick(g33["V26"], g33["V9"]) = v.sec
      BY <1>3, <1>4, <1>15, <2>1, <2>2 DEF Puts, Ways
    <3> QED
      BY <3>1, <3>2, DoPick3, Zenon
  <2>4. Puts(R, g34, g35, "V11", v.second)
    <3>1. g35 = Execute(g34, << "VCHB", "V11", "V0", "V11" >>)
      BY <1>2 DEF g34, g35, validBlocksVX
    <3>2. /\ g34 \in [R -> Vec(W)] /\ "V11" \in R /\ "V0" \in R
          /\ GtB(g34["V11"], g34["V0"]) = v.second
      BY <1>3, <1>4, <1>15, <2>1, <2>2, <2>3 DEF Puts, Ways
    <3> QED
      BY <3>1, <3>2, DoGt2, Zenon
  <2>5. Puts(R, g35, g36, "V10", v.long)
    <3>1. g36 = Execute(g35, << "VN", "V11", "V10", "V10" >>)
      BY <1>2 DEF g35, g36, validBlocksVX
    <3>2. /\ g35 \in [R -> Vec(W)] /\ "V11" \in R /\ "V10" \in R
          /\ AndB(g35["V11"], g35["V10"]) = v.long
      BY <1>3, <1>4, <1>15, <2>1, <2>2, <2>3, <2>4 DEF Puts, Ways
    <3> QED
      BY <3>1, <3>2, DoAnd, Zenon
  <2>6. Puts(R, g36, g37, "V20", v.err5)
    <3>1. g37 = Execute(g36, << "VO", "V10", "V20", "V20" >>)
      BY <1>2 DEF g36, g37, validBlocksVX
    <3>2. /\ g36 \in [R -> Vec(W)] /\ "V10" \in R /\ "V20" \in R
          /\ OrB(g36["V10"], g36["V20"]) = v.err5
      BY <1>3, <1>4, <1>15, <2>1, <2>2, <2>3, <2>4, <2>5 DEF Puts, Ways
    <3> QED
      BY <3>1, <3>2, DoOr, Zenon
  <2> QED
    BY <1>15, <1>3, <2>1, <2>2, <2>3, <2>4, <2>5, <2>6 DEF Puts
<1>17. /\ g40 \in [R -> Vec(W)] /\ \A r \in DOMAIN Constants("VX") : g40[r] = f[r]
       /\ g40["V21"] = v.raw /\ g40["V22"] = v.high /\ g40["V23"] = v.carry
       /\ g40["V20"] = v.err5
  <2>1. Puts(R, g37, g38, "V21", v.raw)
    <3>1. g38 = Execute(g37, << "VLR", "V0", "V21" >>)
      BY <1>2 DEF g37, g38, validBlocksVX
    <3>2. /\ g37 \in [R -> Vec(W)] /\ "V0" \in R /\ "V21" \in R
          /\ g37["V0"] = v.raw
      BY <1>3, <1>4, <1>16 DEF Puts
    <3> QED
      BY <3>1, <3>2, DoMove, Zenon
  <2>2. Puts(R, g38, g39, "V22", v.high)
    <3>1. g39 = Execute(g38, << "VLR", "V1", "V22" >>)
      BY <1>2 DEF g38, g39, validBlocksVX
    <3>2. /\ g38 \in [R -> Vec(W)] /\ "V1" \in R /\ "V22" \in R
          /\ g38["V1"] = v.high
      BY <1>3, <1>4, <1>16, <2>1 DEF Puts
    <3> QED
      BY <3>1, <3>2, DoMove, Zenon
  <2>3. Puts(R, g39, g40, "V23", v.carry)
    <3>1. g40 = Execute(g39, << "VLR", "V3", "V23" >>)
      BY <1>2 DEF g39, g40, validBlocksVX
    <3>2. /\ g39 \in [R -> Vec(W)] /\ "V3" \in R /\ "V23" \in R
          /\ g39["V3"] = v.carry
      BY <1>3, <1>4, <1>16, <2>1, <2>2 DEF Puts
    <3> QED
      BY <3>1, <3>2, DoMove, Zenon
  <2> QED
    BY <1>3, <1>16, <2>1, <2>2, <2>3, FileVX DEF Puts
<1>18. g40 = Run(f, validBlocksVX)
  BY <1>2 DEF g40
<1> QED
  BY <1>17, <1>18 DEF Steady, R

-----------------------------------------------------------------------------
(* The register file                                                       *)

\* Constants are registers.
LEMMA ConstantTypes ==
  /\ \A b \in Byte : Every(b) \in Vec(W)
  /\ Zero(W) \in Vec(W)
  /\ \A table \in [1..16 -> Byte] : /\ W = 16 => Entries(table) \in Vec(W)
                                    /\ W = 32 => Entries(Twice(table)) \in Vec(W)
<1>1. \A b \in Byte : Every(b) \in Vec(W)
  BY DEF Every, Vec
<1>2. Zero(W) \in Vec(W)
  BY DEF Zero, Vec, Byte
<1>3. ASSUME NEW table \in [1..16 -> Byte], W = 16
      PROVE  Entries(table) \in Vec(W)
  <2>1. \A i \in Lane(W) : table[i + 1] \in Byte
    BY <1>3 DEF Lane
  <2> QED
    BY <2>1 DEF Entries, Vec
<1>4. ASSUME NEW table \in [1..16 -> Byte], W = 32
      PROVE  Entries(Twice(table)) \in Vec(W)
  <2>1. \A i \in Lane(W) : Twice(table)[i + 1] \in Byte
    BY <1>4 DEF Lane, Twice
  <2> QED
    BY <2>1 DEF Entries, Vec
<1> QED
  BY <1>1, <1>2, <1>3, <1>4

\* The values that the prologues put into registers, by name.
LEMMA ConstantValues ==
  /\ Every(15) \in Vec(W) /\ Every(1) \in Vec(W) /\ Every(2) \in Vec(W) /\ Every(4) \in Vec(W)
  /\ Every(244) \in Vec(W) /\ Every(237) \in Vec(W) /\ Every(159) \in Vec(W)
  /\ Every(143) \in Vec(W) /\ Zero(W) \in Vec(W)
  /\ W = 16 => /\ Entries(contLenN) \in Vec(W) /\ Entries(initMinsN) \in Vec(W)
               /\ Entries(secMinsN) \in Vec(W)
  /\ W = 32 => /\ Entries(Twice(contLenN)) \in Vec(W) /\ Entries(Twice(initMinsN)) \in Vec(W)
               /\ Entries(Twice(secMinsN)) \in Vec(W)
<1>1. /\ 15 \in Byte /\ 1 \in Byte /\ 2 \in Byte /\ 4 \in Byte /\ 244 \in Byte /\ 237 \in Byte
      /\ 159 \in Byte /\ 143 \in Byte
  BY DEF Byte
<1> QED
  BY <1>1, ConstantTypes, TableTypes

\* How the names of a kernel are used: none of the registers it writes holds a
\* constant, and the block is not one of those carried to the next iteration.
Layout(kernel) ==
  /\ \A r \in DOMAIN Constants(kernel) : Constants(kernel)[r] \in Vec(W)
  /\ Home(kernel).block \in Scratch(kernel)
  /\ Home(kernel).block \notin DOMAIN Constants(kernel) \cup DOMAIN Cleared(kernel)
  /\ DOMAIN Cleared(kernel) =
       {Home(kernel).err, Home(kernel).raw, Home(kernel).high, Home(kernel).carry}
  /\ DOMAIN Cleared(kernel) \cap DOMAIN Constants(kernel) = {}

\* For each kernel.
LEMMA LayoutSSE == ASSUME W = 16 PROVE Layout("SSE")
BY FileSSE, ConstantValues DEF Layout

LEMMA LayoutAVX2 == ASSUME W = 32 PROVE Layout("AVX2")
BY FileAVX2, ConstantValues DEF Layout

LEMMA LayoutNEON == ASSUME W = 16 PROVE Layout("NEON")
BY FileNEON, ConstantValues DEF Layout

LEMMA LayoutVSX == ASSUME W = 16 PROVE Layout("VSX")
BY FileVSX, ConstantValues DEF Layout

LEMMA LayoutVX == ASSUME W = 16 PROVE Layout("VX")
BY FileVX, ConstantValues DEF Layout

\* Every kernel that is run.
LEMMA LayoutAll ==
  ASSUME NEW kernel \in Targets
  PROVE  Layout(kernel)
<1>1. \/ W = 16 /\ kernel \in {"SSE", "NEON", "VSX", "VX"}
      \/ W = 32 /\ kernel = "AVX2"
  BY TargetsAssumption
<1> QED
  BY <1>1, LayoutSSE, LayoutAVX2, LayoutNEON, LayoutVSX, LayoutVX

\* What a kernel carries from block to block, as ValidBlocks names it.
Carried(kernel, f) ==
  [raw |-> f[Home(kernel).raw], high |-> f[Home(kernel).high], carry |-> f[Home(kernel).carry]]

\* The loop body of a kernel keeps the constants and computes Body.
Computes(kernel, f, g) ==
  LET body == Body(W, f[Home(kernel).block], Carried(kernel, f))
  IN  /\ Steady(kernel, g)
      /\ Carried(kernel, g) = body.regs
      /\ Hot(g[Home(kernel).err]) = Hot(f[Home(kernel).err]) \cup body.bad

\* For each kernel: the end of the trace of its body, read as a block function.
LEMMA ComputesSSE ==
  ASSUME NEW f, Steady("SSE", f), Carried("SSE", f) \in Regs(W)
  PROVE  Computes("SSE", f, Run(f, validBlocksSSE))
<1> DEFINE last == [raw |-> f["X13"], high |-> f["X14"], carry |-> f["X12"]]
           v    == Vectors(f["X0"], last, f["X15"])
           g    == Run(f, validBlocksSSE)
<1>1. Carried("SSE", f) = last /\ f["X0"] \in Vec(W) /\ f["X15"] \in Vec(W)
  BY FileSSE DEF Carried, Steady, Names
<1>2. last \in Regs(W) /\ last.raw = f["X13"] /\ last.high = f["X14"] /\ last.carry = f["X12"]
  BY <1>1
<1> HIDE DEF last
<1>3. /\ Ways(v) /\ Hot(v.err5) = Hot(f["X15"]) \cup {i \in Lane(W) : BadLane(W, f["X0"], last, i)}
  BY <1>1, <1>2, VectorWays, VectorErrors
<1>4. /\ v.raw = f["X0"] /\ v.err0 = f["X15"] /\ v.lastRaw = last.raw /\ v.lastHigh = last.high
      /\ v.lastCarry = last.carry /\ v.high = HighByByte(W, f["X0"])
      /\ v.carry = Carry(W, f["X0"], last.carry)
  BY VectorFields
<1> HIDE DEF v
<1>5. /\ Steady("SSE", g)
      /\ g["X13"] = v.raw /\ g["X14"] = v.high /\ g["X12"] = v.carry /\ g["X15"] = v.err5
  BY <1>2, <1>3, <1>4, BodySSE
<1> HIDE DEF g
<1>6. Carried("SSE", g) = Body(W, f["X0"], last).regs
  BY <1>4, <1>5, FileSSE DEF Carried, Body
<1>7. Hot(g["X15"]) = Hot(f["X15"]) \cup Body(W, f["X0"], last).bad
  BY <1>3, <1>5 DEF Body
<1>8. Computes("SSE", f, g)
  BY <1>1, <1>5, <1>6, <1>7, FileSSE DEF Computes
<1> QED
  BY <1>8 DEF g

LEMMA ComputesAVX2 ==
  ASSUME W = 32, NEW f, Steady("AVX2", f), Carried("AVX2", f) \in Regs(W)
  PROVE  Computes("AVX2", f, Run(f, validBlocksAVX2))
<1> DEFINE last == [raw |-> f["Y13"], high |-> f["Y14"], carry |-> f["Y12"]]
           v    == Vectors(f["Y0"], last, f["Y15"])
           g    == Run(f, validBlocksAVX2)
<1>1. Carried("AVX2", f) = last /\ f["Y0"] \in Vec(W) /\ f["Y15"] \in Vec(W)
  BY FileAVX2 DEF Carried, Steady, Names
<1>2. last \in Regs(W) /\ last.raw = f["Y13"] /\ last.high = f["Y14"] /\ last.carry = f["Y12"]
  BY <1>1
<1> HIDE DEF last
<1>3. /\ Ways(v) /\ Hot(v.err5) = Hot(f["Y15"]) \cup {i \in Lane(W) : BadLane(W, f["Y0"], last, i)}
  BY <1>1, <1>2, VectorWays, VectorErrors
<1>4. /\ v.raw = f["Y0"] /\ v.err0 = f["Y15"] /\ v.lastRaw = last.raw /\ v.lastHigh = last.high
      /\ v.lastCarry = last.carry /\ v.high = HighByByte(W, f["Y0"])
      /\ v.carry = Carry(W, f["Y0"], last.carry)
  BY VectorFields
<1> HIDE DEF v
<1>5. /\ Steady("AVX2", g)
      /\ g["Y13"] = v.raw /\ g["Y14"] = v.high /\ g["Y12"] = v.carry /\ g["Y15"] = v.err5
  BY <1>2, <1>3, <1>4, BodyAVX2
<1> HIDE DEF g
<1>6. Carried("AVX2", g) = Body(W, f["Y0"], last).regs
  BY <1>4, <1>5, FileAVX2 DEF Carried, Body
<1>7. Hot(g["Y15"]) = Hot(f["Y15"]) \cup Body(W, f["Y0"], last).bad
  BY <1>3, <1>5 DEF Body
<1>8. Computes("AVX2", f, g)
  BY <1>1, <1>5, <1>6, <1>7, FileAVX2 DEF Computes
<1> QED
  BY <1>8 DEF g

LEMMA ComputesNEON ==
  ASSUME NEW f, Steady("NEON", f), Carried("NEON", f) \in Regs(W)
  PROVE  Computes("NEON", f, Run(f, validBlocksNEON))
<1> DEFINE last == [raw |-> f["V13"], high |-> f["V14"], carry |-> f["V12"]]
           v    == Vectors(f["V0"], last, f["V15"])
           g    == Run(f, validBlocksNEON)
<1>1. Carried("NEON", f) = last /\ f["V0"] \in Vec(W) /\ f["V15"] \in Vec(W)
  BY FileNEON DEF Carried, Steady, Names
<1>2. last \in Regs(W) /\ last.raw = f["V13"] /\ last.high = f["V14"] /\ last.carry = f["V12"]
  BY <1>1
<1> HIDE DEF last
<1>3. /\ Ways(v) /\ Hot(v.err5) = Hot(f["V15"]) \cup {i \in Lane(W) : BadLane(W, f["V0"], last, i)}
  BY <1>1, <1>2, VectorWays, VectorErrors
<1>4. /\ v.raw = f["V0"] /\ v.err0 = f["V15"] /\ v.lastRaw = last.raw /\ v.lastHigh = last.high
      /\ v.lastCarry = last.carry /\ v.high = HighByByte(W, f["V0"])
      /\ v.carry = Carry(W, f["V0"], last.carry)
  BY VectorFields
<1> HIDE DEF v
<1>5. /\ Steady("NEON", g)
      /\ g["V13"] = v.raw /\ g["V14"] = v.high /\ g["V12"] = v.carry /\ g["V15"] = v.err5
  BY <1>2, <1>3, <1>4, BodyNEON
<1> HIDE DEF g
<1>6. Carried("NEON", g) = Body(W, f["V0"], last).regs
  BY <1>4, <1>5, FileNEON DEF Carried, Body
<1>7. Hot(g["V15"]) = Hot(f["V15"]) \cup Body(W, f["V0"], last).bad
  BY <1>3, <1>5 DEF Body
<1>8. Computes("NEON", f, g)
  BY <1>1, <1>5, <1>6, <1>7, FileNEON DEF Computes
<1> QED
  BY <1>8 DEF g

LEMMA ComputesVSX ==
  ASSUME NEW f, Steady("VSX", f), Carried("VSX", f) \in Regs(W)
  PROVE  Computes("VSX", f, Run(f, validBlocksVSX))
<1> DEFINE last == [raw |-> f["V21"], high |-> f["V22"], carry |-> f["V23"]]
           v    == Vectors(f["V0"], last, f["V20"])
           g    == Run(f, validBlocksVSX)
<1>1. Carried("VSX", f) = last /\ f["V0"] \in Vec(W) /\ f["V20"] \in Vec(W)
  BY FileVSX DEF Carried, Steady, Names
<1>2. last \in Regs(W) /\ last.raw = f["V21"] /\ last.high = f["V22"] /\ last.carry = f["V23"]
  BY <1>1
<1> HIDE DEF last
<1>3. /\ Ways(v) /\ Hot(v.err5) = Hot(f["V20"]) \cup {i \in Lane(W) : BadLane(W, f["V0"], last, i)}
  BY <1>1, <1>2, VectorWays, VectorErrors
<1>4. /\ v.raw = f["V0"] /\ v.err0 = f["V20"] /\ v.lastRaw = last.raw /\ v.lastHigh = last.high
      /\ v.lastCarry = last.carry /\ v.high = HighByByte(W, f["V0"])
      /\ v.carry = Carry(W, f["V0"], last.carry)
  BY VectorFields
<1> HIDE DEF v
<1>5. /\ Steady("VSX", g)
      /\ g["V21"] = v.raw /\ g["V22"] = v.high /\ g["V23"] = v.carry /\ g["V20"] = v.err5
  BY <1>2, <1>3, <1>4, BodyVSX
<1> HIDE DEF g
<1>6. Carried("VSX", g) = Body(W, f["V0"], last).regs
  BY <1>4, <1>5, FileVSX DEF Carried, Body
<1>7. Hot(g["V20"]) = Hot(f["V20"]) \cup Body(W, f["V0"], last).bad
  BY <1>3, <1>5 DEF Body
<1>8. Computes("VSX", f, g)
  BY <1>1, <1>5, <1>6, <1>7, FileVSX DEF Computes
<1> QED
  BY <1>8 DEF g

LEMMA ComputesVX ==
  ASSUME NEW f, Steady("VX", f), Carried("VX", f) \in Regs(W)
  PROVE  Computes("VX", f, Run(f, validBlocksVX))
<1> DEFINE last == [raw |-> f["V21"], high |-> f["V22"], carry |-> f["V23"]]
           v    == Vectors(f["V0"], last, f["V20"])
           g    == Run(f, validBlocksVX)
<1>1. Carried("VX", f) = last /\ f["V0"] \in Vec(W) /\ f["V20"] \in Vec(W)
  BY FileVX DEF Carried, Steady, Names
<1>2. last \in Regs(W) /\ last.raw = f["V21"] /\ last.high = f["V22"] /\ last.carry = f["V23"]
  BY <1>1
<1> HIDE DEF last
<1>3. /\ Ways(v) /\ Hot(v.err5) = Hot(f["V20"]) \cup {i \in Lane(W) : BadLane(W, f["V0"], last, i)}
  BY <1>1, <1>2, VectorWays, VectorErrors
<1>4. /\ v.raw = f["V0"] /\ v.err0 = f["V20"] /\ v.lastRaw = last.raw /\ v.lastHigh = last.high
      /\ v.lastCarry = last.carry /\ v.high = HighByByte(W, f["V0"])
      /\ v.carry = Carry(W, f["V0"], last.carry)
  BY VectorFields
<1> HIDE DEF v
<1>5. /\ Steady("VX", g)
      /\ g["V21"] = v.raw /\ g["V22"] = v.high /\ g["V23"] = v.carry /\ g["V20"] = v.err5
  BY <1>2, <1>3, <1>4, BodyVX
<1> HIDE DEF g
<1>6. Carried("VX", g) = Body(W, f["V0"], last).regs
  BY <1>4, <1>5, FileVX DEF Carried, Body
<1>7. Hot(g["V20"]) = Hot(f["V20"]) \cup Body(W, f["V0"], last).bad
  BY <1>3, <1>5 DEF Body
<1>8. Computes("VX", f, g)
  BY <1>1, <1>5, <1>6, <1>7, FileVX DEF Computes
<1> QED
  BY <1>8 DEF g

\* Every kernel that is run.
LEMMA ComputesAll ==
  ASSUME NEW kernel \in Targets, NEW f, Steady(kernel, f), Carried(kernel, f) \in Regs(W)
  PROVE  Computes(kernel, f, Run(f, LoopBody(kernel)))
<1>1. CASE kernel = "SSE"
  <2>1. LoopBody("SSE") = validBlocksSSE
    BY Zenon DEF LoopBody
  <2> QED
    BY <1>1, <2>1, ComputesSSE
<1>2. CASE kernel = "AVX2"
  <2>1. LoopBody("AVX2") = validBlocksAVX2
    BY Zenon DEF LoopBody
  <2>2. W = 32
    BY <1>2, TargetsAssumption
  <2> QED
    BY <1>2, <2>1, <2>2, ComputesAVX2
<1>3. CASE kernel = "NEON"
  <2>1. LoopBody("NEON") = validBlocksNEON
    BY Zenon DEF LoopBody
  <2> QED
    BY <1>3, <2>1, ComputesNEON
<1>4. CASE kernel = "VSX"
  <2>1. LoopBody("VSX") = validBlocksVSX
    BY Zenon DEF LoopBody
  <2> QED
    BY <1>4, <2>1, ComputesVSX
<1>5. CASE kernel = "VX"
  <2>1. LoopBody("VX") = validBlocksVX
    BY Zenon DEF LoopBody
  <2> QED
    BY <1>5, <2>1, ComputesVX
<1>6. kernel \in {"SSE", "AVX2", "NEON", "VSX", "VX"}
  BY TargetsAssumption
<1> QED
  BY <1>1, <1>2, <1>3, <1>4, <1>5, <1>6

-----------------------------------------------------------------------------
(* The invariant                                                           *)

\* The constants are in place and the other registers describe the bytes consumed
\* so far, as those of ValidBlocks do (BlocksJudged).
IInv ==
  /\ TypeOK /\ ConstantsKept
  /\ n * W <= Len(src)
  /\ pc = "loop" <=> cx > 0
  /\ BlocksJudged(W, src, si, Carried(port, file), Hot(Held("err")))
  /\ pc = "done" => (ret = 1 <=> Hot(Held("err")) = {})

\* The kernels that are run are among the ports of Kernels.
LEMMA TargetPorts == Targets \subseteq Validators /\ W \in Widths /\ W \in Nat /\ W >= 1
BY TargetsAssumption, Sizes DEF Validators

\* What IInv says of the register file.
LEMMA FileSteady ==
  /\ TypeOK /\ ConstantsKept => Steady(port, file)
  /\ file \in [Names(port) -> Vec(W)] /\ Steady(port, file) => ConstantsKept
BY DEF TypeOK, ConstantsKept, Steady

\* The prologue clears the registers that are carried,
LEMMA InitHeld ==
  ASSUME Init
  PROVE  /\ Held("err") = Zero(W)
         /\ Carried(port, file) = [raw |-> Zero(W), high |-> Zero(W), carry |-> Zero(W)]
<1>1. Layout(port)
  BY LayoutAll DEF Init
<1>2. PICK left : file = Over(Constants(port), Over(Cleared(port), left))
  BY DEF Init
<1>3. \A r \in DOMAIN Cleared(port) : Cleared(port)[r] = Zero(W)
  BY DEF Cleared
<1>4. \A r \in DOMAIN Cleared(port) : file[r] = Zero(W)
  BY <1>1, <1>2, <1>3 DEF Over, Layout
<1> QED
  BY <1>1, <1>4 DEF Layout, Held, Carried

\* and establishes the invariant, whatever the caller left in the scratch registers.
LEMMA InitInv == Init => IInv
<1> SUFFICES ASSUME Init PROVE IInv
  OBVIOUS
<1>1. port \in Targets /\ src \in Seq(Byte) /\ Len(src) \in Nat
  BY SourcesAssumption DEF Init
<1>2. Layout(port)
  BY <1>1, LayoutAll
<1>3. PICK left \in [Scratch(port) -> Vec(W)] :
        file = Over(Constants(port), Over(Cleared(port), left))
  BY <1>1, LeftAssumption DEF Init
<1>4. \A r \in DOMAIN Cleared(port) : Cleared(port)[r] = Zero(W)
  BY DEF Cleared
<1>5. DOMAIN file = Names(port)
  BY <1>3 DEF Over, Names
<1>6. \A r \in DOMAIN Constants(port) : file[r] = Constants(port)[r]
  BY <1>3 DEF Over
<1>7. \A r \in DOMAIN Cleared(port) : file[r] = Zero(W)
  BY <1>2, <1>3, <1>4 DEF Over, Layout
<1>8. \A r \in Names(port) : file[r] \in Vec(W)
  <2>1. ASSUME NEW r \in Names(port), r \notin DOMAIN Constants(port), r \notin DOMAIN Cleared(port)
        PROVE  file[r] = left[r] /\ r \in Scratch(port)
    BY <1>3, <2>1 DEF Over, Names
  <2> QED
    BY <1>2, <1>6, <1>7, <2>1, ConstantTypes DEF Layout
<1>9. file \in [Names(port) -> Vec(W)]
  <2>1. file = [r \in DOMAIN file |-> file[r]]
    BY <1>3 DEF Over
  <2> QED
    BY <1>5, <1>8, <2>1
<1>10. /\ Held("err") = Zero(W)
       /\ Carried(port, file) = [raw |-> Zero(W), high |-> Zero(W), carry |-> Zero(W)]
  BY InitHeld
<1>11. Hot(Held("err")) = {}
  BY <1>10 DEF Hot, Zero
<1>12. BlocksJudged(W, src, si, Carried(port, file), Hot(Held("err")))
  BY <1>10, <1>11, TargetPorts, JudgedNone DEF Init
<1>13. TypeOK
  <2>1. n \in Nat /\ n > 0 /\ n - n = 0 /\ 0 * W = 0
    BY <1>1, TargetPorts DEF Init
  <2> QED
    BY <1>1, <1>9, <2>1 DEF Init, TypeOK
<1>14. n > 0
  BY <1>1 DEF Init
<1> QED
  BY <1>6, <1>12, <1>13, <1>14 DEF IInv, ConstantsKept, Init

\* One more block fits, and the pointer and the countdown stay in step.
LEMMA Advance ==
  ASSUME IInv, pc = "loop"
  PROVE  /\ si \in Nat /\ si + W <= Len(src)
         /\ cx - 1 \in 0..n /\ si + W = (n - (cx - 1)) * W
<1>1. W \in Nat /\ n \in Nat /\ cx \in Nat /\ Len(src) \in Nat /\ cx > 0 /\ cx <= n
      /\ n * W <= Len(src) /\ si = (n - cx) * W
  BY TargetPorts DEF TypeOK, IInv
<1>2. \A a, b, w \in Nat : (a * w) + (b * w) = (a + b) * w /\ a * w \in Nat
  OBVIOUS
<1>3. n - cx \in Nat /\ cx - 1 \in Nat /\ (n - cx) + 1 = n - (cx - 1)
      /\ (n - (cx - 1)) + (cx - 1) = n /\ n - (cx - 1) \in Nat
  BY <1>1
<1>4. 1 * W = W
  BY <1>1
<1>5. (n - cx) * W + 1 * W = (n - (cx - 1)) * W /\ (n - cx) * W \in Nat
  BY <1>1, <1>2, <1>3
<1>6. (n - (cx - 1)) * W + (cx - 1) * W = n * W /\ (cx - 1) * W \in Nat
      /\ (n - (cx - 1)) * W \in Nat
  BY <1>1, <1>2, <1>3
<1>7. si + W = (n - (cx - 1)) * W
  BY <1>1, <1>4, <1>5
<1> DEFINE x == (n - (cx - 1)) * W
           y == (cx - 1) * W
           z == n * W
<1>8. x <= z
  <2>1. x \in Nat /\ y \in Nat /\ x + y = z
    BY <1>6
  <2> HIDE DEF x, y, z
  <2> QED
    BY <2>1
<1> QED
  BY <1>1, <1>3, <1>5, <1>7, <1>8

\* An iteration of the instructions is an iteration of the block function.
LEMMA IterateBlock ==
  ASSUME IInv, Iterate
  PROVE  LET block == Block(W, port, Load(W, src, si), Carried(port, file))
         IN  /\ Steady(port, file')
             /\ Carried(port, file') = block.regs
             /\ Hot(file'[Home(port).err]) = Hot(Held("err")) \cup block.bad
<1> DEFINE raw == Load(W, src, si)
           f   == [file EXCEPT ![Home(port).block] = raw]
<1>1. /\ port \in Targets /\ port \in Validators /\ src \in Seq(Byte) /\ Steady(port, file)
      /\ Carried(port, file) \in Regs(W)
  BY TargetPorts, FileSteady DEF IInv, TypeOK, BlocksJudged
<1>2. Layout(port)
  BY <1>1, LayoutAll
<1>3. raw \in Vec(W)
  BY <1>1, Advance, LoadType, TargetPorts DEF Iterate
<1>4. file' = Run(f, LoopBody(port))
  BY DEF Iterate, LoadBlock
<1> HIDE DEF raw
<1>5. Home(port).block \in Names(port)
  BY <1>2 DEF Layout, Names
<1>6. Steady(port, f) /\ f[Home(port).block] = raw
  BY <1>1, <1>2, <1>3, <1>5 DEF Steady, Layout
<1>7. \A r \in DOMAIN Cleared(port) : f[r] = file[r]
  BY <1>1, <1>2 DEF Steady, Layout
<1>8. Carried(port, f) = Carried(port, file) /\ f[Home(port).err] = Held("err")
  BY <1>2, <1>7 DEF Layout, Carried, Held
<1> HIDE DEF f
<1>9. Computes(port, f, file')
  BY <1>1, <1>4, <1>6, <1>8, ComputesAll
<1>10. Block(W, port, raw, Carried(port, file)) = Body(W, raw, Carried(port, file))
  BY <1>1, <1>3, PortsAgree, TargetPorts
<1>11. /\ Steady(port, file')
       /\ Carried(port, file') = Block(W, port, raw, Carried(port, file)).regs
       /\ Hot(file'[Home(port).err])
            = Hot(Held("err")) \cup Block(W, port, raw, Carried(port, file)).bad
  BY <1>6, <1>8, <1>9, <1>10 DEF Computes
<1> QED
  BY <1>11 DEF raw

\* So it judges one block more.
LEMMA IterateInv == IInv /\ Iterate => IInv'
<1> SUFFICES ASSUME IInv, Iterate PROVE IInv'
  OBVIOUS
<1> DEFINE block == Block(W, port, Load(W, src, si), Carried(port, file))
<1>1. /\ Steady(port, file') /\ Carried(port, file') = block.regs
      /\ Hot(file'[Home(port).err]) = Hot(Held("err")) \cup block.bad
  BY IterateBlock
<1>2. /\ port \in Targets /\ src \in Seq(Byte) /\ n \in 1..Len(src) /\ n * W <= Len(src)
      /\ ret \in {0, 1} /\ cx \in Int /\ pc = "loop"
      /\ BlocksJudged(W, src, si, Carried(port, file), Hot(Held("err")))
  BY DEF IInv, TypeOK, Iterate
<1>3. /\ si \in Nat /\ si + W <= Len(src)
      /\ cx - 1 \in 0..n /\ si + W = (n - (cx - 1)) * W
  BY <1>2, Advance
<1>4. BlocksJudged(W, src, si + W, block.regs, Hot(Held("err")) \cup block.bad)
  BY <1>2, <1>3, TargetPorts, JudgedFurther
<1> HIDE DEF block
<1>5. /\ si' = si + W /\ cx' = cx - 1 /\ pc' = (IF cx - 1 # 0 THEN "loop" ELSE "exit")
      /\ port' = port /\ src' = src /\ n' = n /\ ret' = ret
  BY DEF Iterate, Stride
<1>6. Held("err")' = file'[Home(port).err] /\ Carried(port, file)' = Carried(port, file')
  BY <1>5 DEF Held, Carried
<1>7. BlocksJudged(W, src', si', Carried(port, file)', Hot(Held("err"))')
  <2>1. Hot(Held("err"))' = Hot(file'[Home(port).err])
    BY <1>6 DEF Hot
  <2> QED
    BY <1>1, <1>4, <1>5, <1>6, <2>1, Zenon
<1>8. pc' \in {"loop", "exit"} /\ (pc' = "loop" <=> cx' > 0)
  <2> DEFINE left == cx - 1
  <2>1. left \in Nat
    BY <1>3, <1>2
  <2>2. cx' = left /\ pc' = (IF left # 0 THEN "loop" ELSE "exit")
    BY <1>5
  <2> HIDE DEF left
  <2> QED
    BY <2>1, <2>2
<1>9. file' \in [Names(port') -> Vec(W)] /\ ConstantsKept'
  BY <1>1, <1>5 DEF Steady, ConstantsKept
<1>10. TypeOK'
  BY <1>2, <1>3, <1>5, <1>8, <1>9 DEF TypeOK
<1> QED
  BY <1>2, <1>5, <1>7, <1>8, <1>9, <1>10 DEF IInv

\* Each port looks at every lane of the error register.
LEMMA ClearAll ==
  ASSUME NEW v \in Vec(W), port \in Targets
  PROVE  Clear(v) <=> Hot(v) = {}
<1>1. port \in {"SSE", "AVX2", "NEON", "VSX", "VX"}
  BY TargetsAssumption
<1> DEFINE h == Half(W)
<1>2. h \in Nat /\ W = 2 * h /\ h >= 1
  BY Sizes
<1>3. Lane(W) = 0..(W - 1)
  BY DEF Lane
<1>4. CASE port \in {"SSE", "AVX2"}
  <2>1. Clear(v) <=> \A i \in Lane(W) : v[i] = 0
    BY <1>4, Zenon DEF Clear
  <2> QED
    BY <2>1 DEF Hot
<1>5. CASE port = "VSX"
  <2>1. Clear(v) <=> First(v) \cup First(Swapped(v)) = {}
    BY <1>5, Zenon DEF Clear
  <2> HIDE DEF h
  <2>2. First(v) = {i \in 0..(h - 1) : v[i] # 0}
    BY DEF First, h
  <2>3. \A i \in 0..(h - 1) : Swapped(v)[i] = v[i + h]
    <3>1. \A i \in 0..(h - 1) : i \in Lane(W) /\ (i + h) % W = i + h
      BY <1>2, <1>3
    <3> QED
      BY <3>1 DEF Swapped, h
  <2>4. First(Swapped(v)) = {i \in 0..(h - 1) : v[i + h] # 0}
    BY <2>3 DEF First, h
  <2>5. ASSUME NEW i \in Lane(W), v[i] # 0
        PROVE  First(v) \cup First(Swapped(v)) # {}
    <3>1. CASE i < h
      BY <1>2, <1>3, <2>2, <2>5, <3>1
    <3>2. CASE i >= h
      <4>1. i - h \in 0..(h - 1) /\ (i - h) + h = i
        BY <1>2, <1>3, <3>2
      <4> QED
        BY <2>4, <2>5, <4>1
    <3> QED
      BY <1>2, <1>3, <3>1, <3>2
  <2>6. ASSUME NEW i \in 0..(h - 1)
        PROVE  i \in Lane(W) /\ i + h \in Lane(W)
    BY <1>2, <1>3
  <2> QED
    BY <2>1, <2>2, <2>4, <2>5, <2>6 DEF Hot
<1>6. CASE port \in {"NEON", "VX"}
  <2>1. Clear(v) <=> First(v) \cup {i \in Half(W)..(W - 1) : v[i] # 0} = {}
    BY <1>6, Zenon DEF Clear
  <2>2. Hot(v) = First(v) \cup {i \in Half(W)..(W - 1) : v[i] # 0}
    BY <1>2, <1>3 DEF Hot, First
  <2> QED
    BY <2>1, <2>2
<1> QED
  BY <1>1, <1>4, <1>5, <1>6

\* What is in the error register is a register.
LEMMA HeldType == IInv => Held("err") \in Vec(W)
<1> SUFFICES ASSUME IInv PROVE Held("err") \in Vec(W)
  OBVIOUS
<1>1. port \in Targets /\ file \in [Names(port) -> Vec(W)]
  BY DEF IInv, TypeOK
<1>2. Home(port).err \in Names(port)
  BY <1>1, LayoutAll DEF Layout, Names
<1> QED
  BY <1>1, <1>2 DEF Held

\* The epilogue returns what the error register says.
LEMMA ReturnInv == IInv /\ Return => IInv'
<1> SUFFICES ASSUME IInv, Return PROVE IInv'
  OBVIOUS
<1>1. /\ port' = port /\ src' = src /\ n' = n /\ si' = si /\ cx' = cx /\ file' = file
      /\ pc = "exit" /\ pc' = "done" /\ ret' = (IF Clear(Held("err")) THEN 1 ELSE 0)
  BY DEF Return
<1>2. Clear(Held("err")) <=> Hot(Held("err")) = {}
  BY HeldType, ClearAll DEF IInv, TypeOK
<1>3. Held("err")' = Held("err") /\ Carried(port, file)' = Carried(port, file)
  BY <1>1 DEF Held, Carried
<1>4. Hot(Held("err"))' = Hot(Held("err"))
  BY <1>3 DEF Hot
<1>5. ret' = 1 <=> Hot(Held("err"))' = {}
  BY <1>1, <1>2, <1>4
<1>6. TypeOK' /\ ConstantsKept'
  BY <1>1 DEF IInv, TypeOK, ConstantsKept
<1> QED
  BY <1>1, <1>3, <1>4, <1>5, <1>6 DEF IInv

\* A stuttering step changes nothing.
LEMMA StutterInv == IInv /\ UNCHANGED vars => IInv'
<1> SUFFICES ASSUME IInv, UNCHANGED vars PROVE IInv'
  OBVIOUS
<1>1. /\ port' = port /\ src' = src /\ n' = n /\ si' = si /\ cx' = cx /\ file' = file
      /\ pc' = pc /\ ret' = ret
  BY DEF vars
<1>2. Held("err")' = Held("err") /\ Carried(port, file)' = Carried(port, file)
  BY <1>1 DEF Held, Carried
<1>3. Hot(Held("err"))' = Hot(Held("err"))
  BY <1>2 DEF Hot
<1>4. TypeOK' /\ ConstantsKept'
  BY <1>1 DEF IInv, TypeOK, ConstantsKept
<1> QED
  BY <1>1, <1>2, <1>3, <1>4 DEF IInv

\* The invariant holds in every run of every port.
THEOREM LoopInvariance == Spec => []IInv
<1>1. IInv /\ [Next]_vars => IInv'
  BY IterateInv, ReturnInv, StutterInv DEF Next
<1> QED
  BY InitInv, <1>1, PTL DEF Spec

\* The register file keeps its shape: every instruction of the five bodies writes a
\* register of its port, and bytes into it.
THEOREM LoopTypes == Spec => []TypeOK
<1>1. IInv => TypeOK
  BY DEF IInv
<1> QED
  BY LoopInvariance, <1>1, PTL

\* No instruction of the five bodies writes a register that holds a constant.
THEOREM ConstantsStay == Spec => []ConstantsKept
<1>1. IInv => ConstantsKept
  BY DEF IInv
<1> QED
  BY LoopInvariance, <1>1, PTL

\* The instructions of the five kernels decide what they should: a call returns 1
\* exactly when its blocks have no structural error.
THEOREM InstructionsJudge == Spec => []ResultExact
<1>1. IInv => ResultExact
  <2> SUFFICES ASSUME IInv, pc = "done" PROVE ret = 1 <=> StructOK(src, n * W)
    BY DEF ResultExact
  <2>1. cx \in 0..n /\ n \in 1..Len(src) /\ si = (n - cx) * W /\ ~ (cx > 0) /\ src \in Seq(Byte)
    BY DEF IInv, TypeOK
  <2>2. cx = 0 /\ n - 0 = n
    BY <2>1
  <2>3. si = n * W
    BY <2>1, <2>2
  <2> QED
    BY <2>3 DEF IInv, BlocksJudged
<1> QED
  BY LoopInvariance, <1>1, PTL

\* ValidBlocks brings its own copy of the block functions.  They are the same
\* functions.
LEMMA SameCode ==
  ASSUME NEW kernel
  PROVE  Loop!Code(kernel) = Code(kernel)
  BY Zenon DEF Loop!Code, Code, Loop!SSE, SSE, Loop!AVX2, AVX2, Loop!NEON, NEON,
     Loop!VSX, VSX, Loop!VX, VX,
  Loop!contLen, contLen, Loop!initMins, initMins, Loop!secMins, secMins,
  Loop!contLenB, contLenB, Loop!initMinsB, initMinsB, Loop!secMinsB, secMinsB,
  Loop!contLenN, contLenN, Loop!initMinsN, initMinsN, Loop!secMinsN, secMinsN,
  Loop!contLen_p, contLen_p, Loop!initMins_p, initMins_p, Loop!secMins_p, secMins_p,
  Loop!contLen_z, contLen_z, Loop!initMins_z, initMins_z, Loop!secMins_z, secMins_z,
  Loop!Twice, Twice, Loop!Table, Table

\* The instruction variants, lane by lane.
LEMMA SameHigh ==
  ASSUME NEW isa, NEW raw
  PROVE  Loop!High(W, isa, raw) = High(W, isa, raw)
  BY Zenon DEF Loop!High, High, Loop!HighByWord, HighByWord, Loop!HighByByte,
     HighByByte, Loop!Lane, Lane

LEMMA SameLook ==
  ASSUME NEW isa, NEW table, NEW idx
  PROVE  Loop!Look(W, isa, table, idx) = Look(W, isa, table, idx)
  BY Zenon DEF Loop!Look, Look, Loop!LookupHalves, LookupHalves, Loop!Lookup, Lookup,
     Loop!Lane, Lane, Loop!Half, Half

LEMMA SameShift ==
  ASSUME NEW isa, NEW k, NEW p, NEW c
  PROVE  Loop!Shift(W, isa, k, p, c) = Shift(W, isa, k, p, c)
  BY Zenon DEF Loop!Shift, Shift, Loop!ShiftInHalves, ShiftInHalves, Loop!ShiftIn,
     ShiftIn, Loop!Lane, Lane, Loop!Half, Half

LEMMA SameSub ==
  ASSUME NEW isa, NEW u, NEW c
  PROVE  Loop!Sub(W, isa, u, c) = Sub(W, isa, u, c)
  BY Zenon DEF Loop!Sub, Sub, Loop!SubSat, SubSat, Loop!SubMin, SubMin, Loop!Least,
     Least, Loop!Lane, Lane

LEMMA SameAdd ==
  ASSUME NEW u, NEW c
  PROVE  Loop!AddB(W, u, c) = AddB(W, u, c)
  BY Zenon DEF Loop!AddB, AddB, Loop!Lane, Lane

LEMMA SameGtS ==
  ASSUME NEW u, NEW c
  PROVE  Loop!GtS(u, c) = GtS(u, c)
  BY Zenon DEF Loop!GtS, GtS, Loop!Signed, Signed

LEMMA SameLoad ==
  ASSUME NEW s, NEW k
  PROVE  Loop!Load(W, s, k) = Load(W, s, k)
  BY Zenon DEF Loop!Load, Load, Loop!Lane, Lane, Loop!At, At

\* So the block functions are the same.
LEMMA SameBlock ==
  ASSUME NEW kernel, NEW raw, NEW prev
  PROVE  Loop!Block(W, kernel, raw, prev) = Block(W, kernel, raw, prev)
<1> DEFINE isa    == Code(kernel)
           high   == High(W, isa, raw)
           len    == Look(W, isa, isa.lens, high)
           sum    == AddB(W, len, Sub(W, isa, Shift(W, isa, 1, prev.carry, len), 1))
           carry  == AddB(W, sum, Sub(W, isa, Shift(W, isa, 2, prev.carry, sum), 2))
           off1   == Shift(W, isa, 1, prev.raw, raw)
           off1hi == Shift(W, isa, 1, prev.high, high)
           init   == Look(W, isa, isa.inits, off1hi)
           sec    == Look(W, isa, isa.secs, off1hi)
           excess == Sub(W, isa, raw, 244)
<1>1. Loop!Code(kernel) = isa
  BY SameCode, Zenon
<1> HIDE DEF isa
<1>2. Loop!High(W, isa, raw) = high
  BY SameHigh, Zenon
<1> HIDE DEF high
<1>3. Loop!Look(W, isa, isa.lens, high) = len
  BY SameLook, Zenon
<1> HIDE DEF len
<1>4. Loop!AddB(W, len, Loop!Sub(W, isa, Loop!Shift(W, isa, 1, prev.carry, len), 1)) = sum
  BY SameAdd, SameSub, SameShift, Zenon
<1> HIDE DEF sum
<1>5. Loop!AddB(W, sum, Loop!Sub(W, isa, Loop!Shift(W, isa, 2, prev.carry, sum), 2)) = carry
  BY SameAdd, SameSub, SameShift, Zenon
<1> HIDE DEF carry
<1>6. Loop!Shift(W, isa, 1, prev.raw, raw) = off1
  BY SameShift, Zenon
<1>7. Loop!Shift(W, isa, 1, prev.high, high) = off1hi
  BY SameShift, Zenon
<1> HIDE DEF off1hi, off1
<1>8. Loop!Look(W, isa, isa.inits, off1hi) = init /\ Loop!Look(W, isa, isa.secs, off1hi) = sec
  BY SameLook, Zenon
<1>9. Loop!Sub(W, isa, raw, 244) = excess
  BY SameSub
<1> HIDE DEF init, sec, excess
<1> DEFINE bad == {i \in Lane(W) :
                   \/ excess[i] # 0
                   \/ GtS(carry[i], len[i]) <=> GtS(len[i], 0)
                   \/ off1[i] = 237 /\ GtS(raw[i], 159)
                   \/ off1[i] = 244 /\ GtS(raw[i], 143)
                   \/ GtS(init[i], off1[i]) /\ GtS(sec[i], raw[i])}
<1>10. Block(W, kernel, raw, prev) = [regs |-> [raw |-> raw, high |-> high, carry |-> carry], bad |-> bad]
  BY DEF Block, ValidateBlock, isa, high, len, sum, carry, off1, off1hi, init, sec, excess
<1>11. Loop!Block(W, kernel, raw, prev) =
        [regs |-> [raw |-> raw, high |-> high, carry |-> carry], 
         bad |-> {i \in Loop!Lane(W) :
                   \/ excess[i] # 0
                   \/ Loop!GtS(carry[i], len[i]) <=> Loop!GtS(len[i], 0)
                   \/ off1[i] = 237 /\ Loop!GtS(raw[i], 159)
                   \/ off1[i] = 244 /\ Loop!GtS(raw[i], 143)
                   \/ Loop!GtS(init[i], off1[i]) /\ Loop!GtS(sec[i], raw[i])}]
  BY <1>1, <1>2, <1>3, <1>4, <1>5, <1>6, <1>7, <1>8, <1>9, ZenonT(60) DEF Loop!Block,
     Loop!ValidateBlock
<1> QED
  BY <1>10, <1>11 DEF GtS, Loop!GtS, Signed, Loop!Signed, Lane, Loop!Lane

\* The instruction sequences implement ValidBlocks: what is in the registers at the
\* end of a body is what its block function says.
THEOREM InstructionsImplementLoop == Spec => ImplementsLoop
<1>1. Init => Loop!Init
  <2> SUFFICES ASSUME Init PROVE Loop!Init
    OBVIOUS
  <2>1. /\ Carried(port, file) = [raw |-> Zero(W), high |-> Zero(W), carry |-> Zero(W)]
        /\ Held("err") = Zero(W)
    BY InitHeld
  <2>2. port \in Validators /\ src \in Seq(Byte)
    BY TargetPorts, SourcesAssumption DEF Init
  <2>3. {i \in Lane(W) : Held("err")[i] # 0} = {}
    BY <2>1 DEF Zero
  <2> QED
    BY <2>1, <2>2, <2>3 DEF Init, Loop!Init, Carried, Held, Validators, Loop!Validators, Zero,
       Loop!Zero,
         Lane, Loop!Lane
<1>2. IInv /\ [Next]_vars => [Loop!Next]_(Loop!vars)
  <2> SUFFICES ASSUME IInv, [Next]_vars
               PROVE  Loop!Next \/ UNCHANGED Loop!vars
    OBVIOUS
  <2>1. CASE Iterate
    <3> DEFINE block == Block(W, port, Load(W, src, si), Carried(port, file))
    <3>1. /\ pc = "loop" /\ si' = si + W /\ cx' = cx - 1
          /\ pc' = (IF cx' # 0 THEN "loop" ELSE "exit")
          /\ port' = port /\ src' = src /\ n' = n /\ ret' = ret
      BY <2>1 DEF Iterate, Stride
    <3>2. /\ Carried(port, file') = block.regs
          /\ Hot(file'[Home(port).err]) = Hot(Held("err")) \cup block.bad
      BY <2>1, IterateBlock
    <3>3. Loop!This = block
      BY SameBlock, SameLoad, Zenon DEF Loop!This, Carried, Held
    <3> HIDE DEF block
    <3>4. [raw |-> Held("raw"), high |-> Held("high"), carry |-> Held("carry")]' = block.regs
      BY <3>1, <3>2 DEF Carried, Held
    <3>5. {i \in Lane(W) : Held("err")[i] # 0}' = {i \in Lane(W) : Held("err")[i] # 0} \cup block.bad
      BY <3>1, <3>2 DEF Hot, Held
    <3> QED
      BY <3>1, <3>3, <3>4, <3>5 DEF Loop!Next, Loop!Iterate, Loop!Continue
  <2>2. CASE Return
    <3>1. /\ port' = port /\ src' = src /\ n' = n /\ si' = si /\ cx' = cx /\ file' = file
          /\ pc = "exit" /\ pc' = "done" /\ ret' = (IF Clear(Held("err")) THEN 1 ELSE 0)
      BY <2>2 DEF Return
    <3>2. Clear(Held("err")) <=> {i \in Lane(W) : Held("err")[i] # 0} = {}
      BY HeldType, ClearAll DEF IInv, TypeOK, Hot
    <3> QED
      BY <3>1, <3>2 DEF Loop!Next, Loop!Return, Held
  <2>3. CASE UNCHANGED vars
    BY <2>3 DEF vars, Loop!vars, Held
  <2> QED
    BY <2>1, <2>2, <2>3 DEF Next
<1> QED
  BY LoopInvariance, <1>1, <1>2, PTL DEF Spec, ImplementsLoop
=============================================================================
