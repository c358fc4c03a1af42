-------------------------- MODULE ValidBlocksProofs -------------------------
(***************************************************************************)
(* Proofs about ValidBlocks, for every even register width of at least     *)
(* four lanes, every set of sources and every number of blocks: the        *)
(* invariant Inv by induction over the iterations, each of which judges    *)
(* one block more (JudgedFurther in Lemmas), and what follows from  *)
(* it for the caller.                                                      *)
(***************************************************************************)
EXTENDS ValidBlocks, Lemmas

-----------------------------------------------------------------------------
(* The invariant                                                           *)

\* The width and the last two lanes.
LEMMA WNat == W \in Nat /\ W >= 4 /\ W - 1 \in Lane(W) /\ W - 2 \in Lane(W)
BY WAssumption, LastLanes

\* What the invariant says of the registers.
LEMMA InvJudged ==
  TypeOK => (ErrExact /\ RegsExact <=> BlocksJudged(W, src, si, prev, err))
BY DEF TypeOK, ErrExact, RegsExact, BlocksJudged

\* The prologue establishes the invariant.
LEMMA InitInv == Init => Inv
<1> SUFFICES ASSUME Init PROVE Inv
  OBVIOUS
<1>1. BlocksJudged(W, src, 0, prev, err) /\ si = 0
  BY WAssumption, JudgedNone DEF Init
<1>2. TypeOK
  <2>1. src \in Seq(Byte) /\ Len(src) \in Nat
    BY SourcesAssumption DEF Init
  <2>2. n \in Nat /\ n > 0 /\ (n - cx) * W = 0
    BY <2>1, WNat DEF Init
  <2> QED
    BY <1>1, <2>1, <2>2 DEF Init, TypeOK, BlocksJudged
<1> QED
  BY <1>1, <1>2, InvJudged DEF Inv

\* One more block fits, and the pointer and the countdown stay in step.
LEMMA Advance ==
  ASSUME TypeOK, pc = "loop"
  PROVE  /\ si \in Nat /\ si + W <= Len(src)
         /\ cx - 1 \in 0..n /\ si + W = (n - (cx - 1)) * W
<1>1. W \in Nat /\ n \in Nat /\ cx \in Nat /\ Len(src) \in Nat /\ cx > 0 /\ cx <= n
      /\ n * W <= Len(src) /\ si = (n - cx) * W
  BY WNat DEF TypeOK
<1>2. \A a, b, w \in Nat : (a * w) + (b * w) = (a + b) * w /\ a * w \in Nat
  OBVIOUS
<1>3. n - cx \in Nat /\ cx - 1 \in Nat /\ (n - cx) + 1 = n - (cx - 1)
      /\ (n - (cx - 1)) + (cx - 1) = n /\ n - (cx - 1) \in Nat
  BY <1>1
<1>4. 1 * W = W
  BY <1>1
<1>5. (n - cx) * W + 1 * W = (n - (cx - 1)) * W /\ (n - cx) * W \in Nat
  BY <1>1, <1>2, <1>3
<1>6. (n - (cx - 1)) * W + (cx - 1) * W = n * W /\ (cx - 1) * W \in Nat
      /\ (n - (cx - 1)) * W \in Nat
  BY <1>1, <1>2, <1>3
<1>7. si + W = (n - (cx - 1)) * W
  BY <1>1, <1>4, <1>5
<1> DEFINE x == (n - (cx - 1)) * W
           y == (cx - 1) * W
           z == n * W
<1>8. x <= z
  <2>1. x \in Nat /\ y \in Nat /\ x + y = z
    BY <1>6
  <2> HIDE DEF x, y, z
  <2> QED
    BY <2>1
<1> QED
  BY <1>1, <1>3, <1>5, <1>7, <1>8

\* After an iteration the error register is clear exactly when it was clear
\* and the bytes of the block are in order.
LEMMA IterateInv == Inv /\ Iterate => Inv'
<1> SUFFICES ASSUME Inv, Iterate PROVE Inv'
  OBVIOUS
<1> DEFINE step == Block(W, port, Load(W, src, si), prev)
<1>1. /\ port \in Validators /\ src \in Seq(Byte) /\ prev \in Regs(W) /\ err \subseteq Lane(W)
      /\ pc = "loop" /\ n \in 1..Len(src) /\ n * W <= Len(src) /\ ret \in {0, 1}
      /\ cx \in Int
  BY DEF Inv, TypeOK, Iterate, Continue
<1>2. /\ si \in Nat /\ si + W <= Len(src)
      /\ cx - 1 \in 0..n /\ si + W = (n - (cx - 1)) * W
  BY Advance DEF Inv, Iterate
<1>3. /\ prev' = step.regs /\ err' = err \cup step.bad /\ si' = si + W /\ cx' = cx - 1
      /\ pc' = (IF cx - 1 # 0 THEN "loop" ELSE "exit")
      /\ port' = port /\ src' = src /\ n' = n /\ ret' = ret
  BY DEF Iterate, Continue, This
<1>4. BlocksJudged(W, src, si, prev, err)
  BY InvJudged DEF Inv
<1>5. BlocksJudged(W, src, si + W, step.regs, err \cup step.bad)
  BY <1>1, <1>2, <1>4, WAssumption, JudgedFurther
<1>6. BlocksJudged(W, src', si', prev', err')
  <2> HIDE DEF step
  <2> QED
    BY <1>3, <1>5, Zenon
<1>7. TypeOK'
  <2>1. pc' \in {"loop", "exit", "done"} /\ (pc' = "loop" <=> cx' > 0)
    <3>1. cx - 1 \in Nat
      BY <1>1, <1>2
    <3>2. CASE cx - 1 = 0
      <4>1. cx' = 0 /\ pc' = "exit"
        BY <1>3, <3>2
      <4> QED
        BY <4>1
    <3>3. CASE cx - 1 # 0
      <4>1. cx' > 0 /\ pc' = "loop"
        BY <1>1, <1>3, <3>1, <3>3
      <4> QED
        BY <4>1
    <3> QED
      BY <3>2, <3>3
  <2>2. prev' \in Regs(W) /\ err' \subseteq Lane(W)
    BY <1>6 DEF BlocksJudged
  <2> HIDE DEF step
  <2> QED
    BY <1>1, <1>2, <1>3, <2>1, <2>2 DEF TypeOK
<1>8. ErrExact' /\ RegsExact'
  BY <1>6 DEF ErrExact, RegsExact, BlocksJudged
<1> QED
  BY <1>7, <1>8 DEF Inv

\* The epilogue does not touch it.
LEMMA ReturnInv == Inv /\ Return => Inv'
<1> SUFFICES ASSUME Inv, Return PROVE Inv'
  OBVIOUS
<1>1. TypeOK'
  BY DEF Inv, TypeOK, Return
<1>2. ErrExact' /\ RegsExact'
  BY DEF Inv, ErrExact, RegsExact, Return
<1> QED
  BY <1>1, <1>2 DEF Inv

\* Nor does a stuttering step.
LEMMA StutterInv == Inv /\ UNCHANGED vars => Inv'
BY DEF Inv, TypeOK, ErrExact, RegsExact, vars

\* The invariant holds in every run of every port, for every register width,
\* every input and every number of blocks: the state is well formed, the
\* error register is exact after each iteration, and the carries are exactly
\* what the next block needs to know.
THEOREM Invariance == Spec => []Inv
<1>1. Inv /\ [Next]_vars => Inv'
  BY IterateInv, ReturnInv, StutterInv DEF Next
<1> QED
  BY InitInv, <1>1, PTL DEF Spec

\* The state keeps its shape: no iteration moves the pointer past the n blocks
\* of the call.
THEOREM TypeCorrect == Spec => []TypeOK
<1>1. Inv => TypeOK
  BY DEF Inv
<1> QED
  BY Invariance, <1>1, PTL

\* After every iteration of every port the error register is clear exactly when
\* the bytes consumed have no structural error.
THEOREM ErrorRegisterExact == Spec => []ErrExact
<1>1. Inv => ErrExact
  BY DEF Inv
<1> QED
  BY Invariance, <1>1, PTL

\* The three registers describe the bytes before the next block.
THEOREM RegistersExact == Spec => []RegsExact
<1>1. Inv => RegsExact
  BY DEF Inv
<1> QED
  BY Invariance, <1>1, PTL

\* Every step of a kernel is, for its caller, a stutter or the one step the
\* declaration promises: the result is right whenever the call returns.  (That
\* it returns is a liveness property, which TLC checks.)
THEOREM KeepsPromiseSafely == Spec => Promise!Safety
<1>1. Init => Promise!Init
  <2> SUFFICES ASSUME Init PROVE Promise!Init
    OBVIOUS
  <2>1. src \in Seq(Byte)
    BY SourcesAssumption DEF Init
  <2> QED
    BY <2>1 DEF Init, Promise!Init, Promise!Byte, Byte
<1>2. Inv /\ [Next]_vars => [Promise!Return]_(Promise!vars)
  <2> SUFFICES ASSUME Inv, [Next]_vars
               PROVE  Promise!Return \/ UNCHANGED Promise!vars
    OBVIOUS
  <2>1. CASE Iterate
    BY <2>1 DEF Iterate, Continue, Promise!vars
  <2>2. CASE Return
    <3>1. cx = 0 /\ si = n * W
      <4>1. pc # "loop" /\ cx \in 0..n /\ n \in Nat /\ si = (n - cx) * W
            /\ (pc = "loop" <=> cx > 0)
        BY <2>2 DEF Inv, TypeOK, Return
      <4>2. cx = 0 /\ n - 0 = n
        BY <4>1
      <4> QED
        BY <4>1, <4>2
    <3> QED
      BY <2>2, <3>1 DEF Inv, ErrExact, Return, Promise!Return, Judgement
  <2>3. CASE UNCHANGED vars
    BY <2>3 DEF vars, Promise!vars
  <2> QED
    BY <2>1, <2>2, <2>3 DEF Next
<1> QED
  BY Invariance, <1>1, <1>2, PTL DEF Spec, Promise!Safety

-----------------------------------------------------------------------------
(* The size of the carries, also after an error                            *)

\* The carries of a malformed block feed the next block and stay far below
\* the sign bit, whatever the input: the signed comparison of carries never
\* sees a negative one, and no addition wraps.
THEOREM CarriesBounded == Spec => []CarryBounded
<1> DEFINE Low == CarryBounded /\ CarriesLow(W, prev.carry)
<1>1. Init => Low
  <2> SUFFICES ASSUME Init PROVE Low
    OBVIOUS
  <2>1. prev.carry = Zero(W)
    BY DEF Init
  <2> QED
    BY <2>1, WNat DEF CarryBounded, CarriesLow, Zero
<1>2. Inv /\ Low /\ [Next]_vars => Low'
  <2> SUFFICES ASSUME Inv, Low, [Next]_vars PROVE Low'
    OBVIOUS
  <2>1. CASE Iterate
    <3> DEFINE raw  == Load(W, src, si)
               step == Block(W, port, raw, prev)
    <3>1. port \in Validators /\ src \in Seq(Byte) /\ prev \in Regs(W)
      BY DEF Inv, TypeOK
    <3>2. si \in Nat /\ si + W <= Len(src)
      BY <2>1, Advance DEF Inv, Iterate
    <3>3. raw \in Vec(W)
      BY <3>1, <3>2, WAssumption, LoadType
    <3>4. step = Body(W, raw, prev)
      BY <3>1, <3>3, WAssumption, PortsAgree
    <3>5. prev' = step.regs
      BY <2>1 DEF Iterate, Continue, This
    <3> HIDE DEF raw, step
    <3>6. prev'.carry = Carry(W, raw, prev.carry)
      BY <3>4, <3>5 DEF Body
    <3>7. prev.carry \in Vec(W)
      BY <3>1 DEF Regs
    <3>8. /\ CarriesLow(W, Carry(W, raw, prev.carry))
          /\ \A i \in Lane(W) : Carry(W, raw, prev.carry)[i] <= 33
      BY <3>3, <3>7, WAssumption, CarryBound
    <3> QED
      BY <3>6, <3>8 DEF CarryBounded, CarriesLow
  <2>2. CASE Return
    BY <2>2 DEF Return, CarryBounded, CarriesLow
  <2>3. CASE UNCHANGED vars
    BY <2>3 DEF vars, CarryBounded, CarriesLow
  <2> QED
    BY <2>1, <2>2, <2>3 DEF Next
<1>3. Low => CarryBounded
  OBVIOUS
<1> QED
  BY Invariance, <1>1, <1>2, <1>3, PTL DEF Spec
=============================================================================
