----------------------------- MODULE ValidBlocks ----------------------------
(***************************************************************************)
(* validBlocksSSE, validBlocksAVX2, validBlocks, validBlocksVSX and        *)
(* validBlocksVX: a call of a validator kernel on n full blocks of src.    *)
(*                                                                         *)
(* A call loads one block per iteration, judges it together with what the  *)
(* last iteration left in three registers, and at the end turns the error  *)
(* register into the result.  There is no early exit.                      *)
(***************************************************************************)
EXTENDS Kernels

CONSTANTS
  W,          \* lanes of a register
  Sources     \* the byte slices the kernels are called on

ASSUME WAssumption == W \in Widths
ASSUME SourcesAssumption == Sources \subseteq Seq(Byte)

VARIABLES
  port,      \* which kernel is running
  src, n,    \* its arguments
  si,        \* bytes the source pointer has moved
  cx,        \* iterations left
  prev,      \* registers prevRaw, prevHigh and prevCarries
  err,       \* lanes of the error register that have a bit set
  pc, ret    \* control point, and the result once pc is "done"

vars == << port, src, n, si, cx, prev, err, pc, ret >>

\* The prologue.  The callers pass at least one full block of src
\* (n >= 32 or n >= 16 in valid and runeCount): the amd64, ppc64le and s390x
\* loops decrement before they test and would not stop at n = 0.
Init ==
  /\ port \in Validators
  /\ src \in Sources
  /\ n \in 1..Len(src) /\ n * W <= Len(src)
  /\ si = 0
  /\ cx = n
  /\ prev = [raw |-> Zero(W), high |-> Zero(W), carry |-> Zero(W)]
  /\ err = {}
  /\ pc = "loop"
  /\ ret = 0

\* The end of an iteration: keep the registers and the errors, move the
\* pointer, count down.
Continue(regs, errors, bytes) ==
  /\ prev' = regs
  /\ err' = errors
  /\ si' = si + bytes
  /\ cx' = cx - 1
  /\ pc' = IF cx' # 0 THEN "loop" ELSE "exit"
  /\ UNCHANGED << port, src, n, ret >>

\* One iteration: load, validate, continue.  (The variants move the pointer
\* by half a register, and keep the raw bytes of an earlier block.)
This == Block(W, port, Load(W, src, si), prev)
IterateHalf == pc = "loop" /\ Continue(This.regs, err \cup This.bad, Half(W))
IterateStale ==
  pc = "loop" /\ Continue([This.regs EXCEPT !.raw = prev.raw], err \cup This.bad, W)
Iterate == pc = "loop" /\ Continue(This.regs, err \cup This.bad, W)

\* PTEST and SETEQ (or the OR of the two halves and a compare with zero; the
\* variant forgets the second half).
ReturnFirst ==
  /\ pc = "exit"
  /\ ret' = IF err \cap 0..(Half(W) - 1) = {} THEN 1 ELSE 0
  /\ pc' = "done"
  /\ UNCHANGED << port, src, n, si, cx, prev, err >>
Return ==
  /\ pc = "exit"
  /\ ret' = IF err = {} THEN 1 ELSE 0
  /\ pc' = "done"
  /\ UNCHANGED << port, src, n, si, cx, prev, err >>

Next == Iterate \/ Return
Spec == Init /\ [][Next]_vars /\ WF_vars(Next)

-----------------------------------------------------------------------------
(* Properties                                                              *)

\* The shape of the state: the block counter and the pointer move together
\* and stay within the n blocks of src the call was given.
TypeOK ==
  /\ port \in Validators
  /\ src \in Seq(Byte)
  /\ n \in 1..Len(src) /\ n * W <= Len(src)
  /\ cx \in 0..n /\ si = (n - cx) * W
  /\ prev \in Regs(W)
  /\ err \subseteq Lane(W)
  /\ pc \in {"loop", "exit", "done"}
  /\ pc = "loop" <=> cx > 0
  /\ ret \in {0, 1}

\* After every iteration the error register is clear exactly when the bytes
\* consumed so far are free of structural errors, although an iteration sees
\* only its own block and three registers of the one before: a rune that
\* straddles the block boundary is judged as if there were no boundary.
ErrExact == (err = {}) <=> StructOK(src, si)

\* The carries are added with 8-bit wrap-around and compared as signed bytes.
\* Whatever the input, and however the carries of a malformed block feed the
\* next one, they stay far below the sign bit.
CarryBounded == \A i \in Lane(W) : prev.carry[i] <= 33

-----------------------------------------------------------------------------
(* Why ErrExact holds: what the registers say of the bytes before si       *)

\* While no error was seen, the registers describe the bytes consumed.  (After
\* an error the carries may be anything; the result is decided.)
RegsExact ==
  /\ Mirrors(W, src, si, prev)
  /\ err = {} => CarryOwes(W, src, si, prev.carry)

Inv == TypeOK /\ ErrExact /\ RegsExact

-----------------------------------------------------------------------------
(* The call as its declaration promises it                                 *)

Judgement(s, k) == IF StructOK(s, k * W) THEN 1 ELSE 0
Promise == INSTANCE KernelCall WITH
             Answers <- Judgement, pc <- IF pc = "done" THEN "done" ELSE "call"

\* The declarations (utf8_amd64.go:11-17, utf8_arm64.go:7-11) promise that a
\* call returns, with 1 if the n blocks contain no structural error and else
\* with 0, and leaves its arguments alone: every step of the loop but the
\* last is invisible to the caller.
KeepsPromise == Promise!Spec
=============================================================================
