----------------------------- MODULE KernelCall -----------------------------
(***************************************************************************)
(* An assembly kernel as its Go declaration describes it: a call with a    *)
(* slice and a number n of full blocks of W bytes, that returns            *)
(* Answers(src, n) in one step and leaves its arguments alone.              *)
(***************************************************************************)
EXTENDS Utf8

CONSTANTS W, Answers(_, _)
VARIABLES src, n, pc, ret

vars == << src, n, pc, ret >>

Init ==
  /\ src \in Seq(Byte)
  /\ n \in 1..Len(src) /\ n * W <= Len(src)
  /\ pc = "call"
  /\ ret = 0

Return ==
  /\ pc = "call"
  /\ ret' = Answers(src, n)
  /\ pc' = "done"
  /\ UNCHANGED << src, n >>

Safety == Init /\ [][Return]_vars
Spec   == Safety /\ WF_vars(Return)
=============================================================================
