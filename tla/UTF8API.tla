------------------------------ MODULE UTF8API -------------------------------
(***************************************************************************)
(* The package as its documentation promises it (utf8.go): Valid,          *)
(* ValidString, RuneCount and RuneCountInString return, in one step, what  *)
(* unicode/utf8 returns for the same bytes.                                *)
(***************************************************************************)
EXTENDS Utf8

VARIABLES op, p, pc, result

vars == << op, p, pc, result >>

Init ==
  /\ op \in SliceOps \cup StringOps
  /\ p \in Seq(Byte)
  /\ pc = "call"
  /\ result = 0

Return ==
  /\ pc = "call"
  /\ pc' = "done"
  /\ result' = Answer(op, p)
  /\ UNCHANGED << op, p >>

Safety == Init /\ [][Return]_vars
Spec   == Safety /\ WF_vars(Return)
=============================================================================
