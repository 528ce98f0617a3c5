------------------------------- MODULE MCMemo -------------------------------
(* An instance of Memo for TLC: four calls, two answers.                   *)
EXTENDS Memo

CONSTANTS c1, c2, c3, c4, a1, a2

FourCalls == {c1, c2, c3, c4}
TwoAnswers == {a1, a2}

=============================================================================
