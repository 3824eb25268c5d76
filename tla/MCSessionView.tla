--------------------------- MODULE MCSessionView ----------------------------
(* Two messages, one of them possibly not saved, after a run that was cut off. *)
EXTENDS SessionView, TLC

CONSTANTS r1, r2, o1

TwoRuns == {r1, r2}
OldRun  == {o1}
Swap == Permutations(TwoRuns)
=============================================================================
