--------------------------- MODULE MCAgentRuntime ---------------------------
(***************************************************************************)
(* AgentRuntime on small instances: the runs and callers are model values,  *)
(* interchangeable where no liveness is checked.                           *)
(***************************************************************************)
EXTENDS AgentRuntime, TLC

CONSTANTS r1, r2, r3, w1

TwoRuns   == {r1, r2}
ThreeRuns == {r1, r2, r3}
OneRun    == {r1}
NoRuns    == {}
OtherRun  == {r2}
OneWaiter == {w1}

\* The runs nobody stops are interchangeable.
Unstopped == Permutations({r2, r3})
=============================================================================
