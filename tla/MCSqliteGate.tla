---------------------------- MODULE MCSqliteGate ----------------------------
(***************************************************************************)
(* SqliteGate on small instances: transactions t1 and t2, statement s.      *)
(***************************************************************************)
EXTENDS SqliteGate

CONSTANTS t1, t2, s1

AllCalls     == {t1, t2, s1}
TwoBlocks    == {t1, t2}
=============================================================================
