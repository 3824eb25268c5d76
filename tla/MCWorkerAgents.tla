--------------------------- MODULE MCWorkerAgents ---------------------------
(***************************************************************************)
(* WorkerAgents on small instances.                                        *)
(***************************************************************************)
EXTENDS WorkerAgents

CONSTANTS w1, w2, tool, timeout

OneWorker   == {w1}
TwoWorkers  == {w1, w2}
OneFaulty   == {w2}
NoneFaulty  == {}
OneCaller   == {tool}
TwoCallers  == {tool, timeout}
=============================================================================
