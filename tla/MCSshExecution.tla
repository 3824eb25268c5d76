--------------------------- MODULE MCSshExecution ---------------------------
(***************************************************************************)
(* SshExecution on small instances.                                        *)
(***************************************************************************)
EXTENDS SshExecution
=============================================================================
