---------------------------- MODULE MCCodexOAuth ----------------------------
(* Two authorizations: one dialog closed or retried while the other is alive. *)
EXTENDS CodexOAuth, TLC
=============================================================================
