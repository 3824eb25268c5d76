---------------------------- MODULE SerialStore ----------------------------
(***************************************************************************)
(* What the callers of the database are promised: each call takes effect    *)
(* whole and at one instant, when it is acknowledged; a call that throws,   *)
(* or that the end of the process cuts short, leaves no row behind; a read  *)
(* sees the rows of acknowledged calls and no others.                      *)
(***************************************************************************)
EXTENDS Integers

CONSTANTS Callers, MaxCalls

VARIABLES
  rows,    \* the rows written, each named by its writer and a number
  acked,   \* the calls acknowledged to their callers
  view     \* what each reading call has returned

Init ==
  /\ rows = {}
  /\ acked = {}
  /\ view = [c \in Callers |-> {}]

\* A single statement, or a transaction of any length within the bound.
Write(c) ==
  /\ c \notin acked
  /\ \E n \in 0 .. MaxCalls : rows' = rows \cup ({c} \X (1 .. n))
  /\ acked' = acked \cup {c}
  /\ UNCHANGED view

Read(c) ==
  /\ c \notin acked
  /\ view' = [view EXCEPT ![c] = rows]
  /\ acked' = acked \cup {c}
  /\ UNCHANGED rows

Next == \E c \in Callers : Write(c) \/ Read(c)

Spec == Init /\ [][Next]_<<rows, acked, view>>
=============================================================================
