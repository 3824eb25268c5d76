----------------------------- MODULE SqliteGate -----------------------------
(***************************************************************************)
(* The one SQLite connection of the application and the gate its users      *)
(* share: a FIFO of operations, where the statements of a transaction's     *)
(* body bypass the queue because they run in the transaction's async        *)
(* context.  Beside the callers of the repositories it is used by the       *)
(* maintenance timers and by the quit sequence, which closes the connection *)
(* without asking the gate.                                                *)
(*                                                                         *)
(* A caller makes one call: a statement that writes or reads, or a          *)
(* transaction whose body awaits one statement after the other.            *)
(***************************************************************************)
EXTENDS Integers, Sequences, FiniteSets

CONSTANTS
  Callers,        \* calls of the repositories and services, one each
  Transactions,   \* those that are transactions
  NoCaller,       \* activeTransactionToken = undefined
  MaxCalls,       \* bound: the statements in the body of a transaction
  MaxTicks        \* bound: the maintenance timers that fire

Background == {"maintenance", "quit"}

ASSUME CallersAssumption ==
  /\ Transactions \subseteq Callers
  /\ NoCaller \notin Callers
  /\ Callers \cap Background = {}
ASSUME BoundsAssumption == MaxCalls \in Nat \ {0} /\ MaxTicks \in Nat

VARIABLES
  gate,     \* tail: the operations queued, the head of which runs
  direct,   \* operations scheduled past the queue
  token,    \* activeTransactionToken, named by its caller
  pc,       \* where each call stands
  writes,   \* the statements run so far in the body of a transaction
  db,       \* the rows the open connection sees
  saved,    \* the rows when the open transaction began
  view,     \* what each reading call has returned
  maint,    \* the calls the maintenance task in progress has left
  ticks,    \* the timers that have fired
  phase,    \* how far the process has come with quitting
  order,    \* the calls in the order they were made (history)
  before    \* the calls in flight when the quit sequence began (history)

queues == <<gate, direct>>
calls  == <<pc, writes, view>>
disk   == <<db, saved>>
upkeep == <<maint, ticks>>
life   == <<phase, before>>
vars   == <<queues, token, calls, disk, upkeep, life, order>>

Settled == {"resolved", "rejected"}
Inside  == {"inside", "calling"}
Alive   == phase # "exited"
Open    == phase \in {"running", "closing", "checkpointed"}

Init ==
  /\ gate = <<>>
  /\ direct = {}
  /\ token = NoCaller
  /\ pc = [c \in Callers |-> "idle"]
  /\ writes = [c \in Callers |-> 0]
  /\ db = {}
  /\ saved = {}
  /\ view = [c \in Callers |-> {}]
  /\ maint = <<>>
  /\ ticks = 0
  /\ phase = "running"
  /\ order = <<>>
  /\ before = {}

-----------------------------------------------------------------------------
(* The gate *)

\* The token of the async context a call is made from.
Store(c) == IF c \in Callers /\ pc[c] \in Inside THEN c ELSE NoCaller

\* Mutations: any call during a transaction counts as its own; none does.
OwnerAnyone(c) == token # NoCaller
OwnerNobody(c) == FALSE

IsTransactionOwner(c) == token # NoCaller /\ Store(c) = token

\* run: past the queue for the owner of the transaction, else to its end.
Enter(c) ==
  IF IsTransactionOwner(c)
  THEN direct' = direct \cup {c} /\ UNCHANGED gate
  ELSE gate' = Append(gate, c) /\ UNCHANGED direct

\* Mutation: an operation does not wait for the one before it.
TurnOfAnyone(c) == c \in direct \/ \E i \in DOMAIN gate : gate[i] = c

Turn(c) == c \in direct \/ (gate # <<>> /\ Head(gate) = c)

\* The operation is over: the next in the queue may run.
Release(c) ==
  IF c \in direct
  THEN direct' = direct \ {c} /\ UNCHANGED gate
  ELSE gate' = Tail(gate) /\ UNCHANGED direct

Goto(c, l) == pc' = [pc EXCEPT ![c] = l]

-----------------------------------------------------------------------------
(* The calls of the repositories and services *)

Call(c) ==
  /\ Alive
  /\ pc[c] = "idle"
  /\ Goto(c, "called")
  /\ Enter(c)
  /\ order' = Append(order, c)
  /\ UNCHANGED <<token, writes, view, disk, upkeep, life>>

\* A single statement writes, reads or throws; a closed connection makes it throw.
Statement(c) ==
  /\ Alive
  /\ c \notin Transactions /\ pc[c] = "called"
  /\ Turn(c) /\ Release(c)
  /\ \/ Open /\ db' = db \cup {<<c, 1>>} /\ Goto(c, "resolved") /\ UNCHANGED view
     \/ Open /\ view' = [view EXCEPT ![c] = db] /\ Goto(c, "resolved") /\ UNCHANGED db
     \/ Goto(c, "rejected") /\ UNCHANGED <<db, view>>
  /\ UNCHANGED <<token, writes, saved, upkeep, life, order>>

\* BEGIN IMMEDIATE, under a token of its own.
Begin(c) ==
  /\ Alive /\ Open
  /\ c \in Transactions /\ pc[c] = "called"
  /\ Turn(c)
  /\ token' = c
  /\ saved' = db
  /\ Goto(c, "inside")
  /\ UNCHANGED <<queues, writes, view, db, upkeep, life, order>>

\* BEGIN throws: the database is locked by another process, or closed.
BeginThrows(c) ==
  /\ Alive
  /\ c \in Transactions /\ pc[c] = "called"
  /\ Turn(c) /\ Release(c)
  /\ token' = NoCaller
  /\ Goto(c, "rejected")
  /\ UNCHANGED <<writes, view, disk, upkeep, life, order>>

\* The body calls its next statement ...
BodyCalls(c) ==
  /\ Alive
  /\ pc[c] = "inside" /\ writes[c] < MaxCalls
  /\ Goto(c, "calling")
  /\ Enter(c)
  /\ UNCHANGED <<token, writes, view, disk, upkeep, life, order>>

\* ... and it runs in a microtask.
BodyStatement(c) ==
  /\ Alive /\ Open
  /\ pc[c] = "calling" /\ c \in direct
  /\ direct' = direct \ {c}
  /\ db' = db \cup {<<c, writes[c] + 1>>}
  /\ writes' = [writes EXCEPT ![c] = @ + 1]
  /\ Goto(c, "inside")
  /\ UNCHANGED <<gate, token, view, saved, upkeep, life, order>>

Commit(c) ==
  /\ Alive /\ Open
  /\ pc[c] = "inside"
  /\ Release(c)
  /\ token' = NoCaller
  /\ Goto(c, "resolved")
  /\ UNCHANGED <<writes, view, disk, upkeep, life, order>>

\* The body throws, by itself or because a statement or COMMIT has thrown.
Rollback(c) ==
  /\ Alive
  /\ pc[c] = "inside" \/ (pc[c] = "calling" /\ c \in direct)
  /\ gate' = Tail(gate)
  /\ direct' = direct \ {c}
  /\ token' = NoCaller
  /\ db' = saved
  /\ Goto(c, "rejected")
  /\ UNCHANGED <<writes, view, saved, upkeep, life, order>>

-----------------------------------------------------------------------------
(* The maintenance timers *)

Tasks == {<<"checkpoint">>, <<"checkpoint", "vacuum", "checkpoint">>}

\* Mutation: the runner starts a task while another is in progress.
TickOverlapping(task) ==
  /\ Alive /\ phase = "running"
  /\ ticks < MaxTicks
  /\ ticks' = ticks + 1
  /\ maint' = task /\ Enter("maintenance")
  /\ UNCHANGED <<token, calls, disk, life, order>>

\* A timer fires: the task is skipped while another is in progress.
Tick(task) ==
  /\ Alive /\ phase = "running"
  /\ ticks < MaxTicks
  /\ ticks' = ticks + 1
  /\ IF maint = <<>>
     THEN maint' = task /\ Enter("maintenance")
     ELSE UNCHANGED <<maint, queues>>
  /\ UNCHANGED <<token, calls, disk, life, order>>

Maintaining == "maintenance" \in direct \/ \E i \in DOMAIN gate : gate[i] = "maintenance"

\* One call of the task runs; one that throws ends the task.
MaintenanceRuns ==
  /\ Alive
  /\ Maintaining /\ Turn("maintenance") /\ Release("maintenance")
  /\ \/ Open /\ maint' = Tail(maint)
     \/ maint' = <<>>
  /\ UNCHANGED <<ticks, token, calls, disk, life, order>>

\* The task makes its next call.
MaintenanceCalls ==
  /\ Alive
  /\ maint # <<>> /\ ~Maintaining
  /\ Enter("maintenance")
  /\ UNCHANGED <<upkeep, token, calls, disk, life, order>>

-----------------------------------------------------------------------------
(* The end of the process *)

\* before-quit: the timers are stopped and a last checkpoint is called.
Quit ==
  /\ phase = "running"
  /\ phase' = "closing"
  /\ before' = {c \in Callers : pc[c] \notin {"idle"} \cup Settled}
  /\ Enter("quit")
  /\ UNCHANGED <<token, calls, disk, upkeep, order>>

\* The checkpoint has run, or thrown.
QuitCheckpoint ==
  /\ phase = "closing"
  /\ Turn("quit") /\ Release("quit")
  /\ phase' = "checkpointed"
  /\ UNCHANGED <<token, calls, disk, upkeep, before, order>>

\* Mutation: the checkpoint is not awaited.
CloseUnawaited ==
  /\ phase \in {"closing", "checkpointed"}
  /\ phase' = "closed"
  /\ db' = IF token = NoCaller THEN db ELSE saved
  /\ UNCHANGED <<queues, token, calls, saved, upkeep, before, order>>

\* The connection is closed; a transaction that has begun since is rolled back.
Close ==
  /\ phase = "checkpointed"
  /\ phase' = "closed"
  /\ db' = IF token = NoCaller THEN db ELSE saved
  /\ UNCHANGED <<queues, token, calls, saved, upkeep, before, order>>

\* The process ends: by app.quit, by a second before-quit, which nobody prevents,
\* or by a crash.  SQLite forgets the open transaction.
Exit ==
  /\ Alive
  /\ phase' = "exited"
  /\ token' = NoCaller
  /\ db' = IF token = NoCaller THEN db ELSE saved
  /\ UNCHANGED <<queues, calls, saved, upkeep, before, order>>

-----------------------------------------------------------------------------

OperationStep(c) ==
  \/ Statement(c) \/ Begin(c) \/ BeginThrows(c)
  \/ BodyCalls(c) \/ BodyStatement(c) \/ Commit(c) \/ Rollback(c)

MaintenanceStep == MaintenanceRuns \/ MaintenanceCalls

Next ==
  \/ \E c \in Callers : Call(c) \/ OperationStep(c)
  \/ \E task \in Tasks : Tick(task)
  \/ MaintenanceStep
  \/ Quit \/ QuitCheckpoint \/ Close \/ Exit

Spec == Init /\ [][Next]_vars

\* The operation whose turn it is runs, and the body of a transaction ends.
Fairness ==
  /\ \A c \in Callers : WF_vars(OperationStep(c))
  /\ WF_vars(MaintenanceStep) /\ WF_vars(QuitCheckpoint)

FairSpec == Spec /\ Fairness

-----------------------------------------------------------------------------
(* Properties *)

Rows == Callers \X (1 .. MaxCalls)

\* The types of the variables; nobody waits at the gate twice.
TypeOK ==
  /\ gate \in Seq(Callers \cup Background)
  /\ \A i, j \in DOMAIN gate : gate[i] = gate[j] => i = j
  /\ direct \subseteq Callers \cup Background
  /\ token \in Callers \cup {NoCaller}
  /\ pc \in [Callers -> {"idle", "called"} \cup Inside \cup Settled]
  /\ writes \in [Callers -> 0 .. MaxCalls]
  /\ db \subseteq Rows /\ saved \subseteq Rows
  /\ view \in [Callers -> SUBSET Rows]
  /\ maint \in Seq({"checkpoint", "vacuum"})
  /\ ticks \in 0 .. MaxTicks
  /\ phase \in {"running", "closing", "checkpointed", "closed", "exited"}
  /\ order \in Seq(Callers)
  /\ before \subseteq Callers

\* Calls settle in the order they were made: what the runtime relies on when it
\* starts two saves without waiting for the first.
FifoSettles ==
  \A i, j \in DOMAIN order :
    i < j /\ pc[order[j]] \in Settled => pc[order[i]] \in Settled

\* The quit sequence closes the connection only after every call made before it
\* has settled: its checkpoint has queued behind them.
QuitLosesNothing == phase = "closed" => \A c \in before : pc[c] \in Settled

\* No checkpoint and no VACUUM runs inside somebody's transaction.
MaintenanceOutsideTransactions ==
  [][maint # <<>> /\ maint' # maint => token = NoCaller]_vars

\* Every call settles while the process lives: no operation waits for itself.
EveryCallSettles ==
  \A c \in Callers : (pc[c] = "called") ~> (pc[c] \in Settled \/ ~Alive)

\* The callers see a serial store: the rows of an open transaction count only
\* once it has committed.
Committed == IF token = NoCaller THEN db ELSE saved
Serial == INSTANCE SerialStore WITH
  rows <- Committed, acked <- {c \in Callers : pc[c] = "resolved"}, view <- view

ImplementsSerialStore == Serial!Spec
=============================================================================
