---------------------------- MODULE SshExecution ----------------------------
(***************************************************************************)
(* One SSH execution: runCommands writes its rows, the ssh2 adapter runs    *)
(* the commands one after the other, every callback of the adapter becomes  *)
(* an operation on the execution's operation queue, and startExecution      *)
(* finalizes or fails the execution.                                       *)
(*                                                                         *)
(* Persistence calls of the operation at work and of startExecution are     *)
(* served in the order they are issued: that is what the operation gate     *)
(* promises (SqliteGate!FifoSettles).                                       *)
(***************************************************************************)
EXTENDS Integers, Sequences, FiniteSets

CONSTANTS
  N,                   \* the number of commands of the execution
  MaxChunks,           \* bound: output chunks a command writes
  ChannelMayFail,      \* whether exec or its channel may raise an error
  PersistenceMayFail   \* whether a persistence call may reject

ASSUME SshAssumption ==
  /\ N \in Nat \ {0}
  /\ MaxChunks \in Nat
  /\ {ChannelMayFail, PersistenceMayFail} \subseteq BOOLEAN

Commands == 1 .. N
Callers == {"op", "fin"}   \* the operation at work, startExecution

VARIABLES
  input,     \* stopOnError, and whether timeoutMs is above 0
  exec,      \* the persisted SshExecution: its status, and whether completedAt is set
  result,    \* the persisted SshCommandResult rows: status and chunks of output
  fin,       \* where runCommands, then startExecution's async function stands
  copy,      \* what startExecution has read: the execution and the results
  todo,      \* the results the loops of runCommands and failExecution still have to save
  adapter,   \* where the adapter's runCommands stands
  at,        \* the command the adapter is at
  received,  \* the chunks each command has written
  chunks,    \* callbackQueue: chunks of the current command not yet stored, the first
             \* of them on the operation queue
  timedOut,  \* the execution's AbortController has been aborted
  ops,       \* operationQueue, the operation at work first
  opAt,      \* the persistence call the operation at work is at
  opRead,    \* what it has read: a result and the execution's row
  cbError,   \* firstCallbackError is set
  waiting,   \* persistence calls in the order they were issued, by caller
  selected   \* the callers whose save has read its row: the INSERT is due

rowVars == <<exec, result, selected>>
startVars == <<fin, copy, todo>>
adapterVars == <<adapter, at, received, chunks, timedOut>>
opVars == <<ops, opAt, opRead, cbError>>
vars == <<input, rowVars, startVars, adapterVars, opVars, waiting>>

NoResult == [status |-> "none", out |-> 0]
NoExec == [status |-> "none", ended |-> FALSE]
NoRows == [exec |-> NoExec, result |-> [i \in Commands |-> NoResult]]

Init ==
  /\ input \in [stopOnError : BOOLEAN, timeout : BOOLEAN]
  /\ exec = NoExec
  /\ result = [i \in Commands |-> NoResult]
  /\ fin = "idle" /\ copy = NoRows /\ todo = {}
  /\ adapter = "idle" /\ at = 1
  /\ received = [i \in Commands |-> 0]
  /\ chunks = 0 /\ timedOut = FALSE
  /\ ops = <<>> /\ opAt = "none"
  /\ opRead = [row |-> NoResult, exec |-> NoExec] /\ cbError = FALSE
  /\ waiting = <<>> /\ selected = {}

-----------------------------------------------------------------------------
(* Helpers *)

Active == {"queued", "running"}
Ended == {"succeeded", "failed"}

Lowest(S) == CHOOSE i \in S : \A j \in S : i <= j

\* The call of p is served: p issues its next call, or none.
Served(p) == waiting # <<>> /\ Head(waiting) = p
Again(p)  == waiting' = Append(Tail(waiting), p)
Last      == waiting' = Tail(waiting)

\* A save is two calls, those of upsert: a SELECT of the row's sort_seq, and the INSERT.
Inserted(p) == Served(p) /\ p \in selected /\ selected' = selected \ {p}

\* Either of them rejects, or a read does.
Rejected(p) == Served(p) /\ selected' = selected \ {p}

AtSave(p) ==
  IF p = "op" THEN opAt \in {"save", "touch"}
  ELSE fin \in {"creating", "queueing", "finalSave", "failFirst", "failRest", "failSave"}

Select(p) ==
  /\ Served(p) /\ AtSave(p) /\ p \notin selected
  /\ selected' = selected \cup {p} /\ Again(p)
  /\ UNCHANGED <<input, exec, result, startVars, adapterVars, opVars>>

FinGoto(l) == fin' = l

\* enqueue of startExecution: an operation that comes first starts at once.
Enqueue(kind, i) ==
  /\ ops' = Append(ops, [kind |-> kind, index |-> i])
  /\ IF ops = <<>>
       THEN opAt' = "list" /\ waiting' = Append(waiting, "op")
       ELSE UNCHANGED <<opAt, waiting>>

-----------------------------------------------------------------------------
(* runCommands: the rows *)

RunCommands ==
  /\ fin = "idle"
  /\ FinGoto("creating")
  /\ waiting' = Append(waiting, "fin")
  /\ UNCHANGED <<input, rowVars, copy, todo, adapterVars, opVars>>

SaveExecution ==
  /\ fin = "creating" /\ Inserted("fin")
  /\ exec' = [status |-> "running", ended |-> FALSE]
  /\ todo' = Commands
  /\ FinGoto("queueing") /\ Again("fin")
  /\ UNCHANGED <<input, result, copy, adapterVars, opVars>>

\* The last of the queued results starts the execution and its timer.
SaveQueued ==
  /\ fin = "queueing" /\ Inserted("fin")
  /\ LET i == Lowest(todo) IN
     /\ result' = [result EXCEPT ![i] = [status |-> "queued", out |-> 0]]
     /\ todo' = todo \ {i}
  /\ IF todo' = {}
       THEN FinGoto("adapter") /\ adapter' = "connecting" /\ Last
       ELSE Again("fin") /\ UNCHANGED <<fin, adapter>>
  /\ UNCHANGED <<input, exec, copy, at, received, chunks, timedOut, opVars>>

\* runCommands throws: nothing was started, the rows written so far stay.
CreateThrows ==
  /\ PersistenceMayFail
  /\ fin \in {"creating", "queueing"} /\ Rejected("fin")
  /\ FinGoto("refused") /\ Last
  /\ UNCHANGED <<input, exec, result, copy, todo, adapterVars, opVars>>

-----------------------------------------------------------------------------
(* The adapter *)

\* connectClient resolves and runSingleCommand calls onCommandStart.
Connected ==
  /\ adapter = "connecting"
  /\ adapter' = "starting"
  /\ Enqueue("start", at)
  /\ UNCHANGED <<input, rowVars, startVars, at, received, chunks, timedOut, opRead, cbError>>

\* The connection, authentication, exec or the channel fails.
ConnectionFails ==
  /\ \/ adapter = "connecting"
     \/ adapter = "streaming" /\ ChannelMayFail
  /\ adapter' = "threw"
  /\ UNCHANGED <<input, rowVars, startVars, at, received, chunks, timedOut, opVars, waiting>>

\* Mutation: a timeout only closes the stream of a command that runs.
TimeOutRunningOnly ==
  /\ input.timeout /\ ~timedOut
  /\ adapter \notin {"idle", "returned", "threw"}
  /\ timedOut' = TRUE
  /\ adapter' = IF adapter = "streaming" THEN "threw" ELSE adapter
  /\ UNCHANGED <<input, rowVars, startVars, at, received, chunks, opVars, waiting>>

\* The timer of the execution: a connection attempt or a command that runs is
\* rejected at once, the callback queue of the command stays.
TimeOut ==
  /\ input.timeout /\ ~timedOut
  /\ adapter \notin {"idle", "returned", "threw"}
  /\ timedOut' = TRUE
  /\ adapter' = IF adapter \in {"connecting", "streaming"} THEN "threw" ELSE adapter
  /\ UNCHANGED <<input, rowVars, startVars, at, received, chunks, opVars, waiting>>

\* A chunk of output joins the callback queue of its command, which calls onStdout
\* or onStderr at once when it is empty.
Output ==
  /\ adapter = "streaming" /\ received[at] < MaxChunks
  /\ received' = [received EXCEPT ![at] = @ + 1]
  /\ chunks' = chunks + 1
  /\ IF chunks = 0 THEN Enqueue("chunk", at) ELSE UNCHANGED <<ops, opAt, waiting>>
  /\ UNCHANGED <<input, rowVars, startVars, adapter, at, timedOut, opRead, cbError>>

\* The channel closes with an exit code: settled, and later events are ignored.
ChannelClose ==
  /\ adapter = "streaming"
  /\ adapter' = "completing"
  /\ UNCHANGED <<input, rowVars, startVars, at, received, chunks, timedOut, opVars, waiting>>

\* Mutation: the completion does not wait for the callback queue.
CompleteAtOnce ==
  /\ adapter = "completing"
  /\ adapter' = "reporting"
  /\ \E kind \in {"succeeded", "failed"} : Enqueue(kind, at)
  /\ UNCHANGED <<input, rowVars, startVars, at, received, chunks, timedOut, opRead, cbError>>

\* Once the callback queue is empty, onCommandComplete.
Complete ==
  /\ adapter = "completing" /\ chunks = 0
  /\ adapter' = "reporting"
  /\ \E kind \in {"succeeded", "failed"} : Enqueue(kind, at)
  /\ UNCHANGED <<input, rowVars, startVars, at, received, chunks, timedOut, opRead, cbError>>

-----------------------------------------------------------------------------
(* The operation at work *)

Op == Head(ops)

ListResult ==
  /\ opAt = "list" /\ Served("op")
  /\ opRead' = [opRead EXCEPT !.row = result[Op.index]]
  /\ opAt' = "save" /\ Again("op")
  /\ UNCHANGED <<input, rowVars, startVars, adapterVars, ops, cbError>>

\* The result an operation saves over the one it has read.
Updated(row) ==
  CASE Op.kind = "start" -> [row EXCEPT !.status = "running"]
    [] Op.kind = "chunk" ->
         [status |-> IF row.status = "queued" THEN "running" ELSE row.status, out |-> row.out + 1]
    [] Op.kind \in Ended -> [status |-> Op.kind, out |-> received[Op.index]]
    [] Op.kind = "skipped" -> [row EXCEPT !.status = "skipped"]

SaveResult ==
  /\ opAt = "save" /\ Inserted("op")
  /\ result' = [result EXCEPT ![Op.index] = Updated(opRead.row)]
  /\ opAt' = "get" /\ Again("op")
  /\ UNCHANGED <<input, exec, startVars, adapterVars, ops, opRead, cbError>>

\* touchExecution
GetExecution ==
  /\ opAt = "get" /\ Served("op")
  /\ opRead' = [opRead EXCEPT !.exec = exec]
  /\ opAt' = "touch" /\ Again("op")
  /\ UNCHANGED <<input, rowVars, startVars, adapterVars, ops, cbError>>

\* The end of the operation at work: the queue goes on with what is left of it,
\* and startExecution, if it waits for this one, with its first call.
OpEnds(left) ==
  /\ ops' = left
  /\ opAt' = IF left = <<>> THEN "none" ELSE "list"
  /\ FinGoto(IF fin = "awaitOp" THEN "failGet" ELSE fin)
  /\ waiting' = Tail(waiting) \o (IF fin = "awaitOp" THEN <<"fin">> ELSE <<>>)
                              \o (IF left = <<>> THEN <<>> ELSE <<"op">>)

\* Mutation: a failed command does not stop the commands after it.
AfterCommandIgnoresFailure(kind) ==
  IF at = N
    THEN adapter' = "returned" /\ UNCHANGED at
    ELSE at' = at + 1 /\ adapter' = "nextCommand"

\* After a command: the next one, the skipping of the rest, or the return.
AfterCommand(kind) ==
  IF at = N
    THEN adapter' = "returned" /\ UNCHANGED at
    ELSE /\ at' = at + 1
         /\ adapter' = IF kind = "skipped" \/ (kind = "failed" /\ input.stopOnError)
                         THEN "nextSkip" ELSE "nextCommand"

\* touchExecution writes the row it has read back, as running unless the
\* operation ends a command.  Then the adapter resumes, or the callback queue hands
\* over its next chunk, also when the command has been rejected meanwhile.
TouchExecution ==
  /\ opAt = "touch" /\ Inserted("op")
  /\ exec' = IF Op.kind \in {"start", "chunk"}
               THEN [opRead.exec EXCEPT !.status = "running"] ELSE opRead.exec
  /\ CASE Op.kind = "chunk" -> chunks' = chunks - 1 /\ UNCHANGED <<adapter, at>>
       [] Op.kind = "start" ->
            adapter' = (IF timedOut THEN "threw" ELSE "streaming") /\ UNCHANGED <<at, chunks>>
       [] OTHER -> AfterCommand(Op.kind) /\ UNCHANGED chunks
  /\ OpEnds(Tail(ops) \o IF Op.kind = "chunk" /\ chunks > 1 THEN <<Op>> ELSE <<>>)
  /\ UNCHANGED <<input, result, copy, todo, received, timedOut, opRead, cbError>>

\* A persistence call of the operation rejects: the callback queue of the command
\* ends, no further operation runs, and the adapter throws unless it already has.
OpThrows ==
  /\ PersistenceMayFail
  /\ opAt # "none" /\ Rejected("op")
  /\ cbError' = TRUE
  /\ chunks' = 0 /\ adapter' = "threw"
  /\ OpEnds(<<>>)
  /\ UNCHANGED <<input, exec, result, copy, todo, at, received, timedOut, opRead>>

-----------------------------------------------------------------------------
(* startExecution after the adapter *)

\* drainOperations, then finalizeExecution.
AdapterReturned ==
  /\ fin = "adapter" /\ adapter = "returned"
  /\ ops = <<>> /\ ~cbError
  /\ FinGoto("finalGet") /\ waiting' = Append(waiting, "fin")
  /\ UNCHANGED <<input, rowVars, copy, todo, adapterVars, opVars>>

\* The catch waits for the operations queued so far, then calls failExecution.
AdapterThrew ==
  /\ fin = "adapter" /\ adapter = "threw"
  /\ IF ops = <<>>
       THEN FinGoto("failGet") /\ waiting' = Append(waiting, "fin")
       ELSE FinGoto("awaitOp") /\ UNCHANGED waiting
  /\ UNCHANGED <<input, rowVars, copy, todo, adapterVars, opVars>>

ReadExecution ==
  /\ fin \in {"finalGet", "failGet"} /\ Served("fin")
  /\ copy' = [copy EXCEPT !.exec = exec]
  /\ FinGoto(IF fin = "finalGet" THEN "finalList" ELSE "failList") /\ Again("fin")
  /\ UNCHANGED <<input, rowVars, todo, adapterVars, opVars>>

\* Mutation: the status is the one of the last command.
FinalStatusOfLast(results) == IF results[N].status = "failed" THEN "failed" ELSE "succeeded"

\* finalExecutionStatus; no code path saves a cancelled result.
FinalStatus(results) ==
  IF \E i \in Commands : results[i].status = "failed" THEN "failed" ELSE "succeeded"

ListForFinal ==
  /\ fin = "finalList" /\ Served("fin")
  /\ copy' = [copy EXCEPT !.result = result]
  /\ FinGoto("finalSave") /\ Again("fin")
  /\ UNCHANGED <<input, rowVars, todo, adapterVars, opVars>>

SaveFinal ==
  /\ fin = "finalSave" /\ Inserted("fin")
  /\ exec' = [status |-> FinalStatus(copy.result), ended |-> TRUE]
  /\ FinGoto("done") /\ Last
  /\ UNCHANGED <<input, result, copy, todo, adapterVars, opVars>>

Unfinished(results) == {i \in Commands : results[i].status \in Active}

\* failExecution: with no failed command the first unfinished one is failed, and
\* then the rest is listed again.
ListForFail ==
  /\ fin = "failList" /\ Served("fin")
  /\ copy' = [copy EXCEPT !.result = result]
  /\ FinGoto(IF FinalStatus(result) = "failed" \/ Unfinished(result) = {}
               THEN "failRelist" ELSE "failFirst")
  /\ Again("fin")
  /\ UNCHANGED <<input, rowVars, todo, adapterVars, opVars>>

FailFirst ==
  /\ fin = "failFirst" /\ Inserted("fin")
  /\ LET i == Lowest(Unfinished(copy.result)) IN
     result' = [result EXCEPT ![i] = [copy.result[i] EXCEPT !.status = "failed"]]
  /\ FinGoto("failRelist") /\ Again("fin")
  /\ UNCHANGED <<input, exec, copy, todo, adapterVars, opVars>>

\* Mutation: failExecution does not go over the results again.
RelistNothing ==
  /\ fin = "failRelist" /\ Served("fin")
  /\ FinGoto("failSave") /\ Again("fin")
  /\ UNCHANGED <<input, rowVars, copy, todo, adapterVars, opVars>>

Relist ==
  /\ fin = "failRelist" /\ Served("fin")
  /\ copy' = [copy EXCEPT !.result = result]
  /\ todo' = Unfinished(result)
  /\ FinGoto(IF todo' = {} THEN "failSave" ELSE "failRest") /\ Again("fin")
  /\ UNCHANGED <<input, rowVars, adapterVars, opVars>>

\* A queued result is skipped, a running one failed.
FailRest ==
  /\ fin = "failRest" /\ Inserted("fin")
  /\ LET i == Lowest(todo)
         status == IF copy.result[i].status = "queued" THEN "skipped" ELSE "failed" IN
     /\ result' = [result EXCEPT ![i] = [copy.result[i] EXCEPT !.status = status]]
     /\ todo' = todo \ {i}
  /\ FinGoto(IF todo' = {} THEN "failSave" ELSE "failRest") /\ Again("fin")
  /\ UNCHANGED <<input, exec, copy, adapterVars, opVars>>

SaveFailed ==
  /\ fin = "failSave" /\ Inserted("fin")
  /\ exec' = [status |-> "failed", ended |-> TRUE]
  /\ FinGoto("done") /\ Last
  /\ UNCHANGED <<input, result, copy, todo, adapterVars, opVars>>

\* A rejection in finalizeExecution is caught and fails the execution; one in
\* failExecution rejects the promise that runCommands may wait for.
FinThrows ==
  /\ PersistenceMayFail
  /\ Rejected("fin") /\ fin \notin {"creating", "queueing"}
  /\ IF fin \in {"finalGet", "finalList", "finalSave"}
       THEN FinGoto("failGet") /\ Again("fin")
       ELSE FinGoto("rejected") /\ Last
  /\ UNCHANGED <<input, exec, result, copy, todo, adapterVars, opVars>>

-----------------------------------------------------------------------------

CreateStep == SaveExecution \/ SaveQueued

\* The adapter's loop: onCommandStart of the next command, or onCommandSkipped.
NextCommand ==
  /\ \/ adapter = "nextCommand" /\ adapter' = "starting" /\ Enqueue("start", at)
     \/ adapter = "nextSkip" /\ adapter' = "skipping" /\ Enqueue("skipped", at)
  /\ UNCHANGED <<input, rowVars, startVars, at, received, chunks, timedOut, opRead, cbError>>

OpStep == ListResult \/ SaveResult \/ GetExecution \/ TouchExecution

FinStep ==
  AdapterReturned \/ AdapterThrew \/ ReadExecution \/ ListForFinal \/ SaveFinal
  \/ ListForFail \/ FailFirst \/ Relist \/ FailRest \/ SaveFailed

Next ==
  \/ \E p \in Callers : Select(p)
  \/ RunCommands \/ CreateStep \/ CreateThrows
  \/ Connected \/ ConnectionFails \/ TimeOut
  \/ Output \/ ChannelClose \/ Complete \/ NextCommand
  \/ OpStep \/ OpThrows
  \/ FinStep \/ FinThrows

Spec == Init /\ [][Next]_vars

\* The process goes on with what it has started, and the timer fires; the remote
\* side may never answer.
Fairness ==
  /\ \A p \in Callers : WF_vars(Select(p))
  /\ WF_vars(CreateStep) /\ WF_vars(OpStep) /\ WF_vars(FinStep)
  /\ WF_vars(Complete) /\ WF_vars(NextCommand) /\ WF_vars(TimeOut)

FairSpec == Spec /\ Fairness

-----------------------------------------------------------------------------
(* Properties *)

CommandStatus == {"none", "queued", "running", "skipped"} \cup Ended
ExecStatus == {"none", "running"} \cup Ended
ResultRow == [status : CommandStatus, out : 0 .. MaxChunks]
ExecRow == [status : ExecStatus, ended : BOOLEAN]

\* The types of the variables; the operation queue never holds two operations, since
\* the adapter awaits each callback, and each caller has one call outstanding.
TypeOK ==
  /\ input \in [stopOnError : BOOLEAN, timeout : BOOLEAN]
  /\ exec \in ExecRow
  /\ result \in [Commands -> ResultRow]
  /\ fin \in {"idle", "creating", "queueing", "refused", "adapter", "awaitOp", "finalGet",
              "finalList", "finalSave", "failGet", "failList", "failFirst", "failRelist",
              "failRest", "failSave", "done", "rejected"}
  /\ copy \in [exec : ExecRow, result : [Commands -> ResultRow]]
  /\ todo \subseteq Commands
  /\ adapter \in {"idle", "connecting", "starting", "streaming", "completing", "reporting",
                  "skipping", "nextCommand", "nextSkip", "returned", "threw"}
  /\ at \in Commands
  /\ received \in [Commands -> 0 .. MaxChunks]
  /\ chunks \in 0 .. MaxChunks
  /\ timedOut \in BOOLEAN /\ cbError \in BOOLEAN
  /\ ops \in Seq([kind : {"start", "chunk", "skipped"} \cup Ended, index : Commands])
  /\ Len(ops) <= 1
  /\ opAt \in {"none", "list", "save", "get", "touch"}
  /\ opRead \in [row : ResultRow, exec : ExecRow]
  /\ waiting \in {<<>>, <<"op">>, <<"fin">>, <<"op", "fin">>, <<"fin", "op">>}
  /\ selected \subseteq Callers

\* The design's stopOnError: no command after one that failed is run, however the
\* failure came about.
StopOnErrorHolds ==
  input.stopOnError =>
    \A i, j \in Commands :
      i < j /\ result[i].status = "failed" => result[j].status \in {"none", "queued", "skipped"}

\* Once startExecution is through and no operation is left, every command has ended,
\* although operations of a rejected command run beside failExecution.
ResultsSettle ==
  fin = "done" /\ ops = <<>> => Unfinished(result) = {}

\* An execution reported as succeeded has run every command to success and kept
\* every chunk of output exactly once.
SucceededIsComplete ==
  exec.status = "succeeded" =>
    \A i \in Commands : result[i] = [status |-> "succeeded", out |-> received[i]]

\* With a timeout an execution that was started ends, whatever the remote side does.
ExecutionEnds == (input.timeout /\ fin = "adapter") ~> (fin \in {"done", "rejected"})

\* The design: after a timeout the execution is marked as failed.
TimedOutStaysFailed ==
  [][fin = "done" /\ exec.status = "failed" => exec'.status = "failed"]_vars
=============================================================================
