---------------------------- MODULE SessionView -----------------------------
(***************************************************************************)
(* One conversation seen from the window: the renderer sends messages, the  *)
(* agentEnqueue handler hands them to the runtime and saves them, the       *)
(* runtime's events and the answers of the IPC calls travel back, and the   *)
(* store (appReducer) merges them with the history that is loaded when the  *)
(* session is selected.                                                    *)
(*                                                                         *)
(* The runtime is reduced to what a window can tell: a save and the event   *)
(* that follows it are one step, since nothing bounds how long the event    *)
(* travels.  AgentRuntime has the steps in between.  Events arrive in the   *)
(* order they are forwarded, answers of IPC calls in any order.  A run      *)
(* stands for the user message it was created for as well.                 *)
(***************************************************************************)
EXTENDS Naturals, Sequences

CONSTANTS
  Runs,      \* the messages the user sends, each with its run
  Old,       \* runs persisted as running by a process that did not live to end them
  NoRun,     \* runId is undefined
  MaxLoads,  \* bound: times the history is asked for
  MaxWire    \* bound: events the window is behind the runtime

ASSUME SessionViewAssumption ==
  /\ Old \cap Runs = {} /\ NoRun \notin Runs \cup Old
  /\ MaxLoads \in Nat /\ MaxWire \in Nat \ {0}

VARIABLES
  handler,   \* where the agentEnqueue handler of each message stands
  queue,     \* the runs of the session that have not ended, in the order of enqueue
  exec,      \* where each run stands in the runtime
  status,    \* AgentRun.status in the database
  saved,     \* user messages in the database
  wire,      \* runtime events on their way to the window
  replies,   \* agentEnqueue answers on their way
  sent,      \* the messages in the order the user sent them
  users,     \* user messages shown
  link,      \* Message.runId of each shown user message
  shown,     \* status in runsById
  active,    \* the session is the selected one
  history,   \* the history loading effect: loadingHistorySessionIds, loadedHistorySessionIds
  snapshot,  \* what it has read
  missed,    \* history: the session was selected while an abandoned load was ending
  stale      \* history: runs shown as ended when a snapshot that says otherwise was merged

runtimeVars == <<queue, exec, status>>
mainVars == <<runtimeVars, handler, saved>>
storeVars == <<users, link, shown>>
loadVars == <<active, history, snapshot, missed>>
windowVars == <<replies, sent, storeVars, loadVars, stale>>
vars == <<mainVars, wire, windowVars>>

Terminal == {"succeeded", "failed", "cancelled"}
Known == Runs \cup Old

\* An old run's row says running for ever: nobody repairs it at startup.
Persisted(r) == IF r \in Old THEN "running" ELSE status[r]
SavedMessages == saved \cup Old

NoSnapshot == [users |-> {}, runs |-> [r \in Known |-> "none"]]
NotLoading == [at |-> "idle", cancelled |-> FALSE, loaded |-> FALSE, failed |-> FALSE,
               count |-> 0]

Init ==
  /\ handler = [r \in Runs |-> "idle"]
  /\ queue = <<>> /\ exec = [r \in Runs |-> "none"] /\ status = [r \in Runs |-> "none"]
  /\ saved = {} /\ wire = <<>> /\ replies = {} /\ sent = <<>>
  /\ users = {} /\ link = [r \in Known |-> NoRun]
  /\ shown = [r \in Known |-> "none"]
  /\ active = FALSE /\ history = NotLoading /\ snapshot = NoSnapshot
  /\ missed = FALSE /\ stale = {}

-----------------------------------------------------------------------------
(* The runtime *)

Emit(events) == Len(wire \o events) <= MaxWire /\ wire' = wire \o events

Event(r, event) == [run |-> r, event |-> event]

SaveStatus(r, s) == status' = [status EXCEPT ![r] = s]

SaveAndEmit(r, s, event) ==
  SaveStatus(r, s) /\ Emit(<<Event(r, event)>>)

Goto(r, to) == exec' = [exec EXCEPT ![r] = to]

\* enqueue: the row and run.created say running if the session was idle
EnqueueRun(r) ==
  LET s == IF queue = <<>> THEN "running" ELSE "queued"
  IN  /\ queue' = Append(queue, r)
      /\ SaveAndEmit(r, s, s)
      /\ Goto(r, "waiting")

\* The head of the queue: run.started
RunStarts(r) ==
  /\ queue # <<>> /\ Head(queue) = r /\ exec[r] = "waiting"
  /\ SaveAndEmit(r, "running", "started")
  /\ Goto(r, "executing")
  /\ UNCHANGED queue

\* The run leaves the queue, where it stands once: the code filters.
Leave(r) ==
  IF \E i \in DOMAIN queue : queue[i] = r
  THEN LET k == CHOOSE i \in DOMAIN queue : queue[i] = r
       IN  [i \in 1 .. (Len(queue) - 1) |-> IF i < k THEN queue[i] ELSE queue[i + 1]]
  ELSE queue

RunEnds(r) ==
  /\ exec[r] = "executing"
  /\ \E s \in {"succeeded", "failed"} : SaveAndEmit(r, s, s)
  /\ Goto(r, "done") /\ queue' = Leave(r)

\* cancelRun and failRun: a run that executes leaves the session later
Stop(r) ==
  IF exec[r] \in {"executing", "stopping"}
  THEN Goto(r, "stopping") /\ UNCHANGED queue
  ELSE Goto(r, "done") /\ queue' = Leave(r)

RunStopped(r) ==
  /\ exec[r] = "stopping"
  /\ Goto(r, "done") /\ queue' = Leave(r)
  /\ UNCHANGED <<status, wire>>

RuntimeStep(r) ==
  /\ RunStarts(r) \/ RunEnds(r) \/ RunStopped(r)
  /\ UNCHANGED <<handler, saved, windowVars>>

\* The window shows the stop button for a run, and cancelRun finds it alive
MayStop(r) == active /\ shown[r] = "running" /\ status[r] \notin Terminal

\* stopActiveRun
StopButton(r) ==
  /\ MayStop(r) /\ SaveAndEmit(r, "cancelled", "cancelled") /\ Stop(r)
  /\ UNCHANGED <<handler, saved, windowVars>>

\* The failure of a run is saved between the two steps of cancelRun.  It announces its
\* end as well, and later, since a listener of run.failed reads and writes the session
\* before the event is forwarded.
TwoEnds(r) ==
  /\ MayStop(r)
  /\ SaveStatus(r, "cancelled")
  /\ Emit(<<Event(r, "cancelled"), Event(r, "failed")>>)

FailureAndStop(r) ==
  /\ exec[r] = "executing" /\ TwoEnds(r) /\ Stop(r)
  /\ UNCHANGED <<handler, saved, windowVars>>

-----------------------------------------------------------------------------
(* The agentEnqueue handler *)

HandlerStep(r, from, to) ==
  /\ handler[r] = from
  /\ handler' = [handler EXCEPT ![r] = to]
  /\ UNCHANGED <<sent, storeVars, loadVars, stale>>

Answer(r, ok) == replies' = replies \cup {[run |-> r, ok |-> ok]}

\* The draft attachments are stored, the run's context is assembled
CallEnqueue(r) ==
  /\ HandlerStep(r, "asked", "enqueued")
  /\ EnqueueRun(r)
  /\ UNCHANGED <<saved, replies>>

\* One of these, or enqueue, has thrown
EnqueueThrows(r) ==
  /\ HandlerStep(r, "asked", "refused") /\ Answer(r, FALSE)
  /\ UNCHANGED <<runtimeVars, saved, wire>>

CreateUserMessage(r) ==
  /\ HandlerStep(r, "enqueued", "answered") /\ Answer(r, TRUE)
  /\ saved' = saved \cup {r}
  /\ UNCHANGED <<runtimeVars, wire>>

\* The session has gone, the save rejects, or the touch after the save does: failRun
\* does not look at the status
UserMessageFails(r) ==
  /\ HandlerStep(r, "enqueued", "refused") /\ Answer(r, FALSE)
  /\ saved' \in {saved, saved \cup {r}}
  /\ SaveAndEmit(r, "failed", "failed") \/ TwoEnds(r)
  /\ Stop(r)

HandlerSteps(r) ==
  \/ CallEnqueue(r) \/ EnqueueThrows(r) \/ CreateUserMessage(r) \/ UserMessageFails(r)

-----------------------------------------------------------------------------
(* sendMessage *)

SendMessage(r) ==
  /\ active /\ handler[r] = "idle"
  /\ handler' = [handler EXCEPT ![r] = "asked"]
  /\ sent' = Append(sent, r)
  /\ users' = users \cup {r}
  /\ UNCHANGED <<runtimeVars, saved, wire, replies, link, shown, loadVars, stale>>

\* Mutant of ReceiveReply: message.run-linked is not dispatched
ReceiveReplyUnlinked(reply) ==
  /\ reply \in replies
  /\ replies' = replies \ {reply}
  /\ users' = IF reply.ok THEN users ELSE users \ {reply.run}
  /\ UNCHANGED <<mainVars, wire, sent, link, shown, loadVars, stale>>

\* message.run-linked, or message.removed and an error in the composer
ReceiveReply(reply) ==
  /\ reply \in replies
  /\ replies' = replies \ {reply}
  /\ link' = IF reply.ok THEN [link EXCEPT ![reply.run] = reply.run] ELSE link
  /\ users' = IF reply.ok THEN users ELSE users \ {reply.run}
  /\ UNCHANGED <<mainVars, wire, sent, shown, loadVars, stale>>

-----------------------------------------------------------------------------
(* appReducer on agent.event *)

\* linkLatestPendingUserMessage: the newest shown message that has no run yet
LinkLatestPending(run) ==
  LET pending == {i \in DOMAIN sent : sent[i] \in users /\ link[sent[i]] = NoRun}
  IN  IF pending = {} THEN link
      ELSE [link EXCEPT ![sent[CHOOSE i \in pending : \A j \in pending : j <= i]] = run]

\* Mutants of StatusAfter: a run takes the name of the event; a run that is shown as
\* ended ignores what follows
StatusAfterByName(e) == IF shown[e.run] \in {"none"} \cup Terminal THEN shown[e.run] ELSE e.event
StatusAfterFirstEnd(e) ==
  IF shown[e.run] \in Terminal THEN shown[e.run]
  ELSE IF e.event = "started" THEN "running" ELSE e.event

\* The status an event leaves: a late run.started does not revive a run, and a run
\* the window has never heard of stays unknown
StatusAfter(e) ==
  CASE e.event \in {"queued", "running"} -> e.event
    [] e.event = "started" -> IF shown[e.run] \in {"none"} \cup Terminal
                              THEN shown[e.run] ELSE "running"
    [] e.event \in Terminal -> IF shown[e.run] = "none" THEN "none" ELSE e.event

ReceiveEvent ==
  /\ wire # <<>>
  /\ LET e == Head(wire)
     IN  /\ shown' = [shown EXCEPT ![e.run] = StatusAfter(e)]
         /\ link' = IF e.event \in {"queued", "running"} THEN LinkLatestPending(e.run) ELSE link
  /\ wire' = Tail(wire)
  /\ UNCHANGED <<mainVars, replies, sent, users, loadVars, stale>>

-----------------------------------------------------------------------------
(* The history loading effect *)

Loading == history.at # "idle"

\* Mutant of SelectSession: a session counts as loaded once it has been asked for
SelectSessionOnce ==
  /\ ~active /\ active' = TRUE
  /\ history' = IF history.loaded \/ history.count > 0 THEN history
                ELSE [NotLoading EXCEPT !.at = "reading", !.count = 1]
  /\ missed' = Loading
  /\ UNCHANGED <<mainVars, wire, replies, sent, storeVars, snapshot, stale>>

SelectSession ==
  /\ ~active /\ active' = TRUE
  /\ history' = IF history.loaded \/ Loading THEN history
                ELSE [NotLoading EXCEPT !.at = "reading", !.count = history.count + 1]
  /\ history'.count <= MaxLoads
  /\ missed' = Loading
  /\ UNCHANGED <<mainVars, wire, replies, sent, storeVars, snapshot, stale>>

\* The effect's cleanup: what the load reads will not be used
LeaveSession ==
  /\ active /\ active' = FALSE
  /\ history' = [history EXCEPT !.cancelled = Loading]
  /\ snapshot' = NoSnapshot /\ missed' = FALSE
  /\ UNCHANGED <<mainVars, wire, replies, sent, storeVars, stale>>

\* listMessages and listRuns are asked together; IPC and the database keep their order.
\* Then the steps of each run are read.
ReadHistory ==
  /\ ~history.cancelled
  /\ \/ /\ history.at = "reading"
        /\ snapshot' = [snapshot EXCEPT !.users = SavedMessages]
        /\ history' = [history EXCEPT !.at = "messages read"]
     \/ /\ history.at = "messages read"
        /\ snapshot' = [snapshot EXCEPT !.runs = [r \in Known |-> Persisted(r)]]
        /\ history' = [history EXCEPT !.at = "read"]
  /\ UNCHANGED <<mainVars, wire, replies, sent, storeVars, active, missed, stale>>

\* runForHistory
RunForHistory(r, persisted) ==
  IF persisted = "running" /\ shown[r] # "running" THEN "failed" ELSE persisted

\* Mutant of HistoryLoaded: the snapshot replaces the conversation
HistoryReplaces ==
  /\ history.at = "read" /\ ~history.cancelled
  /\ users' = snapshot.users
  /\ link' = [r \in Known |-> IF r \in snapshot.users THEN r ELSE NoRun]
  /\ shown' = [r \in Known |-> IF snapshot.runs[r] = "none" THEN shown[r]
                               ELSE RunForHistory(r, snapshot.runs[r])]
  /\ history' = [history EXCEPT !.at = "workers"]
  /\ snapshot' = NoSnapshot
  /\ UNCHANGED <<mainVars, wire, replies, sent, active, missed, stale>>

\* appReducer on history.loaded: messages are merged, the runs of the snapshot
\* replace those of the store
HistoryLoaded ==
  /\ history.at = "read" /\ ~history.cancelled
  /\ users' = users \cup snapshot.users
  /\ link' = [r \in Known |-> IF r \in snapshot.users \ users THEN r ELSE link[r]]
  /\ shown' = [r \in Known |-> IF snapshot.runs[r] = "none" THEN shown[r]
                               ELSE RunForHistory(r, snapshot.runs[r])]
  /\ stale' = stale \cup
       {r \in Runs : shown[r] \in Terminal /\ snapshot.runs[r] \notin {"none", shown[r]}}
  /\ history' = [history EXCEPT !.at = "workers"]
  /\ snapshot' = NoSnapshot
  /\ UNCHANGED <<mainVars, wire, replies, sent, active, missed>>

\* worker.history.loaded and the end of the effect; or its catch; or, cancelled, neither
LoadEnds ==
  /\ Loading
  /\ \/ history.at = "workers" /\ ~history.cancelled
        /\ history' = [NotLoading EXCEPT !.loaded = TRUE]
     \/ history' = [NotLoading EXCEPT !.failed = ~history.cancelled,
                                      !.count = history.count]
  /\ snapshot' = NoSnapshot
  /\ UNCHANGED <<mainVars, wire, replies, sent, storeVars, active, missed, stale>>

-----------------------------------------------------------------------------
Next ==
  \/ \E r \in Runs : RuntimeStep(r) \/ StopButton(r) \/ FailureAndStop(r) \/ HandlerSteps(r) \/ SendMessage(r)
  \/ \E reply \in replies : ReceiveReply(reply)
  \/ ReceiveEvent
  \/ SelectSession \/ LeaveSession \/ ReadHistory \/ HistoryLoaded \/ LoadEnds

Spec == Init /\ [][Next]_vars

-----------------------------------------------------------------------------
Statuses == {"none", "queued", "running"} \cup Terminal

\* The values the variables of the window and of the handler take.
TypeOK ==
  /\ handler \in [Runs -> {"idle", "asked", "enqueued", "answered", "refused"}]
  /\ exec \in [Runs -> {"none", "waiting", "executing", "stopping", "done"}]
  /\ queue \in Seq(Runs) /\ status \in [Runs -> Statuses]
  /\ saved \subseteq Runs
  /\ \A i \in DOMAIN wire : wire[i].run \in Runs
  /\ replies \subseteq [run : Runs, ok : BOOLEAN]
  /\ sent \in Seq(Runs)
  /\ users \subseteq Known /\ link \in [Known -> Known \cup {NoRun}]
  /\ shown \in [Known -> Statuses]
  /\ active \in BOOLEAN /\ missed \in BOOLEAN
  /\ stale \subseteq Runs
  /\ history \in [at : {"idle", "reading", "messages read", "read", "workers"},
                  cancelled : BOOLEAN, loaded : BOOLEAN, failed : BOOLEAN,
                  count : 0 .. MaxLoads]

\* Nothing is on its way: every handler has answered, every event and answer has been
\* received, and no run waits or executes.
Quiet ==
  /\ wire = <<>> /\ replies = {}
  /\ \A r \in Runs : handler[r] \in {"idle", "answered", "refused"} /\ exec[r] \in {"none", "done"}

\* Once everything has settled the window shows each run as it is persisted, and a run
\* an earlier process left running as failed: retries, late run.started events, stops
\* and history snapshots leave no run behind in an older status. Excepted are
\* the runs shown as ended when a snapshot that says otherwise was merged: one read before
\* the end of the run, or one that corrects a live run runForHistory has shown as failed;
\* and a cancelled run is shown as failed when it announced both ends.
ShownAsPersisted ==
  Quiet => \A r \in Known \ stale :
    IF r \in Old THEN shown[r] \in {"none", "failed"}
    ELSE shown[r] = status[r] \/ (status[r] = "cancelled" /\ shown[r] = "failed")

\* Once everything has settled each message is linked to the run created for it, although
\* run.created links the newest pending message, whichever run it announces.
LinksSettle == Quiet => \A r \in users : link[r] = r

\* Once everything has settled the conversation on screen is the one in the database:
\* no message lost by merging a snapshot older than the screen, none left that was
\* never saved. A message saved although its call failed may be missing: the user was
\* told.
ScreenIsDatabase ==
  Quiet /\ ~Loading =>
    /\ users \subseteq SavedMessages
    /\ \A r \in saved : r \in users \/ handler[r] = "refused"
    /\ history.loaded => Old \subseteq users

\* The selected session has its history, is loading it, or shows why it could not,
\* except when it was left and selected again before an abandoned load had ended.
HistoryNotForgotten == active /\ ~history.loaded /\ ~Loading => history.failed \/ missed
=============================================================================
