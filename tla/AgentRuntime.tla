---------------------------- MODULE AgentRuntime ----------------------------
(***************************************************************************)
(* One session of the AgentRuntime: the lock that serialises enqueue calls, *)
(* the FIFO queue of waiting runs, the single run that executes, and the    *)
(* callers of cancelRun and failRun that stop runs while they are waiting   *)
(* or executing.                                                           *)
(*                                                                         *)
(* The code is single-threaded: it interleaves only where it awaits.  An    *)
(* action is the code between two awaits, and takes the effect of the       *)
(* persistence call it ends with (the persistence layer serialises its      *)
(* operations in call order); the caller resumes in a later action, after   *)
(* any steps of others.  Sessions share no state, so one is modelled.      *)
(***************************************************************************)
EXTENDS Integers, Sequences, FiniteSets

CONSTANTS
  Runs,                \* the runs the session is ever asked to enqueue
  Waiters,             \* the callers of waitForIdle
  NoRun,               \* activeRunId = undefined
  MaxRetries,          \* retryPolicy.maxRetries
  MaxOverflowRetries,  \* MAX_OVERFLOW_RETRIES
  Cancellable,         \* the runs the user may stop (cancelRun)
  Compensable,         \* the runs whose user message may fail to save (failRun)
  Faulty               \* the runs whose saves, reads and event appends may reject

ASSUME RunsAssumption == NoRun \notin Runs
ASSUME BoundsAssumption == MaxRetries \in Nat /\ MaxOverflowRetries \in Nat
ASSUME CallersAssumption ==
  /\ Cancellable \subseteq Runs
  /\ Compensable \subseteq Runs
  /\ Faulty \subseteq Runs

Terminal   == {"succeeded", "failed", "cancelled"}
StopKinds  == {"cancelled", "failed"}
ErrorKinds == {"overflow", "transient", "fatal"}
Returned   == {"done", "rejected"}

VARIABLES
  arrivals,   \* enqueueChains: the calls of enqueue in the order of their lock
  enq,        \* where each enqueue call stands
  running,    \* SessionState.running
  activeRun,  \* SessionState.activeRunId
  queue,      \* SessionState.queue
  waiting,    \* SessionState.waiters
  orphans,    \* runs whose enqueue call holds a SessionState already deleted
  exec,       \* where executeRun stands for each run
  retry,      \* the locals of executeRun: adapter calls, retries, overflow retries, tier
  flagged,    \* cancelledRuns ("cancelled") and terminatedRuns ("failed")
  aborted,    \* runs whose current AbortController has been aborted
  stop,       \* where the cancelRun / failRun call on each run stands
  stopped,    \* runs a stop call has marked while they were active (history)
  status,     \* the persisted AgentRun.status
  events,     \* run.created and the terminal events appended for each run
  messages    \* runs with a persisted message.completed

sessionState == <<running, activeRun, queue, waiting, orphans>>
enqueueState == <<arrivals, enq>>
execState    == <<exec, retry, aborted>>
stopState    == <<flagged, stop, stopped>>
stored       == <<status, events, messages>>
vars == <<enqueueState, sessionState, execState, stopState, stored>>

NewRetry == [calls |-> 0, attempt |-> 0, overflows |-> 0, tier |-> -1]

Init ==
  /\ arrivals = <<>>
  /\ enq = [r \in Runs |-> "idle"]
  /\ running = FALSE
  /\ activeRun = NoRun
  /\ queue = <<>>
  /\ waiting = {}
  /\ orphans = {}
  /\ exec = [r \in Runs |-> "none"]
  /\ retry = [r \in Runs |-> NewRetry]
  /\ flagged = [k \in StopKinds |-> {}]
  /\ aborted = {}
  /\ stop = [k \in StopKinds |-> [r \in Runs |-> "idle"]]
  /\ stopped = {}
  /\ status = [r \in Runs |-> "none"]
  /\ events = [r \in Runs |-> {}]
  /\ messages = {}

-----------------------------------------------------------------------------
(* Helpers *)

\* Mutation: the head is dropped instead of the run that is stopped.
WithoutHead(q, r) == IF q = <<>> THEN q ELSE Tail(q)

\* A queue without run r: the code filters, and a run is pushed at most once.
Without(q, r) ==
  IF \E i \in DOMAIN q : q[i] = r
  THEN LET k == CHOOSE i \in DOMAIN q : q[i] = r
       IN  [i \in 1 .. (Len(q) - 1) |-> IF i < k THEN q[i] ELSE q[i + 1]]
  ELSE q

SetStatus(r, s) == status' = [status EXCEPT ![r] = s]
Emit(r, e)      == events' = [events EXCEPT ![r] = @ \cup {e}]
Goto(r, l)      == exec' = [exec EXCEPT ![r] = l]
EnqGoto(r, l)   == enq' = [enq EXCEPT ![r] = l]
StopGoto(k, r, l) == stop' = [stop EXCEPT ![k][r] = l]

\* Mutations: enqueue takes no lock; a call that throws does not release it.
LockHolderAlways(r)    == enq[r] \notin {"idle"} \cup Returned
LockHolderNoFinally(r) ==
  /\ enq[r] \notin {"idle"} \cup Returned
  /\ \E i \in DOMAIN arrivals :
       /\ arrivals[i] = r
       /\ \A j \in 1 .. (i - 1) : enq[arrivals[j]] = "done"

\* The call at the head of the session's chain of enqueue calls.
LockHolder(r) ==
  /\ enq[r] \notin {"idle"} \cup Returned
  /\ \E i \in DOMAIN arrivals :
       /\ arrivals[i] = r
       /\ \A j \in 1 .. (i - 1) : enq[arrivals[j]] \in Returned

Flagged(r)    == \E k \in StopKinds : r \in flagged[k]
StopTarget(r) == IF r \in flagged["cancelled"] THEN "cancelled" ELSE "failed"
ApplyAt(k)    == IF k = "cancelled" THEN "applyCancelled" ELSE "applyFailed"

-----------------------------------------------------------------------------
(* enqueue, under the per-session lock *)

Enqueue(r) ==
  /\ enq[r] = "idle"
  /\ EnqGoto(r, "locking")
  /\ arrivals' = Append(arrivals, r)
  /\ UNCHANGED <<sessionState, execState, stopState, stored>>

\* The session is gone: enqueue throws and the lock is released.
SessionMissing(r) ==
  /\ LockHolder(r) /\ enq[r] = "locking"
  /\ EnqGoto(r, "rejected")
  /\ UNCHANGED <<arrivals, sessionState, execState, stopState, stored>>

\* The call captures the session state, claims it when idle, and saves the run.
\* A rejected save leaves the claim in place.
CreateRun(r) ==
  /\ LockHolder(r) /\ enq[r] = "locking"
  /\ running' = TRUE
  /\ \/ /\ EnqGoto(r, IF running THEN "queuing" ELSE "starting")
        /\ SetStatus(r, IF running THEN "queued" ELSE "running")
     \/ /\ r \in Faulty
        /\ EnqGoto(r, "rejected")
        /\ UNCHANGED status
  /\ UNCHANGED <<arrivals, activeRun, queue, waiting, orphans,
                 execState, stopState, events, messages>>

AnnounceCreated(r) ==
  /\ enq[r] \in {"queuing", "starting"}
  /\ "created" \notin events[r]
  /\ \/ Emit(r, "created") /\ UNCHANGED enq
     \/ r \in Faulty /\ EnqGoto(r, "rejected") /\ UNCHANGED events
  /\ UNCHANGED <<arrivals, sessionState, execState, stopState, status, messages>>

\* The listeners of run.created have returned: push onto the captured state,
\* which finishRun may have deleted from the map in the meantime.
PushRun(r) ==
  /\ enq[r] = "queuing" /\ "created" \in events[r]
  /\ EnqGoto(r, "done")
  /\ queue' = IF r \in orphans THEN queue ELSE Append(queue, r)
  /\ UNCHANGED <<arrivals, running, activeRun, waiting, orphans,
                 execState, stopState, stored>>

\* startSessionRun on an idle session.
StartRun(r) ==
  /\ enq[r] = "starting" /\ "created" \in events[r]
  /\ EnqGoto(r, "done")
  /\ running' = TRUE
  /\ activeRun' = r
  /\ Goto(r, "entry")
  /\ UNCHANGED <<arrivals, queue, waiting, orphans, retry, aborted,
                 stopState, stored>>

-----------------------------------------------------------------------------
(* waitForIdle and finishRun *)

WaitForIdle(w) ==
  /\ w \notin waiting
  /\ running \/ queue # <<>> \/ activeRun # NoRun
  /\ waiting' = waiting \cup {w}
  /\ UNCHANGED <<enqueueState, running, activeRun, queue, orphans,
                 execState, stopState, stored>>

\* Mutation: the hand-over gives up the claim on the session for a moment.
HandOverUnclaimed(r) ==
  /\ queue # <<>>
  /\ queue' = Tail(queue)
  /\ activeRun' = Head(queue)
  /\ exec' = [exec EXCEPT ![r] = "done", ![Head(queue)] = "entry"]
  /\ running' = FALSE
  /\ UNCHANGED <<waiting, orphans>>

\* The next run of the queue starts.
HandOver(r) ==
  /\ queue # <<>>
  /\ queue' = Tail(queue)
  /\ activeRun' = Head(queue)
  /\ exec' = [exec EXCEPT ![r] = "done", ![Head(queue)] = "entry"]
  /\ UNCHANGED <<running, waiting, orphans>>

\* Mutation: the waiters are forgotten with the state.
GoIdleKeepsWaiters(r) ==
  /\ queue = <<>>
  /\ running' = FALSE
  /\ activeRun' = NoRun
  /\ orphans' = orphans \cup {q \in Runs : enq[q] = "queuing"}
  /\ Goto(r, "done")
  /\ UNCHANGED <<queue, waiting>>

\* The state is deleted and the waiters resolved; an enqueue call that has read
\* `running` and not pushed yet keeps the deleted state.
GoIdle(r) ==
  /\ queue = <<>>
  /\ running' = FALSE
  /\ activeRun' = NoRun
  /\ waiting' = {}
  /\ orphans' = orphans \cup {q \in Runs : enq[q] = "queuing"}
  /\ Goto(r, "done")
  /\ UNCHANGED queue

\* executeRun's finally, then finishRun.
FinishRun(r) ==
  /\ exec[r] = "leaving"
  /\ flagged' = [k \in StopKinds |-> flagged[k] \ {r}]
  /\ aborted' = aborted \ {r}
  /\ retry' = [retry EXCEPT ![r] = NewRetry]
  /\ HandOver(r) \/ GoIdle(r)
  /\ UNCHANGED <<enqueueState, stop, stopped, stored>>

-----------------------------------------------------------------------------
(* executeRun *)

\* Mutation: a flagged run leaves without looking at its row.
CheckStopsNoRepair(r, from, to) ==
  /\ exec[r] = from
  /\ Goto(r, IF Flagged(r) THEN "leaving" ELSE to)
  /\ UNCHANGED <<enqueueState, sessionState, retry, aborted, stopState, stored>>

\* applyCancellationIfNeeded || applyTerminationIfNeeded: a flagged run leaves,
\* after writing the stop's status again if the row lost it.
CheckStops(r, from, to) ==
  /\ exec[r] = from
  /\ Goto(r, IF ~Flagged(r) THEN to
             ELSE IF status[r] = StopTarget(r) THEN "leaving" ELSE ApplyAt(StopTarget(r)))
  /\ UNCHANGED <<enqueueState, sessionState, retry, aborted, stopState, stored>>

ApplyStop(k, r) ==
  /\ exec[r] = ApplyAt(k)
  /\ SetStatus(r, k)
  /\ Goto(r, "leaving")
  /\ UNCHANGED <<enqueueState, sessionState, retry, aborted, stopState,
                 events, messages>>

\* One awaited write of executeRun: the new status, or the event appended.
SaveStatus(r, from, s, to) ==
  /\ exec[r] = from
  /\ SetStatus(r, s)
  /\ Goto(r, to)
  /\ UNCHANGED <<enqueueState, sessionState, retry, aborted, stopState,
                 events, messages>>

EmitEvent(r, from, e, to) ==
  /\ exec[r] = from
  /\ Emit(r, e)
  /\ Goto(r, to)
  /\ UNCHANGED <<enqueueState, sessionState, retry, aborted, stopState,
                 status, messages>>

CheckEntry(r)   == CheckStops(r, "entry", "saveRunning")
SaveRunning(r)  == SaveStatus(r, "saveRunning", "running", "compacting")

\* run.started, loadSessionHistorySnapshot and maybeApplyLocalSessionCompaction:
\* the history is over budget and compacted at tier 0, or left as it is.
CompactLocally(r) ==
  /\ exec[r] = "compacting"
  /\ \E tier \in {-1, 0} : retry' = [retry EXCEPT ![r].tier = tier]
  /\ Goto(r, "loop")
  /\ UNCHANGED <<enqueueState, sessionState, aborted, stopState, stored>>

\* The top of the loop: the flags are read.
CheckLoop(r) == CheckStops(r, "loop", "calling")

\* The answer of the check is awaited; then a fresh AbortController is installed
\* and the adapter called, without another look at the flags: a stop may have
\* marked the run in between.
CallAdapter(r) ==
  /\ exec[r] = "calling"
  /\ retry' = [retry EXCEPT ![r].calls = @ + 1]
  /\ aborted' = aborted \ {r}
  /\ Goto(r, "adapter")
  /\ UNCHANGED <<enqueueState, sessionState, stopState, stored>>

\* handleAdapterEvent with a message.completed: events of flagged runs are dropped.
AdapterMessage(r) ==
  /\ exec[r] = "adapter"
  /\ ~Flagged(r)
  /\ messages' = messages \cup {r}
  /\ UNCHANGED <<enqueueState, sessionState, execState, stopState, status, events>>

AdapterReturns(r) ==
  /\ exec[r] = "adapter"
  /\ Goto(r, "returned")
  /\ UNCHANGED <<enqueueState, sessionState, retry, aborted, stopState, stored>>

\* The catch is entered with the error as its label.
Throw(r, error) ==
  /\ Goto(r, error)
  /\ UNCHANGED <<enqueueState, sessionState, retry, aborted, stopState, stored>>

AdapterThrows(r) == exec[r] = "adapter" /\ \E error \in ErrorKinds : Throw(r, error)

\* Mutation: no second check after the final save.
CheckSavedSkipped(r) ==
  /\ exec[r] = "saved"
  /\ Goto(r, "emitSucceeded")
  /\ UNCHANGED <<enqueueState, sessionState, retry, aborted, stopState, stored>>

CheckReturned(r) == CheckStops(r, "returned", "saveSucceeded")
SaveSucceeded(r) == SaveStatus(r, "saveSucceeded", "succeeded", "saved")
CheckSaved(r)    == CheckStops(r, "saved", "emitSucceeded")
EmitSucceeded(r) == EmitEvent(r, "emitSucceeded", "succeeded", "leaving")

\* A write rejected inside the try is caught like an error of the adapter; an error
\* of SQLite normalizes to one that is not retried.
WriteThrows(r) ==
  /\ r \in Faulty
  /\ exec[r] \in {"saveSucceeded", "emitSucceeded"}
  /\ Throw(r, "fatal")

\* Mutation: one retry too many.
AfterErrorOneMore(r, error) ==
  CASE error = "overflow" /\ retry[r].overflows < MaxOverflowRetries -> "recompact"
    [] error = "transient" /\ retry[r].attempt <= MaxRetries -> "saveRetry"
    [] OTHER -> "saveFailed"

\* The catch: an overflow is compacted and retried, a transient error retried.
AfterError(r, error) ==
  CASE error = "overflow" /\ retry[r].overflows < MaxOverflowRetries -> "recompact"
    [] error = "transient" /\ retry[r].attempt < MaxRetries -> "saveRetry"
    [] OTHER -> "saveFailed"

CheckThrown(r) == \E error \in ErrorKinds : CheckStops(r, error, AfterError(r, error))

\* Mutation: overflow retries are bounded by the tiers alone.
RecompactUncounted(r) ==
  /\ exec[r] = "recompact"
  /\ \/ \E tier \in (retry[r].tier + 1) .. MaxOverflowRetries :
          /\ retry' = [retry EXCEPT ![r].tier = tier]
          /\ Goto(r, "loop")
     \/ UNCHANGED retry /\ Goto(r, "saveFailed")
  /\ UNCHANGED <<enqueueState, sessionState, aborted, stopState, stored>>

\* Tiers are tried in order until one shortens the history.  The check that
\* follows is the one at the top of the loop.
Recompact(r) ==
  /\ exec[r] = "recompact"
  /\ \/ \E tier \in (retry[r].tier + 1) .. MaxOverflowRetries :
          /\ retry' = [retry EXCEPT ![r].tier = tier, ![r].overflows = @ + 1]
          /\ Goto(r, "loop")
     \/ UNCHANGED retry /\ Goto(r, "saveFailed")
  /\ UNCHANGED <<enqueueState, sessionState, aborted, stopState, stored>>

\* The retry's save writes the whole row, status "running" included.
SaveRetry(r) ==
  /\ exec[r] = "saveRetry"
  /\ retry' = [retry EXCEPT ![r].attempt = @ + 1]
  /\ SetStatus(r, "running")
  /\ Goto(r, "backoff")
  /\ UNCHANGED <<enqueueState, sessionState, aborted, stopState, events, messages>>

\* run.retrying is out and the sleep ends; the check that follows is the one at
\* the top of the loop.
BackoffEnds(r) ==
  /\ exec[r] = "backoff"
  /\ Goto(r, "loop")
  /\ UNCHANGED <<enqueueState, sessionState, retry, aborted, stopState, stored>>

SaveFailed(r) == SaveStatus(r, "saveFailed", "failed", "emitFailed")
EmitFailed(r) == EmitEvent(r, "emitFailed", "failed", "leaving")

\* A write or read rejected outside the try escapes executeRun.
ExecutionEscapes(r) ==
  /\ r \in Faulty
  /\ exec[r] \in {"saveRunning", "compacting", "applyCancelled", "applyFailed",
                  "recompact", "saveRetry", "backoff", "saveFailed", "emitFailed"}
  /\ Goto(r, "leaving")
  /\ UNCHANGED <<enqueueState, sessionState, retry, aborted, stopState, stored>>

-----------------------------------------------------------------------------
(* cancelRun (k = "cancelled") and failRun (k = "failed") *)

Callable(k) == IF k = "cancelled" THEN Cancellable ELSE Compensable

\* The row is read first; cancelRun returns a terminal run as it is, failRun
\* does not look at the status.
StopLookup(k, r) ==
  /\ r \in Callable(k)
  /\ stop[k][r] = "idle"
  /\ status[r] # "none"
  /\ k = "cancelled" => status[r] \notin Terminal
  /\ StopGoto(k, r, "read")
  /\ UNCHANGED <<enqueueState, sessionState, execState, flagged, stopped, stored>>

\* Flag, remove from the queue and save, up to the first await.
StopMark(k, r) ==
  /\ stop[k][r] = "read"
  /\ flagged' = [flagged EXCEPT ![k] = @ \cup {r}]
  /\ queue' = Without(queue, r)
  /\ stopped' = IF activeRun = r THEN stopped \cup {r} ELSE stopped
  /\ \/ SetStatus(r, k) /\ StopGoto(k, r, "emit")
     \/ r \in Faulty /\ UNCHANGED status /\ StopGoto(k, r, "idle")
  /\ UNCHANGED <<enqueueState, running, activeRun, waiting, orphans, execState,
                 events, messages>>

StopEmit(k, r) ==
  /\ stop[k][r] = "emit"
  /\ \/ Emit(r, k) /\ StopGoto(k, r, "abort")
     \/ r \in Faulty /\ UNCHANGED events /\ StopGoto(k, r, "idle")
  /\ UNCHANGED <<enqueueState, sessionState, execState, flagged, stopped, status, messages>>

\* Mutations: the flag is always dropped; the adapter is not aborted.
StopReturnUnflags(k, r) ==
  /\ stop[k][r] = "abort" /\ exec[r] # "calling"
  /\ aborted' = IF exec[r] = "adapter" THEN aborted \cup {r} ELSE aborted
  /\ flagged' = [flagged EXCEPT ![k] = @ \ {r}]
  /\ StopGoto(k, r, "idle")
  /\ UNCHANGED <<enqueueState, sessionState, exec, retry, stopped, stored>>

StopReturnNoAbort(k, r) ==
  /\ stop[k][r] = "abort" /\ exec[r] # "calling"
  /\ flagged' = IF activeRun = r THEN flagged ELSE [flagged EXCEPT ![k] = @ \ {r}]
  /\ StopGoto(k, r, "idle")
  /\ UNCHANGED <<enqueueState, sessionState, execState, stopped, stored>>

\* Abort the adapter; drop the flag unless the run is active, which drops it
\* itself when it finishes.  A run that is about to call its adapter does so
\* first: it awaits the answer of its check and nothing else, the stop call that
\* the check missed awaits its save and its event.
StopReturn(k, r) ==
  /\ stop[k][r] = "abort" /\ exec[r] # "calling"
  /\ aborted' = IF exec[r] = "adapter" THEN aborted \cup {r} ELSE aborted
  /\ flagged' = IF activeRun = r THEN flagged ELSE [flagged EXCEPT ![k] = @ \ {r}]
  /\ StopGoto(k, r, "idle")
  /\ UNCHANGED <<enqueueState, sessionState, exec, retry, stopped, stored>>

-----------------------------------------------------------------------------

EnqueueStep(r) ==
  \/ CreateRun(r) \/ AnnounceCreated(r) \/ PushRun(r) \/ StartRun(r)

ExecStep(r) ==
  \/ CheckEntry(r) \/ SaveRunning(r) \/ CompactLocally(r)
  \/ CheckLoop(r) \/ CallAdapter(r)
  \/ CheckReturned(r) \/ SaveSucceeded(r) \/ CheckSaved(r) \/ EmitSucceeded(r)
  \/ CheckThrown(r) \/ Recompact(r) \/ SaveRetry(r) \/ BackoffEnds(r)
  \/ SaveFailed(r) \/ EmitFailed(r)
  \/ \E k \in StopKinds : ApplyStop(k, r)
  \/ FinishRun(r)

AdapterStep(r) == AdapterMessage(r) \/ AdapterReturns(r) \/ AdapterThrows(r)

StopStep(k, r) == StopMark(k, r) \/ StopEmit(k, r) \/ StopReturn(k, r)

Next ==
  \/ \E r \in Runs :
       \/ Enqueue(r) \/ SessionMissing(r) \/ EnqueueStep(r)
       \/ ExecStep(r) \/ AdapterStep(r) \/ WriteThrows(r) \/ ExecutionEscapes(r)
       \/ \E k \in StopKinds : StopLookup(k, r) \/ StopStep(k, r)
  \/ \E w \in Waiters : WaitForIdle(w)

Spec == Init /\ [][Next]_vars

\* Every started async function keeps running; an adapter call is only known to
\* end once its signal is aborted; callers need never call.
AbortedAdapterEnds(r) == r \in aborted /\ (AdapterReturns(r) \/ AdapterThrows(r))

Fairness ==
  \A r \in Runs :
    /\ WF_vars(EnqueueStep(r))
    /\ WF_vars(ExecStep(r))
    /\ WF_vars(AbortedAdapterEnds(r))
    /\ \A k \in StopKinds : WF_vars(StopStep(k, r))

FairSpec == Spec /\ Fairness
-----------------------------------------------------------------------------
(* Properties *)

Executing(r) == exec[r] \notin {"none", "done"}

EnqStates  == {"idle", "locking", "queuing", "starting"} \cup Returned
ExecStates ==
  {"none", "entry", "saveRunning", "compacting", "loop", "calling", "adapter",
   "returned", "saveSucceeded", "saved", "emitSucceeded", "recompact",
   "saveRetry", "backoff", "saveFailed", "emitFailed",
   "applyCancelled", "applyFailed", "leaving", "done"} \cup ErrorKinds
Events == {"created"} \cup Terminal
Retries == [calls : Nat, attempt : 0 .. MaxRetries,
            overflows : 0 .. MaxOverflowRetries, tier : -1 .. MaxOverflowRetries]

\* The types of the variables; the retry counters stay within their budgets.
TypeOK ==
  /\ arrivals \in Seq(Runs)
  /\ enq \in [Runs -> EnqStates]
  /\ running \in BOOLEAN
  /\ activeRun \in Runs \cup {NoRun}
  /\ queue \in Seq(Runs)
  /\ waiting \subseteq Waiters
  /\ orphans \subseteq Runs
  /\ exec \in [Runs -> ExecStates]
  /\ retry \in [Runs -> Retries]
  /\ flagged \in [StopKinds -> SUBSET Runs]
  /\ aborted \subseteq Runs
  /\ stop \in [StopKinds -> [Runs -> {"idle", "read", "emit", "abort"}]]
  /\ stopped \subseteq Runs
  /\ status \in [Runs -> {"none", "queued", "running"} \cup Terminal]
  /\ events \in [Runs -> SUBSET Events]
  /\ messages \subseteq Runs

\* A session executes at most one run at a time, whatever calls overlap with
\* enqueue's awaits and with the hand-over in finishRun.
OneActiveRun == \A r, s \in Runs : Executing(r) /\ Executing(s) => r = s

\* Runs start in the order enqueue was called: a run starts only once every
\* earlier one has started, was refused, was stopped, or was orphaned, or if its
\* own persistence calls may reject.
FifoStart ==
  \A i, j \in DOMAIN arrivals :
    i < j /\ exec[arrivals[j]] # "none" /\ arrivals[i] \notin Faulty =>
      \/ exec[arrivals[i]] # "none"
      \/ enq[arrivals[i]] = "rejected"
      \/ arrivals[i] \in orphans
      \/ status[arrivals[i]] \in StopKinds

\* A run stopped while it was active takes no further message of the adapter
\* into the conversation.
NoMessageAfterStop == [][\A r \in stopped : r \in messages' => r \in messages]_vars

\* The adapter is called at most once more than the two retry budgets allow:
\* overflow retries and transient retries do not refill each other.
CallsBounded == \A r \in Runs : retry[r].calls <= 1 + MaxRetries + MaxOverflowRetries

\* A run stopped while it was active never ends succeeded: the check after the
\* final save repairs a row that a racing success has overwritten. A run in
\* Faulty is excepted: its repair may be rejected.
StoppedNeverSucceeds ==
  \A r \in stopped \ Faulty : exec[r] = "done" => status[r] \in StopKinds

\* A run whose execution has ended is persisted in a terminal status, although
\* a retry's save may put "running" over a cancellation. A run in Faulty is
\* excepted: a rejected save may end executeRun before its row is terminal.
FinishedIsTerminal == \A r \in Runs \ Faulty : exec[r] = "done" => status[r] \in Terminal

\* A run whose enqueue returned stays "queued" only while somebody will start
\* it, except when finishRun deleted the state its enqueue had captured, or the
\* run's own persistence calls may reject.
QueuedHasOwner ==
  \A r \in Runs \ Faulty : status[r] = "queued" /\ enq[r] = "done" =>
    \/ \E i \in DOMAIN queue : queue[i] = r
    \/ Executing(r)
    \/ r \in orphans

\* Stopping an active run ends it: the abort reaches an adapter call in flight,
\* and every other wait of executeRun ends in a check of the flags.
StopEndsRun == \A r \in Runs : (r \in stopped) ~> (exec[r] = "done")

\* The enqueue lock is never held for ever: every call returns or throws.
EnqueueReturns == \A r \in Runs : (enq[r] # "idle") ~> (enq[r] \in Returned)

\* waitForIdle is never stuck but on an adapter call that does not end.
WaitersProgress ==
  \A w \in Waiters : (w \in waiting) ~> (w \notin waiting \/ \E r \in Runs : exec[r] = "adapter")

\* What the users of the session see of it: runs that wait, execute or have
\* ended, or are dropped; no lock, no queue, no flags.
Phases ==
  [r \in Runs |-> IF exec[r] = "none" THEN "waiting"
                  ELSE IF exec[r] = "done" THEN "ended" ELSE "executing"]
Dropped == orphans \cup {r \in Runs : enq[r] = "rejected"}
Calls   == [r \in Runs |-> retry[r].calls]
Due     == {r \in Runs : exec[r] = "calling"}

Service == INSTANCE RunService WITH
  MaxCalls <- 1 + MaxRetries + MaxOverflowRetries,
  requests <- arrivals, dropped <- Dropped, phase <- Phases, row <- status,
  calls <- Calls, due <- Due

\* The session keeps what it promises its users, whichever calls overlap and
\* whichever persistence calls of a run in Faulty reject.
ImplementsRunService == Service!Spec

\* What a queued run is promised: it stays in the queue until it starts or is
\* stopped.
QueuedStaysQueued ==
  \A r \in Runs : status[r] = "queued" /\ enq[r] = "done" =>
    Executing(r) \/ \E i \in DOMAIN queue : queue[i] = r

\* What the timeline of a run shows: one terminal event.
OneTerminalEvent == \A r \in Runs : Cardinality(events[r] \cap Terminal) <= 1
=============================================================================
