----------------------------- MODULE RunService -----------------------------
(***************************************************************************)
(* What the users of a session's runtime are promised, without its lock,    *)
(* queue, flags and steps of execution: runs execute one at a time and in   *)
(* the order they were requested, an execution makes a bounded number of    *)
(* adapter calls, a stopped one decides on no further call, takes no        *)
(* further message and ends stopped, a row moves only as its run does, and  *)
(* nobody waits for a session without work.                                *)
(***************************************************************************)
EXTENDS Integers, Sequences

CONSTANTS Runs, Waiters, Faulty, MaxCalls

VARIABLES
  requests,  \* the runs in the order they were requested
  dropped,   \* the runs that will never execute: refused, or lost in a race
  phase,     \* each run is waiting, executing or ended
  row,       \* the persisted status
  stopped,   \* the runs stopped while they executed
  due,       \* the runs that have decided on an adapter call and not made it
  calls,     \* the adapter calls of each execution
  messages,  \* the runs that have a message in the conversation
  waiting    \* the callers that wait for the session to be idle

vars == <<requests, dropped, phase, row, stopped, due, calls, messages, waiting>>

Stops == {"cancelled", "failed"}
Ends  == Stops \cup {"succeeded"}

Init ==
  /\ requests = <<>>
  /\ dropped = {}
  /\ phase = [r \in Runs |-> "waiting"]
  /\ row = [r \in Runs |-> "none"]
  /\ stopped = {}
  /\ due = {}
  /\ calls = [r \in Runs |-> 0]
  /\ messages = {}
  /\ waiting = {}

Requested(r) == \E i \in DOMAIN requests : requests[i] = r
Waits(r)     == phase[r] = "waiting" /\ Requested(r) /\ r \notin dropped

\* Nothing is promised about a run whose own persistence calls reject.
PassedOver(r) == phase[r] # "waiting" \/ r \in dropped \/ row[r] \in Stops \/ r \in Faulty

\* It is the turn of r: the runs requested earlier have had theirs.
Turn(r) ==
  /\ Waits(r)
  /\ \A i, j \in DOMAIN requests :
       i < j /\ requests[j] = r /\ requests[i] # r => PassedOver(requests[i])

Request(r) ==
  /\ ~Requested(r)
  /\ requests' = Append(requests, r)
  /\ UNCHANGED <<dropped, phase, row, stopped, due, calls, messages, waiting>>

\* The session is gone, or the run could not be saved and announced.
Refuse(r) ==
  /\ Waits(r)
  /\ row[r] = "none" \/ r \in Faulty
  /\ dropped' = dropped \cup {r}
  /\ UNCHANGED <<requests, phase, row, stopped, due, calls, messages, waiting>>

Save(r) ==
  /\ \E s \in CASE phase[r] = "waiting" /\ row[r] = "none" -> {"queued", "running"}
                [] phase[r] = "waiting" /\ row[r] # "none" -> Stops
                [] phase[r] = "executing"                  -> {"running"} \cup Ends
                [] OTHER                                   -> Stops :
       row' = [row EXCEPT ![r] = s]
  /\ Requested(r)
  /\ UNCHANGED <<requests, dropped, phase, stopped, due, calls, messages, waiting>>

Start(r) ==
  /\ \A q \in Runs : phase[q] # "executing"
  /\ Turn(r)
  /\ phase' = [phase EXCEPT ![r] = "executing"]
  /\ UNCHANGED <<requests, dropped, row, stopped, due, calls, messages, waiting>>

\* A stopped run decides on no further call; the one it has decided on may still
\* be made.
Decide(r) ==
  /\ phase[r] = "executing" /\ r \notin stopped
  /\ r \notin due
  /\ due' = due \cup {r}
  /\ UNCHANGED <<requests, dropped, phase, row, stopped, calls, messages, waiting>>

Call(r) ==
  /\ r \in due
  /\ calls[r] < MaxCalls
  /\ due' = due \ {r}
  /\ calls' = [calls EXCEPT ![r] = @ + 1]
  /\ UNCHANGED <<requests, dropped, phase, row, stopped, messages, waiting>>

Message(r) ==
  /\ phase[r] = "executing" /\ r \notin stopped
  /\ messages' = messages \cup {r}
  /\ UNCHANGED <<requests, dropped, phase, row, stopped, due, calls, waiting>>

Stop(r) ==
  /\ phase[r] = "executing"
  /\ stopped' = stopped \cup {r}
  /\ \/ \E s \in Stops : row' = [row EXCEPT ![r] = s]
     \/ r \in Faulty /\ UNCHANGED row
  /\ UNCHANGED <<requests, dropped, phase, due, calls, messages, waiting>>

\* An execution ends with its row ended, and stopped if the run was.
Over(r) ==
  /\ phase[r] = "executing" /\ r \notin due
  /\ r \notin Faulty => row[r] \in Ends
  /\ r \in stopped \ Faulty => row[r] \in Stops
  /\ calls' = [calls EXCEPT ![r] = 0]

HandOver(r) ==
  /\ Over(r)
  /\ \E q \in Runs :
       Turn(q) /\ phase' = [phase EXCEPT ![r] = "ended", ![q] = "executing"]
  /\ UNCHANGED <<requests, dropped, row, stopped, due, messages, waiting>>

\* The session is idle, and leaves no run that was saved and not stopped waiting;
\* but it may lose one that is being enqueued.
GoIdle(r) ==
  /\ Over(r)
  /\ phase' = [phase EXCEPT ![r] = "ended"]
  /\ \E lost \in {{}} \cup {{q} : q \in Runs} :
       /\ \A q \in lost : Waits(q) /\ row[q] # "none"
       /\ dropped' = dropped \cup lost
       /\ \A q \in Runs \ lost : Waits(q) => row[q] \in {"none"} \cup Stops \/ q \in Faulty
  /\ waiting' = {}
  /\ UNCHANGED <<requests, row, stopped, due, messages>>

Wait(w) ==
  /\ \E r \in Runs : Requested(r)
  /\ waiting' = waiting \cup {w}
  /\ UNCHANGED <<requests, dropped, phase, row, stopped, due, calls, messages>>

Next ==
  \/ \E r \in Runs :
       \/ Request(r) \/ Refuse(r) \/ Save(r) \/ Start(r) \/ Decide(r) \/ Call(r)
       \/ Message(r) \/ Stop(r) \/ HandOver(r) \/ GoIdle(r)
  \/ \E w \in Waiters : Wait(w)

Spec == Init /\ [][Next]_vars
=============================================================================
