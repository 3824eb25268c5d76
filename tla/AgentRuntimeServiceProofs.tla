---------------------- MODULE AgentRuntimeServiceProofs ----------------------
(***************************************************************************)
(* The proof that AgentRuntime implements RunService, for every set of runs *)
(* and callers, every retry budget, and every set of runs whose persistence *)
(* calls may reject: each of its steps is a step of the service or none.   *)
(***************************************************************************)
EXTENDS AgentRuntimeOutcomeProofs, WellFoundedInduction

-----------------------------------------------------------------------------
(* The inductive invariant *)

\* Runs in the queue, and runs lost with a deleted state, have not executed.
UnstartedInv ==
  /\ \A i \in DOMAIN queue : exec[queue[i]] = "none" /\ queue[i] \notin orphans
  /\ \A r \in orphans : exec[r] = "none" /\ enq[r] \in {"queuing"} \cup Returned

\* A run has a row once its enqueue call is past the first save; only a run with a
\* row is ever stopped.
SavedInv ==
  /\ \A r \in Runs : enq[r] \in {"idle", "locking"} => status[r] = "none"
  /\ \A r \in Runs : enq[r] \in {"queuing", "starting"} => status[r] # "none"
  /\ \A k \in StopKinds, r \in Runs : stop[k][r] # "idle" => status[r] # "none"

\* The session is claimed on behalf of a run, and the active run executes.
OwnerInv ==
  /\ running => arrivals # <<>>
  /\ activeRun # NoRun => Executing(activeRun)

ServiceInv == UnstartedInv /\ SavedInv /\ OwnerInv

RuntimeInv == TypeInv /\ ClaimInv /\ CallsInv /\ StopInv /\ OutcomeInv /\ ServiceInv

-----------------------------------------------------------------------------
(* The invariant is kept *)

LEMMA ServiceEnqueue ==
  ASSUME RuntimeInv, NEW r \in Runs, Enqueue(r) \/ SessionMissing(r) \/ EnqueueStep(r)
  PROVE  ServiceInv'
<1> USE DEF RuntimeInv, ServiceInv
<1>1. CASE Enqueue(r)
  <2>1. /\ enq[r] = "idle" /\ EnqGoto(r, "locking") /\ arrivals' = Append(arrivals, r)
        /\ UNCHANGED <<running, activeRun, queue, orphans, exec, status, stop>>
    BY <1>1 DEF Enqueue, sessionState, execState, stopState, stored
  <2>2. enq'[r] = "locking" /\ \A s \in Runs : s # r => enq'[s] = enq[s]
    BY <2>1 DEF EnqGoto, TypeInv, TypeOK
  <2>3. orphans \subseteq Runs /\ r \notin orphans
    BY <2>1 DEF TypeInv, TypeOK, UnstartedInv, Returned
  <2>4. arrivals' # <<>>
    BY <2>1, AppendProperties DEF TypeInv, TypeOK
  <2> QED BY <2>1, <2>2, <2>3, <2>4 DEF UnstartedInv, SavedInv, OwnerInv, Executing
<1>2. CASE SessionMissing(r)
  <2>1. /\ enq[r] = "locking" /\ EnqGoto(r, "rejected")
        /\ UNCHANGED <<arrivals, running, activeRun, queue, orphans, exec, status, stop>>
    BY <1>2 DEF SessionMissing, sessionState, execState, stopState, stored
  <2>2. enq'[r] = "rejected" /\ \A s \in Runs : s # r => enq'[s] = enq[s]
    BY <2>1 DEF EnqGoto, TypeInv, TypeOK
  <2>3. orphans \subseteq Runs
    BY DEF TypeInv, TypeOK
  <2> QED BY <2>1, <2>2, <2>3 DEF UnstartedInv, SavedInv, OwnerInv, Executing, Returned
<1>3. CASE CreateRun(r)
  <2>1. /\ LockHolder(r) /\ enq[r] = "locking"
        /\ UNCHANGED <<arrivals, activeRun, queue, orphans, exec, stop>>
    BY <1>3 DEF CreateRun, execState, stopState
  <2>2. /\ enq'[r] \in {"queuing", "starting", "rejected"}
        /\ enq'[r] # "rejected" => status'[r] # "none"
        /\ status[r] = "none"
        /\ \A s \in Runs : s # r => enq'[s] = enq[s] /\ status'[s] = status[s]
    BY <1>3, <2>1 DEF CreateRun, EnqGoto, SetStatus, TypeInv, TypeOK, SavedInv
  <2>3. orphans \subseteq Runs /\ r \notin orphans
    BY <2>1 DEF TypeInv, TypeOK, UnstartedInv, Returned
  <2>4. arrivals # <<>>
    BY <2>1 DEF LockHolder
  <2>5. UnstartedInv'
    BY <2>1, <2>2, <2>3 DEF UnstartedInv
  <2>6. SavedInv'
    BY <2>1, <2>2 DEF SavedInv
  <2> QED BY <2>1, <2>4, <2>5, <2>6 DEF OwnerInv, Executing
<1>4. CASE AnnounceCreated(r)
  <2>1. /\ enq[r] \in {"queuing", "starting"}
        /\ UNCHANGED enq \/ EnqGoto(r, "rejected")
        /\ UNCHANGED <<arrivals, running, activeRun, queue, orphans, exec, status, stop>>
    BY <1>4 DEF AnnounceCreated, sessionState, execState, stopState
  <2>2. /\ enq'[r] \in {enq[r], "rejected"} /\ \A s \in Runs : s # r => enq'[s] = enq[s]
    BY <2>1 DEF EnqGoto, TypeInv, TypeOK
  <2>3. orphans \subseteq Runs
    BY DEF TypeInv, TypeOK
  <2> QED BY <2>1, <2>2, <2>3 DEF UnstartedInv, SavedInv, OwnerInv, Executing, Returned
<1>5. CASE PushRun(r)
  <2>1. /\ enq[r] = "queuing" /\ EnqGoto(r, "done")
        /\ queue' = IF r \in orphans THEN queue ELSE Append(queue, r)
        /\ UNCHANGED <<arrivals, running, activeRun, orphans, exec, status, stop>>
    BY <1>5 DEF PushRun, execState, stopState, stored
  <2>2. enq'[r] = "done" /\ \A s \in Runs : s # r => enq'[s] = enq[s]
    BY <2>1 DEF EnqGoto, TypeInv, TypeOK
  <2>3. exec[r] = "none" /\ orphans \subseteq Runs
    BY <2>1 DEF OutcomeInv, StartedInv, TypeInv, TypeOK
  <2>4. \A i \in DOMAIN queue' : (i \in DOMAIN queue /\ queue'[i] = queue[i])
                               \/ (queue'[i] = r /\ r \notin orphans)
    <3>1. CASE r \in orphans
      BY <2>1, <3>1
    <3>2. CASE r \notin orphans
      <4>1. queue' = Append(queue, r) /\ queue \in Seq(Runs)
        BY <2>1, <3>2 DEF TypeInv, TypeOK
      <4> QED BY <3>2, <4>1, AppendElements
    <3> QED BY <3>1, <3>2
  <2>5. UnstartedInv'
    BY <2>1, <2>2, <2>3, <2>4 DEF UnstartedInv, Returned
  <2> QED BY <2>1, <2>2, <2>5 DEF SavedInv, OwnerInv, Executing
<1>6. CASE StartRun(r)
  <2>1. /\ enq[r] = "starting" /\ EnqGoto(r, "done") /\ Goto(r, "entry") /\ activeRun' = r
        /\ UNCHANGED <<arrivals, queue, orphans, status, stop>>
    BY <1>6 DEF StartRun, stopState, stored
  <2>2. /\ enq'[r] = "done" /\ \A s \in Runs : s # r => enq'[s] = enq[s]
        /\ exec'[r] = "entry" /\ \A s \in Runs : s # r => exec'[s] = exec[s]
    BY <2>1 DEF EnqGoto, Goto, TypeInv, TypeOK
  <2>3. queue = <<>> /\ running
    BY <2>1 DEF OutcomeInv, IdleInv, ClaimInv
  <2>4. orphans \subseteq Runs /\ r \notin orphans
    BY <2>1 DEF TypeInv, TypeOK, UnstartedInv, Returned
  <2>5. UnstartedInv'
    BY <2>1, <2>2, <2>3, <2>4 DEF UnstartedInv
  <2> QED BY <2>1, <2>2, <2>3, <2>5 DEF SavedInv, OwnerInv, Executing
<1> QED BY <1>1, <1>2, <1>3, <1>4, <1>5, <1>6 DEF EnqueueStep

\* What a step of executeRun does to what the users of the session see.
LEMMA ExecView ==
  ASSUME TypeInv, NEW r \in Runs,
         ExecStep(r) \/ AdapterStep(r) \/ WriteThrows(r) \/ ExecutionEscapes(r),
         ~FinishRun(r), ~AdapterMessage(r)
  PROVE  /\ UNCHANGED status \/ \E s \in {"running"} \cup Terminal : SetStatus(r, s)
         /\ UNCHANGED messages
         /\ ~CallAdapter(r) => \A s \in Runs : retry'[s].calls = retry[s].calls
<1> DEFINE Goal ==
      /\ UNCHANGED status \/ \E s \in {"running"} \cup Terminal : SetStatus(r, s)
      /\ UNCHANGED messages
      /\ ~CallAdapter(r) => \A s \in Runs : retry'[s].calls = retry[s].calls
<1> USE DEF Terminal, StopKinds, stored
<1>1. CASE CheckEntry(r) \/ CheckLoop(r) \/ CheckReturned(r) \/ CheckSaved(r) \/ CheckThrown(r)
  BY <1>1 DEF CheckEntry, CheckLoop, CheckReturned, CheckSaved, CheckThrown, CheckStops
<1>2. CASE SaveRunning(r) \/ SaveSucceeded(r) \/ SaveFailed(r)
  BY <1>2 DEF SaveRunning, SaveSucceeded, SaveFailed, SaveStatus
<1>3. CASE EmitSucceeded(r) \/ EmitFailed(r)
  BY <1>3 DEF EmitSucceeded, EmitFailed, EmitEvent
<1>4. CASE \E k \in StopKinds : ApplyStop(k, r)
  BY <1>4 DEF ApplyStop
<1>5. CASE CompactLocally(r)
  <2>1. PICK tier : retry' = [retry EXCEPT ![r].tier = tier]
    BY <1>5 DEF CompactLocally
  <2>2. \A s \in Runs : retry'[s].calls = retry[s].calls
    BY <2>1 DEF TypeInv, TypeOK, Retries
  <2> QED BY <1>5, <2>2 DEF CompactLocally
<1>6. CASE Recompact(r)
  <2>1. UNCHANGED retry \/ \E tier : retry' = [retry EXCEPT ![r].tier = tier, ![r].overflows = @ + 1]
    BY <1>6 DEF Recompact
  <2>2. ASSUME NEW tier, retry' = [retry EXCEPT ![r].tier = tier, ![r].overflows = @ + 1]
        PROVE  \A s \in Runs : retry'[s].calls = retry[s].calls
    <3>1. retry' = [retry EXCEPT ![r] = [retry[r] EXCEPT !.tier = tier, !.overflows = @ + 1]]
      BY <2>2
    <3>2. retry'[r] = [retry[r] EXCEPT !.tier = tier, !.overflows = @ + 1]
      BY <3>1 DEF TypeInv, TypeOK
    <3>3. retry'[r].calls = retry[r].calls
      BY <3>2 DEF TypeInv, TypeOK, Retries
    <3> QED BY <3>1, <3>3 DEF TypeInv, TypeOK
  <2> QED BY <1>6, <2>1, <2>2 DEF Recompact
<1>7. CASE SaveRetry(r)
  <2>1. \A s \in Runs : retry'[s].calls = retry[s].calls
    BY <1>7 DEF SaveRetry, TypeInv, TypeOK, Retries
  <2> QED BY <1>7, <2>1 DEF SaveRetry
<1>8. CASE CallAdapter(r) \/ BackoffEnds(r) \/ AdapterReturns(r)
  BY <1>8 DEF CallAdapter, BackoffEnds, AdapterReturns
<1>9. CASE AdapterThrows(r) \/ WriteThrows(r) \/ ExecutionEscapes(r)
  BY <1>9 DEF AdapterThrows, Throw, WriteThrows, ExecutionEscapes
<1> QED BY <1>1, <1>2, <1>3, <1>4, <1>5, <1>6, <1>7, <1>8, <1>9 DEF ExecStep, AdapterStep

\* The steps of executeRun that are neither the decision to call the adapter nor the
\* call leave both to come.
LEMMA ExecElsewhere ==
  ASSUME NEW r \in Runs,
         ExecStep(r) \/ AdapterStep(r) \/ WriteThrows(r) \/ ExecutionEscapes(r),
         ~FinishRun(r), ~AdapterMessage(r), ~CheckLoop(r), ~CallAdapter(r)
  PROVE  /\ exec[r] # "calling"
         /\ \E l \in ExecStates \ {"adapter", "calling"} : Goto(r, l)
         /\ UNCHANGED <<aborted, stop, stopped>>
<1> DEFINE Goal == /\ exec[r] # "calling"
                   /\ \E l \in ExecStates \ {"adapter", "calling"} : Goto(r, l)
                   /\ UNCHANGED <<aborted, stop, stopped>>
<1> USE DEF ExecStates, ErrorKinds, stopState
<1>1. CASE CheckEntry(r) \/ CheckReturned(r) \/ CheckSaved(r)
  BY <1>1 DEF CheckEntry, CheckReturned, CheckSaved, CheckStops, ApplyAt
<1>2. CASE CheckThrown(r)
  BY <1>2 DEF CheckThrown, CheckStops, ApplyAt, AfterError
<1>3. CASE SaveRunning(r) \/ SaveSucceeded(r) \/ SaveFailed(r) \/ EmitSucceeded(r) \/ EmitFailed(r)
  BY <1>3 DEF SaveRunning, SaveSucceeded, SaveFailed, EmitSucceeded, EmitFailed, SaveStatus, EmitEvent
<1>4. CASE \/ CompactLocally(r) \/ Recompact(r) \/ SaveRetry(r) \/ BackoffEnds(r) \/ AdapterReturns(r)
           \/ \E k \in StopKinds : ApplyStop(k, r)
  BY <1>4 DEF CompactLocally, Recompact, SaveRetry, BackoffEnds, AdapterReturns, ApplyStop, ApplyAt
<1>5. CASE AdapterThrows(r) \/ WriteThrows(r) \/ ExecutionEscapes(r)
  BY <1>5 DEF AdapterThrows, WriteThrows, ExecutionEscapes, Throw
<1> QED BY <1>1, <1>2, <1>3, <1>4, <1>5 DEF ExecStep, AdapterStep

LEMMA ServiceExec ==
  ASSUME RuntimeInv, NEW r \in Runs,
         ExecStep(r) \/ AdapterStep(r) \/ WriteThrows(r) \/ ExecutionEscapes(r),
         ~FinishRun(r), ~AdapterMessage(r)
  PROVE  ServiceInv'
<1>1. /\ Executing(r) /\ \E l \in ExecStates \ {"none", "done"} : Goto(r, l)
      /\ UNCHANGED <<enqueueState, sessionState, stopState>>
  BY ExecMoves DEF RuntimeInv
<1>2. \A s \in Runs : /\ Executing(s)' <=> Executing(s)
                      /\ exec'[s] = "none" <=> exec[s] = "none"
  BY <1>1 DEF Executing, Goto, RuntimeInv, TypeInv, TypeOK
<1>3. enq[r] = "done" /\ \A s \in Runs : s # r => status'[s] = status[s]
  BY <1>1, ExecView DEF RuntimeInv, OutcomeInv, StartedInv, Executing, SetStatus, TypeInv, TypeOK
<1>4. status[r] # "none" => status'[r] # "none"
  BY ExecView DEF RuntimeInv, SetStatus, Terminal, TypeInv, TypeOK
<1>5. /\ UNCHANGED <<arrivals, enq, running, activeRun, queue, orphans, stop>>
      /\ orphans \subseteq Runs /\ activeRun \in Runs \cup {NoRun} /\ queue \in Seq(Runs)
  BY <1>1 DEF enqueueState, sessionState, stopState, RuntimeInv, TypeInv, TypeOK
<1>6. UnstartedInv'
  BY <1>2, <1>5 DEF RuntimeInv, ServiceInv, UnstartedInv
<1>7. SavedInv'
  BY <1>3, <1>4, <1>5 DEF RuntimeInv, ServiceInv, SavedInv
<1>8. OwnerInv'
  <2>1. activeRun # NoRun => Executing(activeRun)'
    BY <1>2, <1>5 DEF RuntimeInv, ServiceInv, OwnerInv, Executing
  <2> QED BY <1>5, <2>1 DEF RuntimeInv, ServiceInv, OwnerInv, Executing
<1> QED BY <1>6, <1>7, <1>8 DEF ServiceInv

LEMMA ServiceFinish ==
  ASSUME RuntimeInv, NEW r \in Runs, FinishRun(r)
  PROVE  ServiceInv'
<1> USE DEF RuntimeInv, ServiceInv
<1>1. /\ exec[r] = "leaving" /\ activeRun = r /\ running /\ enq[r] = "done"
      /\ \A s \in Runs : enq[s] # "starting"
  BY RunsAssumption DEF FinishRun, ClaimInv, Executing, OutcomeInv, StartedInv
<1>2. /\ UNCHANGED <<arrivals, enq, status, stop>>
      /\ orphans \subseteq Runs /\ queue \in Seq(Runs)
  BY DEF FinishRun, enqueueState, stored, TypeInv, TypeOK
<1>3. SavedInv'
  BY <1>2 DEF SavedInv
<1>4. arrivals # <<>>
  BY <1>1 DEF OwnerInv
<1>5. CASE HandOver(r)
  <2> DEFINE h == Head(queue)
  <2>1. /\ queue # <<>> /\ queue' = Tail(queue) /\ UNCHANGED orphans /\ activeRun' = h
        /\ exec' = [exec EXCEPT ![r] = "done", ![h] = "entry"]
    BY <1>5 DEF HandOver
  <2>2. /\ h \in Runs /\ h = queue[1] /\ 1 \in DOMAIN queue
        /\ Len(queue) \in Nat /\ DOMAIN queue' = 1 .. (Len(queue) - 1)
        /\ \A i \in 1 .. (Len(queue) - 1) : queue'[i] = queue[i + 1] /\ i + 1 \in DOMAIN queue
    BY <1>2, <2>1, TailElements
  <2>3. exec[h] = "none" /\ h \notin orphans /\ h # r
    BY <1>1, <2>2 DEF UnstartedInv
  <2> HIDE DEF h
  <2>4. /\ exec'[h] = "entry" /\ \A s \in Runs : s \notin {r, h} => exec'[s] = exec[s]
    BY <2>1, <2>2 DEF TypeInv, TypeOK
  <2>5. \A i \in DOMAIN queue' : exec'[queue'[i]] = "none" /\ queue'[i] \notin orphans
    <3> SUFFICES ASSUME NEW i \in 1 .. (Len(queue) - 1)
                 PROVE  exec'[queue[i + 1]] = "none" /\ queue[i + 1] \notin orphans
      BY <2>2
    <3>1. queue[i + 1] # h
      BY <2>2 DEF StopInv, QueueInv, Distinct
    <3>2. exec[queue[i + 1]] = "none" /\ queue[i + 1] \notin orphans
      BY <2>2 DEF UnstartedInv
    <3>3. queue[i + 1] \in Runs /\ queue[i + 1] # r
      BY <1>1, <1>2, <2>2, <3>2
    <3> QED BY <2>4, <3>1, <3>2, <3>3
  <2>6. \A s \in orphans : exec'[s] = "none" /\ enq[s] \in {"queuing"} \cup Returned
    BY <1>1, <1>2, <2>3, <2>4 DEF UnstartedInv
  <2>7. OwnerInv'
    BY <1>2, <1>4, <2>1, <2>4 DEF OwnerInv, Executing
  <2> QED BY <1>2, <1>3, <2>1, <2>5, <2>6, <2>7 DEF UnstartedInv
<1>6. CASE GoIdle(r)
  <2>1. /\ queue' = <<>> /\ running' = FALSE /\ activeRun' = NoRun
        /\ orphans' = orphans \cup {q \in Runs : enq[q] = "queuing"}
        /\ Goto(r, "done")
    BY <1>6 DEF GoIdle
  <2>2. exec'[r] = "done" /\ \A s \in Runs : s # r => exec'[s] = exec[s]
    BY <2>1 DEF Goto, TypeInv, TypeOK
  <2>3. \A s \in orphans' : exec'[s] = "none" /\ enq[s] \in {"queuing"} \cup Returned
    BY <1>1, <1>2, <2>1, <2>2 DEF UnstartedInv, OutcomeInv, StartedInv
  <2>4. UnstartedInv'
    BY <1>2, <2>1, <2>3 DEF UnstartedInv
  <2> QED BY <1>3, <2>1, <2>4 DEF OwnerInv
<1> QED BY <1>5, <1>6 DEF FinishRun

LEMMA ServiceStop ==
  ASSUME RuntimeInv, NEW r \in Runs, NEW k \in StopKinds, StopLookup(k, r) \/ StopStep(k, r)
  PROVE  ServiceInv'
<1> USE DEF RuntimeInv, ServiceInv
<1>1. UNCHANGED <<arrivals, enq, running, activeRun, orphans, exec>>
  BY DEF StopLookup, StopStep, StopMark, StopEmit, StopReturn, enqueueState, sessionState, execState
<1>2. OwnerInv'
  BY <1>1 DEF OwnerInv, Executing
<1>3. /\ status[r] # "none"
      /\ \A j \in StopKinds, s \in Runs : <<j, s>> # <<k, r>> => stop'[j][s] = stop[j][s]
  BY DEF StopLookup, StopStep, StopMark, StopEmit, StopReturn, StopGoto, SavedInv, TypeInv, TypeOK
<1>4. status'[r] # "none" /\ \A s \in Runs : s # r => status'[s] = status[s]
  BY <1>3 DEF StopLookup, StopStep, StopMark, StopEmit, StopReturn, SetStatus, stored, StopKinds,
     TypeInv, TypeOK
<1>5. SavedInv'
  BY <1>1, <1>3, <1>4 DEF SavedInv
<1>6. \A i \in DOMAIN queue' : \E j \in DOMAIN queue : queue'[i] = queue[j]
  <2>1. CASE StopMark(k, r)
    BY <2>1, WithoutElements DEF StopMark, StopInv, QueueInv, TypeInv, TypeOK
  <2>2. CASE ~StopMark(k, r)
    BY <2>2 DEF StopLookup, StopStep, StopEmit, StopReturn, sessionState
  <2> QED BY <2>1, <2>2
<1>7. UnstartedInv'
  BY <1>1, <1>6 DEF UnstartedInv
<1> QED BY <1>2, <1>5, <1>7

LEMMA ServiceNext == RuntimeInv /\ [Next]_vars => ServiceInv'
<1> SUFFICES ASSUME RuntimeInv, [Next]_vars PROVE ServiceInv'
  OBVIOUS
<1>1. ASSUME NEW r \in Runs, ExecStep(r) \/ AdapterStep(r) \/ WriteThrows(r) \/ ExecutionEscapes(r)
      PROVE  ServiceInv'
  <2>1. CASE AdapterMessage(r)
    BY <2>1 DEF AdapterMessage, enqueueState, sessionState, execState, stopState, RuntimeInv,
       ServiceInv, UnstartedInv, SavedInv, OwnerInv, Executing
  <2> QED BY <1>1, <2>1, ServiceFinish, ServiceExec
<1>2. ASSUME NEW w \in Waiters, WaitForIdle(w)
      PROVE  ServiceInv'
  BY <1>2 DEF WaitForIdle, enqueueState, execState, stopState, stored, RuntimeInv,
     ServiceInv, UnstartedInv, SavedInv, OwnerInv, Executing
<1>3. CASE UNCHANGED vars
  BY <1>3 DEF vars, enqueueState, sessionState, execState, stopState, stored, RuntimeInv,
     ServiceInv, UnstartedInv, SavedInv, OwnerInv, Executing
<1> QED BY <1>1, <1>2, <1>3, ServiceEnqueue, ServiceStop DEF Next

LEMMA RuntimeInvariant == Spec => []RuntimeInv
<1>1. Init => RuntimeInv
  <2>1. Init => ClaimInv /\ StopInv /\ CallsInv
    BY DEF Init, ClaimInv, StopInv, QueueInv, FlagInv, CallsInv, Distinct, Executing, NewRetry
  <2>2. Init => ServiceInv
    BY DEF Init, ServiceInv, UnstartedInv, SavedInv, OwnerInv
  <2> QED BY <2>1, <2>2, TypeInit, OutcomeInit DEF RuntimeInv
<1>2. RuntimeInv /\ [Next]_vars => RuntimeInv'
  BY TypeNext, ClaimNext, CallsNext, StopInvNext, OutcomeNext, ServiceNext DEF RuntimeInv
<1> QED BY <1>1, <1>2, PTL DEF Spec

-----------------------------------------------------------------------------
(* Each step is a step of the service *)

\* What the service shows of the session.
View == <<arrivals, Dropped, Phases, status, stopped, Due, Calls, messages, waiting>>

\* How a run shows.
LEMMA PhaseOf ==
  ASSUME NEW r \in Runs
  PROVE  /\ Phases[r] = "waiting" <=> exec[r] = "none"
         /\ Phases[r] = "executing" <=> Executing(r)
         /\ Phases[r] = "ended" <=> exec[r] = "done"
         /\ Calls[r] = retry[r].calls
         /\ r \in Dropped <=> r \in orphans \/ enq[r] = "rejected"
BY DEF Phases, Calls, Dropped, Executing

LEMMA PhaseMove ==
  ASSUME TypeInv, NEW r \in Runs, NEW l, Goto(r, l)
  PROVE  Phases' = [Phases EXCEPT ![r] = IF l = "none" THEN "waiting"
                                         ELSE IF l = "done" THEN "ended" ELSE "executing"]
BY DEF Phases, Goto, TypeInv, TypeOK

LEMMA CallsKept ==
  ASSUME \A r \in Runs : retry'[r].calls = retry[r].calls
  PROVE  Calls' = Calls
BY DEF Calls

\* A run whose enqueue call has passed the lock was requested.
LEMMA IsRequested ==
  ASSUME RuntimeInv, NEW r \in Runs, enq[r] # "idle"
  PROVE  Service!Requested(r)
BY DEF RuntimeInv, OutcomeInv, ArriveInv, Service!Requested

LEMMA SavedIsRequested ==
  ASSUME RuntimeInv, NEW r \in Runs, status[r] # "none" \/ exec[r] # "none"
  PROVE  Service!Requested(r)
<1>1. enq[r] # "idle"
  BY DEF RuntimeInv, ServiceInv, SavedInv, OutcomeInv, StartedInv
<1> QED BY <1>1, IsRequested

\* A run that starts, starts in its turn: the order was proved of the next state.
LEMMA StartsInTurn ==
  ASSUME RuntimeInv, NEW r \in Runs, enq[r] # "idle", exec[r] = "none",
         r \notin Dropped, TypeInv', OutcomeInv', exec'[r] # "none",
         \A q \in Runs : q # r /\ exec[q] = "none" => exec'[q] = "none",
         Dropped' = Dropped, UNCHANGED <<arrivals, status>>
  PROVE  Service!Turn(r)
<1>1. Service!Waits(r)
  BY IsRequested, PhaseOf DEF Service!Waits
<1>2. SUFFICES ASSUME NEW i \in DOMAIN arrivals, NEW j \in DOMAIN arrivals,
                      i < j, arrivals[j] = r, arrivals[i] # r
               PROVE  Service!PassedOver(arrivals[i])
  BY <1>1 DEF Service!Turn
<1>3. FifoStart'
  BY OutcomeFifo, PTL
<1>4. arrivals[i] \in Runs
  BY DEF RuntimeInv, TypeInv, TypeOK
<1>5. \/ exec'[arrivals[i]] # "none" \/ arrivals[i] \in Dropped'
      \/ status[arrivals[i]] \in StopKinds \/ arrivals[i] \in Faulty
  BY <1>2, <1>3, <1>4 DEF FifoStart, Dropped
<1>6. exec'[arrivals[i]] # "none" => Phases[arrivals[i]] # "waiting"
  BY <1>2, <1>4, PhaseOf
<1> QED BY <1>5, <1>6 DEF Service!PassedOver, Service!Stops, StopKinds

\* enqueue throws: the run is refused.
LEMMA Refusal ==
  ASSUME RuntimeInv, NEW r \in Runs, EnqGoto(r, "rejected"), enq[r] \notin {"idle"} \cup Returned,
         r \notin orphans, status[r] = "none" \/ r \in Faulty,
         UNCHANGED <<arrivals, waiting, orphans, exec, retry, stopped, status, messages>>
  PROVE  Service!Next
<1>1. Dropped' = Dropped \cup {r} /\ r \notin Dropped
  BY DEF Dropped, EnqGoto, Returned, RuntimeInv, TypeInv, TypeOK
<1>2. Phases' = Phases /\ Calls' = Calls /\ Due' = Due
  BY DEF Phases, Calls, Due
<1>3. exec[r] = "none"
  BY DEF RuntimeInv, OutcomeInv, StartedInv, Returned
<1>4. Service!Waits(r)
  BY <1>1, <1>3, IsRequested, PhaseOf DEF Service!Waits
<1>5. Service!Refuse(r)
  BY <1>1, <1>2, <1>4 DEF Service!Refuse
<1> QED BY <1>5 DEF Service!Next

\* Each step of enqueue is a step of the service, or shows nothing.
LEMMA EnqueueServes ==
  ASSUME RuntimeInv, RuntimeInv', NEW r \in Runs, Enqueue(r) \/ SessionMissing(r) \/ EnqueueStep(r)
  PROVE  Service!Next \/ UNCHANGED View
<1> USE DEF ServiceInv
<1>0. TypeInv /\ ClaimInv /\ OutcomeInv /\ ServiceInv /\ TypeInv' /\ OutcomeInv'
  BY DEF RuntimeInv
<1>1. CASE Enqueue(r)
  <2>1. /\ enq[r] = "idle" /\ EnqGoto(r, "locking") /\ arrivals' = Append(arrivals, r)
        /\ UNCHANGED <<waiting, orphans, exec, retry, stopped, status, messages>>
    BY <1>1 DEF Enqueue, sessionState, execState, stopState, stored
  <2>2. Dropped' = Dropped
    BY <1>0, <2>1 DEF Dropped, EnqGoto, TypeInv, TypeOK
  <2>3. Phases' = Phases /\ Calls' = Calls /\ Due' = Due
    BY <2>1 DEF Phases, Calls, Due
  <2>4. ~Service!Requested(r)
    BY <1>0, <2>1 DEF Service!Requested, OutcomeInv, ArriveInv
  <2>5. Service!Request(r)
    BY <2>1, <2>2, <2>3, <2>4 DEF Service!Request
  <2> QED BY <2>5 DEF Service!Next
<1>2. CASE SessionMissing(r)
  <2>1. /\ enq[r] = "locking" /\ EnqGoto(r, "rejected")
        /\ UNCHANGED <<arrivals, waiting, orphans, exec, retry, stopped, status, messages>>
    BY <1>2 DEF SessionMissing, sessionState, execState, stopState, stored
  <2>2. status[r] = "none" /\ r \notin orphans
    BY <1>0, <2>1 DEF SavedInv, UnstartedInv, Returned
  <2> QED BY <2>1, <2>2, Refusal DEF Returned
<1>3. CASE CreateRun(r)
  <2>1. /\ enq[r] = "locking"
        /\ UNCHANGED <<arrivals, waiting, orphans, exec, retry, stopped, messages>>
    BY <1>3 DEF CreateRun, execState, stopState
  <2>2. status[r] = "none" /\ r \notin orphans /\ exec[r] = "none"
    BY <1>0, <2>1 DEF SavedInv, UnstartedInv, Returned, OutcomeInv, StartedInv
  <2>3. CASE r \in Faulty /\ EnqGoto(r, "rejected") /\ UNCHANGED status
    BY <2>1, <2>2, <2>3, Refusal DEF Returned
  <2>4. ASSUME NEW l \in {"queuing", "starting"}, NEW s \in {"queued", "running"},
               EnqGoto(r, l), SetStatus(r, s)
        PROVE  Service!Save(r)
    <3>1. Dropped' = Dropped
      BY <1>0, <2>1, <2>4 DEF Dropped, EnqGoto, TypeInv, TypeOK
    <3>2. Phases' = Phases /\ Calls' = Calls /\ Due' = Due
      BY <2>1 DEF Phases, Calls, Due
    <3>3. Phases[r] = "waiting" /\ Service!Requested(r)
      BY <2>1, <2>2, PhaseOf, IsRequested
    <3> QED BY <2>1, <2>2, <2>4, <3>1, <3>2, <3>3 DEF Service!Save, SetStatus
  <2>5. Service!Save(r) \/ (r \in Faulty /\ EnqGoto(r, "rejected") /\ UNCHANGED status)
    BY <1>0, <1>3, <2>4 DEF CreateRun, TypeInv, TypeOK
  <2> QED BY <2>3, <2>5 DEF Service!Next
<1>4. CASE AnnounceCreated(r)
  <2>1. /\ enq[r] \in {"queuing", "starting"}
        /\ UNCHANGED enq \/ (r \in Faulty /\ EnqGoto(r, "rejected"))
        /\ UNCHANGED <<arrivals, waiting, orphans, exec, retry, stopped, status, messages>>
    BY <1>4 DEF AnnounceCreated, sessionState, execState, stopState
  <2>2. CASE UNCHANGED enq
    BY <2>1, <2>2 DEF View, Dropped, Phases, Calls, Due
  <2>3. CASE r \in orphans /\ EnqGoto(r, "rejected")
    <3>1. Dropped' = Dropped
      BY <1>0, <2>1, <2>3 DEF Dropped, EnqGoto, TypeInv, TypeOK
    <3> QED BY <2>1, <3>1 DEF View, Phases, Calls, Due
  <2>4. CASE r \notin orphans /\ r \in Faulty /\ EnqGoto(r, "rejected")
    BY <2>1, <2>4, Refusal DEF Returned
  <2> QED BY <2>1, <2>2, <2>3, <2>4
<1>5. CASE PushRun(r)
  <2>1. /\ enq[r] = "queuing" /\ EnqGoto(r, "done")
        /\ UNCHANGED <<arrivals, waiting, orphans, exec, retry, stopped, status, messages>>
    BY <1>5 DEF PushRun, execState, stopState, stored
  <2>2. Dropped' = Dropped
    BY <1>0, <2>1 DEF Dropped, EnqGoto, TypeInv, TypeOK
  <2> QED BY <2>1, <2>2 DEF View, Phases, Calls, Due
<1>6. CASE StartRun(r)
  <2>1. /\ enq[r] = "starting" /\ EnqGoto(r, "done") /\ Goto(r, "entry")
        /\ UNCHANGED <<arrivals, waiting, orphans, retry, stopped, status, messages>>
    BY <1>6 DEF StartRun, stopState, stored
  <2>2. /\ Dropped' = Dropped /\ Calls' = Calls /\ Due' = Due
        /\ Phases' = [Phases EXCEPT ![r] = "executing"]
    <3>1. Dropped' = Dropped
      BY <1>0, <2>1 DEF Dropped, EnqGoto, TypeInv, TypeOK
    <3>2. Calls' = Calls /\ Due' = Due
      BY <1>0, <2>1 DEF Calls, Due, Goto, OutcomeInv, StartedInv, TypeInv, TypeOK
    <3>3. Phases' = [Phases EXCEPT ![r] = "executing"]
      BY <1>0, <2>1, PhaseMove
    <3> QED BY <3>1, <3>2, <3>3
  <2>3. exec[r] = "none" /\ r \notin Dropped
    BY <1>0, <2>1 DEF OutcomeInv, StartedInv, UnstartedInv, Dropped, Returned
  <2>4. exec'[r] = "entry" /\ \A q \in Runs : q # r => exec'[q] = exec[q]
    BY <1>0, <2>1 DEF Goto, TypeInv, TypeOK
  <2>5. Service!Turn(r)
    BY <1>0, <2>1, <2>2, <2>3, <2>4, StartsInTurn
  <2>6. \A q \in Runs : Phases[q] # "executing"
    BY <1>0, <2>1, PhaseOf, RunsAssumption DEF ClaimInv
  <2>7. Service!Start(r)
    BY <2>1, <2>2, <2>5, <2>6 DEF Service!Start
  <2> QED BY <2>7 DEF Service!Next
<1> QED BY <1>1, <1>2, <1>3, <1>4, <1>5, <1>6 DEF EnqueueStep

\* Each step of executeRun but the last: an adapter call, a save, or nothing.
LEMMA ExecServes ==
  ASSUME RuntimeInv, NEW r \in Runs,
         ExecStep(r) \/ AdapterStep(r) \/ WriteThrows(r) \/ ExecutionEscapes(r),
         ~FinishRun(r), ~AdapterMessage(r)
  PROVE  Service!Next \/ UNCHANGED View
<1>1. /\ Executing(r) /\ \E l \in ExecStates \ {"none", "done"} : Goto(r, l)
      /\ UNCHANGED <<enqueueState, sessionState, stopState>>
  BY ExecMoves DEF RuntimeInv
<1>2. /\ Phases' = Phases /\ Phases[r] = "executing"
      /\ UNCHANGED <<arrivals, Dropped, stopped, messages, waiting>>
  <2>1. PICK l \in ExecStates \ {"none", "done"} : Goto(r, l)
    BY <1>1
  <2>2. Phases[r] = "executing" /\ Phases' = [Phases EXCEPT ![r] = "executing"]
    BY <1>1, <2>1, PhaseOf, PhaseMove DEF RuntimeInv
  <2>3. Phases' = Phases
    BY <2>2 DEF Phases
  <2>4. UNCHANGED <<arrivals, Dropped, stopped, messages, waiting>>
    BY <1>1, ExecView DEF enqueueState, sessionState, stopState, Dropped, RuntimeInv
  <2> QED BY <2>2, <2>3, <2>4
<1>3. CASE CallAdapter(r)
  <2>1. /\ exec[r] = "calling" /\ UNCHANGED status /\ Goto(r, "adapter")
        /\ retry' = [retry EXCEPT ![r].calls = @ + 1]
    BY <1>3 DEF CallAdapter, stored
  <2>2. r \in Due /\ Due' = Due \ {r}
    BY <2>1 DEF Due, Goto, RuntimeInv, TypeInv, TypeOK
  <2>3. retry[r] \in Retries /\ retry \in [Runs -> Retries]
    BY DEF RuntimeInv, TypeInv, TypeOK
  <2>4. retry[r].calls <= retry[r].attempt + retry[r].overflows
    BY <2>1 DEF RuntimeInv, CallsInv, BeforeCall
  <2>5. Calls[r] < 1 + MaxRetries + MaxOverflowRetries
    BY <2>3, <2>4, BoundsAssumption, PhaseOf DEF Retries
  <2>6. Calls' = [Calls EXCEPT ![r] = @ + 1]
    <3>1. retry'[r].calls = retry[r].calls + 1 /\ \A q \in Runs : q # r => retry'[q] = retry[q]
      BY <2>1, <2>3 DEF Retries
    <3> QED BY <3>1 DEF Calls
  <2>7. Service!Call(r)
    BY <1>2, <2>1, <2>2, <2>5, <2>6 DEF Service!Call
  <2> QED BY <2>7 DEF Service!Next
<1>4. CASE CheckLoop(r)
  <2>1. /\ exec[r] = "loop" /\ UNCHANGED <<status, retry>>
        /\ Goto(r, IF ~Flagged(r) THEN "calling"
                   ELSE IF status[r] = StopTarget(r) THEN "leaving" ELSE ApplyAt(StopTarget(r)))
    BY <1>4 DEF CheckLoop, CheckStops, stored
  <2>2. Calls' = Calls
    BY <2>1 DEF Calls
  <2>3. CASE ~Flagged(r)
    <3>1. r \notin stopped
      BY <1>1, <2>3 DEF RuntimeInv, StopInv, FlagInv
    <3>2. r \notin Due /\ Due' = Due \cup {r}
      BY <2>1, <2>3 DEF Due, Goto, RuntimeInv, TypeInv, TypeOK
    <3>3. Service!Decide(r)
      BY <1>2, <2>1, <2>2, <3>1, <3>2 DEF Service!Decide
    <3> QED BY <3>3 DEF Service!Next
  <2>4. CASE Flagged(r)
    <3>1. Due' = Due
      BY <2>1, <2>4 DEF Due, Goto, ApplyAt, RuntimeInv, TypeInv, TypeOK
    <3> QED BY <1>2, <2>1, <2>2, <3>1 DEF View
  <2> QED BY <2>3, <2>4
<1>5. CASE ~CallAdapter(r) /\ ~CheckLoop(r)
  <2>1. Calls' = Calls
    BY <1>5, ExecView, CallsKept DEF RuntimeInv
  <2>0. Due' = Due
    BY <1>1, <1>5, ExecElsewhere DEF Due, Goto, RuntimeInv, TypeInv, TypeOK
  <2>2. CASE UNCHANGED status
    BY <1>2, <2>0, <2>1, <2>2 DEF View
  <2>3. CASE \E s \in {"running"} \cup Terminal : SetStatus(r, s)
    <3>1. Service!Requested(r)
      BY <1>1, SavedIsRequested DEF Executing
    <3>2. \E s \in {"running"} \cup Service!Ends : status' = [status EXCEPT ![r] = s]
      BY <2>3 DEF SetStatus, Terminal, Service!Ends, Service!Stops
    <3>3. Service!Save(r)
      BY <1>2, <2>0, <2>1, <3>1, <3>2 DEF Service!Save
    <3> QED BY <3>3 DEF Service!Next
  <2> QED BY <2>2, <2>3, ExecView DEF RuntimeInv
<1> QED BY <1>3, <1>4, <1>5

LEMMA MessageServes ==
  ASSUME RuntimeInv, NEW r \in Runs, AdapterMessage(r)
  PROVE  Service!Next
<1>1. /\ exec[r] = "adapter" /\ ~Flagged(r) /\ messages' = messages \cup {r}
      /\ UNCHANGED <<arrivals, enq, waiting, orphans, exec, retry, stopped, status>>
  BY DEF AdapterMessage, enqueueState, sessionState, execState, stopState
<1>2. Phases[r] = "executing" /\ r \notin stopped
  BY <1>1, PhaseOf DEF Executing, RuntimeInv, StopInv, FlagInv
<1>3. UNCHANGED <<Dropped, Phases, Calls, Due>>
  BY <1>1 DEF Dropped, Phases, Calls, Due
<1>4. Service!Message(r)
  BY <1>1, <1>2, <1>3 DEF Service!Message
<1> QED BY <1>4 DEF Service!Next

\* finishRun: the session is handed over in turn, or goes idle.
LEMMA FinishServes ==
  ASSUME RuntimeInv, RuntimeInv', NEW r \in Runs, FinishRun(r)
  PROVE  Service!Next
<1> USE DEF ServiceInv
<1>0. TypeInv /\ ClaimInv /\ StopInv /\ OutcomeInv /\ ServiceInv /\ TypeInv' /\ OutcomeInv'
  BY DEF RuntimeInv
<1>1. /\ exec[r] = "leaving" /\ activeRun = r /\ enq[r] = "done"
      /\ \A s \in Runs : enq[s] # "starting"
      /\ UNCHANGED <<arrivals, enq, stopped, status, messages>>
  BY <1>0, RunsAssumption DEF FinishRun, ClaimInv, Executing, OutcomeInv, StartedInv,
     enqueueState, stored
<1>2. Calls' = [Calls EXCEPT ![r] = 0]
  <2>1. retry' = [retry EXCEPT ![r] = NewRetry]
    BY DEF FinishRun
  <2>2. retry'[r].calls = 0 /\ \A q \in Runs : q # r => retry'[q] = retry[q]
    BY <1>0, <2>1 DEF TypeInv, TypeOK, NewRetry
  <2> QED BY <2>2 DEF Calls
<1>3. Service!Over(r)
  <2>1. Phases[r] = "executing"
    BY <1>1, PhaseOf DEF Executing
  <2>2. /\ r \notin Faulty => status[r] \in Terminal
        /\ r \in stopped \ Faulty => status[r] \in StopKinds
    BY <1>0, <1>1 DEF OutcomeInv, RowInv, Settled
  <2>3. r \notin Due
    BY <1>1 DEF Due
  <2> QED BY <1>2, <2>1, <2>2, <2>3 DEF Service!Over, Service!Ends, Service!Stops, Terminal, StopKinds
<1>4. CASE HandOver(r)
  <2> DEFINE h == Head(queue)
  <2>1. /\ queue # <<>> /\ UNCHANGED <<orphans, waiting>>
        /\ exec' = [exec EXCEPT ![r] = "done", ![h] = "entry"]
    BY <1>4 DEF HandOver
  <2>2. h \in Runs /\ h = queue[1] /\ 1 \in DOMAIN queue
    BY <1>0, <2>1, TailElements DEF TypeInv, TypeOK
  <2>3. exec[h] = "none" /\ h \notin orphans /\ enq[h] = "done" /\ h # r
    BY <1>0, <1>1, <2>2 DEF UnstartedInv, StopInv, QueueInv
  <2> HIDE DEF h
  <2>4. /\ exec'[h] = "entry" /\ exec'[r] = "done"
        /\ \A q \in Runs : q \notin {r, h} => exec'[q] = exec[q]
    BY <1>0, <2>1, <2>2, <2>3 DEF TypeInv, TypeOK
  <2>5. Dropped' = Dropped /\ h \notin Dropped
    BY <1>1, <2>1, <2>3 DEF Dropped
  <2>6. Phases' = [Phases EXCEPT ![r] = "ended", ![h] = "executing"]
    BY <2>2, <2>3, <2>4 DEF Phases
  <2>7. \A q \in Runs : q # h /\ exec[q] = "none" => exec'[q] = "none"
    BY <1>1, <2>4
  <2>8. Service!Turn(h)
    BY <1>0, <1>1, <2>2, <2>3, <2>4, <2>5, <2>7, StartsInTurn
  <2>9. Due' = Due
    BY <1>1, <2>2, <2>3, <2>4 DEF Due
  <2>10. Service!HandOver(r)
    BY <1>1, <1>3, <2>1, <2>2, <2>5, <2>6, <2>8, <2>9 DEF Service!HandOver
  <2> QED BY <2>10 DEF Service!Next
<1>5. CASE GoIdle(r)
  <2> DEFINE lost == {q \in Runs : enq[q] = "queuing" /\ q \notin orphans}
  <2>1. /\ queue = <<>> /\ waiting' = {} /\ Goto(r, "done")
        /\ orphans' = orphans \cup {q \in Runs : enq[q] = "queuing"}
    BY <1>5 DEF GoIdle
  <2>2. Phases' = [Phases EXCEPT ![r] = "ended"]
    BY <1>0, <2>1, PhaseMove
  <2>3. Dropped' = Dropped \cup lost
    BY <1>1, <2>1 DEF Dropped
  <2>4. \A q, p \in lost : q = p
    BY <1>0, LockOrder DEF OutcomeInv, Returned
  <2>5. lost \in {{}} \cup {{q} : q \in Runs}
    BY <2>4
  <2>6. ASSUME NEW q \in lost PROVE Service!Waits(q) /\ status[q] # "none"
    <3>1. q \in Runs /\ q \notin Dropped /\ status[q] # "none" /\ exec[q] = "none"
      BY <1>0 DEF Dropped, SavedInv, OutcomeInv, StartedInv
    <3>2. Service!Requested(q)
      BY <3>1, SavedIsRequested
    <3> QED BY <3>1, <3>2, PhaseOf DEF Service!Waits
  <2>7. ASSUME NEW q \in Runs \ lost, Service!Waits(q)
        PROVE  status[q] \in {"none"} \cup Service!Stops \/ q \in Faulty
    <3>1. exec[q] = "none" /\ q \notin orphans /\ enq[q] # "rejected"
      BY <2>7, PhaseOf DEF Service!Waits
    <3>2. enq[q] \in {"idle", "locking", "done"}
      BY <1>0, <1>1, <3>1 DEF TypeInv, TypeOK, EnqStates, Returned
    <3>3. CASE enq[q] \in {"idle", "locking"}
      BY <1>0, <3>3 DEF SavedInv
    <3>4. CASE enq[q] = "done"
      BY <1>0, <2>1, <3>1, <3>4 DEF OutcomeInv, OrderInv, Service!Stops, StopKinds
    <3> QED BY <3>2, <3>3, <3>4
  <2> HIDE DEF lost
  <2>8. Due' = Due
    BY <1>0, <1>1, <2>1 DEF Due, Goto, TypeInv, TypeOK
  <2>9. Service!GoIdle(r)
    BY <1>1, <1>3, <2>1, <2>2, <2>3, <2>5, <2>6, <2>7, <2>8 DEF Service!GoIdle
  <2> QED BY <2>9 DEF Service!Next
<1> QED BY <1>4, <1>5 DEF FinishRun

\* cancelRun and failRun: what their callers see is the mark.
LEMMA StopServes ==
  ASSUME RuntimeInv, NEW r \in Runs, NEW k \in StopKinds, StopLookup(k, r) \/ StopStep(k, r)
  PROVE  Service!Next \/ UNCHANGED View
<1> USE DEF ServiceInv
<1>0. TypeInv /\ ClaimInv /\ ServiceInv
  BY DEF RuntimeInv
<1>1. /\ UNCHANGED <<arrivals, enq, activeRun, waiting, orphans, exec, retry, messages>>
      /\ UNCHANGED <<Dropped, Phases, Calls, Due>>
  <2>1. UNCHANGED <<arrivals, enq, activeRun, waiting, orphans, exec, retry, messages>>
    BY DEF StopLookup, StopStep, StopMark, StopEmit, StopReturn, enqueueState, sessionState,
       execState, stored
  <2> QED BY <2>1 DEF Dropped, Phases, Calls, Due
<1>2. CASE ~StopMark(k, r)
  BY <1>1, <1>2 DEF StopLookup, StopStep, StopEmit, StopReturn, stored, View
<1>3. CASE StopMark(k, r)
  <2>1. /\ stop[k][r] = "read"
        /\ stopped' = IF activeRun = r THEN stopped \cup {r} ELSE stopped
        /\ status' = [status EXCEPT ![r] = k] \/ (r \in Faulty /\ UNCHANGED status)
    BY <1>3 DEF StopMark, SetStatus
  <2>2. status[r] # "none" /\ Service!Requested(r)
    BY <1>0, <2>1, SavedIsRequested DEF SavedInv
  <2>3. k \in Service!Stops /\ k \in Service!Ends
    BY DEF StopKinds, Service!Stops, Service!Ends
  <2>4. CASE activeRun = r
    <3>1. Phases[r] = "executing"
      BY <1>0, <2>4, PhaseOf, RunsAssumption DEF OwnerInv
    <3>2. Service!Stop(r)
      BY <1>1, <2>1, <2>3, <2>4, <3>1 DEF Service!Stop
    <3> QED BY <3>2 DEF Service!Next
  <2>5. CASE activeRun # r /\ UNCHANGED status
    BY <1>1, <2>1, <2>5 DEF View
  <2>6. CASE activeRun # r /\ status' = [status EXCEPT ![r] = k]
    <3>1. Service!Save(r)
      BY <1>1, <2>1, <2>2, <2>3, <2>6 DEF Service!Save
    <3> QED BY <3>1 DEF Service!Next
  <2> QED BY <2>1, <2>4, <2>5, <2>6
<1> QED BY <1>2, <1>3

LEMMA WaitServes ==
  ASSUME RuntimeInv, NEW w \in Waiters, WaitForIdle(w)
  PROVE  Service!Next
<1>1. /\ waiting' = waiting \cup {w}
      /\ UNCHANGED <<arrivals, enq, orphans, exec, retry, stopped, status, messages>>
  BY DEF WaitForIdle, enqueueState, execState, stopState, stored
<1>2. UNCHANGED <<Dropped, Phases, Calls, Due>>
  BY <1>1 DEF Dropped, Phases, Calls, Due
<1>3. \E r \in Runs : Service!Requested(r)
  <2>1. arrivals # <<>>
    BY DEF WaitForIdle, RuntimeInv, ServiceInv, OwnerInv, ClaimInv, OutcomeInv, IdleInv
  <2>2. arrivals \in Seq(Runs)
    BY DEF RuntimeInv, TypeInv, TypeOK
  <2>3. 1 \in DOMAIN arrivals /\ arrivals[1] \in Runs
    BY <2>1, <2>2
  <2> QED BY <2>3 DEF Service!Requested
<1>4. Service!Wait(w)
  BY <1>1, <1>2, <1>3 DEF Service!Wait
<1> QED BY <1>4 DEF Service!Next

LEMMA ServiceStep == RuntimeInv /\ RuntimeInv' /\ [Next]_vars => [Service!Next]_View
<1> SUFFICES ASSUME RuntimeInv, RuntimeInv', [Next]_vars PROVE Service!Next \/ UNCHANGED View
  OBVIOUS
<1>1. ASSUME NEW r \in Runs, ExecStep(r) \/ AdapterStep(r) \/ WriteThrows(r) \/ ExecutionEscapes(r)
      PROVE  Service!Next \/ UNCHANGED View
  BY <1>1, ExecServes, MessageServes, FinishServes
<1>2. CASE UNCHANGED vars
  BY <1>2 DEF vars, enqueueState, sessionState, execState, stopState, stored, View, Dropped,
     Phases, Calls, Due
<1> QED BY <1>1, <1>2, EnqueueServes, StopServes, WaitServes DEF Next

\* A session keeps what RunService promises its users: one run at a time and in
\* the order of the requests, bounded calls, stopped runs that stay silent and
\* end stopped, rows that follow their runs, and no run and no waiter forgotten,
\* however enqueue, executeRun, finishRun and the stop calls interleave and
\* whichever runs' persistence calls reject.
THEOREM ImplementsService == Spec => ImplementsRunService
<1>1. Init => Service!Init
  BY DEF Init, Service!Init, Dropped, Phases, Calls, Due, NewRetry
<1> QED BY <1>1, RuntimeInvariant, ServiceStep, PTL
           DEF Spec, ImplementsRunService, Service!Spec, Service!vars, View

-----------------------------------------------------------------------------
(* What keeps the session going *)

\* Whoever waits for the session, in its queue or in waitForIdle, waits for a run
\* that executes or for an enqueue call that is about to start one; unless the
\* persistence of the run that had claimed the session rejected in its enqueue.
NobodyStranded ==
  queue # <<>> \/ waiting # {} =>
    \/ \E r \in Runs : Executing(r) \/ enq[r] = "starting"
    \/ \E r \in Faulty : enq[r] = "rejected"

\* The claim on the session has an owner, and waiters only wait for a claim.
HolderInv ==
  /\ running => \/ activeRun # NoRun
                \/ \E r \in Runs : enq[r] = "starting"
                \/ \E r \in Faulty : enq[r] = "rejected"
  /\ waiting # {} => running

\* An adapter call of a run that was stopped while active has been told to end,
\* or the stop call that will tell it is at work; it is at work, too, when the stop
\* has overtaken the decision to call the adapter and the call is still to come.
AbortReaches ==
  \A r \in stopped \ Faulty :
    /\ exec[r] = "adapter" => r \in aborted \/ \E k \in StopKinds : stop[k][r] \in {"emit", "abort"}
    /\ exec[r] = "calling" => \E k \in StopKinds : stop[k][r] \in {"emit", "abort"}

LEMMA HolderEnqueue ==
  ASSUME RuntimeInv, HolderInv, NEW r \in Runs, Enqueue(r) \/ SessionMissing(r) \/ EnqueueStep(r)
  PROVE  HolderInv'
<1> USE DEF RuntimeInv, HolderInv, EnqGoto, TypeInv, TypeOK
<1>1. UNCHANGED waiting /\ \A s \in Runs : s # r => enq'[s] = enq[s]
  BY DEF Enqueue, SessionMissing, EnqueueStep, CreateRun, AnnounceCreated, PushRun, StartRun, sessionState
<1>2. Faulty \subseteq Runs
  BY CallersAssumption
<1>3. CASE Enqueue(r) \/ SessionMissing(r) \/ PushRun(r)
  <2>1. /\ UNCHANGED <<running, activeRun>>
        /\ enq[r] \notin {"starting", "rejected"}
    BY <1>3 DEF Enqueue, SessionMissing, PushRun, sessionState
  <2> QED BY <1>1, <1>2, <2>1
<1>4. CASE CreateRun(r)
  <2>1. /\ running' /\ UNCHANGED activeRun /\ enq[r] = "locking"
        /\ running \/ enq'[r] = "starting" \/ (r \in Faulty /\ enq'[r] = "rejected")
    BY <1>4 DEF CreateRun
  <2> QED BY <1>1, <1>2, <2>1
<1>5. CASE AnnounceCreated(r)
  <2>1. /\ UNCHANGED <<running, activeRun>>
        /\ enq'[r] = enq[r] \/ (r \in Faulty /\ enq'[r] = "rejected")
    BY <1>5 DEF AnnounceCreated, sessionState
  <2> QED BY <1>1, <1>2, <2>1
<1>6. CASE StartRun(r)
  BY <1>1, <1>6, RunsAssumption DEF StartRun
<1> QED BY <1>3, <1>4, <1>5, <1>6 DEF EnqueueStep

LEMMA HolderNext == RuntimeInv /\ HolderInv /\ [Next]_vars => HolderInv'
<1> SUFFICES ASSUME RuntimeInv, HolderInv, [Next]_vars PROVE HolderInv'
  OBVIOUS
<1>1. ASSUME UNCHANGED <<enq, running, activeRun, waiting>>
      PROVE  HolderInv'
  BY <1>1 DEF HolderInv
<1>2. ASSUME NEW r \in Runs, ExecStep(r) \/ AdapterStep(r) \/ WriteThrows(r) \/ ExecutionEscapes(r)
      PROVE  HolderInv'
  <2>1. CASE FinishRun(r)
    <3>1. CASE HandOver(r)
      <4>1. activeRun' # NoRun /\ UNCHANGED <<running, waiting>>
        BY <3>1, HeadTailProperties, RunsAssumption DEF HandOver, RuntimeInv, TypeInv, TypeOK
      <4> QED BY <4>1 DEF HolderInv
    <3>2. CASE GoIdle(r)
      BY <3>2 DEF GoIdle, HolderInv
    <3> QED BY <2>1, <3>1, <3>2 DEF FinishRun
  <2>2. CASE AdapterMessage(r)
    BY <1>1, <2>2 DEF AdapterMessage, enqueueState, sessionState
  <2>3. CASE ~FinishRun(r) /\ ~AdapterMessage(r)
    BY <1>1, <1>2, <2>3, ExecMoves DEF RuntimeInv, enqueueState, sessionState
  <2> QED BY <2>1, <2>2, <2>3
<1>3. ASSUME NEW r \in Runs, NEW k \in StopKinds, StopLookup(k, r) \/ StopStep(k, r)
      PROVE  HolderInv'
  BY <1>1, <1>3 DEF StopLookup, StopStep, StopMark, StopEmit, StopReturn, enqueueState, sessionState
<1>4. ASSUME NEW w \in Waiters, WaitForIdle(w)
      PROVE  HolderInv'
  BY <1>4 DEF WaitForIdle, enqueueState, HolderInv, RuntimeInv, ClaimInv, OutcomeInv, IdleInv
<1>5. CASE UNCHANGED vars
  BY <1>1, <1>5 DEF vars, enqueueState, sessionState
<1> QED BY <1>2, <1>3, <1>4, <1>5, HolderEnqueue DEF Next

\* Nobody waits for a session that has no run: no queued run and no waitForIdle
\* call is left behind when finishRun hands the session over or deletes it.
THEOREM NobodyIsStranded == Spec => []NobodyStranded
<1>1. Init => HolderInv
  BY DEF Init, HolderInv
<1>2. RuntimeInv /\ HolderInv => NobodyStranded
  <2> SUFFICES ASSUME RuntimeInv, HolderInv, queue # <<>> \/ waiting # {}
               PROVE  \/ \E r \in Runs : Executing(r) \/ enq[r] = "starting"
                      \/ \E r \in Faulty : enq[r] = "rejected"
    BY DEF NobodyStranded
  <2>1. running
    BY DEF HolderInv, RuntimeInv, OutcomeInv, IdleInv
  <2>2. activeRun # NoRun => activeRun \in Runs /\ Executing(activeRun)
    BY DEF RuntimeInv, ServiceInv, OwnerInv, TypeInv, TypeOK
  <2> QED BY <2>1, <2>2 DEF HolderInv
<1> QED BY <1>1, <1>2, RuntimeInvariant, HolderNext, PTL DEF Spec

LEMMA AbortNext == RuntimeInv /\ AbortReaches /\ [Next]_vars => AbortReaches'
<1> SUFFICES ASSUME RuntimeInv, AbortReaches, [Next]_vars PROVE AbortReaches'
  OBVIOUS
<1>1. ASSUME UNCHANGED <<exec, aborted, stop, stopped>>
      PROVE  AbortReaches'
  BY <1>1 DEF AbortReaches
<1>2. ASSUME NEW r \in Runs, UNCHANGED <<aborted, stop, stopped>>,
             exec'[r] \notin {"adapter", "calling"}, \A s \in Runs : s # r => exec'[s] = exec[s]
      PROVE  AbortReaches'
  BY <1>2 DEF AbortReaches, RuntimeInv, TypeInv, TypeOK
<1>3. ASSUME NEW r \in Runs, Enqueue(r) \/ SessionMissing(r) \/ EnqueueStep(r)
      PROVE  AbortReaches'
  <2>1. CASE StartRun(r)
    <3>1. Goto(r, "entry") /\ UNCHANGED <<aborted, stop, stopped>>
      BY <2>1 DEF StartRun, stopState
    <3> QED BY <1>2, <3>1 DEF Goto, RuntimeInv, TypeInv, TypeOK
  <2>2. CASE ~StartRun(r)
    BY <1>1, <1>3, <2>2 DEF Enqueue, SessionMissing, EnqueueStep, CreateRun, AnnounceCreated, PushRun,
       execState, stopState
  <2> QED BY <2>1, <2>2
<1>4. ASSUME NEW r \in Runs, ExecStep(r) \/ AdapterStep(r) \/ WriteThrows(r) \/ ExecutionEscapes(r)
      PROVE  AbortReaches'
  <2>1. CASE FinishRun(r)
    <3>1. UNCHANGED <<stop, stopped>> /\ aborted' = aborted \ {r} /\ exec[r] = "leaving"
      BY <2>1 DEF FinishRun
    <3>2. \A s \in Runs : exec'[s] \in {"adapter", "calling"} => exec'[s] = exec[s]
      BY <2>1 DEF FinishRun, HandOver, GoIdle, Goto, RuntimeInv, TypeInv, TypeOK
    <3> QED BY <3>1, <3>2 DEF AbortReaches, RuntimeInv, TypeInv, TypeOK
  <2>2. CASE AdapterMessage(r)
    BY <1>1, <2>2 DEF AdapterMessage, execState, stopState
  <2>3. CASE CallAdapter(r)
    <3>1. /\ UNCHANGED <<stop, stopped>> /\ aborted' = aborted \ {r} /\ Goto(r, "adapter")
          /\ exec[r] = "calling"
      BY <2>3 DEF CallAdapter, stopState
    <3> QED BY <3>1 DEF AbortReaches, Goto, RuntimeInv, TypeInv, TypeOK
  <2>4. CASE CheckLoop(r)
    <3>1. /\ UNCHANGED <<aborted, stop, stopped>> /\ exec[r] = "loop"
          /\ Goto(r, IF ~Flagged(r) THEN "calling"
                     ELSE IF status[r] = StopTarget(r) THEN "leaving" ELSE ApplyAt(StopTarget(r)))
      BY <2>4 DEF CheckLoop, CheckStops, stopState
    <3>2. CASE ~Flagged(r)
      <4>1. r \notin stopped
        BY <3>1, <3>2 DEF RuntimeInv, StopInv, FlagInv, Executing
      <4> QED BY <3>1, <3>2, <4>1 DEF AbortReaches, Goto, RuntimeInv, TypeInv, TypeOK
    <3>3. CASE Flagged(r)
      BY <1>2, <3>1, <3>3 DEF Goto, ApplyAt, RuntimeInv, TypeInv, TypeOK
    <3> QED BY <3>2, <3>3
  <2>5. CASE ~FinishRun(r) /\ ~AdapterMessage(r) /\ ~CallAdapter(r) /\ ~CheckLoop(r)
    <3>1. /\ \E l \in ExecStates \ {"adapter", "calling"} : Goto(r, l)
          /\ UNCHANGED <<aborted, stop, stopped>>
      BY <1>4, <2>5, ExecElsewhere
    <3> QED BY <1>2, <3>1 DEF Goto, RuntimeInv, TypeInv, TypeOK
  <2> QED BY <2>1, <2>2, <2>3, <2>4, <2>5
<1>5. ASSUME NEW r \in Runs, NEW k \in StopKinds, StopLookup(k, r) \/ StopStep(k, r)
      PROVE  AbortReaches'
  <2>1. /\ UNCHANGED exec
        /\ \A j \in StopKinds, s \in Runs : <<j, s>> # <<k, r>> => stop'[j][s] = stop[j][s]
    BY <1>5 DEF StopLookup, StopStep, StopMark, StopEmit, StopReturn, StopGoto, execState,
       RuntimeInv, TypeInv, TypeOK
  <2>2. CASE StopLookup(k, r)
    BY <2>1, <2>2 DEF StopLookup, StopGoto, execState, AbortReaches, RuntimeInv, TypeInv, TypeOK
  <2>3. CASE StopMark(k, r)
    <3>1. /\ UNCHANGED aborted /\ stopped' \subseteq stopped \cup {r} /\ stop[k][r] = "read"
          /\ r \notin Faulty => stop'[k][r] = "emit"
      BY <2>3 DEF StopMark, StopGoto, execState, RuntimeInv, TypeInv, TypeOK
    <3> QED BY <2>1, <3>1 DEF AbortReaches, RuntimeInv, TypeInv, TypeOK
  <2>4. CASE StopEmit(k, r)
    <3>1. /\ UNCHANGED <<aborted, stopped>>
          /\ r \notin Faulty => stop'[k][r] = "abort"
      BY <2>4 DEF StopEmit, StopGoto, execState, RuntimeInv, TypeInv, TypeOK
    <3> QED BY <2>1, <3>1 DEF AbortReaches, RuntimeInv, TypeInv, TypeOK
  <2>5. CASE StopReturn(k, r)
    <3>1. /\ UNCHANGED stopped /\ exec[r] # "calling"
          /\ aborted' = IF exec[r] = "adapter" THEN aborted \cup {r} ELSE aborted
      BY <2>5 DEF StopReturn
    <3> QED BY <2>1, <3>1 DEF AbortReaches, RuntimeInv, TypeInv, TypeOK
  <2> QED BY <1>5, <2>2, <2>3, <2>4, <2>5 DEF StopStep
<1>6. ASSUME NEW w \in Waiters, WaitForIdle(w)
      PROVE  AbortReaches'
  BY <1>1, <1>6 DEF WaitForIdle, execState, stopState
<1>7. CASE UNCHANGED vars
  BY <1>1, <1>7 DEF vars, execState, stopState
<1> QED BY <1>3, <1>4, <1>5, <1>6, <1>7 DEF Next

\* The safety half of StopEndsRun: the abort of a stop call never comes too early
\* for the adapter call it must end, since a stopped run calls its adapter again
\* only if the stop has overtaken that very decision.
THEOREM AbortsReachTheAdapter == Spec => []AbortReaches
<1>1. Init => AbortReaches
  BY DEF Init, AbortReaches
<1> QED BY <1>1, RuntimeInvariant, AbortNext, PTL DEF Spec

\* Whenever an enqueue call waits for the lock of the session, one call holds it.
LockHeld ==
  (\E r \in Runs : enq[r] \notin {"idle"} \cup Returned) => \E r \in Runs : LockHolder(r)

\* The enqueue calls of a session never all wait for one another: the earliest call
\* that has not returned is the holder of the lock.
THEOREM LockIsHeld == Spec => []LockHeld
<1>1. RuntimeInv => LockHeld
  <2> SUFFICES ASSUME RuntimeInv, NEW r \in Runs, enq[r] \notin {"idle"} \cup Returned
               PROVE  \E s \in Runs : LockHolder(s)
    BY DEF LockHeld
  <2> DEFINE Open == {i \in DOMAIN arrivals : enq[arrivals[i]] \notin {"idle"} \cup Returned}
             R == {ss \in Nat \X Nat : ss[1] < ss[2]}
  <2>1. /\ arrivals \in Seq(Runs) /\ DOMAIN arrivals \subseteq Nat
        /\ \A i \in DOMAIN arrivals : enq[arrivals[i]] # "idle"
        /\ \A i \in DOMAIN arrivals : 1 .. (i - 1) \subseteq DOMAIN arrivals
    BY DEF RuntimeInv, TypeInv, TypeOK, OutcomeInv, ArriveInv
  <2>2. Open \subseteq Nat /\ Open # {}
    BY <2>1 DEF RuntimeInv, OutcomeInv, ArriveInv
  <2>3. IsWellFoundedOn(R, Nat)
    <3>1. OpToRel(<, Nat) = R
      BY DEF OpToRel
    <3> QED BY <3>1, NatLessThanWellFounded
  <2>4. PICK x \in Open : \A y \in Open : <<y, x>> \notin R
    <3> HIDE DEF R, Open
    <3> QED BY <2>2, <2>3, WFMin
  <2>5. \A j \in 1 .. (x - 1) : enq[arrivals[j]] \in Returned
    <3>1. \A j \in 1 .. (x - 1) : <<j, x>> \in R
      BY <2>2, <2>4
    <3> QED BY <2>1, <2>4, <3>1
  <2> QED BY <2>1, <2>4, <2>5 DEF LockHolder
<1> QED BY <1>1, RuntimeInvariant, PTL
=============================================================================
