------------------------- MODULE AgentRuntimeProofs -------------------------
(***************************************************************************)
(* Proofs about AgentRuntime for every set of runs and callers and every   *)
(* retry budget, with and without failing persistence calls: its types,    *)
(* that a session never executes two runs, that the adapter calls of a run *)
(* stay within the two retry budgets, and that a stopped run takes no      *)
(* further message.                                                        *)
(***************************************************************************)
EXTENDS AgentRuntime, SequenceTheorems, TLAPS

-----------------------------------------------------------------------------
(* Types *)

\* The retry states are entered only while their budget lasts.
BudgetOK ==
  \A r \in Runs :
    /\ exec[r] = "saveRetry" => retry[r].attempt < MaxRetries
    /\ exec[r] = "recompact" => retry[r].overflows < MaxOverflowRetries

TypeInv == TypeOK /\ BudgetOK

\* Removing a run from a queue leaves a queue, all of whose runs were there.
LEMMA WithoutSeq ==
  ASSUME NEW q \in Seq(Runs), NEW r \in Runs
  PROVE  Without(q, r) \in Seq(Runs)
<1>1. CASE \E i \in DOMAIN q : q[i] = r
  <2> DEFINE k == CHOOSE i \in DOMAIN q : q[i] = r
             f == [i \in 1 .. (Len(q) - 1) |-> IF i < k THEN q[i] ELSE q[i + 1]]
  <2>1. k \in 1 .. Len(q) /\ Len(q) \in Nat
    BY <1>1
  <2>2. \A i \in 1 .. (Len(q) - 1) : f[i] \in Runs
    BY <2>1
  <2>3. Len(q) - 1 \in Nat
    BY <2>1
  <2>4. f \in Seq(Runs)
    BY <2>2, <2>3, IsASeq
  <2> QED BY <1>1, <2>4 DEF Without
<1>2. CASE ~ \E i \in DOMAIN q : q[i] = r
  BY <1>2 DEF Without
<1> QED BY <1>1, <1>2

LEMMA TypeInit == Init => TypeInv
<1> SUFFICES ASSUME Init PROVE TypeInv
  OBVIOUS
<1>1. NewRetry \in Retries
  BY BoundsAssumption DEF NewRetry, Retries
<1>2. arrivals \in Seq(Runs) /\ queue \in Seq(Runs)
  BY DEF Init
<1>3. /\ retry \in [Runs -> Retries]
      /\ events \in [Runs -> SUBSET Events]
      /\ flagged \in [StopKinds -> SUBSET Runs]
  BY <1>1 DEF Init
<1>4. /\ enq \in [Runs -> EnqStates]
      /\ exec \in [Runs -> ExecStates]
      /\ status \in [Runs -> {"none", "queued", "running"} \cup Terminal]
      /\ stop \in [StopKinds -> [Runs -> {"idle", "read", "emit", "abort"}]]
  BY DEF Init, EnqStates, ExecStates
<1>5. TypeOK
  BY <1>2, <1>3, <1>4 DEF Init, TypeOK
<1>6. BudgetOK
  BY DEF Init, BudgetOK
<1> QED BY <1>5, <1>6 DEF TypeInv

\* Emitting one of the events keeps the type of the event log.
LEMMA EmitTypes ==
  ASSUME TypeOK, NEW r \in Runs, NEW e \in Events, Emit(r, e)
  PROVE  events' \in [Runs -> SUBSET Events]
  BY DEF TypeOK, Emit

\* The caller of stop moves between its four states.
LEMMA StopGotoTypes ==
  ASSUME TypeOK, NEW r \in Runs, NEW k \in StopKinds,
         NEW l \in {"idle", "read", "emit", "abort"}, StopGoto(k, r, l)
  PROVE  stop' \in [StopKinds -> [Runs -> {"idle", "read", "emit", "abort"}]]
<1>1. [stop[k] EXCEPT ![r] = l] \in [Runs -> {"idle", "read", "emit", "abort"}]
  BY DEF TypeOK
<1>2. stop' = [stop EXCEPT ![k] = [stop[k] EXCEPT ![r] = l]]
  BY DEF StopGoto
<1> QED BY <1>1, <1>2 DEF TypeOK

\* Counting on within a budget gives counters again.
LEMMA Counting ==
  ASSUME NEW old \in Retries
  PROVE  /\ [old EXCEPT !.calls = @ + 1] \in Retries
         /\ old.attempt < MaxRetries => [old EXCEPT !.attempt = @ + 1] \in Retries
         /\ \A tier \in -1 .. MaxOverflowRetries :
              /\ [old EXCEPT !.tier = tier] \in Retries
              /\ old.overflows < MaxOverflowRetries =>
                   [old EXCEPT !.tier = tier, !.overflows = @ + 1] \in Retries
<1>1. /\ old.calls + 1 \in Nat
      /\ old.attempt < MaxRetries => old.attempt + 1 \in 0 .. MaxRetries
      /\ old.overflows < MaxOverflowRetries => old.overflows + 1 \in 0 .. MaxOverflowRetries
  BY BoundsAssumption DEF Retries
<1> QED BY <1>1 DEF Retries

\* The counters of one run are counted on; the others keep theirs.
LEMMA RetryUpdate ==
  ASSUME TypeOK, NEW r \in Runs, NEW new \in Retries, retry' = [retry EXCEPT ![r] = new]
  PROVE  /\ retry' \in [Runs -> Retries]
         /\ retry'[r] = new
         /\ \A s \in Runs \ {r} : retry'[s] = retry[s]
  BY DEF TypeOK

\* The steps of enqueue, of waitForIdle and of the callers of stop keep the types.
LEMMA EnqueueTypes ==
  ASSUME TypeInv, NEW r \in Runs,
         Enqueue(r) \/ SessionMissing(r) \/ EnqueueStep(r)
  PROVE  TypeInv'
<1> USE DEF TypeInv, TypeOK, BudgetOK, enqueueState, sessionState, execState, stopState,
            stored, EnqGoto, SetStatus, Goto, EnqStates, ExecStates, Terminal, Returned
<1>1. CASE Enqueue(r)
  <2>1. arrivals' \in Seq(Runs)
    BY <1>1, AppendProperties DEF Enqueue
  <2> QED BY <1>1, <2>1 DEF Enqueue
<1>2. CASE SessionMissing(r)
  BY <1>2 DEF SessionMissing
<1>3. CASE CreateRun(r)
  BY <1>3 DEF CreateRun
<1>4. CASE AnnounceCreated(r)
  <2>1. "created" \in Events
    BY DEF Events
  <2>2. CASE Emit(r, "created") /\ UNCHANGED enq
    BY <1>4, <2>1, <2>2, EmitTypes DEF AnnounceCreated
  <2>3. CASE EnqGoto(r, "rejected") /\ UNCHANGED events
    BY <1>4, <2>3 DEF AnnounceCreated
  <2> QED BY <1>4, <2>2, <2>3 DEF AnnounceCreated
<1>5. CASE PushRun(r)
  <2>1. queue' \in Seq(Runs)
    BY <1>5, AppendProperties DEF PushRun
  <2> QED BY <1>5, <2>1 DEF PushRun
<1>6. CASE StartRun(r)
  BY <1>6 DEF StartRun
<1> QED BY <1>1, <1>2, <1>3, <1>4, <1>5, <1>6 DEF EnqueueStep

LEMMA StopTypes ==
  ASSUME TypeInv, NEW r \in Runs, NEW k \in StopKinds,
         StopLookup(k, r) \/ StopStep(k, r)
  PROVE  TypeInv'
<1> USE DEF TypeInv, TypeOK, BudgetOK, enqueueState, sessionState, execState, stopState,
            stored, StopGoto, SetStatus, Terminal, StopKinds
<1>1. CASE StopLookup(k, r)
  BY <1>1 DEF StopLookup
<1>2. CASE StopMark(k, r)
  <2>1. queue' \in Seq(Runs)
    BY <1>2, WithoutSeq DEF StopMark
  <2>2. flagged' \in [StopKinds -> SUBSET Runs]
    BY <1>2 DEF StopMark
  <2>3. stopped' \subseteq Runs
    BY <1>2 DEF StopMark
  <2>4. stop' \in [StopKinds -> [Runs -> {"idle", "read", "emit", "abort"}]]
    BY <1>2, StopGotoTypes DEF StopMark
  <2>5. status' \in [Runs -> {"none", "queued", "running"} \cup Terminal]
    BY <1>2 DEF StopMark
  <2> QED BY <1>2, <2>1, <2>2, <2>3, <2>4, <2>5 DEF StopMark
<1>3. CASE StopEmit(k, r)
  <2>1. k \in Events
    BY DEF Events
  <2>2. events' \in [Runs -> SUBSET Events]
    BY <1>3, <2>1, EmitTypes DEF StopEmit
  <2>3. stop' \in [StopKinds -> [Runs -> {"idle", "read", "emit", "abort"}]]
    BY <1>3, StopGotoTypes DEF StopEmit
  <2> QED BY <1>3, <2>2, <2>3 DEF StopEmit
<1>4. CASE StopReturn(k, r)
  BY <1>4 DEF StopReturn
<1> QED BY <1>1, <1>2, <1>3, <1>4 DEF StopStep

\* A check of the flags leaves, repairs the row, or goes on to a state whose
\* budget lasts.
LEMMA CheckStopsTypes ==
  ASSUME TypeInv, NEW r \in Runs, NEW from, NEW to \in ExecStates,
         to = "saveRetry" => retry[r].attempt < MaxRetries,
         to = "recompact" => retry[r].overflows < MaxOverflowRetries,
         CheckStops(r, from, to)
  PROVE  TypeInv'
<1>1. \E l \in {to, "leaving", "applyCancelled", "applyFailed"} : Goto(r, l)
  BY DEF CheckStops, ApplyAt
<1>2. UNCHANGED <<enqueueState, sessionState, retry, aborted, stopState, stored>>
  BY DEF CheckStops
<1> QED BY <1>1, <1>2 DEF TypeInv, TypeOK, BudgetOK, enqueueState, sessionState, stopState,
           stored, Goto, ExecStates

\* A step that only moves executeRun to a state without a budget.
LEMMA GotoTypes ==
  ASSUME TypeInv, NEW r \in Runs, NEW l \in ExecStates \ {"saveRetry", "recompact"}, Goto(r, l),
         UNCHANGED <<enqueueState, sessionState, retry, aborted, stopState, stored>>
  PROVE  TypeInv'
  BY DEF TypeInv, TypeOK, BudgetOK, enqueueState, sessionState, stopState, stored, Goto,
         ExecStates

LEMMA SaveStatusTypes ==
  ASSUME TypeInv, NEW r \in Runs, NEW from, NEW s \in {"running"} \cup Terminal,
         NEW l \in ExecStates \ {"saveRetry", "recompact"}, SaveStatus(r, from, s, l)
  PROVE  TypeInv'
  BY DEF TypeInv, TypeOK, BudgetOK, enqueueState, sessionState, stopState, Goto, SaveStatus,
         SetStatus

LEMMA EmitEventTypes ==
  ASSUME TypeInv, NEW r \in Runs, NEW from, NEW e \in Events,
         NEW l \in ExecStates \ {"saveRetry", "recompact"}, EmitEvent(r, from, e, l)
  PROVE  TypeInv'
<1>1. events' \in [Runs -> SUBSET Events]
  BY EmitTypes DEF EmitEvent, TypeInv
<1> QED BY <1>1 DEF TypeInv, TypeOK, BudgetOK, enqueueState, sessionState, stopState, Goto,
           EmitEvent

\* The steps of executeRun up to the adapter call, and those of the adapter.
LEMMA StartTypes ==
  ASSUME TypeInv, NEW r \in Runs,
         \/ CheckEntry(r) \/ SaveRunning(r) \/ CompactLocally(r) \/ CheckLoop(r)
         \/ CallAdapter(r) \/ AdapterStep(r)
  PROVE  TypeInv'
<1> USE DEF Terminal, ErrorKinds
<1>1. CASE CheckEntry(r)
  BY <1>1, CheckStopsTypes DEF CheckEntry, ExecStates
<1>2. CASE SaveRunning(r)
  BY <1>2, SaveStatusTypes DEF SaveRunning, ExecStates
<1>3. CASE CompactLocally(r)
  <2>1. PICK tier \in {-1, 0} : retry' = [retry EXCEPT ![r].tier = tier]
    BY <1>3 DEF CompactLocally
  <2>2. [retry[r] EXCEPT !.tier = tier] \in Retries
    <3>1. tier \in -1 .. MaxOverflowRetries
      BY <2>1, BoundsAssumption
    <3> QED BY <3>1, Counting DEF TypeInv, TypeOK
  <2>3. retry' \in [Runs -> Retries]
    BY <2>1, <2>2, RetryUpdate DEF TypeInv
  <2> QED BY <1>3, <2>3 DEF CompactLocally, TypeInv, TypeOK, BudgetOK, enqueueState,
             sessionState, stopState, stored, Goto, ExecStates
<1>4. CASE CheckLoop(r)
  BY <1>4, CheckStopsTypes DEF CheckLoop, ExecStates
<1>5. CASE CallAdapter(r)
  <2>1. [retry[r] EXCEPT !.calls = @ + 1] \in Retries
    BY Counting DEF TypeInv, TypeOK
  <2>2. retry' \in [Runs -> Retries]
    BY <1>5, <2>1, RetryUpdate DEF CallAdapter, TypeInv
  <2> QED BY <1>5, <2>2 DEF CallAdapter, TypeInv, TypeOK, BudgetOK, enqueueState, sessionState, stopState,
              stored, Goto, ExecStates
<1>6. CASE AdapterMessage(r)
  BY <1>6 DEF AdapterMessage, TypeInv, TypeOK, BudgetOK, enqueueState, sessionState,
              execState, stopState
<1>7. CASE AdapterReturns(r)
  BY <1>7, GotoTypes DEF AdapterReturns, ExecStates
<1>8. CASE AdapterThrows(r)
  BY <1>8, GotoTypes DEF AdapterThrows, Throw, ExecStates
<1> QED BY <1>1, <1>2, <1>3, <1>4, <1>5, <1>6, <1>7, <1>8 DEF AdapterStep

\* The steps after the adapter has returned or thrown.
LEMMA EndTypes ==
  ASSUME TypeInv, NEW r \in Runs,
         \/ CheckReturned(r) \/ SaveSucceeded(r) \/ CheckSaved(r) \/ EmitSucceeded(r)
         \/ WriteThrows(r) \/ SaveFailed(r) \/ EmitFailed(r) \/ ExecutionEscapes(r)
         \/ \E k \in StopKinds : ApplyStop(k, r)
  PROVE  TypeInv'
<1> USE DEF Terminal, ErrorKinds
<1>1. CASE CheckReturned(r)
  BY <1>1, CheckStopsTypes DEF CheckReturned, ExecStates
<1>2. CASE SaveSucceeded(r)
  BY <1>2, SaveStatusTypes DEF SaveSucceeded, ExecStates
<1>3. CASE CheckSaved(r)
  BY <1>3, CheckStopsTypes DEF CheckSaved, ExecStates
<1>4. CASE EmitSucceeded(r)
  BY <1>4, EmitEventTypes DEF EmitSucceeded, ExecStates, Events
<1>5. CASE WriteThrows(r)
  BY <1>5, GotoTypes DEF WriteThrows, Throw, ExecStates
<1>6. CASE SaveFailed(r)
  BY <1>6, SaveStatusTypes DEF SaveFailed, ExecStates
<1>7. CASE EmitFailed(r)
  BY <1>7, EmitEventTypes DEF EmitFailed, ExecStates, Events
<1>8. CASE ExecutionEscapes(r)
  BY <1>8, GotoTypes DEF ExecutionEscapes, ExecStates
<1>9. ASSUME NEW k \in StopKinds, ApplyStop(k, r)
      PROVE  TypeInv'
  BY <1>9, SaveStatusTypes DEF ApplyStop, SaveStatus, ExecStates, StopKinds
<1> QED BY <1>1, <1>2, <1>3, <1>4, <1>5, <1>6, <1>7, <1>8, <1>9

\* The catch's retries, and the end of the run with the hand-over.
LEMMA RetryTypes ==
  ASSUME TypeInv, NEW r \in Runs,
         CheckThrown(r) \/ Recompact(r) \/ SaveRetry(r) \/ BackoffEnds(r) \/ FinishRun(r)
  PROVE  TypeInv'
<1> USE DEF Terminal, ErrorKinds
<1>1. CASE CheckThrown(r)
  <2>1. PICK error \in ErrorKinds : CheckStops(r, error, AfterError(r, error))
    BY <1>1 DEF CheckThrown
  <2>2. /\ AfterError(r, error) \in {"recompact", "saveRetry", "saveFailed"}
        /\ AfterError(r, error) = "saveRetry" => retry[r].attempt < MaxRetries
        /\ AfterError(r, error) = "recompact" => retry[r].overflows < MaxOverflowRetries
    BY DEF AfterError
  <2>3. AfterError(r, error) \in ExecStates
    BY <2>2 DEF ExecStates
  <2> QED BY <2>1, <2>2, <2>3, CheckStopsTypes
<1>2. CASE Recompact(r)
  <2>1. CASE UNCHANGED retry /\ Goto(r, "saveFailed")
    BY <1>2, <2>1, GotoTypes DEF Recompact, ExecStates
  <2>2. ASSUME NEW tier \in (retry[r].tier + 1) .. MaxOverflowRetries,
               retry' = [retry EXCEPT ![r].tier = tier, ![r].overflows = @ + 1],
               Goto(r, "loop")
        PROVE  TypeInv'
    <3>1. [retry[r] EXCEPT !.tier = tier, !.overflows = @ + 1] \in Retries
      <4>1. retry[r] \in Retries /\ retry[r].overflows < MaxOverflowRetries
        BY <1>2 DEF Recompact, TypeInv, TypeOK, BudgetOK
      <4>2. tier \in -1 .. MaxOverflowRetries
        BY <2>2, <4>1, BoundsAssumption DEF Retries
      <4> QED BY <4>1, <4>2, Counting
    <3>2. retry' \in [Runs -> Retries]
      <4>1. retry' = [retry EXCEPT ![r] = [retry[r] EXCEPT !.tier = tier, !.overflows = @ + 1]]
        BY <2>2
      <4> QED BY <3>1, <4>1, RetryUpdate DEF TypeInv
    <3>3. BudgetOK'
      BY <1>2, <2>2 DEF Recompact, TypeInv, TypeOK, BudgetOK, Goto
    <3> QED BY <1>2, <2>2, <3>2, <3>3 DEF Recompact, TypeInv, TypeOK, enqueueState,
               sessionState, stopState, stored, Goto, ExecStates
  <2> QED BY <1>2, <2>1, <2>2 DEF Recompact
<1>3. CASE SaveRetry(r)
  <2>1. [retry[r] EXCEPT !.attempt = @ + 1] \in Retries
    BY <1>3, Counting DEF SaveRetry, TypeInv, TypeOK, BudgetOK
  <2>2. retry' \in [Runs -> Retries]
    BY <1>3, <2>1, RetryUpdate DEF SaveRetry, TypeInv
  <2>3. BudgetOK'
    BY <1>3 DEF SaveRetry, TypeInv, TypeOK, BudgetOK, Goto
  <2> QED BY <1>3, <2>2, <2>3 DEF SaveRetry, TypeInv, TypeOK, enqueueState, sessionState,
             stopState, SetStatus, Goto, ExecStates
<1>4. CASE BackoffEnds(r)
  BY <1>4, GotoTypes DEF BackoffEnds, ExecStates
<1>5. CASE FinishRun(r)
  <2>1. retry' \in [Runs -> Retries]
    BY <1>5, BoundsAssumption DEF FinishRun, NewRetry, Retries, TypeInv, TypeOK
  <2>2. flagged' \in [StopKinds -> SUBSET Runs]
    BY <1>5 DEF FinishRun, TypeInv, TypeOK
  <2>3. CASE HandOver(r)
    <3>1. Head(queue) \in Runs /\ Tail(queue) \in Seq(Runs)
      BY <2>3, HeadTailProperties DEF HandOver, TypeInv, TypeOK
    <3>2. exec' \in [Runs -> ExecStates]
      BY <2>3, <3>1 DEF HandOver, TypeInv, TypeOK, ExecStates
    <3>3. BudgetOK'
      BY <1>5, <2>3, <3>1 DEF FinishRun, HandOver, TypeInv, TypeOK, BudgetOK
    <3> QED BY <1>5, <2>1, <2>2, <2>3, <3>1, <3>2, <3>3 DEF FinishRun, HandOver, TypeInv,
               TypeOK, enqueueState, stored
  <2>4. CASE GoIdle(r)
    <3>1. exec' \in [Runs -> ExecStates]
      BY <2>4 DEF GoIdle, Goto, TypeInv, TypeOK, ExecStates
    <3>2. BudgetOK'
      BY <1>5, <2>4 DEF FinishRun, GoIdle, Goto, TypeInv, TypeOK, BudgetOK
    <3> QED BY <1>5, <2>1, <2>2, <2>4, <3>1, <3>2 DEF FinishRun, GoIdle, TypeInv,
               TypeOK, enqueueState, stored
  <2> QED BY <1>5, <2>3, <2>4 DEF FinishRun
<1> QED BY <1>1, <1>2, <1>3, <1>4, <1>5

LEMMA TypeNext == TypeInv /\ [Next]_vars => TypeInv'
<1> SUFFICES ASSUME TypeInv, [Next]_vars PROVE TypeInv'
  OBVIOUS
<1>1. ASSUME NEW r \in Runs, ExecStep(r) \/ AdapterStep(r) \/ WriteThrows(r) \/ ExecutionEscapes(r)
      PROVE  TypeInv'
  BY <1>1, StartTypes, EndTypes, RetryTypes DEF ExecStep
<1>2. ASSUME NEW w \in Waiters, WaitForIdle(w)
      PROVE  TypeInv'
  BY <1>2 DEF WaitForIdle, TypeInv, TypeOK, BudgetOK, enqueueState, execState, stopState, stored
<1>3. CASE UNCHANGED vars
  BY <1>3 DEF vars, TypeInv, TypeOK, BudgetOK, enqueueState, sessionState, execState, stopState,
              stored
<1> QED BY <1>1, <1>2, <1>3, EnqueueTypes, StopTypes DEF Next

\* The variables keep their types, and the retry counters of executeRun never
\* pass maxRetries and MAX_OVERFLOW_RETRIES.
THEOREM TypeCorrect == Spec => []TypeOK
<1>1. TypeInv => TypeOK
  BY DEF TypeInv
<1> QED BY <1>1, TypeInit, TypeNext, PTL DEF Spec

-----------------------------------------------------------------------------
(* One active run *)

\* Why enqueue cannot start a run beside another: the claim `running` is taken
\* before the first await, and only a call that found it free starts its run.
ClaimInv ==
  /\ \A r \in Runs : Executing(r) => activeRun = r
  /\ activeRun # NoRun => running
  /\ \A r \in Runs : enq[r] = "starting" => running /\ activeRun = NoRun
  /\ \A r, s \in Runs : enq[r] = "starting" /\ enq[s] = "starting" => r = s

LEMMA ClaimEnqueue ==
  ASSUME TypeInv, ClaimInv, NEW r \in Runs, Enqueue(r) \/ SessionMissing(r) \/ EnqueueStep(r)
  PROVE  ClaimInv'
<1> USE DEF TypeInv, TypeOK, ClaimInv, Executing, EnqGoto, execState, sessionState
<1>1. CASE Enqueue(r)
  BY <1>1 DEF Enqueue
<1>2. CASE SessionMissing(r)
  BY <1>2 DEF SessionMissing
<1>3. CASE CreateRun(r)
  BY <1>3 DEF CreateRun
<1>4. CASE AnnounceCreated(r)
  BY <1>4 DEF AnnounceCreated
<1>5. CASE PushRun(r)
  BY <1>5 DEF PushRun
<1>6. CASE StartRun(r)
  BY <1>6, RunsAssumption DEF StartRun, Goto
<1> QED BY <1>1, <1>2, <1>3, <1>4, <1>5, <1>6 DEF EnqueueStep

\* A step that moves executeRun of an executing run within its execution.
LEMMA ClaimMove ==
  ASSUME TypeInv, ClaimInv, NEW r \in Runs, NEW l, l \notin {"none", "done"},
         Executing(r), Goto(r, l), UNCHANGED <<enq, running, activeRun>>
  PROVE  ClaimInv'
  BY DEF TypeInv, TypeOK, ClaimInv, Executing, Goto

\* Every step of executeRun but the last moves it within its execution.
LEMMA ExecMoves ==
  ASSUME TypeInv, NEW r \in Runs,
         ExecStep(r) \/ AdapterStep(r) \/ WriteThrows(r) \/ ExecutionEscapes(r),
         ~FinishRun(r), ~AdapterMessage(r)
  PROVE  /\ Executing(r)
         /\ \E l \in ExecStates \ {"none", "done"} : Goto(r, l)
         /\ UNCHANGED <<enqueueState, sessionState, stopState>>
<1> USE DEF Executing, ExecStates, ErrorKinds
<1>1. ASSUME NEW from \in ExecStates \ {"none", "done"}, NEW to \in ExecStates \ {"none", "done"},
             CheckStops(r, from, to)
      PROVE  /\ Executing(r)
             /\ \E l \in ExecStates \ {"none", "done"} : Goto(r, l)
             /\ UNCHANGED <<enqueueState, sessionState, stopState>>
  <2>1. Goto(r, to) \/ Goto(r, "leaving") \/ Goto(r, "applyCancelled") \/ Goto(r, "applyFailed")
    BY <1>1 DEF CheckStops, ApplyAt
  <2> QED BY <1>1, <2>1 DEF CheckStops
<1>2. CASE CheckEntry(r)
  BY <1>1, <1>2 DEF CheckEntry
<1>3. CASE CheckLoop(r)
  BY <1>1, <1>3 DEF CheckLoop
<1>4. CASE CheckReturned(r) \/ CheckSaved(r)
  BY <1>1, <1>4 DEF CheckReturned, CheckSaved
<1>5. CASE CheckThrown(r)
  <2>1. PICK error \in ErrorKinds : CheckStops(r, error, AfterError(r, error))
    BY <1>5 DEF CheckThrown
  <2>2. AfterError(r, error) \in {"recompact", "saveRetry", "saveFailed"}
    BY DEF AfterError
  <2> QED BY <1>1, <2>1, <2>2
<1>6. CASE SaveRunning(r) \/ SaveSucceeded(r) \/ SaveFailed(r)
  BY <1>6 DEF SaveRunning, SaveSucceeded, SaveFailed, SaveStatus
<1>7. CASE EmitSucceeded(r) \/ EmitFailed(r)
  BY <1>7 DEF EmitSucceeded, EmitFailed, EmitEvent
<1>8. CASE \E k \in StopKinds : ApplyStop(k, r)
  BY <1>8 DEF ApplyStop, ApplyAt
<1>9. CASE CompactLocally(r) \/ Recompact(r)
  BY <1>9 DEF CompactLocally, Recompact
<1>10. CASE CallAdapter(r) \/ AdapterReturns(r)
  BY <1>10 DEF CallAdapter, AdapterReturns
<1>11. CASE AdapterThrows(r) \/ WriteThrows(r)
  BY <1>11 DEF AdapterThrows, WriteThrows, Throw
<1>12. CASE SaveRetry(r) \/ BackoffEnds(r) \/ ExecutionEscapes(r)
  BY <1>12 DEF SaveRetry, BackoffEnds, ExecutionEscapes
<1> QED BY <1>2, <1>3, <1>4, <1>5, <1>6, <1>7, <1>8, <1>9, <1>10, <1>11, <1>12
           DEF ExecStep, AdapterStep

\* The run that finishes hands the claim to the head of the queue, or drops it.
LEMMA ClaimFinish ==
  ASSUME TypeInv, ClaimInv, NEW r \in Runs, FinishRun(r)
  PROVE  ClaimInv'
<1>1. activeRun = r /\ running /\ (\A s \in Runs : enq[s] # "starting")
  BY RunsAssumption DEF FinishRun, Executing, ClaimInv
<1>2. \A s \in Runs \ {r} : exec[s] \in {"none", "done"}
  BY <1>1 DEF ClaimInv, Executing
<1>3. CASE HandOver(r)
  <2>1. Head(queue) \in Runs
    BY <1>3, HeadTailProperties DEF HandOver, TypeInv, TypeOK
  <2>2. \A s \in Runs : exec'[s] \notin {"none", "done"} => s = Head(queue)
    BY <1>2, <1>3, <2>1 DEF HandOver, TypeInv, TypeOK
  <2> QED BY <1>1, <1>3, <2>1, <2>2 DEF FinishRun, HandOver, ClaimInv, Executing, enqueueState
<1>4. CASE GoIdle(r)
  <2>1. \A s \in Runs : exec'[s] \in {"none", "done"}
    BY <1>2, <1>4 DEF GoIdle, Goto, TypeInv, TypeOK
  <2> QED BY <1>1, <1>4, <2>1 DEF FinishRun, GoIdle, ClaimInv, Executing, enqueueState
<1> QED BY <1>3, <1>4 DEF FinishRun

LEMMA ClaimStop ==
  ASSUME TypeInv, ClaimInv, NEW r \in Runs, NEW k \in StopKinds, StopLookup(k, r) \/ StopStep(k, r)
  PROVE  ClaimInv'
<1>1. UNCHANGED <<enq, running, activeRun, exec>>
  BY DEF StopLookup, StopStep, StopMark, StopEmit, StopReturn, enqueueState, sessionState, execState
<1> QED BY <1>1 DEF ClaimInv, Executing

LEMMA ClaimNext == TypeInv /\ ClaimInv /\ [Next]_vars => ClaimInv'
<1> SUFFICES ASSUME TypeInv, ClaimInv, [Next]_vars PROVE ClaimInv'
  OBVIOUS
<1>1. ASSUME NEW r \in Runs, ExecStep(r) \/ AdapterStep(r) \/ WriteThrows(r) \/ ExecutionEscapes(r)
      PROVE  ClaimInv'
  <2>1. CASE FinishRun(r)
    BY <2>1, ClaimFinish
  <2>2. CASE AdapterMessage(r)
    BY <2>2 DEF AdapterMessage, ClaimInv, Executing, enqueueState, sessionState, execState
  <2>3. CASE ~FinishRun(r) /\ ~AdapterMessage(r)
    BY <1>1, <2>3, ExecMoves, ClaimMove DEF enqueueState, sessionState
  <2> QED BY <2>1, <2>2, <2>3
<1>2. ASSUME NEW w \in Waiters, WaitForIdle(w)
      PROVE  ClaimInv'
  BY <1>2 DEF WaitForIdle, ClaimInv, Executing, enqueueState, execState
<1>3. CASE UNCHANGED vars
  BY <1>3 DEF vars, ClaimInv, Executing, enqueueState, sessionState, execState
<1> QED BY <1>1, <1>2, <1>3, ClaimEnqueue, ClaimStop DEF Next

\* A session never executes two runs, whatever calls of enqueue overlap with
\* each other, with a run that finishes and with calls that stop runs.
THEOREM OneActive == Spec => []OneActiveRun
<1>1. Init => ClaimInv
  BY DEF Init, ClaimInv, Executing
<1>2. ClaimInv => OneActiveRun
  BY DEF ClaimInv, OneActiveRun
<1> QED BY <1>1, <1>2, TypeInit, TypeNext, ClaimNext, PTL DEF Spec

-----------------------------------------------------------------------------
(* The adapter calls of a run *)

\* A retry is paid for before the call it leads to: between a call and the next
\* one a counter has moved, and only a call that is over may still be unpaid.
BeforeCall ==
  {"none", "entry", "saveRunning", "compacting", "loop", "calling", "backoff", "done"}

CallsInv ==
  \A r \in Runs :
    /\ exec[r] \in BeforeCall => retry[r].calls <= retry[r].attempt + retry[r].overflows
    /\ retry[r].calls <= 1 + retry[r].attempt + retry[r].overflows

\* A step that moves executeRun and counts nothing.
LEMMA CallsMove ==
  ASSUME TypeInv, CallsInv, NEW r \in Runs, NEW l, Goto(r, l), UNCHANGED retry,
         l \in BeforeCall => exec[r] \in BeforeCall
  PROVE  CallsInv'
  BY DEF TypeInv, TypeOK, CallsInv, Goto

\* A step that moves executeRun and counts.
LEMMA CallsCount ==
  ASSUME TypeInv, CallsInv, NEW r \in Runs, NEW l, NEW new \in Retries, Goto(r, l),
         retry' = [retry EXCEPT ![r] = new],
         l \in BeforeCall => new.calls <= new.attempt + new.overflows,
         new.calls <= 1 + new.attempt + new.overflows
  PROVE  CallsInv'
<1>1. retry'[r] = new /\ exec'[r] = l
  BY RetryUpdate DEF TypeInv, TypeOK, Goto
<1>2. \A s \in Runs \ {r} : retry'[s] = retry[s] /\ exec'[s] = exec[s]
  BY RetryUpdate DEF TypeInv, TypeOK, Goto
<1> QED BY <1>1, <1>2 DEF CallsInv

LEMMA CallsCheck ==
  ASSUME TypeInv, CallsInv, NEW r \in Runs, NEW from, NEW to, CheckStops(r, from, to),
         to \in BeforeCall => from \in BeforeCall
  PROVE  CallsInv'
<1>1. Goto(r, to) \/ Goto(r, "leaving") \/ Goto(r, "applyCancelled") \/ Goto(r, "applyFailed")
  BY DEF CheckStops, ApplyAt
<1>2. UNCHANGED retry /\ exec[r] = from
  BY DEF CheckStops
<1> QED BY <1>1, <1>2, CallsMove DEF BeforeCall

LEMMA CallsExec ==
  ASSUME TypeInv, CallsInv, NEW r \in Runs,
         ExecStep(r) \/ AdapterStep(r) \/ WriteThrows(r) \/ ExecutionEscapes(r),
         ~FinishRun(r)
  PROVE  CallsInv'
<1> USE DEF BeforeCall, ErrorKinds
<1>1. retry[r] \in Retries
  BY DEF TypeInv, TypeOK
<1>2. /\ retry[r].calls \in Nat /\ retry[r].attempt \in Nat /\ retry[r].overflows \in Nat
  BY <1>1, BoundsAssumption DEF Retries
<1>3. CASE CheckEntry(r) \/ CheckLoop(r) \/ CheckReturned(r) \/ CheckSaved(r)
  BY <1>3, CallsCheck DEF CheckEntry, CheckLoop, CheckReturned, CheckSaved
<1>4. CASE CheckThrown(r)
  <2>1. PICK error \in ErrorKinds : CheckStops(r, error, AfterError(r, error))
    BY <1>4 DEF CheckThrown
  <2>2. AfterError(r, error) \in {"recompact", "saveRetry", "saveFailed"}
    BY DEF AfterError
  <2> QED BY <2>1, <2>2, CallsCheck
<1>5. CASE SaveRunning(r) \/ SaveSucceeded(r) \/ SaveFailed(r)
  BY <1>5, CallsMove DEF SaveRunning, SaveSucceeded, SaveFailed, SaveStatus
<1>6. CASE EmitSucceeded(r) \/ EmitFailed(r)
  BY <1>6, CallsMove DEF EmitSucceeded, EmitFailed, EmitEvent
<1>7. CASE \E k \in StopKinds : ApplyStop(k, r)
  BY <1>7, CallsMove DEF ApplyStop
<1>8. CASE CompactLocally(r)
  <2>1. PICK tier \in {-1, 0} : retry' = [retry EXCEPT ![r].tier = tier]
    BY <1>8 DEF CompactLocally
  <2>2. tier \in -1 .. MaxOverflowRetries
    BY <2>1, BoundsAssumption
  <2> DEFINE new == [retry[r] EXCEPT !.tier = tier]
  <2>3. /\ new \in Retries /\ new.calls = retry[r].calls /\ new.attempt = retry[r].attempt
        /\ new.overflows = retry[r].overflows
    BY <1>1, <2>2, Counting DEF Retries
  <2>4. retry[r].calls <= retry[r].attempt + retry[r].overflows
    BY <1>8 DEF CompactLocally, CallsInv
  <2>5. retry' = [retry EXCEPT ![r] = new]
    BY <2>1
  <2>6. /\ new.calls <= 1 + new.attempt + new.overflows
        /\ new.calls <= new.attempt + new.overflows
    BY <1>2, <2>3, <2>4
  <2>7. Goto(r, "loop")
    BY <1>8 DEF CompactLocally
  <2> HIDE DEF new
  <2> QED BY <2>3, <2>5, <2>6, <2>7, CallsCount
<1>9. CASE CallAdapter(r)
  <2> DEFINE new == [retry[r] EXCEPT !.calls = @ + 1]
  <2>1. /\ new \in Retries /\ new.calls = retry[r].calls + 1 /\ new.attempt = retry[r].attempt
        /\ new.overflows = retry[r].overflows
    BY <1>1, Counting DEF Retries
  <2>2. retry[r].calls <= retry[r].attempt + retry[r].overflows
    BY <1>9 DEF CallAdapter, CallsInv
  <2>3. retry' = [retry EXCEPT ![r] = new]
    BY <1>9 DEF CallAdapter
  <2>4. new.calls <= 1 + new.attempt + new.overflows
    BY <1>2, <2>1, <2>2
  <2>5. Goto(r, "adapter")
    BY <1>9 DEF CallAdapter
  <2> HIDE DEF new
  <2> QED BY <2>1, <2>3, <2>4, <2>5, CallsCount
<1>10. CASE AdapterMessage(r)
  BY <1>10 DEF AdapterMessage, execState, CallsInv
<1>11. CASE AdapterReturns(r) \/ AdapterThrows(r) \/ WriteThrows(r)
  BY <1>11, CallsMove DEF AdapterReturns, AdapterThrows, WriteThrows, Throw
<1>12. CASE Recompact(r)
  <2>1. CASE UNCHANGED retry /\ Goto(r, "saveFailed")
    BY <2>1, CallsMove
  <2>2. ASSUME NEW tier \in (retry[r].tier + 1) .. MaxOverflowRetries,
               retry' = [retry EXCEPT ![r].tier = tier, ![r].overflows = @ + 1],
               Goto(r, "loop")
        PROVE  CallsInv'
    <3> DEFINE new == [retry[r] EXCEPT !.tier = tier, !.overflows = @ + 1]
    <3>1. retry[r].overflows < MaxOverflowRetries
      BY <1>12 DEF Recompact, TypeInv, BudgetOK
    <3>2. tier \in -1 .. MaxOverflowRetries
      BY <1>1, <2>2, BoundsAssumption DEF Retries
    <3>3. /\ new \in Retries /\ new.calls = retry[r].calls /\ new.attempt = retry[r].attempt
          /\ new.overflows = retry[r].overflows + 1
      BY <1>1, <3>1, <3>2, Counting DEF Retries
    <3>4. retry' = [retry EXCEPT ![r] = new]
      BY <2>2
    <3>5. retry[r].calls <= 1 + retry[r].attempt + retry[r].overflows
      BY DEF CallsInv
    <3>6. /\ new.calls <= 1 + new.attempt + new.overflows
          /\ new.calls <= new.attempt + new.overflows
      BY <1>2, <3>3, <3>5
    <3> HIDE DEF new
    <3> QED BY <2>2, <3>3, <3>4, <3>6, CallsCount
  <2> QED BY <1>12, <2>1, <2>2 DEF Recompact
<1>13. CASE SaveRetry(r)
  <2> DEFINE new == [retry[r] EXCEPT !.attempt = @ + 1]
  <2>1. retry[r].attempt < MaxRetries
    BY <1>13 DEF SaveRetry, TypeInv, BudgetOK
  <2>2. /\ new \in Retries /\ new.calls = retry[r].calls /\ new.attempt = retry[r].attempt + 1
        /\ new.overflows = retry[r].overflows
    BY <1>1, <2>1, Counting DEF Retries
  <2>3. retry[r].calls <= 1 + retry[r].attempt + retry[r].overflows
    BY DEF CallsInv
  <2>4. retry' = [retry EXCEPT ![r] = new]
    BY <1>13 DEF SaveRetry
  <2>5. /\ new.calls <= 1 + new.attempt + new.overflows
        /\ new.calls <= new.attempt + new.overflows
    BY <1>2, <2>2, <2>3
  <2>6. Goto(r, "backoff")
    BY <1>13 DEF SaveRetry
  <2> HIDE DEF new
  <2> QED BY <2>2, <2>4, <2>5, <2>6, CallsCount
<1>14. CASE BackoffEnds(r) \/ ExecutionEscapes(r)
  BY <1>14, CallsMove DEF BackoffEnds, ExecutionEscapes
<1> QED BY <1>3, <1>4, <1>5, <1>6, <1>7, <1>8, <1>9, <1>10, <1>11, <1>12, <1>13, <1>14
           DEF ExecStep, AdapterStep

\* The counters of the run that finishes are reset; the run that starts has none.
LEMMA CallsFinish ==
  ASSUME TypeInv, ClaimInv, CallsInv, NEW r \in Runs, FinishRun(r)
  PROVE  CallsInv'
<1>1. \A s \in Runs \ {r} : exec[s] \in {"none", "done"}
  BY RunsAssumption DEF FinishRun, Executing, ClaimInv
<1>2. \A s \in Runs \ {r} : retry'[s] = retry[s]
  BY DEF FinishRun, TypeInv, TypeOK
<1>3. retry'[r] = [calls |-> 0, attempt |-> 0, overflows |-> 0, tier |-> -1]
  BY DEF FinishRun, TypeInv, TypeOK, NewRetry
<1>4. \A s \in Runs \ {r} :
        /\ retry'[s].calls <= retry'[s].attempt + retry'[s].overflows
        /\ retry'[s].calls <= 1 + retry'[s].attempt + retry'[s].overflows
  BY <1>1, <1>2 DEF CallsInv, BeforeCall
<1>5. /\ retry'[r].calls <= retry'[r].attempt + retry'[r].overflows
      /\ retry'[r].calls <= 1 + retry'[r].attempt + retry'[r].overflows
  BY <1>3
<1> QED BY <1>4, <1>5 DEF CallsInv

LEMMA CallsNext == TypeInv /\ ClaimInv /\ CallsInv /\ [Next]_vars => CallsInv'
<1> SUFFICES ASSUME TypeInv, ClaimInv, CallsInv, [Next]_vars PROVE CallsInv'
  OBVIOUS
<1>1. ASSUME NEW r \in Runs, ExecStep(r) \/ AdapterStep(r) \/ WriteThrows(r) \/ ExecutionEscapes(r)
      PROVE  CallsInv'
  BY <1>1, CallsExec, CallsFinish
<1>2. ASSUME NEW r \in Runs, Enqueue(r) \/ SessionMissing(r) \/ EnqueueStep(r)
      PROVE  CallsInv'
  <2>1. CASE StartRun(r)
    <3>1. exec[r] \in {"none", "done"}
      BY <2>1, RunsAssumption DEF StartRun, ClaimInv, Executing
    <3> QED BY <2>1, <3>1, CallsMove DEF StartRun, BeforeCall
  <2>2. CASE ~StartRun(r)
    <3>1. UNCHANGED <<exec, retry>>
      BY <1>2, <2>2 DEF Enqueue, SessionMissing, EnqueueStep, CreateRun, AnnounceCreated,
                        PushRun, execState
    <3> QED BY <3>1 DEF CallsInv
  <2> QED BY <2>1, <2>2
<1>3. ASSUME NEW r \in Runs, NEW k \in StopKinds, StopLookup(k, r) \/ StopStep(k, r)
      PROVE  CallsInv'
  <2>1. UNCHANGED <<exec, retry>>
    BY <1>3 DEF StopLookup, StopStep, StopMark, StopEmit, StopReturn, execState
  <2> QED BY <2>1 DEF CallsInv
<1>4. ASSUME NEW w \in Waiters, WaitForIdle(w)
      PROVE  CallsInv'
  BY <1>4 DEF WaitForIdle, execState, CallsInv
<1>5. CASE UNCHANGED vars
  BY <1>5 DEF vars, execState, CallsInv
<1> QED BY <1>1, <1>2, <1>3, <1>4, <1>5 DEF Next

\* However overflows and transient errors alternate, a run calls its adapter at
\* most once more than the two retry budgets together allow.
THEOREM CallsStayBounded == Spec => []CallsBounded
<1>1. Init => ClaimInv /\ CallsInv
  BY DEF Init, ClaimInv, CallsInv, Executing, NewRetry
<1>2. TypeInv /\ CallsInv => CallsBounded
  <2> SUFFICES ASSUME TypeInv, CallsInv, NEW r \in Runs
               PROVE  retry[r].calls <= 1 + MaxRetries + MaxOverflowRetries
    BY DEF CallsBounded
  <2>1. retry[r] \in Retries
    BY DEF TypeInv, TypeOK
  <2>2. retry[r].calls <= 1 + retry[r].attempt + retry[r].overflows
    BY DEF CallsInv
  <2> QED BY <2>1, <2>2, BoundsAssumption DEF Retries
<1> QED BY <1>1, <1>2, TypeInit, TypeNext, ClaimNext, CallsNext, PTL DEF Spec

-----------------------------------------------------------------------------
(* Stopped runs *)

\* Why a stopped run stays stopped: it is still flagged while it executes, and
\* it cannot start again, because a run is pushed once and never comes back.
Distinct(q) == \A i, j \in DOMAIN q : q[i] = q[j] => i = j

QueueInv ==
  /\ Distinct(queue)
  /\ \A i \in DOMAIN queue : enq[queue[i]] = "done"
  /\ activeRun # NoRun => enq[activeRun] = "done"
  /\ \A r \in stopped : enq[r] = "done" /\ \A i \in DOMAIN queue : queue[i] # r

FlagInv == \A r \in stopped : Executing(r) => Flagged(r)

StopInv == QueueInv /\ FlagInv

\* Without takes the run out of a queue that holds it at most once.
LEMMA WithoutElements ==
  ASSUME NEW q \in Seq(Runs), NEW r \in Runs, Distinct(q)
  PROVE  /\ Distinct(Without(q, r))
         /\ \A i \in DOMAIN Without(q, r) :
              Without(q, r)[i] # r /\ \E j \in DOMAIN q : Without(q, r)[i] = q[j]
<1>1. CASE \E i \in DOMAIN q : q[i] = r
  <2> DEFINE k == CHOOSE i \in DOMAIN q : q[i] = r
             f == [i \in 1 .. (Len(q) - 1) |-> IF i < k THEN q[i] ELSE q[i + 1]]
  <2>1. k \in 1 .. Len(q) /\ Len(q) \in Nat /\ q[k] = r /\ DOMAIN q = 1 .. Len(q)
    BY <1>1
  <2>2. Without(q, r) = f
    BY <1>1 DEF Without
  <2>3. DOMAIN f = 1 .. (Len(q) - 1)
    OBVIOUS
  <2> HIDE DEF k
  <2>4. \A i \in 1 .. (Len(q) - 1) : f[i] # r /\ \E j \in DOMAIN q : f[i] = q[j]
    BY <2>1 DEF Distinct
  <2>5. Distinct(f)
    <3> SUFFICES ASSUME NEW i \in 1 .. (Len(q) - 1), NEW j \in 1 .. (Len(q) - 1), f[i] = f[j]
                 PROVE  i = j
      BY <2>3 DEF Distinct
    <3>1. CASE i < k /\ j < k
      BY <2>1, <3>1 DEF Distinct
    <3>2. CASE i < k /\ ~(j < k)
      BY <2>1, <3>2 DEF Distinct
    <3>3. CASE ~(i < k) /\ j < k
      BY <2>1, <3>3 DEF Distinct
    <3>4. CASE ~(i < k) /\ ~(j < k)
      <4>1. i + 1 = j + 1
        BY <2>1, <3>4 DEF Distinct
      <4> QED BY <4>1
    <3> QED BY <3>1, <3>2, <3>3, <3>4
  <2> QED BY <2>2, <2>3, <2>4, <2>5
<1>2. CASE ~ \E i \in DOMAIN q : q[i] = r
  BY <1>2 DEF Without
<1> QED BY <1>1, <1>2

LEMMA StopInvEnqueue ==
  ASSUME TypeInv, ClaimInv, StopInv, NEW r \in Runs,
         Enqueue(r) \/ SessionMissing(r) \/ EnqueueStep(r)
  PROVE  StopInv'
<1> USE DEF TypeInv, TypeOK, StopInv, QueueInv, FlagInv, Executing, Flagged, EnqGoto,
            execState, sessionState, stopState
<1>1. CASE Enqueue(r) \/ SessionMissing(r)
  BY <1>1 DEF Enqueue, SessionMissing
<1>2. CASE CreateRun(r)
  BY <1>2 DEF CreateRun
<1>3. CASE AnnounceCreated(r)
  BY <1>3 DEF AnnounceCreated
<1>4. CASE PushRun(r)
  <2>1. /\ enq[r] = "queuing" /\ r \notin stopped
        /\ \A s \in Runs : enq[s] = "done" => enq'[s] = "done"
        /\ enq'[r] = "done"
    BY <1>4 DEF PushRun
  <2>2. FlagInv'
    BY <1>4 DEF PushRun
  <2>3. CASE r \in orphans
    BY <1>4, <2>1, <2>2, <2>3 DEF PushRun
  <2>4. CASE r \notin orphans
    <3>1. queue' = Append(queue, r)
      BY <1>4, <2>4 DEF PushRun
    <3>2. /\ DOMAIN queue' = 1 .. (Len(queue) + 1)
          /\ DOMAIN queue = 1 .. Len(queue) /\ Len(queue) \in Nat
          /\ queue'[Len(queue) + 1] = r
          /\ \A i \in 1 .. Len(queue) : queue'[i] = queue[i] /\ queue[i] \in Runs
      BY <3>1, AppendProperties
    <3>3. \A i \in 1 .. Len(queue) : queue[i] # r
      BY <2>1, <3>2
    <3>4. Distinct(queue')
      <4> SUFFICES ASSUME NEW i \in 1 .. (Len(queue) + 1), NEW j \in 1 .. (Len(queue) + 1),
                          queue'[i] = queue'[j]
                   PROVE  i = j
        BY <3>2 DEF Distinct
      <4>1. CASE i \in 1 .. Len(queue) /\ j \in 1 .. Len(queue)
        BY <3>2, <4>1 DEF Distinct
      <4>2. CASE i = Len(queue) + 1 \/ j = Len(queue) + 1
        BY <3>2, <3>3, <4>2
      <4> QED BY <3>2, <4>1, <4>2
    <3>5. \A i \in DOMAIN queue' : enq'[queue'[i]] = "done"
      <4> SUFFICES ASSUME NEW i \in 1 .. (Len(queue) + 1) PROVE enq'[queue'[i]] = "done"
        BY <3>2
      <4>1. CASE i = Len(queue) + 1
        BY <2>1, <3>2, <4>1
      <4>2. CASE i \in 1 .. Len(queue)
        BY <2>1, <3>2, <4>2
      <4> QED BY <3>2, <4>1, <4>2
    <3>6. \A s \in stopped : \A i \in DOMAIN queue' : queue'[i] # s
      <4> SUFFICES ASSUME NEW s \in stopped, NEW i \in 1 .. (Len(queue) + 1)
                   PROVE  queue'[i] # s
        BY <3>2
      <4>1. CASE i = Len(queue) + 1
        BY <2>1, <3>2, <4>1
      <4>2. CASE i \in 1 .. Len(queue)
        BY <3>2, <4>2
      <4> QED BY <3>2, <4>1, <4>2
    <3> QED BY <1>4, <2>1, <2>2, <3>4, <3>5, <3>6 DEF PushRun
  <2> QED BY <2>3, <2>4
<1>5. CASE StartRun(r)
  <2>1. r \notin stopped
    BY <1>5 DEF StartRun
  <2>2. QueueInv'
    BY <1>5, <2>1 DEF StartRun
  <2>3. FlagInv'
    BY <1>5, <2>1 DEF StartRun, Goto
  <2> QED BY <2>2, <2>3
<1> QED BY <1>1, <1>2, <1>3, <1>4, <1>5 DEF EnqueueStep

LEMMA StopInvStop ==
  ASSUME TypeInv, ClaimInv, StopInv, NEW r \in Runs, NEW k \in StopKinds,
         StopLookup(k, r) \/ StopStep(k, r)
  PROVE  StopInv'
<1> USE DEF StopInv, QueueInv, FlagInv, Executing, Flagged, enqueueState, execState, sessionState
<1>1. CASE StopLookup(k, r)
  BY <1>1 DEF StopLookup
<1>2. CASE StopMark(k, r)
  <2>1. /\ \A s \in Runs : Flagged(s) => Flagged(s)'
        /\ Flagged(r)'
    BY <1>2 DEF StopMark, TypeInv, TypeOK
  <2>2. queue \in Seq(Runs) /\ stopped \subseteq Runs
    BY DEF TypeInv, TypeOK
  <2>3. FlagInv'
    BY <1>2, <2>1, <2>2 DEF StopMark
  <2>4. /\ Distinct(queue')
        /\ \A i \in DOMAIN queue' : queue'[i] # r /\ \E j \in DOMAIN queue : queue'[i] = queue[j]
    BY <1>2, <2>2, WithoutElements DEF StopMark
  <2>5. \A s \in stopped' : (s = r /\ activeRun = r) \/ s \in stopped
    BY <1>2 DEF StopMark
  <2>6. UNCHANGED <<enq, activeRun>>
    BY <1>2 DEF StopMark
  <2>7. \A s \in stopped' : enq[s] = "done" /\ \A i \in DOMAIN queue' : queue'[i] # s
    BY <2>4, <2>5, RunsAssumption
  <2> QED BY <2>3, <2>4, <2>6, <2>7
<1>3. CASE StopEmit(k, r)
  BY <1>3 DEF StopEmit
<1>4. CASE StopReturn(k, r)
  <2>1. \A s \in Runs : Executing(s) /\ Flagged(s) => Flagged(s)'
    BY <1>4 DEF StopReturn, ClaimInv, TypeInv, TypeOK
  <2>2. stopped \subseteq Runs
    BY DEF TypeInv, TypeOK
  <2> QED BY <1>4, <2>1, <2>2 DEF StopReturn
<1> QED BY <1>1, <1>2, <1>3, <1>4 DEF StopStep

LEMMA StopInvFinish ==
  ASSUME TypeInv, ClaimInv, StopInv, NEW r \in Runs, FinishRun(r)
  PROVE  StopInv'
<1> USE DEF StopInv, QueueInv, FlagInv, Executing, Flagged
<1>1. \A s \in Runs \ {r} : exec[s] \in {"none", "done"}
  BY RunsAssumption DEF FinishRun, ClaimInv
<1>2. UNCHANGED <<enq, stopped>> /\ stopped \subseteq Runs
  BY DEF FinishRun, enqueueState, TypeInv, TypeOK
<1>3. CASE HandOver(r)
  <2>1. /\ Head(queue) \in Runs /\ Head(queue) = queue[1] /\ 1 \in DOMAIN queue
        /\ DOMAIN queue = 1 .. Len(queue) /\ Len(queue) \in Nat
        /\ DOMAIN Tail(queue) = 1 .. (Len(queue) - 1)
        /\ \A i \in 1 .. (Len(queue) - 1) : Tail(queue)[i] = queue[i + 1]
    BY <1>3, HeadTailProperties DEF HandOver, TypeInv, TypeOK
  <2>2. queue' = Tail(queue) /\ activeRun' = Head(queue)
    BY <1>3 DEF HandOver
  <2>3. Head(queue) \notin stopped
    BY <2>1
  <2>4. \A s \in Runs : exec'[s] \notin {"none", "done"} => s = Head(queue)
    BY <1>1, <1>3, <2>1 DEF HandOver, TypeInv, TypeOK
  <2>5. FlagInv'
    BY <1>2, <2>3, <2>4
  <2>6. Distinct(queue')
    <3> SUFFICES ASSUME NEW i \in 1 .. (Len(queue) - 1), NEW j \in 1 .. (Len(queue) - 1),
                        queue[i + 1] = queue[j + 1]
                 PROVE  i = j
      BY <2>1, <2>2 DEF Distinct
    <3>1. i + 1 = j + 1
      BY <2>1 DEF Distinct
    <3> QED BY <3>1
  <2>7. \A i \in DOMAIN queue' : \E j \in DOMAIN queue : queue'[i] = queue[j]
    BY <2>1, <2>2
  <2> QED BY <1>2, <2>1, <2>2, <2>5, <2>6, <2>7
<1>4. CASE GoIdle(r)
  <2>1. \A s \in Runs : exec'[s] \in {"none", "done"}
    BY <1>1, <1>4 DEF GoIdle, Goto, TypeInv, TypeOK
  <2> QED BY <1>2, <1>4, <2>1 DEF GoIdle
<1> QED BY <1>3, <1>4 DEF FinishRun

LEMMA StopInvNext == TypeInv /\ ClaimInv /\ StopInv /\ [Next]_vars => StopInv'
<1> SUFFICES ASSUME TypeInv, ClaimInv, StopInv, [Next]_vars PROVE StopInv'
  OBVIOUS
<1> USE DEF StopInv, QueueInv, FlagInv, Executing, Flagged
<1>1. ASSUME NEW r \in Runs, ExecStep(r) \/ AdapterStep(r) \/ WriteThrows(r) \/ ExecutionEscapes(r)
      PROVE  StopInv'
  <2>1. CASE FinishRun(r)
    BY <2>1, StopInvFinish
  <2>2. CASE AdapterMessage(r)
    BY <2>2 DEF AdapterMessage, enqueueState, sessionState, execState, stopState
  <2>3. CASE ~FinishRun(r) /\ ~AdapterMessage(r)
    <3>1. /\ Executing(r)
          /\ \E l \in ExecStates \ {"none", "done"} : Goto(r, l)
          /\ UNCHANGED <<enqueueState, sessionState, stopState>>
      BY <1>1, <2>3, ExecMoves
    <3>2. \A s \in Runs : exec'[s] \notin {"none", "done"} => exec[s] \notin {"none", "done"}
      BY <3>1 DEF Goto, TypeInv, TypeOK
    <3>3. stopped \subseteq Runs
      BY DEF TypeInv, TypeOK
    <3> QED BY <3>1, <3>2, <3>3 DEF enqueueState, sessionState, stopState
  <2> QED BY <2>1, <2>2, <2>3
<1>2. ASSUME NEW w \in Waiters, WaitForIdle(w)
      PROVE  StopInv'
  BY <1>2 DEF WaitForIdle, enqueueState, execState, stopState
<1>3. CASE UNCHANGED vars
  BY <1>3 DEF vars, enqueueState, sessionState, execState, stopState
<1> QED BY <1>1, <1>2, <1>3, StopInvEnqueue, StopInvStop DEF Next

\* Only a run that is not flagged takes a message of the adapter.
LEMMA MessageStep ==
  ASSUME TypeInv, [Next]_vars, NEW r \in Runs, r \in messages', r \notin messages
  PROVE  Executing(r) /\ ~Flagged(r)
<1>1. PICK s \in Runs : AdapterMessage(s)
  BY DEF Next, Enqueue, SessionMissing, EnqueueStep, CreateRun, AnnounceCreated, PushRun, StartRun,
     ExecStep, CheckEntry, SaveRunning, CompactLocally, CheckLoop, CallAdapter, CheckReturned,
     SaveSucceeded, CheckSaved, EmitSucceeded, CheckThrown, Recompact, SaveRetry, BackoffEnds,
     SaveFailed, EmitFailed, ApplyStop, FinishRun, CheckStops, SaveStatus, EmitEvent, AdapterStep,
     AdapterReturns, AdapterThrows, Throw, WriteThrows, ExecutionEscapes, StopLookup, StopStep,
     StopMark, StopEmit, StopReturn, WaitForIdle, vars, stored
<1> QED BY <1>1 DEF AdapterMessage, Executing

\* Once a stop call has marked the active run, no later event of its adapter
\* reaches the conversation: not of the call in flight, not of a retry.
THEOREM StoppedIsSilent == Spec => NoMessageAfterStop
<1>1. Init => ClaimInv /\ StopInv
  BY DEF Init, ClaimInv, StopInv, QueueInv, FlagInv, Distinct, Executing
<1>2. TypeInv /\ StopInv /\ [Next]_vars => [\A r \in stopped : r \in messages' => r \in messages]_vars
  BY MessageStep DEF StopInv, FlagInv, TypeInv, TypeOK
<1> QED BY <1>1, <1>2, TypeInit, TypeNext, ClaimNext, StopInvNext, PTL
           DEF Spec, NoMessageAfterStop
=============================================================================
