---------------------- MODULE AgentRuntimeOutcomeProofs ----------------------
(***************************************************************************)
(* Proofs about AgentRuntime for every set of runs and callers and every   *)
(* retry budget: runs start in the order of their enqueue calls, a queued  *)
(* run has an owner, a run that has ended is persisted as ended, and a     *)
(* stopped run never ends succeeded, for the runs whose own persistence    *)
(* calls do not reject, whatever happens to the others.                    *)
(***************************************************************************)
EXTENDS AgentRuntimeProofs

-----------------------------------------------------------------------------
(* The inductive invariant *)

\* executeRun begins after enqueue has returned.
StartedInv == \A r \in Runs : exec[r] # "none" => enq[r] = "done"

\* Where executeRun stands once the row has got its final status.
Settled == {"saved", "emitSucceeded", "emitFailed", "leaving", "done"}

RowInv ==
  /\ \A r \in Runs \ Faulty : exec[r] \in Settled => status[r] \in Terminal
  /\ \A r \in stopped \ Faulty : exec[r] \in Settled \ {"saved"} => status[r] \in StopKinds

\* The lock: calls pass it in the order of their arrival.
ArriveInv ==
  /\ Distinct(arrivals)
  /\ \A i \in DOMAIN arrivals : enq[arrivals[i]] # "idle"
  /\ \A r \in Runs : enq[r] # "idle" => \E i \in DOMAIN arrivals : arrivals[i] = r
  /\ \A i, j \in DOMAIN arrivals :
       i < j /\ enq[arrivals[j]] # "locking" => enq[arrivals[i]] \in Returned

\* Nothing waits in the queue of a session that nobody has claimed.
IdleInv ==
  /\ \A r \in Runs : enq[r] = "queuing" /\ r \notin orphans => running
  /\ ~running => queue = <<>>
  /\ \A r \in Runs : enq[r] = "starting" => queue = <<>>

\* The queue holds, in the order of arrival, runs that arrived after every run that has
\* started; a run whose enqueue returned is started, queued, orphaned or stopped.
OrderInv ==
  /\ \A a, b \in DOMAIN queue, i, j \in DOMAIN arrivals :
       a < b /\ queue[a] = arrivals[i] /\ queue[b] = arrivals[j] => i < j
  /\ \A i, j \in DOMAIN arrivals, a \in DOMAIN queue :
       i < j /\ exec[arrivals[j]] # "none" => queue[a] # arrivals[i]
  /\ \A r \in Runs \ Faulty : enq[r] = "done" =>
       \/ exec[r] # "none" \/ r \in orphans \/ status[r] \in StopKinds
       \/ \E a \in DOMAIN queue : queue[a] = r

OutcomeInv == StartedInv /\ RowInv /\ ArriveInv /\ IdleInv /\ OrderInv

-----------------------------------------------------------------------------
(* Queues *)

\* Without keeps the order and every other run.
LEMMA WithoutOrder ==
  ASSUME NEW q \in Seq(Runs), NEW r \in Runs
  PROVE  /\ \A a, b \in DOMAIN Without(q, r) : a < b =>
              \E c, d \in DOMAIN q :
                c < d /\ Without(q, r)[a] = q[c] /\ Without(q, r)[b] = q[d]
         /\ \A c \in DOMAIN q : q[c] # r =>
              \E a \in DOMAIN Without(q, r) : Without(q, r)[a] = q[c]
         /\ q = <<>> => Without(q, r) = <<>>
<1>1. CASE \E i \in DOMAIN q : q[i] = r
  <2> DEFINE k == CHOOSE i \in DOMAIN q : q[i] = r
             f == [i \in 1 .. (Len(q) - 1) |-> IF i < k THEN q[i] ELSE q[i + 1]]
  <2>1. k \in 1 .. Len(q) /\ Len(q) \in Nat /\ q[k] = r /\ DOMAIN q = 1 .. Len(q)
    BY <1>1
  <2>2. Without(q, r) = f /\ DOMAIN f = 1 .. (Len(q) - 1)
    BY <1>1 DEF Without
  <2>3. q # <<>>
    BY <2>1
  <2> HIDE DEF k
  <2>4. \A a \in 1 .. (Len(q) - 1) : f[a] = IF a < k THEN q[a] ELSE q[a + 1]
    OBVIOUS
  <2> HIDE DEF f
  <2>5. ASSUME NEW a \in 1 .. (Len(q) - 1), NEW b \in 1 .. (Len(q) - 1), a < b
        PROVE  \E c, d \in DOMAIN q : c < d /\ f[a] = q[c] /\ f[b] = q[d]
    <3> DEFINE c == IF a < k THEN a ELSE a + 1
               d == IF b < k THEN b ELSE b + 1
    <3>1. c \in DOMAIN q /\ d \in DOMAIN q /\ c < d
      BY <2>1, <2>5
    <3>2. f[a] = q[c] /\ f[b] = q[d]
      BY <2>4
    <3> QED BY <3>1, <3>2
  <2>6. ASSUME NEW c \in DOMAIN q, q[c] # r
        PROVE  \E a \in 1 .. (Len(q) - 1) : f[a] = q[c]
    <3> DEFINE a == IF c < k THEN c ELSE c - 1
    <3>1. c # k /\ a \in 1 .. (Len(q) - 1)
      BY <2>1, <2>6
    <3>2. f[a] = q[c]
      BY <2>1, <2>4, <3>1
    <3> QED BY <3>1, <3>2
  <2>7. \A a, b \in DOMAIN f : a < b => \E c, d \in DOMAIN q : c < d /\ f[a] = q[c] /\ f[b] = q[d]
    BY <2>2, <2>5
  <2>8. \A c \in DOMAIN q : q[c] # r => \E a \in DOMAIN f : f[a] = q[c]
    BY <2>2, <2>6
  <2> QED BY <2>2, <2>3, <2>7, <2>8
<1>2. CASE ~ \E i \in DOMAIN q : q[i] = r
  BY <1>2 DEF Without
<1> QED BY <1>1, <1>2

LEMMA AppendElements ==
  ASSUME NEW q \in Seq(Runs), NEW r \in Runs
  PROVE  /\ DOMAIN Append(q, r) = 1 .. (Len(q) + 1) /\ DOMAIN q = 1 .. Len(q) /\ Len(q) \in Nat
         /\ Append(q, r)[Len(q) + 1] = r
         /\ \A i \in 1 .. Len(q) : Append(q, r)[i] = q[i] /\ q[i] \in Runs
         /\ \A i \in 1 .. (Len(q) + 1) : i \in 1 .. Len(q) \/ i = Len(q) + 1
BY AppendProperties

LEMMA TailElements ==
  ASSUME NEW q \in Seq(Runs), q # <<>>
  PROVE  /\ Head(q) \in Runs /\ Head(q) = q[1] /\ 1 \in DOMAIN q
         /\ DOMAIN q = 1 .. Len(q) /\ Len(q) \in Nat
         /\ DOMAIN Tail(q) = 1 .. (Len(q) - 1)
         /\ \A i \in 1 .. (Len(q) - 1) : Tail(q)[i] = q[i + 1] /\ i + 1 \in DOMAIN q
         /\ \A i \in DOMAIN q : i = 1 \/ (i - 1 \in DOMAIN Tail(q) /\ Tail(q)[i - 1] = q[i])
BY HeadTailProperties

-----------------------------------------------------------------------------
(* executeRun *)

\* What a step of executeRun does to the row of its run.
LEMMA ExecRow ==
  ASSUME TypeInv, StopInv, RowInv, NEW r \in Runs,
         ExecStep(r) \/ AdapterStep(r) \/ WriteThrows(r) \/ ExecutionEscapes(r),
         ~FinishRun(r), ~AdapterMessage(r)
  PROVE  \E l \in ExecStates \ {"none", "done"} :
           /\ Goto(r, l) /\ Executing(r)
           /\ \A s \in Runs : s # r => status'[s] = status[s]
           /\ r \notin Faulty /\ l \in Settled => status'[r] \in Terminal
           /\ r \in stopped \ Faulty /\ l \in Settled \ {"saved"} => status'[r] \in StopKinds
<1> DEFINE Moves == \E l \in ExecStates \ {"none", "done"} :
             /\ Goto(r, l) /\ Executing(r)
             /\ \A s \in Runs : s # r => status'[s] = status[s]
             /\ r \notin Faulty /\ l \in Settled => status'[r] \in Terminal
             /\ r \in stopped \ Faulty /\ l \in Settled \ {"saved"} => status'[r] \in StopKinds
<1> USE DEF ExecStates, ErrorKinds, Settled, Executing
<1>1. ASSUME NEW l \in ExecStates \ (Settled \cup {"none"}), Goto(r, l), Executing(r),
             status' = status \/ \E s : SetStatus(r, s)
      PROVE  Moves
  BY <1>1 DEF SetStatus, TypeInv, TypeOK
<1>2. ASSUME NEW from \in ExecStates \ {"none", "done"}, NEW to \in ExecStates \ {"none", "done"},
             CheckStops(r, from, to),
             to \in Settled => from = "saved" /\ to = "emitSucceeded"
      PROVE  Moves
  <2>1. exec[r] = from /\ UNCHANGED status
    BY <1>2 DEF CheckStops, stored
  <2>2. CASE ~Flagged(r)
    <3>1. Goto(r, to) /\ (r \notin stopped)
      BY <1>2, <2>1, <2>2 DEF CheckStops, StopInv, FlagInv
    <3>2. r \notin Faulty /\ to \in Settled => status[r] \in Terminal
      BY <1>2, <2>1 DEF RowInv
    <3> QED BY <2>1, <3>1, <3>2
  <2>3. CASE Flagged(r) /\ status[r] = StopTarget(r)
    <3>1. Goto(r, "leaving") /\ status[r] \in StopKinds /\ status[r] \in Terminal
      BY <1>2, <2>3 DEF CheckStops, StopTarget, StopKinds, Terminal
    <3> QED BY <2>1, <3>1
  <2>4. CASE Flagged(r) /\ status[r] # StopTarget(r)
    <3>1. Goto(r, "applyCancelled") \/ Goto(r, "applyFailed")
      BY <1>2, <2>4 DEF CheckStops, ApplyAt
    <3> QED BY <1>1, <2>1, <3>1
  <2> QED BY <2>2, <2>3, <2>4
<1>3. CASE CheckEntry(r)
  BY <1>2, <1>3 DEF CheckEntry
<1>4. CASE CheckLoop(r)
  BY <1>2, <1>4 DEF CheckLoop
<1>5. CASE CheckReturned(r) \/ CheckSaved(r)
  BY <1>2, <1>5 DEF CheckReturned, CheckSaved
<1>6. CASE CheckThrown(r)
  <2>1. PICK error \in ErrorKinds : CheckStops(r, error, AfterError(r, error))
    BY <1>6 DEF CheckThrown
  <2>2. AfterError(r, error) \in {"recompact", "saveRetry", "saveFailed"}
    BY DEF AfterError
  <2> QED BY <1>2, <2>1, <2>2
<1>7. CASE SaveRunning(r)
  BY <1>1, <1>7 DEF SaveRunning, SaveStatus
<1>8. CASE SaveSucceeded(r) \/ SaveFailed(r)
  <2>1. \/ Goto(r, "saved") /\ SetStatus(r, "succeeded")
        \/ Goto(r, "emitFailed") /\ SetStatus(r, "failed")
    BY <1>8 DEF SaveSucceeded, SaveFailed, SaveStatus
  <2>2. Executing(r)
    BY <1>8 DEF SaveSucceeded, SaveFailed, SaveStatus
  <2> QED BY <2>1, <2>2 DEF SetStatus, Terminal, StopKinds, TypeInv, TypeOK
<1>9. CASE EmitSucceeded(r) \/ EmitFailed(r)
  <2>1. /\ exec[r] \in {"emitSucceeded", "emitFailed"} /\ Goto(r, "leaving")
        /\ UNCHANGED status
    BY <1>9 DEF EmitSucceeded, EmitFailed, EmitEvent
  <2> QED BY <2>1 DEF RowInv
<1>10. CASE \E k \in StopKinds : ApplyStop(k, r)
  <2>1. PICK k \in StopKinds : exec[r] = ApplyAt(k) /\ SetStatus(r, k) /\ Goto(r, "leaving")
    BY <1>10 DEF ApplyStop
  <2>2. status'[r] = k /\ \A s \in Runs : s # r => status'[s] = status[s]
    BY <2>1 DEF SetStatus, TypeInv, TypeOK
  <2>3. Executing(r) /\ k \in Terminal
    BY <2>1 DEF ApplyAt, StopKinds, Terminal
  <2> QED BY <2>1, <2>2, <2>3
<1>11. CASE CompactLocally(r) \/ Recompact(r)
  BY <1>1, <1>11 DEF CompactLocally, Recompact, stored
<1>12. CASE CallAdapter(r) \/ AdapterReturns(r)
  BY <1>1, <1>12 DEF CallAdapter, AdapterReturns, stored
<1>13. CASE AdapterThrows(r)
  BY <1>1, <1>13 DEF AdapterThrows, Throw, stored
<1>14. CASE SaveRetry(r) \/ BackoffEnds(r)
  BY <1>1, <1>14 DEF SaveRetry, BackoffEnds, stored
<1>15. CASE WriteThrows(r)
  <2>1. Goto(r, "fatal") /\ Executing(r) /\ UNCHANGED status
    BY <1>15 DEF WriteThrows, Throw, stored
  <2> QED BY <1>1, <2>1
<1>16. CASE ExecutionEscapes(r)
  <2>1. Goto(r, "leaving") /\ Executing(r) /\ r \in Faulty /\ UNCHANGED status
    BY <1>16 DEF ExecutionEscapes, stored
  <2> QED BY <2>1
<1> QED BY <1>3, <1>4, <1>5, <1>6, <1>7, <1>8, <1>9, <1>10, <1>11, <1>12, <1>13, <1>14, <1>15, <1>16
           DEF ExecStep, AdapterStep

\* The parts of the invariant over a step that moves executeRun of a started run.
LEMMA OutcomeMove ==
  ASSUME TypeInv, OutcomeInv, NEW r \in Runs, NEW l \in ExecStates \ {"none"},
         Goto(r, l), Executing(r),
         \A s \in Runs : s # r => status'[s] = status[s],
         r \notin Faulty /\ l \in Settled => status'[r] \in Terminal,
         r \in stopped \ Faulty /\ l \in Settled \ {"saved"} => status'[r] \in StopKinds,
         UNCHANGED <<enqueueState, sessionState, stopped>>
  PROVE  OutcomeInv'
<1> USE DEF OutcomeInv
<1>1. exec'[r] = l /\ exec[r] # "none" /\ \A s \in Runs : s # r => exec'[s] = exec[s]
  BY DEF Goto, TypeInv, TypeOK, Executing
<1>2. UNCHANGED <<arrivals, enq, running, activeRun, queue, waiting, orphans>>
  BY DEF enqueueState, sessionState
<1>3. StartedInv'
  BY <1>1, <1>2 DEF StartedInv
<1>4. RowInv'
  <2>1. stopped \subseteq Runs
    BY DEF TypeInv, TypeOK
  <2> QED BY <1>1, <2>1 DEF RowInv
<1>5. ArriveInv' /\ IdleInv'
  BY <1>2 DEF ArriveInv, IdleInv, Distinct
<1>6. OrderInv'
  <2>1. \A s \in Runs : exec'[s] # "none" <=> exec[s] # "none"
    BY <1>1
  <2>2. \A i \in DOMAIN arrivals : arrivals[i] \in Runs
    BY DEF TypeInv, TypeOK
  <2>3. (\A a, b \in DOMAIN queue, i, j \in DOMAIN arrivals :
           a < b /\ queue[a] = arrivals[i] /\ queue[b] = arrivals[j] => i < j)'
    BY <1>2 DEF OrderInv
  <2>4. (\A i, j \in DOMAIN arrivals, a \in DOMAIN queue :
           i < j /\ exec[arrivals[j]] # "none" => queue[a] # arrivals[i])'
    BY <1>2, <2>1, <2>2 DEF OrderInv
  <2>5. (\A s \in Runs \ Faulty : enq[s] = "done" =>
           \/ exec[s] # "none" \/ s \in orphans \/ status[s] \in StopKinds
           \/ \E a \in DOMAIN queue : queue[a] = s)'
    BY <1>1, <1>2 DEF OrderInv
  <2> QED BY <2>3, <2>4, <2>5 DEF OrderInv
<1> QED BY <1>3, <1>4, <1>5, <1>6

-----------------------------------------------------------------------------
(* cancelRun and failRun *)

LEMMA OutcomeStop ==
  ASSUME TypeInv, StopInv, OutcomeInv, NEW r \in Runs, NEW k \in StopKinds,
         StopLookup(k, r) \/ StopStep(k, r)
  PROVE  OutcomeInv'
<1> USE DEF OutcomeInv
<1>1. CASE ~StopMark(k, r)
  <2>1. UNCHANGED <<arrivals, enq, running, queue, orphans, exec, stopped, status>>
    BY <1>1 DEF StopLookup, StopStep, StopEmit, StopReturn, enqueueState, sessionState,
       execState, stored
  <2> QED BY <2>1 DEF StartedInv, RowInv, ArriveInv, IdleInv, OrderInv, Distinct
<1>2. CASE StopMark(k, r)
  <2>1. /\ queue' = Without(queue, r)
        /\ SetStatus(r, k) \/ (r \in Faulty /\ UNCHANGED status)
        /\ stopped' \subseteq stopped \cup {r} /\ stopped \subseteq Runs
        /\ UNCHANGED <<arrivals, enq, running, orphans, exec>>
    BY <1>2 DEF StopMark, enqueueState, execState, TypeInv, TypeOK
  <2>2. /\ r \notin Faulty => status'[r] = k
        /\ k \in Terminal /\ \A s \in Runs : s # r => status'[s] = status[s]
    BY <2>1 DEF SetStatus, TypeInv, TypeOK, StopKinds, Terminal
  <2>3. queue \in Seq(Runs)
    BY DEF TypeInv, TypeOK
  <2>4. /\ \A a, b \in DOMAIN queue' : a < b =>
             \E c, d \in DOMAIN queue : c < d /\ queue'[a] = queue[c] /\ queue'[b] = queue[d]
        /\ \A c \in DOMAIN queue : queue[c] # r => \E a \in DOMAIN queue' : queue'[a] = queue[c]
        /\ queue = <<>> => queue' = <<>>
    BY <2>1, <2>3, WithoutOrder
  <2>5. \A a \in DOMAIN queue' : \E c \in DOMAIN queue : queue'[a] = queue[c]
    BY <2>1, <2>3, WithoutElements DEF StopInv, QueueInv
  <2>6. StartedInv' /\ ArriveInv'
    BY <2>1 DEF StartedInv, ArriveInv, Distinct
  <2>7. RowInv'
    BY <2>1, <2>2 DEF RowInv
  <2>8. IdleInv'
    BY <2>1, <2>4 DEF IdleInv
  <2>9. (\A a, b \in DOMAIN queue, i, j \in DOMAIN arrivals :
           a < b /\ queue[a] = arrivals[i] /\ queue[b] = arrivals[j] => i < j)'
    <3> SUFFICES ASSUME NEW a \in DOMAIN queue', NEW b \in DOMAIN queue',
                        NEW i \in DOMAIN arrivals, NEW j \in DOMAIN arrivals,
                        a < b, queue'[a] = arrivals[i], queue'[b] = arrivals[j]
                 PROVE  i < j
      BY <2>1
    <3>1. PICK c \in DOMAIN queue, d \in DOMAIN queue :
            c < d /\ queue'[a] = queue[c] /\ queue'[b] = queue[d]
      BY <2>4
    <3> QED BY <3>1 DEF OrderInv
  <2>10. (\A i, j \in DOMAIN arrivals, a \in DOMAIN queue :
           i < j /\ exec[arrivals[j]] # "none" => queue[a] # arrivals[i])'
    BY <2>1, <2>5 DEF OrderInv
  <2>11. (\A s \in Runs \ Faulty : enq[s] = "done" =>
           \/ exec[s] # "none" \/ s \in orphans \/ status[s] \in StopKinds
           \/ \E a \in DOMAIN queue : queue[a] = s)'
    BY <2>1, <2>2, <2>4 DEF OrderInv
  <2> QED BY <2>6, <2>7, <2>8, <2>9, <2>10, <2>11 DEF OrderInv
<1> QED BY <1>1, <1>2

-----------------------------------------------------------------------------
(* finishRun *)

LEMMA OutcomeFinish ==
  ASSUME TypeInv, ClaimInv, StopInv, OutcomeInv, NEW r \in Runs, FinishRun(r)
  PROVE  OutcomeInv'
<1> USE DEF OutcomeInv
<1>1. /\ exec[r] = "leaving" /\ activeRun = r /\ enq[r] = "done"
      /\ r \notin Faulty => status[r] \in Terminal
      /\ \A s \in Runs : enq[s] # "starting"
      /\ r \in stopped \ Faulty => status[r] \in StopKinds
  BY RunsAssumption DEF FinishRun, ClaimInv, Executing, StartedInv, RowInv, Settled
<1>2. UNCHANGED <<arrivals, enq, stopped, status>> /\ stopped \subseteq Runs
  BY DEF FinishRun, enqueueState, stored, TypeInv, TypeOK
<1>3. queue \in Seq(Runs) /\ \A i \in DOMAIN arrivals : arrivals[i] \in Runs
  BY DEF TypeInv, TypeOK
<1>4. ArriveInv'
  BY <1>2 DEF ArriveInv, Distinct
<1>5. CASE HandOver(r)
  <2> DEFINE h == Head(queue)
  <2>1. /\ queue # <<>> /\ queue' = Tail(queue) /\ UNCHANGED <<running, orphans>>
        /\ exec' = [exec EXCEPT ![r] = "done", ![h] = "entry"]
    BY <1>5 DEF HandOver
  <2>2. /\ h \in Runs /\ h = queue[1] /\ 1 \in DOMAIN queue
        /\ DOMAIN queue = 1 .. Len(queue) /\ Len(queue) \in Nat
        /\ DOMAIN queue' = 1 .. (Len(queue) - 1)
        /\ \A i \in 1 .. (Len(queue) - 1) : queue'[i] = queue[i + 1] /\ i + 1 \in DOMAIN queue
        /\ \A i \in DOMAIN queue : i = 1 \/ (i - 1 \in DOMAIN queue' /\ queue'[i - 1] = queue[i])
    BY <1>3, <2>1, TailElements
  <2>3. enq[h] = "done"
    BY <2>2 DEF StopInv, QueueInv
  <2> HIDE DEF h
  <2>4. /\ exec'[h] = "entry" /\ exec'[r] \in {"done", "entry"}
        /\ \A s \in Runs : s \notin {r, h} => exec'[s] = exec[s]
        /\ r # h => exec'[r] = "done"
    BY <2>1, <2>2 DEF TypeInv, TypeOK
  <2>5. StartedInv'
    BY <1>1, <1>2, <2>3, <2>4 DEF StartedInv
  <2>6. RowInv'
    BY <1>1, <1>2, <2>4 DEF RowInv, Settled
  <2>7. IdleInv'
    BY <1>1, <1>2, <2>1 DEF IdleInv
  <2>8. (\A a, b \in DOMAIN queue, i, j \in DOMAIN arrivals :
           a < b /\ queue[a] = arrivals[i] /\ queue[b] = arrivals[j] => i < j)'
    <3> SUFFICES ASSUME NEW a \in DOMAIN queue', NEW b \in DOMAIN queue',
                        NEW i \in DOMAIN arrivals, NEW j \in DOMAIN arrivals,
                        a < b, queue'[a] = arrivals[i], queue'[b] = arrivals[j]
                 PROVE  i < j
      BY <1>2
    <3>1. /\ a + 1 \in DOMAIN queue /\ b + 1 \in DOMAIN queue /\ a + 1 < b + 1
          /\ queue[a + 1] = arrivals[i] /\ queue[b + 1] = arrivals[j]
      BY <2>2
    <3> QED BY <3>1 DEF OrderInv
  <2>9. (\A i, j \in DOMAIN arrivals, a \in DOMAIN queue :
           i < j /\ exec[arrivals[j]] # "none" => queue[a] # arrivals[i])'
    <3> SUFFICES ASSUME NEW i \in DOMAIN arrivals, NEW j \in DOMAIN arrivals,
                        NEW a \in DOMAIN queue', i < j, exec'[arrivals[j]] # "none",
                        queue'[a] = arrivals[i]
                 PROVE  FALSE
      BY <1>2
    <3>1. a + 1 \in DOMAIN queue /\ queue[a + 1] = arrivals[i] /\ 1 < a + 1
      BY <2>2
    <3>2. CASE arrivals[j] = h
      <4>1. j < i
        BY <2>2, <3>1, <3>2 DEF OrderInv
      <4>2. i \in Nat /\ j \in Nat
        BY DEF TypeInv, TypeOK
      <4> QED BY <4>1, <4>2
    <3>3. CASE arrivals[j] # h
      <4>1. exec[arrivals[j]] # "none"
        BY <1>1, <1>3, <2>4, <3>3
      <4> QED BY <3>1, <4>1 DEF OrderInv
    <3> QED BY <3>2, <3>3
  <2>10. (\A s \in Runs \ Faulty : enq[s] = "done" =>
           \/ exec[s] # "none" \/ s \in orphans \/ status[s] \in StopKinds
           \/ \E a \in DOMAIN queue : queue[a] = s)'
    <3> SUFFICES ASSUME NEW s \in Runs \ Faulty, enq[s] = "done", exec'[s] = "none"
                 PROVE  \/ s \in orphans \/ status[s] \in StopKinds
                        \/ \E a \in DOMAIN queue' : queue'[a] = s
      BY <1>2, <2>1
    <3>1. s \notin {r, h} /\ exec[s] = "none"
      BY <2>4
    <3>2. CASE \E c \in DOMAIN queue : queue[c] = s
      <4>1. PICK c \in DOMAIN queue : queue[c] = s
        BY <3>2
      <4>2. c - 1 \in DOMAIN queue' /\ queue'[c - 1] = s
        BY <2>2, <3>1, <4>1
      <4> QED BY <4>2
    <3> QED BY <3>1, <3>2 DEF OrderInv
  <2> QED BY <1>4, <2>5, <2>6, <2>7, <2>8, <2>9, <2>10 DEF OrderInv
<1>6. CASE GoIdle(r)
  <2>1. /\ queue = <<>> /\ queue' = queue /\ running' = FALSE
        /\ orphans' = orphans \cup {q \in Runs : enq[q] = "queuing"}
        /\ Goto(r, "done")
    BY <1>6 DEF GoIdle
  <2>2. exec'[r] = "done" /\ \A s \in Runs : s # r => exec'[s] = exec[s]
    BY <2>1 DEF Goto, TypeInv, TypeOK
  <2>3. StartedInv'
    BY <1>1, <1>2, <2>2 DEF StartedInv
  <2>4. RowInv'
    BY <1>1, <1>2, <2>2 DEF RowInv, Settled
  <2>5. IdleInv'
    BY <1>1, <1>2, <2>1 DEF IdleInv
  <2>6. (\A s \in Runs \ Faulty : enq[s] = "done" =>
           \/ exec[s] # "none" \/ s \in orphans \/ status[s] \in StopKinds
           \/ \E a \in DOMAIN queue : queue[a] = s)'
    BY <1>2, <2>1, <2>2 DEF OrderInv
  <2>7. DOMAIN queue' = {}
    BY <2>1
  <2> QED BY <1>4, <2>3, <2>4, <2>5, <2>6, <2>7 DEF OrderInv
<1> QED BY <1>5, <1>6 DEF FinishRun

-----------------------------------------------------------------------------
(* enqueue *)

\* A call past the lock: the calls before it have returned, those after it wait.
LEMMA LockOrder ==
  ASSUME TypeInv, ArriveInv, NEW r \in Runs, enq[r] \in {"queuing", "starting"}
  PROVE  \A s \in Runs : s # r => enq[s] \in {"idle", "locking"} \cup Returned
<1> SUFFICES ASSUME NEW s \in Runs, s # r, enq[s] \notin {"idle", "locking"}
             PROVE  enq[s] \in Returned
  OBVIOUS
<1>1. PICK i \in DOMAIN arrivals : arrivals[i] = r
  BY DEF ArriveInv
<1>2. PICK j \in DOMAIN arrivals : arrivals[j] = s
  BY DEF ArriveInv
<1>3. i \in Nat /\ j \in Nat /\ i # j
  BY <1>1, <1>2 DEF TypeInv, TypeOK
<1>4. CASE i < j
  BY <1>1, <1>2, <1>4 DEF ArriveInv, Returned
<1>5. CASE j < i
  BY <1>1, <1>2, <1>5 DEF ArriveInv
<1> QED BY <1>3, <1>4, <1>5

\* The calls of enqueue that pass the lock keep its order.
LEMMA ArriveMove ==
  ASSUME TypeInv, ArriveInv, NEW r \in Runs, NEW l, EnqGoto(r, l), UNCHANGED arrivals,
         \/ enq[r] \in {"queuing", "starting"} /\ l \in Returned
         \/ LockHolder(r) /\ l # "idle"
  PROVE  ArriveInv'
<1>1. enq'[r] = l /\ l # "idle" /\ enq[r] # "idle" /\ \A s \in Runs : s # r => enq'[s] = enq[s]
  BY DEF EnqGoto, LockHolder, TypeInv, TypeOK, Returned
<1>2. \A i \in DOMAIN arrivals : arrivals[i] \in Runs /\ i \in Nat
  BY DEF TypeInv, TypeOK
<1>3. (\A i, j \in DOMAIN arrivals :
       i < j /\ enq[arrivals[j]] # "locking" => enq[arrivals[i]] \in Returned)'
  <2> SUFFICES ASSUME NEW i \in DOMAIN arrivals, NEW j \in DOMAIN arrivals, i < j,
                      enq'[arrivals[j]] # "locking"
               PROVE  enq'[arrivals[i]] \in Returned
    OBVIOUS
  <2>1. CASE enq[r] \in {"queuing", "starting"} /\ l \in Returned
    <3>1. enq[arrivals[j]] # "locking"
      BY <1>1, <1>2, <2>1
    <3>2. enq[arrivals[i]] \in Returned
      BY <3>1 DEF ArriveInv
    <3> QED BY <1>1, <1>2, <2>1, <3>2
  <2>2. CASE LockHolder(r) /\ l # "idle"
    <3>1. PICK h \in DOMAIN arrivals :
            arrivals[h] = r /\ \A x \in 1 .. (h - 1) : enq[arrivals[x]] \in Returned
      BY <2>2 DEF LockHolder
    <3>2. enq[r] \notin Returned
      BY <2>2 DEF LockHolder
    <3>3. \A x \in DOMAIN arrivals : arrivals[x] = r => x = h
      BY <3>1 DEF ArriveInv, Distinct
    <3>4. arrivals \in Seq(Runs) /\ DOMAIN arrivals = 1 .. Len(arrivals)
      BY DEF TypeInv, TypeOK
    <3>5. CASE j = h
      <4>1. enq[arrivals[i]] \in Returned /\ arrivals[i] # r
        BY <3>1, <3>2, <3>4, <3>5
      <4> QED BY <1>1, <1>2, <4>1
    <3>6. CASE j # h
      <4>1. enq[arrivals[j]] # "locking"
        BY <1>1, <1>2, <3>3, <3>6
      <4>2. enq[arrivals[i]] \in Returned
        BY <4>1 DEF ArriveInv
      <4> QED BY <1>1, <1>2, <3>2, <4>2
    <3> QED BY <3>5, <3>6
  <2> QED BY <2>1, <2>2
<1> QED BY <1>1, <1>2, <1>3 DEF ArriveInv, Distinct

\* A call of enqueue that neither returns nor arrives.
LEMMA OutcomeLock ==
  ASSUME TypeInv, OutcomeInv, NEW r \in Runs, NEW l \in EnqStates \ {"idle", "done"},
         enq[r] # "done", EnqGoto(r, l), ArriveInv',
         \A s \in Runs : s # r => status'[s] = status[s],
         l = "queuing" => running', l = "starting" => ~running,
         running' = running \/ running' = TRUE,
         UNCHANGED <<arrivals, queue, orphans, exec, stopped>>
  PROVE  OutcomeInv'
<1> USE DEF OutcomeInv
<1>1. enq'[r] = l /\ exec[r] = "none" /\ \A s \in Runs : s # r => enq'[s] = enq[s]
  BY DEF EnqGoto, TypeInv, TypeOK, StartedInv
<1>2. StartedInv'
  BY <1>1 DEF StartedInv
<1>3. RowInv'
  <2>1. stopped \subseteq Runs
    BY DEF TypeInv, TypeOK
  <2> QED BY <1>1, <2>1 DEF RowInv, Settled
<1>4. IdleInv'
  BY <1>1 DEF IdleInv, TypeInv, TypeOK
<1>5. OrderInv'
  BY <1>1 DEF OrderInv
<1> QED BY <1>2, <1>3, <1>4, <1>5

LEMMA OutcomeEnqueue ==
  ASSUME TypeInv, ClaimInv, StopInv, OutcomeInv, NEW r \in Runs,
         Enqueue(r) \/ SessionMissing(r) \/ EnqueueStep(r)
  PROVE  OutcomeInv'
<1> USE DEF OutcomeInv
<1>1. CASE Enqueue(r)
  <2> DEFINE n == Len(arrivals) + 1
  <2>1. /\ enq[r] = "idle" /\ EnqGoto(r, "locking") /\ arrivals' = Append(arrivals, r)
        /\ UNCHANGED <<running, queue, orphans, exec, stopped, status>>
    BY <1>1 DEF Enqueue, sessionState, execState, stopState, stored
  <2>2. /\ DOMAIN arrivals' = 1 .. n /\ DOMAIN arrivals = 1 .. Len(arrivals)
        /\ Len(arrivals) \in Nat /\ arrivals'[n] = r
        /\ \A i \in 1 .. Len(arrivals) : arrivals'[i] = arrivals[i] /\ arrivals[i] \in Runs
        /\ \A i \in 1 .. n : i \in 1 .. Len(arrivals) \/ i = n
    BY <2>1, AppendElements DEF TypeInv, TypeOK
  <2>3. enq'[r] = "locking" /\ \A s \in Runs : s # r => enq'[s] = enq[s]
    BY <2>1 DEF EnqGoto, TypeInv, TypeOK
  <2>4. \A i \in 1 .. Len(arrivals) : arrivals[i] # r
    BY <2>1, <2>2 DEF ArriveInv
  <2>5. exec[r] = "none" /\ \A a \in DOMAIN queue : queue[a] # r
    BY <2>1 DEF StartedInv, StopInv, QueueInv
  <2>6. StartedInv'
    BY <2>1, <2>3 DEF StartedInv
  <2>7. RowInv'
    BY <2>1 DEF RowInv
  <2>8. IdleInv'
    BY <2>1, <2>3 DEF IdleInv
  <2>9. ArriveInv'
    <3>1. Distinct(arrivals)'
      <4> SUFFICES ASSUME NEW i \in 1 .. n, NEW j \in 1 .. n, arrivals'[i] = arrivals'[j]
                   PROVE  i = j
        BY <2>2 DEF Distinct
      <4> QED BY <2>2, <2>4 DEF ArriveInv, Distinct
    <3>2. (\A i \in DOMAIN arrivals : enq[arrivals[i]] # "idle")'
      <4> SUFFICES ASSUME NEW i \in 1 .. n PROVE enq'[arrivals'[i]] # "idle"
        BY <2>2
      <4> QED BY <2>2, <2>3, <2>4 DEF ArriveInv
    <3>3. (\A s \in Runs : enq[s] # "idle" => \E i \in DOMAIN arrivals : arrivals[i] = s)'
      <4> SUFFICES ASSUME NEW s \in Runs, enq'[s] # "idle"
                   PROVE  \E i \in 1 .. n : arrivals'[i] = s
        BY <2>2
      <4>1. CASE s = r
        BY <2>2, <4>1
      <4>2. CASE s # r
        <5>1. PICK i \in DOMAIN arrivals : arrivals[i] = s
          BY <2>3, <4>2 DEF ArriveInv
        <5> QED BY <2>2, <5>1
      <4> QED BY <4>1, <4>2
    <3>4. (\A i, j \in DOMAIN arrivals :
             i < j /\ enq[arrivals[j]] # "locking" => enq[arrivals[i]] \in Returned)'
      <4> SUFFICES ASSUME NEW i \in 1 .. n, NEW j \in 1 .. n, i < j,
                          enq'[arrivals'[j]] # "locking"
                   PROVE  enq'[arrivals'[i]] \in Returned
        BY <2>2
      <4>1. j # n /\ i # n
        BY <2>2, <2>3
      <4>2. i \in DOMAIN arrivals /\ j \in DOMAIN arrivals
        BY <2>2, <4>1
      <4> QED BY <2>2, <2>3, <2>4, <4>2 DEF ArriveInv
    <3> QED BY <3>1, <3>2, <3>3, <3>4 DEF ArriveInv
  <2>10. OrderInv'
    <3>1. (\A a, b \in DOMAIN queue, i, j \in DOMAIN arrivals :
             a < b /\ queue[a] = arrivals[i] /\ queue[b] = arrivals[j] => i < j)'
      <4> SUFFICES ASSUME NEW a \in DOMAIN queue, NEW b \in DOMAIN queue,
                          NEW i \in 1 .. n, NEW j \in 1 .. n,
                          a < b, queue[a] = arrivals'[i], queue[b] = arrivals'[j]
                   PROVE  i < j
        BY <2>1, <2>2
      <4>1. i # n /\ j # n
        BY <2>2, <2>5
      <4>2. i \in DOMAIN arrivals /\ j \in DOMAIN arrivals
        BY <2>2, <4>1
      <4> QED BY <2>2, <4>2 DEF OrderInv
    <3>2. (\A i, j \in DOMAIN arrivals, a \in DOMAIN queue :
             i < j /\ exec[arrivals[j]] # "none" => queue[a] # arrivals[i])'
      <4> SUFFICES ASSUME NEW i \in 1 .. n, NEW j \in 1 .. n, NEW a \in DOMAIN queue,
                          i < j, exec[arrivals'[j]] # "none"
                   PROVE  queue[a] # arrivals'[i]
        BY <2>1, <2>2
      <4>1. i # n /\ j # n
        BY <2>2, <2>5
      <4>2. i \in DOMAIN arrivals /\ j \in DOMAIN arrivals
        BY <2>2, <4>1
      <4> QED BY <2>2, <4>2 DEF OrderInv
    <3>3. (\A s \in Runs \ Faulty : enq[s] = "done" =>
             \/ exec[s] # "none" \/ s \in orphans \/ status[s] \in StopKinds
             \/ \E a \in DOMAIN queue : queue[a] = s)'
      BY <2>1, <2>3 DEF OrderInv
    <3> QED BY <3>1, <3>2, <3>3 DEF OrderInv
  <2> QED BY <2>6, <2>7, <2>8, <2>9, <2>10
<1>2. CASE SessionMissing(r)
  <2>1. /\ LockHolder(r) /\ enq[r] = "locking" /\ EnqGoto(r, "rejected")
        /\ UNCHANGED <<arrivals, running, queue, orphans, exec, stopped, status>>
    BY <1>2 DEF SessionMissing, sessionState, execState, stopState, stored
  <2>2. ArriveInv'
    BY <2>1, ArriveMove
  <2> QED BY <2>1, <2>2, OutcomeLock DEF EnqStates, Returned
<1>3. CASE CreateRun(r)
  <2>1. PICK l \in {IF running THEN "queuing" ELSE "starting", "rejected"} :
          /\ LockHolder(r) /\ enq[r] = "locking" /\ EnqGoto(r, l) /\ running' = TRUE
          /\ UNCHANGED status \/ \E s : SetStatus(r, s)
          /\ UNCHANGED <<arrivals, queue, orphans, exec, stopped>>
    BY <1>3 DEF CreateRun, execState, stopState
  <2>2. \A s \in Runs : s # r => status'[s] = status[s]
    BY <2>1 DEF SetStatus, TypeInv, TypeOK
  <2>3. l \in EnqStates \ {"idle", "done"} /\ l # "idle"
    BY DEF EnqStates, Returned
  <2>4. ArriveInv'
    BY <2>1, <2>3, ArriveMove
  <2> QED BY <2>1, <2>2, <2>3, <2>4, OutcomeLock
<1>4. CASE AnnounceCreated(r)
  <2>1. UNCHANGED <<arrivals, running, queue, orphans, exec, stopped, status>>
    BY <1>4 DEF AnnounceCreated, sessionState, execState, stopState
  <2>2. CASE UNCHANGED enq
    BY <2>1, <2>2 DEF StartedInv, RowInv, ArriveInv, IdleInv, OrderInv, Distinct
  <2>3. CASE EnqGoto(r, "rejected")
    <3>1. enq[r] \in {"queuing", "starting"} /\ enq'[r] = "rejected"
          /\ \A s \in Runs : s # r => enq'[s] = enq[s]
      BY <1>4, <2>3 DEF AnnounceCreated, EnqGoto, TypeInv, TypeOK
    <3>2. ArriveInv'
      BY <1>4, <2>1, <2>3, ArriveMove DEF AnnounceCreated, Returned
    <3>3. StartedInv' /\ RowInv' /\ IdleInv' /\ OrderInv'
      BY <2>1, <3>1 DEF StartedInv, RowInv, IdleInv, OrderInv
    <3> QED BY <3>2, <3>3
  <2> QED BY <1>4, <2>2, <2>3 DEF AnnounceCreated
<1>5. CASE PushRun(r)
  <2>1. /\ enq[r] = "queuing" /\ EnqGoto(r, "done")
        /\ queue' = IF r \in orphans THEN queue ELSE Append(queue, r)
        /\ UNCHANGED <<arrivals, running, orphans, exec, stopped, status>>
    BY <1>5 DEF PushRun, execState, stopState, stored
  <2>2. enq'[r] = "done" /\ \A s \in Runs : s # r => enq'[s] = enq[s]
    BY <2>1 DEF EnqGoto, TypeInv, TypeOK
  <2>3. \A s \in Runs : enq[s] # "starting"
    BY <2>1, LockOrder DEF Returned
  <2>4. ArriveInv'
    BY <2>1, ArriveMove DEF Returned
  <2>5. StartedInv' /\ RowInv'
    BY <2>1, <2>2 DEF StartedInv, RowInv
  <2>6. CASE r \in orphans
    <3>1. IdleInv' /\ OrderInv'
      BY <2>1, <2>2, <2>6 DEF IdleInv, OrderInv
    <3> QED BY <2>4, <2>5, <3>1
  <2>7. CASE r \notin orphans
    <3>1. queue' = Append(queue, r) /\ running
      BY <2>1, <2>7 DEF IdleInv
    <3>2. /\ DOMAIN queue' = 1 .. (Len(queue) + 1)
          /\ DOMAIN queue = 1 .. Len(queue) /\ Len(queue) \in Nat
          /\ queue'[Len(queue) + 1] = r
          /\ \A i \in 1 .. Len(queue) : queue'[i] = queue[i] /\ queue[i] \in Runs
          /\ \A i \in 1 .. (Len(queue) + 1) : i \in 1 .. Len(queue) \/ i = Len(queue) + 1
      BY <3>1, AppendElements DEF TypeInv, TypeOK
    <3>3. IdleInv'
      BY <2>1, <2>2, <2>3, <3>1 DEF IdleInv
    <3>4. \A j \in DOMAIN arrivals : j \in Nat /\ arrivals[j] \in Runs
      BY DEF TypeInv, TypeOK
    <3>5. \A i, j \in DOMAIN arrivals : arrivals[i] = r /\ enq[arrivals[j]] = "done" => j < i
      BY <2>1, <3>4 DEF ArriveInv, Returned
    <3>6. (\A a, b \in DOMAIN queue, i, j \in DOMAIN arrivals :
             a < b /\ queue[a] = arrivals[i] /\ queue[b] = arrivals[j] => i < j)'
      <4> SUFFICES ASSUME NEW a \in 1 .. (Len(queue) + 1), NEW b \in 1 .. (Len(queue) + 1),
                          NEW i \in DOMAIN arrivals, NEW j \in DOMAIN arrivals,
                          a < b, queue'[a] = arrivals[i], queue'[b] = arrivals[j]
                   PROVE  i < j
        BY <2>1, <3>2
      <4>1. a \in DOMAIN queue /\ queue[a] = arrivals[i]
        BY <3>2
      <4>2. enq[arrivals[i]] = "done"
        BY <4>1 DEF StopInv, QueueInv
      <4>3. CASE b = Len(queue) + 1
        BY <3>2, <3>5, <4>2, <4>3
      <4>4. CASE b \in 1 .. Len(queue)
        BY <3>2, <4>1, <4>4 DEF OrderInv
      <4> QED BY <3>2, <4>3, <4>4
    <3>7. (\A i, j \in DOMAIN arrivals, a \in DOMAIN queue :
             i < j /\ exec[arrivals[j]] # "none" => queue[a] # arrivals[i])'
      <4> SUFFICES ASSUME NEW i \in DOMAIN arrivals, NEW j \in DOMAIN arrivals,
                          NEW a \in 1 .. (Len(queue) + 1), i < j, exec[arrivals[j]] # "none"
                   PROVE  queue'[a] # arrivals[i]
        BY <2>1, <3>2
      <4>1. CASE a = Len(queue) + 1
        <5>1. enq[arrivals[j]] = "done"
          BY <3>4 DEF StartedInv
        <5>2. arrivals[i] = r => j < i
          BY <3>5, <5>1
        <5> QED BY <3>2, <3>4, <4>1, <5>2
      <4>2. CASE a \in 1 .. Len(queue)
        BY <3>2, <4>2 DEF OrderInv
      <4> QED BY <3>2, <4>1, <4>2
    <3>8. (\A s \in Runs \ Faulty : enq[s] = "done" =>
             \/ exec[s] # "none" \/ s \in orphans \/ status[s] \in StopKinds
             \/ \E a \in DOMAIN queue : queue[a] = s)'
      <4> SUFFICES ASSUME NEW s \in Runs \ Faulty, enq'[s] = "done"
                   PROVE  \/ exec[s] # "none" \/ s \in orphans \/ status[s] \in StopKinds
                          \/ \E a \in DOMAIN queue' : queue'[a] = s
        BY <2>1
      <4>1. CASE s = r
        BY <3>2, <4>1
      <4>2. CASE s # r
        BY <2>2, <3>2, <4>2 DEF OrderInv
      <4> QED BY <4>1, <4>2
    <3>9. OrderInv'
      BY <3>6, <3>7, <3>8 DEF OrderInv
    <3> QED BY <2>4, <2>5, <3>3, <3>9
  <2> QED BY <2>6, <2>7
<1>6. CASE StartRun(r)
  <2>1. /\ enq[r] = "starting" /\ EnqGoto(r, "done") /\ running' = TRUE /\ Goto(r, "entry")
        /\ UNCHANGED <<arrivals, queue, orphans, stopped, status>>
    BY <1>6 DEF StartRun, stopState, stored
  <2>2. /\ enq'[r] = "done" /\ \A s \in Runs : s # r => enq'[s] = enq[s]
        /\ exec'[r] = "entry" /\ \A s \in Runs : s # r => exec'[s] = exec[s]
    BY <2>1 DEF EnqGoto, Goto, TypeInv, TypeOK
  <2>3. queue = <<>>
    BY <2>1 DEF IdleInv
  <2>4. ArriveInv'
    BY <2>1, ArriveMove DEF Returned
  <2>5. StartedInv'
    BY <2>2 DEF StartedInv
  <2>6. RowInv'
    <3>1. stopped \subseteq Runs
      BY DEF TypeInv, TypeOK
    <3> QED BY <2>1, <2>2, <3>1 DEF RowInv, Settled
  <2>7. IdleInv'
    BY <2>1, <2>2, <2>3 DEF IdleInv
  <2>8. OrderInv'
    BY <2>1, <2>2, <2>3 DEF OrderInv
  <2> QED BY <2>4, <2>5, <2>6, <2>7, <2>8
<1> QED BY <1>1, <1>2, <1>3, <1>4, <1>5, <1>6 DEF EnqueueStep

-----------------------------------------------------------------------------
(* The invariant, and the theorems *)

LEMMA OutcomeInit == Init => OutcomeInv
BY DEF Init, OutcomeInv, StartedInv, RowInv, Settled, ArriveInv, IdleInv, OrderInv, Distinct

LEMMA OutcomeNext ==
  TypeInv /\ ClaimInv /\ StopInv /\ OutcomeInv /\ [Next]_vars => OutcomeInv'
<1> SUFFICES ASSUME TypeInv, ClaimInv, StopInv, OutcomeInv, [Next]_vars PROVE OutcomeInv'
  OBVIOUS
<1>1. ASSUME NEW r \in Runs, ExecStep(r) \/ AdapterStep(r) \/ WriteThrows(r) \/ ExecutionEscapes(r)
      PROVE  OutcomeInv'
  <2>1. CASE FinishRun(r)
    BY <2>1, OutcomeFinish
  <2>2. CASE AdapterMessage(r)
    BY <2>2 DEF AdapterMessage, enqueueState, sessionState, execState, stopState, OutcomeInv,
       StartedInv, RowInv, ArriveInv, IdleInv, OrderInv, Distinct
  <2>3. CASE ~FinishRun(r) /\ ~AdapterMessage(r)
    <3>1. PICK l \in ExecStates \ {"none", "done"} :
            /\ Goto(r, l) /\ Executing(r)
            /\ \A s \in Runs : s # r => status'[s] = status[s]
            /\ r \notin Faulty /\ l \in Settled => status'[r] \in Terminal
            /\ r \in stopped \ Faulty /\ l \in Settled \ {"saved"} => status'[r] \in StopKinds
      BY <1>1, <2>3, ExecRow DEF OutcomeInv
    <3>2. UNCHANGED <<enqueueState, sessionState, stopped>>
      BY <1>1, <2>3, ExecMoves DEF stopState
    <3> QED BY <3>1, <3>2, OutcomeMove
  <2> QED BY <2>1, <2>2, <2>3
<1>2. ASSUME NEW w \in Waiters, WaitForIdle(w)
      PROVE  OutcomeInv'
  BY <1>2 DEF WaitForIdle, enqueueState, execState, stopState, stored, OutcomeInv,
     StartedInv, RowInv, ArriveInv, IdleInv, OrderInv, Distinct
<1>3. CASE UNCHANGED vars
  BY <1>3 DEF vars, enqueueState, sessionState, execState, stopState, stored, OutcomeInv,
     StartedInv, RowInv, ArriveInv, IdleInv, OrderInv, Distinct
<1> QED BY <1>1, <1>2, <1>3, OutcomeEnqueue, OutcomeStop DEF Next

LEMMA Outcome == Spec => [](TypeInv /\ OutcomeInv)
<1>1. Init => ClaimInv /\ StopInv
  BY DEF Init, ClaimInv, StopInv, QueueInv, FlagInv, Distinct, Executing
<1> QED BY <1>1, TypeInit, TypeNext, ClaimNext, StopInvNext, OutcomeInit, OutcomeNext, PTL
           DEF Spec

\* The invariant keeps the order of the starts.
LEMMA OutcomeFifo == TypeInv /\ OutcomeInv => FifoStart
<1> SUFFICES ASSUME TypeInv, OutcomeInv, NEW i \in DOMAIN arrivals, NEW j \in DOMAIN arrivals,
                    i < j, exec[arrivals[j]] # "none", arrivals[i] \notin Faulty
             PROVE  \/ exec[arrivals[i]] # "none" \/ enq[arrivals[i]] = "rejected"
                    \/ arrivals[i] \in orphans \/ status[arrivals[i]] \in StopKinds
  BY DEF FifoStart
<1>1. arrivals[i] \in Runs /\ arrivals[j] \in Runs
  BY DEF TypeInv, TypeOK
<1>2. enq[arrivals[j]] = "done"
  BY <1>1 DEF OutcomeInv, StartedInv
<1>3. enq[arrivals[i]] \in Returned
  BY <1>2 DEF OutcomeInv, ArriveInv
<1>4. \A a \in DOMAIN queue : queue[a] # arrivals[i]
  BY DEF OutcomeInv, OrderInv
<1> QED BY <1>1, <1>3, <1>4 DEF OutcomeInv, OrderInv, Returned

\* Runs start in the order enqueue was called, whatever overlaps with the two awaits
\* between the lock and the push, and with the hand-over of finishRun.
THEOREM RunsStartInOrder == Spec => []FifoStart
BY OutcomeFifo, Outcome, PTL

\* A run that enqueue has left queued is in the queue, executes, or was orphaned by a
\* finishRun that deleted the state its enqueue had captured.
THEOREM QueuedIsOwned == Spec => []QueuedHasOwner
<1>1. TypeInv /\ OutcomeInv => QueuedHasOwner
  <2> SUFFICES ASSUME TypeInv, OutcomeInv, NEW r \in Runs \ Faulty, status[r] = "queued", enq[r] = "done",
                      ~Executing(r), r \notin orphans
               PROVE  \E i \in DOMAIN queue : queue[i] = r
    BY DEF QueuedHasOwner
  <2>1. exec[r] # "done"
    BY DEF OutcomeInv, RowInv, Settled, Terminal
  <2> QED BY <2>1 DEF OutcomeInv, OrderInv, Executing, StopKinds
<1> QED BY <1>1, Outcome, PTL

\* A run whose execution has ended is persisted in a terminal status, however cancelRun,
\* failRun and the saves of executeRun interleave.
THEOREM EndedIsTerminal == Spec => []FinishedIsTerminal
<1>1. OutcomeInv => FinishedIsTerminal
  BY DEF OutcomeInv, RowInv, Settled, FinishedIsTerminal
<1> QED BY <1>1, Outcome, PTL

\* A run marked by cancelRun or failRun while it was active never ends succeeded: the
\* check after the final save repairs the row a racing success has overwritten.
THEOREM StoppedIsNotSucceeded == Spec => []StoppedNeverSucceeds
<1>1. OutcomeInv => StoppedNeverSucceeds
  BY DEF OutcomeInv, RowInv, Settled, StoppedNeverSucceeds
<1> QED BY <1>1, Outcome, PTL
=============================================================================
