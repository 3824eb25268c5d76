---------------------------- MODULE WorkerAgents ----------------------------
(***************************************************************************)
(* The WorkerAgentService for the workers of one parent run: spawn under    *)
(* the parent's lock, the child run each spawn starts, the touches of the   *)
(* invocation record by the child's events, and the callers of cancel (the  *)
(* tool itself and wait with cancelOnTimeout).                             *)
(*                                                                         *)
(* Every action is the code between two awaits and takes the effect of the  *)
(* persistence call it ends with; callers resume in any order.             *)
(***************************************************************************)
EXTENDS Integers, Sequences, FiniteSets

CONSTANTS
  Workers,             \* one spawn call, its invocation and its child run each
  Cancellers,          \* concurrent callers of cancel for one invocation
  MaxWorkersPerRun,    \* session.maxWorkerAgentsPerRun
  Faulty               \* workers for which a save, a read or an event append may reject

ASSUME WorkersAssumption ==
  /\ IsFiniteSet(Workers)
  /\ MaxWorkersPerRun \in Nat
  /\ Faulty \subseteq Workers

Terminal == {"succeeded", "failed", "cancelled"}
SpawnReturned == {"spawned", "refused"}

VARIABLES
  chain,      \* spawnChains: the spawn calls in the order of their lock
  spawn,      \* where each spawn call stands
  inv,        \* the persisted WorkerAgentInvocation.status
  run,        \* the persisted AgentRun.status of the child
  outcomes,   \* the terminal run events broadcast for the child
  active,     \* activeWorkers
  finalized,  \* finalizedChildRuns: the status a child was marked with
  aborted,    \* children whose AbortController has been aborted
  exec,       \* where executeChildRun stands
  touch,      \* where handleChildEvent stands
  seen,       \* the invocation status each update of the record has read
  cancel,     \* where each cancel call stands
  held        \* cancel calls that found the worker active

store    == <<inv, run, outcomes>>
registry == <<active, finalized, aborted>>
vars == <<chain, spawn, store, registry, exec, touch, seen, cancel, held>>

Init ==
  /\ chain = <<>>
  /\ spawn = [w \in Workers |-> "idle"]
  /\ inv = [w \in Workers |-> "none"]
  /\ run = [w \in Workers |-> "none"]
  /\ outcomes = [w \in Workers |-> {}]
  /\ active = {}
  /\ finalized = [w \in Workers |-> "none"]
  /\ aborted = {}
  /\ exec = [w \in Workers |-> "none"]
  /\ touch = [w \in Workers |-> "idle"]
  /\ seen = [p \in {"exec", "touch"} |-> [w \in Workers |-> "none"]]
  /\ cancel = [c \in Cancellers |-> [w \in Workers |-> "idle"]]
  /\ held = {}

-----------------------------------------------------------------------------
(* Helpers *)

SpawnGoto(w, l) == spawn' = [spawn EXCEPT ![w] = l]
ExecGoto(w, l)  == exec' = [exec EXCEPT ![w] = l]

\* Mutation: spawn takes no lock.
LockHolderAlways(w) == spawn[w] \notin {"idle"} \cup SpawnReturned

\* The spawn call at the head of the parent run's chain.
LockHolder(w) ==
  /\ spawn[w] \notin {"idle"} \cup SpawnReturned
  /\ \E i \in DOMAIN chain :
       /\ chain[i] = w
       /\ \A j \in 1 .. (i - 1) : spawn[chain[j]] \in SpawnReturned

Existing == {w \in Workers : inv[w] # "none"}

-----------------------------------------------------------------------------
(* spawn *)

\* Mutation: a spawn call is entered twice.
SpawnAgain(w) ==
  /\ spawn[w] \in {"idle", "locking"}
  /\ SpawnGoto(w, "locking")
  /\ chain' = Append(chain, w)
  /\ UNCHANGED <<store, registry, exec, touch, seen, cancel, held>>

Spawn(w) ==
  /\ spawn[w] = "idle"
  /\ SpawnGoto(w, "locking")
  /\ chain' = Append(chain, w)
  /\ UNCHANGED <<store, registry, exec, touch, seen, cancel, held>>

\* listByParentRun is called: at the limit the spawn throws when it resumes,
\* otherwise the role, depth, tools and model are checked.
CountExisting(w) ==
  /\ LockHolder(w) /\ spawn[w] = "locking"
  /\ SpawnGoto(w, IF Cardinality(Existing) >= MaxWorkersPerRun THEN "overLimit" ELSE "checking")
  /\ UNCHANGED <<chain, store, registry, exec, touch, seen, cancel, held>>

\* The limit, or a role, depth or tool check, refuses the spawn.
Refuse(w) ==
  /\ spawn[w] \in {"overLimit", "checking"}
  /\ SpawnGoto(w, "refused")
  /\ UNCHANGED <<chain, store, registry, exec, touch, seen, cancel, held>>

SaveInvocation(w) ==
  /\ spawn[w] = "checking"
  /\ SpawnGoto(w, "savingRun")
  /\ inv' = [inv EXCEPT ![w] = "running"]
  /\ UNCHANGED <<chain, run, outcomes, registry, exec, touch, seen, cancel, held>>

SaveChildRun(w) ==
  /\ spawn[w] = "savingRun"
  /\ SpawnGoto(w, "registering")
  /\ run' = [run EXCEPT ![w] = "running"]
  /\ UNCHANGED <<chain, inv, outcomes, registry, exec, touch, seen, cancel, held>>

\* The worker is registered and worker.invocation.created and run.created go out.
Register(w) ==
  /\ spawn[w] = "registering"
  /\ SpawnGoto(w, "announcing")
  /\ active' = active \cup {w}
  /\ UNCHANGED <<chain, store, finalized, aborted, exec, touch, seen, cancel, held>>

\* Mutation: a spawn that fails leaves its worker in the registry.
SpawnFailsRegistered(w) ==
  /\ w \in Faulty
  /\ spawn[w] \in {"savingRun", "registering", "announcing"}
  /\ SpawnGoto(w, "refused")
  /\ UNCHANGED <<chain, store, registry, exec, touch, seen, cancel, held>>

\* The call that follows the invocation's save rejects: the worker leaves the
\* registry, the rows written so far stay.
SpawnFails(w) ==
  /\ w \in Faulty
  /\ spawn[w] \in {"savingRun", "registering", "announcing"}
  /\ SpawnGoto(w, "refused")
  /\ active' = active \ {w}
  /\ UNCHANGED <<chain, store, finalized, aborted, exec, touch, seen, cancel, held>>

\* The lock is released and executeChildRun runs up to its first await.
StartChild(w) ==
  /\ spawn[w] = "announcing"
  /\ SpawnGoto(w, "spawned")
  /\ ExecGoto(w, IF finalized[w] = "none" THEN "started" ELSE "leaving")
  /\ UNCHANGED <<chain, store, registry, touch, seen, cancel, held>>

-----------------------------------------------------------------------------
(* executeChildRun *)

\* touchInvocation reads the record, without a look at the flag of the child ...
ReadForTouch(w) ==
  /\ exec[w] = "started"
  /\ ExecGoto(w, "touching")
  /\ seen' = [seen EXCEPT !["exec"][w] = inv[w]]
  /\ UNCHANGED <<chain, spawn, store, registry, touch, cancel, held>>

\* ... and writes it back with a new lastEventAt.
WriteTouch(w) ==
  /\ exec[w] = "touching"
  /\ ExecGoto(w, "touched")
  /\ inv' = [inv EXCEPT ![w] = seen["exec"][w]]
  /\ UNCHANGED <<chain, spawn, run, outcomes, registry, touch, seen, cancel, held>>

CallAdapter(w) ==
  /\ exec[w] = "touched"
  /\ ExecGoto(w, IF finalized[w] = "none" THEN "adapter" ELSE "leaving")
  /\ UNCHANGED <<chain, spawn, store, registry, touch, seen, cancel, held>>

\* Mutation: finalizeChildRun saves without asking whether the child is final.
FinalizeAnyway(w, s) ==
  /\ finalized' = [finalized EXCEPT ![w] = s]
  /\ run' = [run EXCEPT ![w] = s]
  /\ ExecGoto(w, "finalizing")

\* finalizeChildRun up to its first await: mark, unless somebody has, and save.
\* After a rejected save the catch finds the mark and gives up.
Finalize(w, s) ==
  \/ /\ finalized[w] # "none"
     /\ ExecGoto(w, "leaving")
     /\ UNCHANGED <<finalized, run>>
  \/ /\ finalized[w] = "none"
     /\ finalized' = [finalized EXCEPT ![w] = s]
     /\ \/ run' = [run EXCEPT ![w] = s] /\ ExecGoto(w, "finalizing")
        \/ w \in Faulty /\ UNCHANGED run /\ ExecGoto(w, "leaving")

Thrown(w) == IF w \in aborted THEN "cancelled" ELSE "failed"

\* The adapter returns or throws: a throw under an aborted signal is a cancellation.
AdapterEnds(w) ==
  /\ exec[w] = "adapter"
  /\ \E s \in {"succeeded", Thrown(w)} : Finalize(w, s)
  /\ UNCHANGED <<chain, spawn, inv, outcomes, active, aborted, touch, seen, cancel, held>>

\* A call before the adapter's rejects and the catch finalizes the child.
StartThrows(w) ==
  /\ w \in Faulty
  /\ exec[w] \in {"started", "touching", "touched"}
  /\ Finalize(w, Thrown(w))
  /\ UNCHANGED <<chain, spawn, inv, outcomes, active, aborted, touch, seen, cancel, held>>

\* A call after the mark rejects: the mark makes the catch give up.
FinalizeThrows(w) ==
  /\ w \in Faulty
  /\ exec[w] \in {"finalizing", "recording", "emitting"}
  /\ ExecGoto(w, "leaving")
  /\ UNCHANGED <<chain, spawn, store, registry, touch, seen, cancel, held>>

\* updateInvocationRecord: the record read is overwritten by the final status.
ReadForOutcome(w) ==
  /\ exec[w] = "finalizing"
  /\ ExecGoto(w, "recording")
  /\ UNCHANGED <<chain, spawn, store, registry, touch, seen, cancel, held>>

WriteOutcome(w) ==
  /\ exec[w] = "recording"
  /\ ExecGoto(w, "emitting")
  /\ inv' = [inv EXCEPT ![w] = finalized[w]]
  /\ UNCHANGED <<chain, spawn, run, outcomes, registry, touch, seen, cancel, held>>

EmitOutcome(w) ==
  /\ exec[w] = "emitting"
  /\ ExecGoto(w, "leaving")
  /\ outcomes' = [outcomes EXCEPT ![w] = @ \cup {finalized[w]}]
  /\ UNCHANGED <<chain, spawn, inv, run, registry, touch, seen, cancel, held>>

\* Mutation: the finally leaves the mark of the child behind.
LeaveKeepsMark(w) ==
  /\ exec[w] = "leaving"
  /\ ExecGoto(w, "done")
  /\ active' = active \ {w}
  /\ UNCHANGED <<chain, spawn, store, finalized, aborted, touch, seen, cancel, held>>

\* The finally.
Leave(w) ==
  /\ exec[w] = "leaving"
  /\ ExecGoto(w, "done")
  /\ active' = active \ {w}
  /\ finalized' = [finalized EXCEPT ![w] = "none"]
  /\ UNCHANGED <<chain, spawn, store, aborted, touch, seen, cancel, held>>

-----------------------------------------------------------------------------
(* handleChildEvent: one event of the child in flight at a time *)

\* The event is not dropped: its step or message is saved and it is broadcast.
ChildEvent(w) ==
  /\ exec[w] = "adapter" /\ touch[w] = "idle"
  /\ finalized[w] = "none"
  /\ touch' = [touch EXCEPT ![w] = "broadcasting"]
  /\ UNCHANGED <<chain, spawn, store, registry, exec, seen, cancel, held>>

\* The flag is looked at again before the record is read.
EventRead(w) ==
  /\ touch[w] = "broadcasting"
  /\ \/ /\ finalized[w] # "none"
        /\ touch' = [touch EXCEPT ![w] = "idle"]
        /\ UNCHANGED seen
     \/ /\ finalized[w] = "none"
        /\ touch' = [touch EXCEPT ![w] = "touching"]
        /\ seen' = [seen EXCEPT !["touch"][w] = inv[w]]
  /\ UNCHANGED <<chain, spawn, store, registry, exec, cancel, held>>

EventWrite(w) ==
  /\ touch[w] = "touching"
  /\ touch' = [touch EXCEPT ![w] = "idle"]
  /\ inv' = [inv EXCEPT ![w] = seen["touch"][w]]
  /\ UNCHANGED <<chain, spawn, run, outcomes, registry, exec, seen, cancel, held>>

-----------------------------------------------------------------------------
(* cancel, called by the tool or by a wait that timed out *)

CancelGoto(c, w, l) == cancel' = [cancel EXCEPT ![c][w] = l]

\* loadInvocationWithSession finds the invocation, whatever its status.  The model
\* that calls cancel sees ids in tool results, after its own spawn calls returned.
LoadForCancel(c, w) ==
  /\ cancel[c][w] = "idle"
  /\ inv[w] # "none" /\ spawn[w] \in SpawnReturned
  /\ CancelGoto(c, w, "loaded")
  /\ UNCHANGED <<chain, spawn, store, registry, exec, touch, seen, held>>

\* A child that is being finalized is left alone; a missing run is an error.
FindChildRun(c, w) ==
  /\ cancel[c][w] = "loaded"
  /\ \/ /\ finalized[w] # "none" \/ run[w] = "none"
        /\ CancelGoto(c, w, "idle")
     \/ /\ finalized[w] = "none" /\ run[w] # "none"
        /\ CancelGoto(c, w, "found")
  /\ UNCHANGED <<chain, spawn, store, registry, exec, touch, seen, held>>

\* Mutation: the cancelled run is marked and not saved.
MarkCancelledUnsaved(c, w) ==
  /\ cancel[c][w] = "found"
  /\ active' = active \ {w}
  /\ finalized[w] = "none"
  /\ finalized' = [finalized EXCEPT ![w] = "cancelled"]
  /\ held' = IF w \in active THEN held \cup {<<c, w>>} ELSE held \ {<<c, w>>}
  /\ CancelGoto(c, w, "runSaved")
  /\ UNCHANGED <<chain, spawn, inv, run, outcomes, aborted, exec, touch, seen>>

\* Take the worker out of the registry and mark the child, unless somebody has.
MarkCancelled(c, w) ==
  /\ cancel[c][w] = "found"
  /\ active' = active \ {w}
  /\ \/ /\ finalized[w] # "none"
        /\ CancelGoto(c, w, "idle")
        /\ UNCHANGED <<finalized, run, held>>
     \/ /\ finalized[w] = "none"
        /\ finalized' = [finalized EXCEPT ![w] = "cancelled"]
        /\ held' = IF w \in active THEN held \cup {<<c, w>>} ELSE held \ {<<c, w>>}
        /\ \/ run' = [run EXCEPT ![w] = "cancelled"] /\ CancelGoto(c, w, "runSaved")
           \/ w \in Faulty /\ UNCHANGED run /\ CancelGoto(c, w, "idle")
  /\ UNCHANGED <<chain, spawn, inv, outcomes, aborted, exec, touch, seen>>

ReadForCancel(c, w) ==
  /\ cancel[c][w] = "runSaved"
  /\ CancelGoto(c, w, "read")
  /\ UNCHANGED <<chain, spawn, store, registry, exec, touch, seen, held>>

WriteCancel(c, w) ==
  /\ cancel[c][w] = "read"
  /\ CancelGoto(c, w, "written")
  /\ inv' = [inv EXCEPT ![w] = "cancelled"]
  /\ UNCHANGED <<chain, spawn, run, outcomes, registry, exec, touch, seen, held>>

\* Mutation: cancel records the cancellation and aborts nothing.
AbortForgotten(c, w) ==
  /\ cancel[c][w] = "written"
  /\ CancelGoto(c, w, "emitted")
  /\ outcomes' = [outcomes EXCEPT ![w] = @ \cup {"cancelled"}]
  /\ UNCHANGED <<chain, spawn, inv, run, registry, exec, touch, seen, held>>

\* Abort the adapter of a worker found active and broadcast run.cancelled.
Abort(c, w) ==
  /\ cancel[c][w] = "written"
  /\ CancelGoto(c, w, "emitted")
  /\ aborted' = IF <<c, w>> \in held THEN aborted \cup {w} ELSE aborted
  /\ outcomes' = [outcomes EXCEPT ![w] = @ \cup {"cancelled"}]
  /\ UNCHANGED <<chain, spawn, inv, run, active, finalized, exec, touch, seen, held>>

\* The mark of a worker that was not active is dropped here, that of an active
\* one by the finally of executeChildRun.
CancelReturns(c, w) ==
  /\ cancel[c][w] = "emitted"
  /\ CancelGoto(c, w, "idle")
  /\ finalized' = IF <<c, w>> \in held THEN finalized ELSE [finalized EXCEPT ![w] = "none"]
  /\ UNCHANGED <<chain, spawn, store, active, aborted, exec, touch, seen, held>>

\* A call after the mark rejects: cancel throws, and the mark stays.
CancelThrows(c, w) ==
  /\ w \in Faulty
  /\ cancel[c][w] \in {"runSaved", "read", "written", "emitted"}
  /\ CancelGoto(c, w, "idle")
  /\ UNCHANGED <<chain, spawn, store, registry, exec, touch, seen, held>>

-----------------------------------------------------------------------------

SpawnStep(w) ==
  CountExisting(w) \/ Refuse(w) \/ SaveInvocation(w) \/ SaveChildRun(w)
  \/ Register(w) \/ StartChild(w)

ExecStep(w) ==
  ReadForTouch(w) \/ WriteTouch(w) \/ CallAdapter(w)
  \/ ReadForOutcome(w) \/ WriteOutcome(w) \/ EmitOutcome(w) \/ Leave(w)

CancelStep(c, w) ==
  FindChildRun(c, w) \/ MarkCancelled(c, w) \/ ReadForCancel(c, w) \/ WriteCancel(c, w)
  \/ Abort(c, w) \/ CancelReturns(c, w)

Next ==
  \E w \in Workers :
    \/ Spawn(w) \/ SpawnStep(w) \/ SpawnFails(w)
    \/ ExecStep(w) \/ AdapterEnds(w) \/ StartThrows(w) \/ FinalizeThrows(w)
    \/ ChildEvent(w) \/ EventRead(w) \/ EventWrite(w)
    \/ \E c \in Cancellers : LoadForCancel(c, w) \/ CancelStep(c, w) \/ CancelThrows(c, w)

Spec == Init /\ [][Next]_vars

\* Started async functions keep running; only an aborted adapter is known to end.
Fairness ==
  \A w \in Workers :
    /\ WF_vars(SpawnStep(w)) /\ WF_vars(ExecStep(w))
    /\ WF_vars(EventRead(w) \/ EventWrite(w))
    /\ WF_vars(w \in aborted /\ AdapterEnds(w))
    /\ \A c \in Cancellers : WF_vars(CancelStep(c, w))

FairSpec == Spec /\ Fairness

-----------------------------------------------------------------------------
(* Properties *)

Statuses == {"none", "running"} \cup Terminal
Executing(w) == exec[w] \notin {"none", "done"}

\* The types of the variables; a spawn call takes its place in the lock once.
TypeOK ==
  /\ chain \in Seq(Workers) /\ Len(chain) <= Cardinality(Workers)
  /\ spawn \in [Workers -> {"idle", "locking", "overLimit", "checking", "savingRun",
                            "registering", "announcing"} \cup SpawnReturned]
  /\ inv \in [Workers -> Statuses]
  /\ run \in [Workers -> Statuses]
  /\ outcomes \in [Workers -> SUBSET Terminal]
  /\ active \subseteq Workers
  /\ finalized \in [Workers -> {"none"} \cup Terminal]
  /\ aborted \subseteq Workers
  /\ exec \in [Workers -> {"none", "started", "touching", "touched", "adapter", "finalizing",
                           "recording", "emitting", "leaving", "done"}]
  /\ touch \in [Workers -> {"idle", "broadcasting", "touching"}]
  /\ seen \in [{"exec", "touch"} -> [Workers -> Statuses]]
  /\ cancel \in [Cancellers -> [Workers -> {"idle", "loaded", "found", "runSaved", "read",
                                            "written", "emitted"}]]
  /\ held \subseteq Cancellers \X Workers

\* A parent run never gets more workers than its session allows, however many
\* spawn calls run in parallel: the count and the save are under one lock.
LimitHolds == Cardinality(Existing) <= MaxWorkersPerRun

\* While a child executes, its own end and the cancel calls agree on one outcome,
\* the one persisted for its run.
OneOutcomeWhileExecuting ==
  \A w \in Workers \ Faulty : Executing(w) => outcomes[w] \subseteq {run[w]}

\* What wait relies on when the child's promise resolves: its run is terminal,
\* even when executeChildRun left because a cancel call is still at work.
DoneIsTerminal == \A w \in Workers \ Faulty : exec[w] = "done" => run[w] \in Terminal

\* Once a child is done and nobody cancels it, no map holds it any more.
RegistriesDrain ==
  \A w \in Workers \ Faulty :
    exec[w] = "done" /\ (\A c \in Cancellers : cancel[c][w] = "idle")
      => w \notin active /\ finalized[w] = "none"

\* Whatever rejects, an entry of activeWorkers belongs to a spawn call that is
\* announcing it or to a child that executes; wait hangs on no other promise.
ActiveHasExecution ==
  \A w \in active : spawn[w] = "announcing" \/ Executing(w)

\* A cancellation marked while the child executes ends it.
CancelEndsWorker ==
  \A w \in Workers \ Faulty : (Executing(w) /\ finalized[w] = "cancelled") ~> (exec[w] = "done")

\* The life cycle of the design: a worker that has succeeded stays succeeded.
SucceededIsFinal ==
  [][\A w \in Workers :
       exec[w] = "done" /\ run[w] = "succeeded" => run'[w] = "succeeded"]_vars
=============================================================================
