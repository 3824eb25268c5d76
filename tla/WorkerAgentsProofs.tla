------------------------- MODULE WorkerAgentsProofs -------------------------
(***************************************************************************)
(* Proofs about WorkerAgents for every set of workers and cancel callers,   *)
(* every limit and every set of workers whose persistence may reject: its   *)
(* types, the limit of workers per run, one outcome while a child executes, *)
(* and what is left behind when it is done.                                *)
(***************************************************************************)
EXTENDS WorkerAgents, SequenceTheorems, FiniteSetTheorems, WellFoundedInduction, TLAPS

-----------------------------------------------------------------------------
(* Types *)

SpawnStates == {"idle", "locking", "overLimit", "checking", "savingRun", "registering",
                "announcing"} \cup SpawnReturned
ExecStates == {"none", "started", "touching", "touched", "adapter", "finalizing", "recording",
               "emitting", "leaving", "done"}
CancelStates == {"idle", "loaded", "found", "runSaved", "read", "written", "emitted"}

\* A spawn call takes its place in the chain when it is made, and only then.
ChainInv ==
  /\ \A i, j \in DOMAIN chain : chain[i] = chain[j] => i = j
  /\ \A i \in DOMAIN chain : spawn[chain[i]] # "idle"

TypeInv == TypeOK /\ ChainInv

\* A cancel call that has marked the child.
Marked == {"runSaved", "read", "written", "emitted"}

\* Who marks a child and who may drop the mark: a child that executes unmarked is in the
\* registry, so the cancel call that marks it finds it there and leaves the mark to
\* the finally of executeChildRun.
MarkInv ==
  \A w \in Workers :
    /\ spawn[w] \notin SpawnReturned =>
         finalized[w] = "none" /\ \A c \in Cancellers : cancel[c][w] = "idle"
    /\ exec[w] # "none" <=> spawn[w] = "spawned"
    /\ spawn[w] = "announcing" \/ (Executing(w) /\ finalized[w] = "none") => w \in active
    /\ exec[w] \in {"finalizing", "recording", "emitting", "leaving"} => finalized[w] # "none"
    /\ \A c \in Cancellers :
         Executing(w) /\ cancel[c][w] \in Marked =>
           finalized[w] = "cancelled" /\ <<c, w>> \in held

\* A sequence without repetitions over a finite set is no longer than the set is large.
LEMMA DistinctLength ==
  ASSUME NEW S, IsFiniteSet(S), NEW s \in Seq(S),
         \A i, j \in DOMAIN s : s[i] = s[j] => i = j
  PROVE  Len(s) <= Cardinality(S)
<1>1. s \in Injection(1 .. Len(s), S)
  BY DEF Injection, IsInjective
<1>2. Cardinality(1 .. Len(s)) <= Cardinality(S)
  BY <1>1, FS_Injection DEF ExistsInjection
<1>3. Cardinality(1 .. Len(s)) = Len(s)
  <2>1. Len(s) \in Nat
    OBVIOUS
  <2> QED BY SMTT(30), <2>1, FS_Interval
<1> QED BY <1>2, <1>3

LEMMA TypeInit == Init => TypeInv
<1> SUFFICES ASSUME Init PROVE TypeInv
  OBVIOUS
<1>1. Cardinality(Workers) \in Nat
  BY WorkersAssumption, FS_CardinalityType
<1>2. /\ spawn \in [Workers -> SpawnStates] /\ exec \in [Workers -> ExecStates]
      /\ inv \in [Workers -> Statuses] /\ run \in [Workers -> Statuses]
      /\ outcomes \in [Workers -> SUBSET Terminal]
      /\ finalized \in [Workers -> {"none"} \cup Terminal]
      /\ touch \in [Workers -> {"idle", "broadcasting", "touching"}]
  BY DEF Init, SpawnStates, ExecStates, Statuses
<1>3. /\ seen \in [{"exec", "touch"} -> [Workers -> Statuses]]
      /\ cancel \in [Cancellers -> [Workers -> CancelStates]]
  BY DEF Init, Statuses, CancelStates
<1>4. TypeOK
  BY <1>1, <1>2, <1>3 DEF Init, TypeOK, SpawnStates, ExecStates, CancelStates
<1> QED BY <1>4 DEF Init, TypeInv, ChainInv

\* A step of one cancel call for one worker leaves the positions of the others.
LEMMA CancelGotoTypes ==
  ASSUME TypeOK, NEW c \in Cancellers, NEW w \in Workers, NEW l \in CancelStates,
         CancelGoto(c, w, l)
  PROVE  /\ cancel' \in [Cancellers -> [Workers -> CancelStates]]
         /\ cancel'[c][w] = l
         /\ \A d \in Cancellers, v \in Workers :
              <<d, v>> # <<c, w>> => cancel'[d][v] = cancel[d][v]
<1>1. cancel \in [Cancellers -> [Workers -> CancelStates]]
  BY DEF TypeOK, CancelStates
<1>2. [cancel[c] EXCEPT ![w] = l] \in [Workers -> CancelStates]
  BY <1>1
<1>3. cancel' = [cancel EXCEPT ![c] = [cancel[c] EXCEPT ![w] = l]]
  BY DEF CancelGoto
<1> QED BY <1>1, <1>2, <1>3

\* Updates of the record read the status that is there.
LEMMA SeenTypes ==
  ASSUME TypeOK, NEW p \in {"exec", "touch"}, NEW w \in Workers,
         seen' = [seen EXCEPT ![p][w] = inv[w]]
  PROVE  /\ seen' \in [{"exec", "touch"} -> [Workers -> Statuses]]
         /\ seen'[p][w] = inv[w]
         /\ \A q \in {"exec", "touch"}, v \in Workers :
              <<q, v>> # <<p, w>> => seen'[q][v] = seen[q][v]
<1>1. seen \in [{"exec", "touch"} -> [Workers -> Statuses]] /\ inv[w] \in Statuses
  BY DEF TypeOK
<1>2. [seen[p] EXCEPT ![w] = inv[w]] \in [Workers -> Statuses]
  BY <1>1
<1>3. seen' = [seen EXCEPT ![p] = [seen[p] EXCEPT ![w] = inv[w]]]
  OBVIOUS
<1> QED BY <1>1, <1>2, <1>3

LEMMA SpawnTypes ==
  ASSUME TypeInv, NEW w \in Workers, Spawn(w) \/ SpawnStep(w) \/ SpawnFails(w)
  PROVE  TypeInv'
<1> USE DEF TypeInv, TypeOK, ChainInv, SpawnGoto, ExecGoto, store, registry, Statuses,
            SpawnReturned
<1>1. CASE Spawn(w)
  <2>1. /\ chain' \in Seq(Workers) /\ Len(chain') = Len(chain) + 1
        /\ \A i \in 1 .. Len(chain) : chain'[i] = chain[i]
        /\ chain'[Len(chain) + 1] = w
    BY <1>1, AppendProperties DEF Spawn
  <2>2. \A i \in DOMAIN chain : chain[i] # w
    BY <1>1 DEF Spawn
  <2>3. ASSUME NEW i \in DOMAIN chain', NEW j \in DOMAIN chain', chain'[i] = chain'[j]
        PROVE  i = j
    <3>1. DOMAIN chain' = 1 .. (Len(chain) + 1) /\ DOMAIN chain = 1 .. Len(chain)
      BY <2>1
    <3>2. (i \in DOMAIN chain \/ i = Len(chain) + 1) /\ (j \in DOMAIN chain \/ j = Len(chain) + 1)
      BY <2>3, <3>1
    <3> QED BY <2>1, <2>2, <2>3, <3>1, <3>2
  <2>4. Len(chain') <= Cardinality(Workers)
    BY <2>1, <2>3, WorkersAssumption, DistinctLength
  <2>5. \A i \in DOMAIN chain' : chain'[i] \in Workers /\ spawn'[chain'[i]] # "idle"
    BY <1>1, <2>1 DEF Spawn
  <2> QED BY <1>1, <2>1, <2>3, <2>4, <2>5 DEF Spawn
<1>2. CASE CountExisting(w)
  BY <1>2 DEF CountExisting
<1>3. CASE Refuse(w)
  BY <1>3 DEF Refuse
<1>4. CASE SaveInvocation(w)
  BY <1>4 DEF SaveInvocation
<1>5. CASE SaveChildRun(w)
  BY <1>5 DEF SaveChildRun
<1>6. CASE Register(w)
  BY <1>6 DEF Register
<1>7. CASE StartChild(w)
  BY <1>7 DEF StartChild
<1>8. CASE SpawnFails(w)
  BY <1>8 DEF SpawnFails
<1> QED BY <1>1, <1>2, <1>3, <1>4, <1>5, <1>6, <1>7, <1>8 DEF SpawnStep

\* AdapterEnds and StartThrows finalize the child with a terminal status.
LEMMA FinalizeTypes ==
  ASSUME TypeInv, NEW w \in Workers, NEW s \in Terminal, Finalize(w, s),
         UNCHANGED <<chain, spawn, inv, outcomes, active, aborted, touch, seen, cancel, held>>
  PROVE  TypeInv'
<1> USE DEF TypeInv, TypeOK, ChainInv, ExecGoto, Statuses
<1>1. exec' \in [Workers -> ExecStates] /\ run' \in [Workers -> Statuses]
      /\ finalized' \in [Workers -> {"none"} \cup Terminal]
  <2>1. exec' \in [Workers -> ExecStates]
    BY DEF Finalize, ExecStates
  <2>2. s \in Statuses /\ s \in {"none"} \cup Terminal
    OBVIOUS
  <2>3. run' \in [Workers -> Statuses]
    BY <2>2 DEF Finalize
  <2>4. finalized' \in [Workers -> {"none"} \cup Terminal]
    <3>1. finalized' = finalized \/ finalized' = [finalized EXCEPT ![w] = s]
      BY DEF Finalize
    <3>2. finalized \in [Workers -> {"none"} \cup Terminal]
      OBVIOUS
    <3> QED BY <2>2, <3>1, <3>2
  <2> QED BY <2>1, <2>3, <2>4
<1> QED BY <1>1 DEF ExecStates

LEMMA ThrownTerminal == \A w : {"succeeded", Thrown(w)} \subseteq Terminal
  BY DEF Thrown, Terminal

LEMMA AdapterFinalizes ==
  ASSUME NEW w \in Workers, AdapterEnds(w)
  PROVE  \E s \in Terminal : Finalize(w, s)
  BY ThrownTerminal DEF AdapterEnds

LEMMA ExecTypes ==
  ASSUME TypeInv, MarkInv, NEW w \in Workers,
         ExecStep(w) \/ AdapterEnds(w) \/ StartThrows(w) \/ FinalizeThrows(w)
  PROVE  TypeInv'
<1> USE DEF TypeInv, TypeOK, ChainInv, ExecGoto, store, registry, Statuses
<1>1. CASE ReadForTouch(w)
  <2>1. seen' \in [{"exec", "touch"} -> [Workers -> Statuses]]
    BY <1>1, SeenTypes DEF ReadForTouch
  <2> QED BY <1>1, <2>1 DEF ReadForTouch
<1>2. CASE WriteTouch(w)
  BY <1>2 DEF WriteTouch
<1>3. CASE CallAdapter(w)
  BY <1>3 DEF CallAdapter
<1>4. CASE ReadForOutcome(w)
  BY <1>4 DEF ReadForOutcome
<1>5. CASE WriteOutcome(w)
  BY <1>5 DEF WriteOutcome
<1>6. CASE EmitOutcome(w)
  <2>1. finalized[w] \in Terminal
    BY <1>6 DEF EmitOutcome, MarkInv
  <2> QED BY <1>6, <2>1 DEF EmitOutcome
<1>7. CASE Leave(w)
  BY <1>7 DEF Leave
<1>8. CASE AdapterEnds(w)
  <2>1. \E s \in Terminal : Finalize(w, s)
    BY <1>8, AdapterFinalizes
  <2> QED BY <1>8, <2>1, FinalizeTypes DEF AdapterEnds
<1>9. CASE StartThrows(w)
  <2>1. Thrown(w) \in Terminal
    BY ThrownTerminal
  <2> QED BY <1>9, <2>1, FinalizeTypes DEF StartThrows
<1>10. CASE FinalizeThrows(w)
  BY <1>10 DEF FinalizeThrows
<1> QED BY <1>1, <1>2, <1>3, <1>4, <1>5, <1>6, <1>7, <1>8, <1>9, <1>10 DEF ExecStep

LEMMA EventTypes ==
  ASSUME TypeInv, NEW w \in Workers, ChildEvent(w) \/ EventRead(w) \/ EventWrite(w)
  PROVE  TypeInv'
<1> USE DEF TypeInv, TypeOK, ChainInv, store, registry, Statuses
<1>1. CASE ChildEvent(w)
  BY <1>1 DEF ChildEvent
<1>2. CASE EventRead(w)
  <2>1. seen' \in [{"exec", "touch"} -> [Workers -> Statuses]]
    BY <1>2, SeenTypes DEF EventRead
  <2> QED BY <1>2, <2>1 DEF EventRead
<1>3. CASE EventWrite(w)
  BY <1>3 DEF EventWrite
<1> QED BY <1>1, <1>2, <1>3

LEMMA CancelTypes ==
  ASSUME TypeInv, NEW w \in Workers, NEW c \in Cancellers,
         LoadForCancel(c, w) \/ CancelStep(c, w) \/ CancelThrows(c, w)
  PROVE  TypeInv'
<1> USE DEF TypeInv, TypeOK, ChainInv, store, registry, Statuses, Terminal
<1>1. cancel' \in [Cancellers -> [Workers -> CancelStates]]
  <2>1. \E l \in CancelStates : CancelGoto(c, w, l)
    BY DEF LoadForCancel, CancelStep, CancelThrows, FindChildRun, MarkCancelled, ReadForCancel,
           WriteCancel, Abort, CancelReturns, CancelStates
  <2> QED BY <2>1, CancelGotoTypes
<1> USE <1>1 DEF CancelStates
<1>2. CASE LoadForCancel(c, w)
  BY <1>2 DEF LoadForCancel
<1>3. CASE FindChildRun(c, w)
  BY <1>3 DEF FindChildRun
<1>4. CASE MarkCancelled(c, w)
  <2>1. run' \in [Workers -> Statuses] /\ finalized' \in [Workers -> {"none"} \cup Terminal]
    BY <1>4 DEF MarkCancelled
  <2>2. held' \subseteq Cancellers \X Workers /\ active' \subseteq Workers
    BY <1>4 DEF MarkCancelled
  <2> QED BY <1>4, <2>1, <2>2 DEF MarkCancelled
<1>5. CASE ReadForCancel(c, w)
  BY <1>5 DEF ReadForCancel
<1>6. CASE WriteCancel(c, w)
  BY <1>6 DEF WriteCancel
<1>7. CASE Abort(c, w)
  BY <1>7 DEF Abort
<1>8. CASE CancelReturns(c, w)
  BY <1>8 DEF CancelReturns
<1>9. CASE CancelThrows(c, w)
  BY <1>9 DEF CancelThrows
<1> QED BY <1>2, <1>3, <1>4, <1>5, <1>6, <1>7, <1>8, <1>9 DEF CancelStep

LEMMA TypeStep == TypeInv /\ MarkInv /\ [Next]_vars => TypeInv'
<1> SUFFICES ASSUME TypeInv, MarkInv, [Next]_vars PROVE TypeInv'
  OBVIOUS
<1>1. CASE UNCHANGED vars
  BY <1>1 DEF vars, store, registry, TypeInv, TypeOK, ChainInv
<1>2. CASE Next
  BY <1>2, SpawnTypes, ExecTypes, EventTypes, CancelTypes DEF Next
<1> QED BY <1>1, <1>2

LEMMA MarkInit == Init => MarkInv
  BY DEF Init, MarkInv, Executing, SpawnReturned

LEMMA SpawnMarks ==
  ASSUME TypeInv, MarkInv, NEW w \in Workers, Spawn(w) \/ SpawnStep(w) \/ SpawnFails(w)
  PROVE  MarkInv'
<1> USE DEF TypeInv, TypeOK, MarkInv, SpawnGoto, ExecGoto, store, registry, Executing,
            SpawnReturned, Marked
<1>1. CASE Spawn(w)
  BY <1>1 DEF Spawn
<1>2. CASE CountExisting(w)
  BY <1>2 DEF CountExisting
<1>3. CASE Refuse(w)
  BY <1>3 DEF Refuse
<1>4. CASE SaveInvocation(w)
  BY <1>4 DEF SaveInvocation
<1>5. CASE SaveChildRun(w)
  BY <1>5 DEF SaveChildRun
<1>6. CASE Register(w)
  BY <1>6 DEF Register
<1>7. CASE StartChild(w)
  BY <1>7 DEF StartChild
<1>8. CASE SpawnFails(w)
  BY <1>8 DEF SpawnFails
<1> QED BY <1>1, <1>2, <1>3, <1>4, <1>5, <1>6, <1>7, <1>8 DEF SpawnStep

LEMMA FinalizeMarks ==
  ASSUME TypeInv, MarkInv, NEW w \in Workers, NEW s \in Terminal, Finalize(w, s),
         exec[w] \in {"started", "touching", "touched", "adapter"},
         UNCHANGED <<chain, spawn, inv, outcomes, active, aborted, touch, seen, cancel, held>>
  PROVE  MarkInv'
<1> USE DEF TypeInv, TypeOK, MarkInv, ExecGoto, Executing, SpawnReturned, Marked, Terminal
<1>1. CASE finalized[w] # "none"
  BY <1>1 DEF Finalize
<1>2. CASE finalized[w] = "none"
  <2>1. \A c \in Cancellers : cancel[c][w] \notin Marked
    BY <1>2
  <2> QED BY SMTT(30), <1>2, <2>1 DEF Finalize
<1> QED BY <1>1, <1>2

LEMMA ExecMarks ==
  ASSUME TypeInv, MarkInv, NEW w \in Workers,
         ExecStep(w) \/ AdapterEnds(w) \/ StartThrows(w) \/ FinalizeThrows(w)
  PROVE  MarkInv'
<1> USE DEF TypeInv, TypeOK, MarkInv, ExecGoto, store, registry, Executing, SpawnReturned, Marked
<1>1. CASE ReadForTouch(w)
  BY <1>1 DEF ReadForTouch
<1>2. CASE WriteTouch(w)
  BY <1>2 DEF WriteTouch
<1>3. CASE CallAdapter(w)
  BY <1>3 DEF CallAdapter
<1>4. CASE ReadForOutcome(w)
  BY <1>4 DEF ReadForOutcome
<1>5. CASE WriteOutcome(w)
  BY <1>5 DEF WriteOutcome
<1>6. CASE EmitOutcome(w)
  BY <1>6 DEF EmitOutcome
<1>7. CASE Leave(w)
  BY <1>7 DEF Leave
<1>8. CASE AdapterEnds(w)
  <2>1. \E s \in Terminal : Finalize(w, s)
    BY <1>8, AdapterFinalizes
  <2> QED BY <1>8, <2>1, FinalizeMarks DEF AdapterEnds
<1>9. CASE StartThrows(w)
  <2>1. Thrown(w) \in Terminal
    BY ThrownTerminal
  <2> QED BY <1>9, <2>1, FinalizeMarks DEF StartThrows
<1>10. CASE FinalizeThrows(w)
  BY <1>10 DEF FinalizeThrows
<1> QED BY <1>1, <1>2, <1>3, <1>4, <1>5, <1>6, <1>7, <1>8, <1>9, <1>10 DEF ExecStep

LEMMA EventMarks ==
  ASSUME TypeInv, MarkInv, NEW w \in Workers, ChildEvent(w) \/ EventRead(w) \/ EventWrite(w)
  PROVE  MarkInv'
  BY DEF MarkInv, ChildEvent, EventRead, EventWrite, store, registry, Executing

\* A cancel call moves on without changing a mark.
LEMMA CancelMoves ==
  ASSUME TypeInv, MarkInv, NEW w \in Workers, NEW c \in Cancellers, NEW l \in CancelStates,
         CancelGoto(c, w, l), spawn[w] \in SpawnReturned,
         l \in Marked => cancel[c][w] \in Marked,
         UNCHANGED <<spawn, finalized, active, exec, held>>
  PROVE  MarkInv'
<1>1. /\ cancel'[c][w] = l
      /\ \A d \in Cancellers, v \in Workers : <<d, v>> # <<c, w>> => cancel'[d][v] = cancel[d][v]
  BY CancelGotoTypes DEF TypeInv
<1>2. ASSUME NEW v \in Workers, spawn[v] \notin SpawnReturned
      PROVE  \A d \in Cancellers : cancel'[d][v] = cancel[d][v]
  BY <1>1, <1>2
<1>3. \A d \in Cancellers, v \in Workers : cancel'[d][v] \in Marked => cancel[d][v] \in Marked
  BY <1>1
<1> QED BY <1>2, <1>3 DEF MarkInv, Executing

LEMMA CancelMarks ==
  ASSUME TypeInv, MarkInv, NEW w \in Workers, NEW c \in Cancellers,
         LoadForCancel(c, w) \/ CancelStep(c, w) \/ CancelThrows(c, w)
  PROVE  MarkInv'
<1> USE DEF store, registry, Marked, CancelStates
<1>1. spawn[w] \in SpawnReturned
  BY DEF LoadForCancel, CancelStep, CancelThrows, FindChildRun, MarkCancelled, ReadForCancel,
         WriteCancel, Abort, CancelReturns, MarkInv
<1>2. CASE LoadForCancel(c, w)
  BY <1>1, <1>2, CancelMoves DEF LoadForCancel
<1>3. CASE FindChildRun(c, w)
  BY <1>1, <1>3, CancelMoves DEF FindChildRun
<1>4. CASE MarkCancelled(c, w)
  <2>1. \E l \in CancelStates : CancelGoto(c, w, l)
    BY <1>4 DEF MarkCancelled
  <2>2. \A d \in Cancellers, v \in Workers : <<d, v>> # <<c, w>> => cancel'[d][v] = cancel[d][v]
    BY <2>1, CancelGotoTypes DEF TypeInv
  <2>3. CASE finalized[w] # "none"
    <3>1. cancel'[c][w] = "idle"
      BY <1>4, <2>3, CancelGotoTypes DEF MarkCancelled, TypeInv
    <3>2. UNCHANGED <<spawn, exec, finalized, held>> /\ active' = active \ {w}
      BY <1>4, <2>3 DEF MarkCancelled
    <3>3. spawn[w] # "announcing"
      BY <1>1 DEF SpawnReturned
    <3>4. \A d \in Cancellers, v \in Workers : cancel'[d][v] # "idle" =>
            cancel'[d][v] = cancel[d][v]
      BY <2>2, <3>1
    <3>5. \A d \in Cancellers, v \in Workers : cancel'[d][v] \in Marked => cancel[d][v] \in Marked
      BY <3>4
    <3>6. \A v \in Workers : spawn[v] \notin SpawnReturned => v # w
      BY <1>1
    <3> HIDE DEF Marked
    <3> QED BY <2>3, <3>2, <3>3, <3>5, <3>6, <2>2 DEF MarkInv, Executing
  <2>4. CASE finalized[w] = "none"
    <3>1. finalized' = [finalized EXCEPT ![w] = "cancelled"] /\ finalized'[w] = "cancelled"
      BY <1>4, <2>4 DEF MarkCancelled, TypeInv, TypeOK
    <3>2. Executing(w) => w \in active /\ <<c, w>> \in held'
      BY <1>4, <2>4 DEF MarkInv, MarkCancelled
    <3>3. \A d \in Cancellers : d # c /\ Executing(w) => cancel'[d][w] \notin Marked
      BY <2>2, <2>4 DEF MarkInv
    <3>4. \A d \in Cancellers, v \in Workers :
            <<d, v>> # <<c, w>> => (<<d, v>> \in held' <=> <<d, v>> \in held)
      BY <1>4, <2>4 DEF MarkCancelled
    <3>5. ASSUME NEW v \in Workers, v # w
          PROVE  /\ finalized'[v] = finalized[v] /\ (v \in active' <=> v \in active)
                 /\ \A d \in Cancellers : cancel'[d][v] = cancel[d][v]
      BY <1>4, <2>2, <3>1, <3>5 DEF MarkCancelled, TypeInv, TypeOK
    <3>6. UNCHANGED <<spawn, exec>>
      BY <1>4 DEF MarkCancelled
    <3>7. spawn[w] # "announcing"
      BY <1>1 DEF SpawnReturned
    <3> QED BY <1>1, <3>1, <3>2, <3>3, <3>4, <3>5, <3>6, <3>7 DEF MarkInv, Executing
  <2> QED BY <2>3, <2>4
<1>5. CASE ReadForCancel(c, w)
  BY <1>1, <1>5, CancelMoves DEF ReadForCancel
<1>6. CASE WriteCancel(c, w)
  BY <1>1, <1>6, CancelMoves DEF WriteCancel
<1>7. CASE Abort(c, w)
  BY <1>1, <1>7, CancelMoves DEF Abort
<1>8. CASE CancelReturns(c, w)
  <2>1. CASE <<c, w>> \in held
    BY <1>1, <1>8, <2>1, CancelMoves DEF CancelReturns
  <2>2. CASE <<c, w>> \notin held
    <3>1. ~Executing(w)
      BY <1>8, <2>2 DEF CancelReturns, MarkInv
    <3>2. finalized' = [finalized EXCEPT ![w] = "none"]
      BY <1>8, <2>2 DEF CancelReturns
    <3>3. /\ cancel'[c][w] = "idle"
          /\ \A d \in Cancellers, v \in Workers :
               <<d, v>> # <<c, w>> => cancel'[d][v] = cancel[d][v]
      BY <1>8, CancelGotoTypes DEF CancelReturns, TypeInv
    <3> QED BY <1>1, <1>8, <3>1, <3>2, <3>3
            DEF CancelReturns, MarkInv, Executing, TypeInv, TypeOK
  <2> QED BY <2>1, <2>2
<1>9. CASE CancelThrows(c, w)
  BY <1>1, <1>9, CancelMoves DEF CancelThrows
<1> QED BY <1>2, <1>3, <1>4, <1>5, <1>6, <1>7, <1>8, <1>9 DEF CancelStep

LEMMA MarkStep == TypeInv /\ MarkInv /\ [Next]_vars => MarkInv'
<1> SUFFICES ASSUME TypeInv, MarkInv, [Next]_vars PROVE MarkInv'
  OBVIOUS
<1>1. CASE UNCHANGED vars
  BY <1>1 DEF vars, store, registry, MarkInv, Executing
<1>2. CASE Next
  BY <1>2, SpawnMarks, ExecMarks, EventMarks, CancelMarks DEF Next
<1> QED BY <1>1, <1>2

LEMMA MarksInvariant == Spec => [](TypeInv /\ MarkInv)
<1>1. Init => TypeInv /\ MarkInv
  BY TypeInit, MarkInit
<1>2. (TypeInv /\ MarkInv) /\ [Next]_vars => (TypeInv /\ MarkInv)'
  BY TypeStep, MarkStep
<1> QED BY <1>1, <1>2, PTL DEF Spec

\* The variables of WorkerAgents keep their types and no spawn call enters the lock's
\* chain twice, for every set of workers, cancel callers and faults.
THEOREM TypeCorrect == Spec => []TypeOK
<1>1. TypeInv => TypeOK
  BY DEF TypeInv
<1> QED BY <1>1, MarksInvariant, PTL

-----------------------------------------------------------------------------
(* The limit *)

\* The calls of spawn that are between taking the lock and releasing it.
Inside == SpawnStates \ ({"idle", "locking"} \cup SpawnReturned)

\* A spawn call that is past its entry holds the lock, and holds it alone.
LockInv ==
  /\ \A w \in Workers : spawn[w] # "idle" => \E i \in DOMAIN chain : chain[i] = w
  /\ \A w \in Workers : spawn[w] \in Inside => LockHolder(w)

\* A record that has been written is never emptied: whoever writes it back has read it.
RecordInv ==
  \A w \in Workers :
    /\ spawn[w] \in {"savingRun", "registering", "announcing", "spawned"} => inv[w] # "none"
    /\ touch[w] # "idle" => exec[w] # "none"
    /\ touch[w] = "touching" => seen["touch"][w] # "none"
    /\ exec[w] = "touching" => seen["exec"][w] # "none"
    /\ \A c \in Cancellers : cancel[c][w] # "idle" => inv[w] # "none"

\* The call that passed the count of the lock holder still finds room.
LimitInv ==
  /\ LimitHolds
  /\ \A w \in Workers : spawn[w] = "checking" => Cardinality(Existing) < MaxWorkersPerRun

\* Two calls cannot both hold the lock.
LEMMA OneLockHolder ==
  ASSUME TypeOK, NEW w \in Workers, NEW v \in Workers, LockHolder(w), LockHolder(v)
  PROVE  w = v
<1>1. PICK i \in DOMAIN chain :
        chain[i] = w /\ \A j \in 1 .. (i - 1) : spawn[chain[j]] \in SpawnReturned
  BY DEF LockHolder
<1>2. PICK k \in DOMAIN chain :
        chain[k] = v /\ \A j \in 1 .. (k - 1) : spawn[chain[j]] \in SpawnReturned
  BY DEF LockHolder
<1>3. spawn[w] \notin SpawnReturned /\ spawn[v] \notin SpawnReturned
  BY DEF LockHolder
<1>4. i \in Nat /\ k \in Nat /\ i >= 1 /\ k >= 1
  BY DEF TypeOK
<1>5. ~ i < k /\ ~ k < i
  BY <1>1, <1>2, <1>3, <1>4
<1> QED BY <1>1, <1>2, <1>4, <1>5

\* A holder of the lock keeps it while it does not return, whatever calls go on.
LEMMA LockKept ==
  ASSUME TypeInv, NEW w \in Workers, LockHolder(w),
         spawn'[w] \notin {"idle"} \cup SpawnReturned,
         \A i \in DOMAIN chain : i \in DOMAIN chain' /\ chain'[i] = chain[i],
         \A v \in Workers : spawn[v] \in SpawnReturned => spawn'[v] = spawn[v]
  PROVE  LockHolder(w)'
<1>1. PICK i \in DOMAIN chain :
        chain[i] = w /\ \A j \in 1 .. (i - 1) : spawn[chain[j]] \in SpawnReturned
  BY DEF LockHolder
<1>2. \A j \in 1 .. (i - 1) : j \in DOMAIN chain /\ chain[j] \in Workers
  BY DEF TypeInv, TypeOK
<1>3. \A j \in 1 .. (i - 1) : spawn'[chain'[j]] \in SpawnReturned
  BY <1>1, <1>2
<1> QED BY <1>1, <1>3 DEF LockHolder

LEMMA LockInit == Init => LockInv
  BY DEF Init, LockInv, Inside

LEMMA LockStep == TypeInv /\ LockInv /\ [Next]_vars => LockInv'
<1> SUFFICES ASSUME TypeInv, LockInv, [Next]_vars PROVE LockInv'
  OBVIOUS
<1>1. CASE UNCHANGED <<chain, spawn>>
  BY <1>1 DEF LockInv, LockHolder
<1>2. ASSUME NEW w \in Workers, Spawn(w) PROVE LockInv'
  <2>1. /\ Len(chain') = Len(chain) + 1 /\ chain' \in Seq(Workers)
        /\ \A i \in 1 .. Len(chain) : chain'[i] = chain[i]
        /\ chain'[Len(chain) + 1] = w
    BY <1>2, AppendProperties DEF Spawn, TypeInv, TypeOK
  <2>2. /\ \A i \in DOMAIN chain : i \in DOMAIN chain' /\ chain'[i] = chain[i]
        /\ Len(chain) + 1 \in DOMAIN chain'
    <3>1. DOMAIN chain = 1 .. Len(chain) /\ Len(chain) \in Nat
      BY DEF TypeInv, TypeOK
    <3>2. DOMAIN chain' = 1 .. (Len(chain) + 1)
      BY <2>1
    <3> QED BY <2>1, <3>1, <3>2
  <2>3. /\ spawn'[w] = "locking" /\ spawn[w] = "idle"
        /\ \A v \in Workers : v # w => spawn'[v] = spawn[v]
    BY <1>2 DEF Spawn, SpawnGoto, TypeInv, TypeOK
  <2>4. ASSUME NEW v \in Workers, spawn'[v] # "idle" PROVE \E i \in DOMAIN chain' : chain'[i] = v
    BY <2>1, <2>2, <2>3, <2>4 DEF LockInv
  <2>5. ASSUME NEW v \in Workers, spawn'[v] \in Inside PROVE LockHolder(v)'
    <3>1. v # w /\ spawn[v] \in Inside
      BY <2>3, <2>5 DEF Inside
    <3>2. LockHolder(v)
      BY <3>1 DEF LockInv
    <3>3. \A u \in Workers : spawn[u] \in SpawnReturned => spawn'[u] = spawn[u]
      BY <2>3 DEF SpawnReturned
    <3>4. spawn'[v] \notin {"idle"} \cup SpawnReturned
      BY <2>5 DEF Inside
    <3> QED BY <2>2, <3>2, <3>3, <3>4, LockKept
  <2> QED BY <2>4, <2>5 DEF LockInv
<1>3. ASSUME NEW w \in Workers, NEW l \in SpawnStates, SpawnGoto(w, l), UNCHANGED chain,
             spawn[w] \in Inside \/ LockHolder(w), l # "idle"
      PROVE  LockInv'
  <2>1. spawn'[w] = l /\ \A v \in Workers : v # w => spawn'[v] = spawn[v]
    BY <1>3 DEF SpawnGoto, TypeInv, TypeOK
  <2>2. LockHolder(w) /\ spawn[w] \notin {"idle"} \cup SpawnReturned
    BY <1>3 DEF LockInv, LockHolder
  <2>3. \A v \in Workers : spawn'[v] # "idle" => \E i \in DOMAIN chain' : chain'[i] = v
    BY <1>3, <2>1, <2>2 DEF LockInv
  <2>4. \A u \in Workers : spawn[u] \in SpawnReturned => spawn'[u] = spawn[u]
    BY <2>1, <2>2
  <2>5. ASSUME NEW v \in Workers, spawn'[v] \in Inside PROVE LockHolder(v)'
    <3>1. LockHolder(v)
      BY <2>1, <2>2, <2>5 DEF LockInv
    <3>2. spawn'[v] \notin {"idle"} \cup SpawnReturned
      BY <2>5 DEF Inside
    <3> QED BY <1>3, <2>4, <3>1, <3>2, LockKept
  <2> QED BY <2>3, <2>5 DEF LockInv
<1>4. ASSUME NEW w \in Workers, SpawnStep(w) \/ SpawnFails(w) PROVE LockInv'
  <2>1. /\ spawn[w] \in Inside \/ LockHolder(w)
        /\ UNCHANGED chain
        /\ \E l \in SpawnStates \ {"idle"} : SpawnGoto(w, l)
    BY <1>4 DEF SpawnStep, SpawnFails, CountExisting, Refuse, SaveInvocation, SaveChildRun,
                Register, StartChild, Inside, SpawnStates, SpawnReturned
  <2> QED BY <1>3, <2>1
<1>5. ASSUME NEW w \in Workers,
             ExecStep(w) \/ AdapterEnds(w) \/ StartThrows(w) \/ FinalizeThrows(w)
      PROVE  UNCHANGED <<chain, spawn>>
  BY <1>5 DEF ExecStep, ReadForTouch, WriteTouch, CallAdapter, ReadForOutcome, WriteOutcome,
              EmitOutcome, Leave, AdapterEnds, StartThrows, FinalizeThrows
<1>6. ASSUME NEW w \in Workers, ChildEvent(w) \/ EventRead(w) \/ EventWrite(w)
      PROVE  UNCHANGED <<chain, spawn>>
  BY <1>6 DEF ChildEvent, EventRead, EventWrite
<1>7. ASSUME NEW w \in Workers, NEW c \in Cancellers,
             LoadForCancel(c, w) \/ CancelStep(c, w) \/ CancelThrows(c, w)
      PROVE  UNCHANGED <<chain, spawn>>
  BY <1>7 DEF LoadForCancel, CancelStep, CancelThrows, FindChildRun, MarkCancelled,
              ReadForCancel, WriteCancel, Abort, CancelReturns
<1> QED BY <1>1, <1>2, <1>4, <1>5, <1>6, <1>7 DEF Next, vars

LEMMA RecordInit == Init => RecordInv
  BY DEF Init, RecordInv

\* No step but SaveInvocation writes a record that was not there, and none empties one.
LEMMA RecordStep == TypeInv /\ MarkInv /\ RecordInv /\ [Next]_vars => RecordInv'
<1> SUFFICES ASSUME TypeInv, MarkInv, RecordInv, [Next]_vars PROVE RecordInv'
  OBVIOUS
<1>1. CASE UNCHANGED vars
  BY <1>1 DEF vars, store, registry, RecordInv
<1>2. ASSUME NEW w \in Workers, Spawn(w) \/ SpawnStep(w) \/ SpawnFails(w) PROVE RecordInv'
  <2> USE DEF TypeInv, TypeOK, RecordInv, SpawnGoto, ExecGoto, store, registry, SpawnReturned
  <2>1. CASE Spawn(w)
    BY <2>1 DEF Spawn
  <2>2. CASE CountExisting(w)
    BY <2>2 DEF CountExisting
  <2>3. CASE Refuse(w)
    BY <2>3 DEF Refuse
  <2>4. CASE SaveInvocation(w)
    BY <2>4 DEF SaveInvocation
  <2>5. CASE SaveChildRun(w)
    BY <2>5 DEF SaveChildRun
  <2>6. CASE Register(w)
    BY <2>6 DEF Register
  <2>7. CASE StartChild(w)
    BY <2>7 DEF StartChild
  <2>8. CASE SpawnFails(w)
    BY <2>8 DEF SpawnFails
  <2> QED BY <1>2, <2>1, <2>2, <2>3, <2>4, <2>5, <2>6, <2>7, <2>8 DEF SpawnStep
<1>3. ASSUME NEW w \in Workers,
             ExecStep(w) \/ AdapterEnds(w) \/ StartThrows(w) \/ FinalizeThrows(w)
      PROVE  RecordInv'
  <2> USE DEF TypeInv, TypeOK, RecordInv, ExecGoto, store, registry
  <2>1. CASE ReadForTouch(w)
    <3>1. /\ seen'["exec"][w] = inv[w]
          /\ \A q \in {"exec", "touch"}, v \in Workers :
               <<q, v>> # <<"exec", w>> => seen'[q][v] = seen[q][v]
      BY <2>1, SeenTypes DEF ReadForTouch
    <3>2. inv[w] # "none"
      BY <2>1 DEF ReadForTouch, MarkInv
    <3> QED BY <2>1, <3>1, <3>2 DEF ReadForTouch
  <2>2. CASE WriteTouch(w)
    BY <2>2 DEF WriteTouch
  <2>3. CASE CallAdapter(w)
    BY <2>3 DEF CallAdapter
  <2>4. CASE ReadForOutcome(w)
    BY <2>4 DEF ReadForOutcome
  <2>5. CASE WriteOutcome(w)
    <3>1. finalized[w] # "none"
      BY <2>5 DEF WriteOutcome, MarkInv
    <3> QED BY <2>5, <3>1 DEF WriteOutcome
  <2>6. CASE EmitOutcome(w)
    BY <2>6 DEF EmitOutcome
  <2>7. CASE Leave(w)
    BY <2>7 DEF Leave
  <2>8. CASE AdapterEnds(w)
    BY <2>8, AdapterFinalizes DEF AdapterEnds, Finalize
  <2>9. CASE StartThrows(w)
    BY <2>9 DEF StartThrows, Finalize
  <2>10. CASE FinalizeThrows(w)
    BY <2>10 DEF FinalizeThrows
  <2> QED BY <1>3, <2>1, <2>2, <2>3, <2>4, <2>5, <2>6, <2>7, <2>8, <2>9, <2>10 DEF ExecStep
<1>4. ASSUME NEW w \in Workers, ChildEvent(w) \/ EventRead(w) \/ EventWrite(w) PROVE RecordInv'
  <2> USE DEF TypeInv, TypeOK, RecordInv, store, registry
  <2>1. CASE ChildEvent(w)
    BY <2>1 DEF ChildEvent
  <2>2. CASE EventRead(w)
    <3>1. CASE finalized[w] # "none"
      BY <2>2, <3>1 DEF EventRead
    <3>2. CASE finalized[w] = "none"
      <4>1. /\ seen'["touch"][w] = inv[w]
            /\ \A q \in {"exec", "touch"}, v \in Workers :
                 <<q, v>> # <<"touch", w>> => seen'[q][v] = seen[q][v]
        BY <2>2, <3>2, SeenTypes DEF EventRead
      <4>2. inv[w] # "none"
        BY <2>2 DEF EventRead, MarkInv
      <4> QED BY <2>2, <4>1, <4>2 DEF EventRead
    <3> QED BY <3>1, <3>2
  <2>3. CASE EventWrite(w)
    BY <2>3 DEF EventWrite
  <2> QED BY <1>4, <2>1, <2>2, <2>3
<1>5. ASSUME NEW w \in Workers, NEW c \in Cancellers,
             LoadForCancel(c, w) \/ CancelStep(c, w) \/ CancelThrows(c, w)
      PROVE  RecordInv'
  <2>1. \E l \in CancelStates : CancelGoto(c, w, l)
    BY <1>5 DEF LoadForCancel, CancelStep, CancelThrows, FindChildRun, MarkCancelled,
                ReadForCancel, WriteCancel, Abort, CancelReturns, CancelStates
  <2>2. \A d \in Cancellers, v \in Workers : <<d, v>> # <<c, w>> => cancel'[d][v] = cancel[d][v]
    BY <2>1, CancelGotoTypes DEF TypeInv
  <2>3. inv[w] # "none"
    BY <1>5 DEF LoadForCancel, CancelStep, CancelThrows, FindChildRun, MarkCancelled,
                ReadForCancel, WriteCancel, Abort, CancelReturns, RecordInv
  <2>4. UNCHANGED <<spawn, touch, seen, exec>>
    BY <1>5 DEF LoadForCancel, CancelStep, CancelThrows, FindChildRun, MarkCancelled,
                ReadForCancel, WriteCancel, Abort, CancelReturns
  <2>5. UNCHANGED inv \/ inv' = [inv EXCEPT ![w] = "cancelled"]
    BY <1>5 DEF LoadForCancel, CancelStep, CancelThrows, FindChildRun, MarkCancelled,
                ReadForCancel, WriteCancel, Abort, CancelReturns, store
  <2>6. \A v \in Workers : inv[v] # "none" => inv'[v] # "none"
    BY <2>5 DEF TypeInv, TypeOK
  <2>7. inv'[w] # "none"
    BY <2>3, <2>6
  <2> QED BY <2>2, <2>4, <2>6, <2>7 DEF RecordInv
<1> QED BY <1>1, <1>2, <1>3, <1>4, <1>5 DEF Next

LEMMA LimitInit == Init => LimitInv
<1> SUFFICES ASSUME Init PROVE LimitInv
  OBVIOUS
<1>1. Existing = {}
  BY DEF Init, Existing
<1>2. Cardinality(Existing) = 0
  BY <1>1, FS_EmptySet
<1> QED BY <1>2, WorkersAssumption DEF Init, LimitInv, LimitHolds

\* Unless a record is created, there is room for as many workers as before.
LEMMA RoomKept ==
  ASSUME TypeInv, LimitInv, \A v \in Workers : inv[v] = "none" => inv'[v] = "none",
         \A v \in Workers : spawn'[v] = "checking" =>
           spawn[v] = "checking" \/ Cardinality(Existing) < MaxWorkersPerRun
  PROVE  LimitInv'
<1>1. Existing' \subseteq Existing
  BY DEF Existing
<1>2. IsFiniteSet(Existing)
  BY WorkersAssumption, FS_Subset DEF Existing
<1>3. Cardinality(Existing') <= Cardinality(Existing)
  BY <1>1, <1>2, FS_Subset
<1>4. Cardinality(Existing) \in Nat /\ Cardinality(Existing') \in Nat
  BY <1>1, <1>2, FS_Subset, FS_CardinalityType
<1>5. LimitHolds'
  BY <1>3, <1>4, WorkersAssumption DEF LimitInv, LimitHolds
<1>6. ASSUME NEW v \in Workers, spawn'[v] = "checking"
      PROVE  Cardinality(Existing') < MaxWorkersPerRun
  <2>1. Cardinality(Existing) < MaxWorkersPerRun
    BY <1>6 DEF LimitInv
  <2> QED BY <1>3, <1>4, <2>1, WorkersAssumption
<1> QED BY <1>5, <1>6 DEF LimitInv

LEMMA LimitStep == TypeInv /\ MarkInv /\ RecordInv /\ LockInv /\ LimitInv /\ [Next]_vars => LimitInv'
<1> SUFFICES ASSUME TypeInv, MarkInv, RecordInv, LockInv, LimitInv, [Next]_vars PROVE LimitInv'
  OBVIOUS
<1>1. CASE UNCHANGED vars
  BY <1>1, RoomKept DEF vars, store
<1>2. ASSUME NEW w \in Workers, SaveInvocation(w) PROVE LimitInv'
  <2>1. Existing' \subseteq Existing \cup {w} /\ IsFiniteSet(Existing)
    BY <1>2, WorkersAssumption, FS_Subset DEF SaveInvocation, Existing, TypeInv, TypeOK
  <2>2. /\ Cardinality(Existing \cup {w}) <= Cardinality(Existing) + 1
        /\ IsFiniteSet(Existing \cup {w}) /\ Cardinality(Existing) \in Nat
    <3>1. Cardinality(Existing) \in Nat
      BY <2>1, FS_CardinalityType
    <3>2. /\ IsFiniteSet(Existing \cup {w})
          /\ \/ Cardinality(Existing \cup {w}) = Cardinality(Existing)
             \/ Cardinality(Existing \cup {w}) = Cardinality(Existing) + 1
      BY <2>1, FS_AddElement
    <3> QED BY <3>1, <3>2
  <2>3. /\ Cardinality(Existing') <= Cardinality(Existing \cup {w})
        /\ Cardinality(Existing') \in Nat /\ Cardinality(Existing \cup {w}) \in Nat
    BY <2>1, <2>2, FS_Subset, FS_CardinalityType
  <2>4. Cardinality(Existing) < MaxWorkersPerRun
    BY <1>2 DEF SaveInvocation, LimitInv
  <2>5. LimitHolds'
    BY <2>2, <2>3, <2>4, WorkersAssumption DEF LimitHolds
  <2>6. ASSUME NEW v \in Workers, spawn'[v] = "checking" PROVE FALSE
    <3>1. v # w /\ spawn[v] = "checking" /\ spawn[w] = "checking"
      BY <1>2, <2>6 DEF SaveInvocation, SpawnGoto, TypeInv, TypeOK
    <3>2. LockHolder(v) /\ LockHolder(w)
      BY <3>1 DEF LockInv, Inside, SpawnStates, SpawnReturned
    <3> QED BY <3>1, <3>2, OneLockHolder DEF TypeInv
  <2> QED BY <2>5, <2>6 DEF LimitInv
<1>3. ASSUME NEW w \in Workers, Spawn(w) \/ SpawnFails(w) \/ CountExisting(w) \/ Refuse(w)
               \/ SaveChildRun(w) \/ Register(w) \/ StartChild(w)
      PROVE  LimitInv'
  <2>1. UNCHANGED inv
    BY <1>3 DEF Spawn, SpawnFails, CountExisting, Refuse, SaveChildRun, Register, StartChild, store
  <2>2. \A v \in Workers : v # w => spawn'[v] = spawn[v]
    BY <1>3 DEF Spawn, SpawnFails, CountExisting, Refuse, SaveChildRun, Register, StartChild,
                SpawnGoto, TypeInv, TypeOK
  <2>3. spawn'[w] = "checking" => ~(Cardinality(Existing) >= MaxWorkersPerRun)
    BY <1>3 DEF Spawn, SpawnFails, CountExisting, Refuse, SaveChildRun, Register, StartChild,
                SpawnGoto, TypeInv, TypeOK
  <2>4. Cardinality(Existing) \in Nat
    BY WorkersAssumption, FS_Subset, FS_CardinalityType DEF Existing
  <2>5. spawn'[w] = "checking" => Cardinality(Existing) < MaxWorkersPerRun
    BY <2>3, <2>4, WorkersAssumption
  <2> QED BY <2>1, <2>2, <2>5, RoomKept
<1>4. ASSUME NEW w \in Workers,
             ExecStep(w) \/ AdapterEnds(w) \/ StartThrows(w) \/ FinalizeThrows(w)
      PROVE  LimitInv'
  <2>1. UNCHANGED spawn
    BY <1>4 DEF ExecStep, ReadForTouch, WriteTouch, CallAdapter, ReadForOutcome, WriteOutcome,
                EmitOutcome, Leave, AdapterEnds, StartThrows, FinalizeThrows
  <2>2. UNCHANGED inv \/ (exec[w] # "none" /\ \E s : inv' = [inv EXCEPT ![w] = s])
    BY <1>4 DEF ExecStep, ReadForTouch, WriteTouch, CallAdapter, ReadForOutcome, WriteOutcome,
                EmitOutcome, Leave, AdapterEnds, StartThrows, FinalizeThrows, store
  <2>3. exec[w] # "none" => inv[w] # "none"
    BY DEF MarkInv, RecordInv
  <2>4. \A v \in Workers : inv[v] = "none" => inv'[v] = "none"
    BY <2>2, <2>3 DEF TypeInv, TypeOK
  <2> QED BY <2>1, <2>4, RoomKept
<1>5. ASSUME NEW w \in Workers, ChildEvent(w) \/ EventRead(w) \/ EventWrite(w) PROVE LimitInv'
  <2>1. UNCHANGED spawn
    BY <1>5 DEF ChildEvent, EventRead, EventWrite
  <2>2. UNCHANGED inv \/ (touch[w] # "idle" /\ \E s : inv' = [inv EXCEPT ![w] = s])
    BY <1>5 DEF ChildEvent, EventRead, EventWrite, store
  <2>3. touch[w] # "idle" => inv[w] # "none"
    BY DEF MarkInv, RecordInv
  <2>4. \A v \in Workers : inv[v] = "none" => inv'[v] = "none"
    BY <2>2, <2>3 DEF TypeInv, TypeOK
  <2> QED BY <2>1, <2>4, RoomKept
<1>6. ASSUME NEW w \in Workers, NEW c \in Cancellers,
             LoadForCancel(c, w) \/ CancelStep(c, w) \/ CancelThrows(c, w)
      PROVE  LimitInv'
  <2>1. UNCHANGED spawn
    BY <1>6 DEF LoadForCancel, CancelStep, CancelThrows, FindChildRun, MarkCancelled,
                ReadForCancel, WriteCancel, Abort, CancelReturns
  <2>2. UNCHANGED inv \/ (cancel[c][w] # "idle" /\ \E s : inv' = [inv EXCEPT ![w] = s])
    BY <1>6 DEF LoadForCancel, CancelStep, CancelThrows, FindChildRun, MarkCancelled,
                ReadForCancel, WriteCancel, Abort, CancelReturns, store
  <2>3. cancel[c][w] # "idle" => inv[w] # "none"
    BY DEF RecordInv
  <2>4. \A v \in Workers : inv[v] = "none" => inv'[v] = "none"
    BY <2>2, <2>3 DEF TypeInv, TypeOK
  <2> QED BY <2>1, <2>4, RoomKept
<1> QED BY <1>1, <1>2, <1>3, <1>4, <1>5, <1>6 DEF Next, SpawnStep

\* A parent run never has more workers than its session allows, however many spawn calls
\* overlap and whichever of their persistence calls rejects.
THEOREM LimitAlwaysHolds == Spec => []LimitHolds
<1> DEFINE IInv == TypeInv /\ MarkInv /\ RecordInv /\ LockInv /\ LimitInv
<1>1. Init => IInv
  BY TypeInit, MarkInit, RecordInit, LockInit, LimitInit
<1>2. IInv /\ [Next]_vars => IInv'
  BY TypeStep, MarkStep, RecordStep, LockStep, LimitStep
<1>3. IInv => LimitHolds
  BY DEF LimitInv
<1> HIDE DEF IInv
<1> QED BY <1>1, <1>2, <1>3, PTL DEF Spec

-----------------------------------------------------------------------------
(* Outcomes and registries *)

\* An entry of activeWorkers belongs to a spawn call that announces it or to a child that
\* executes, whatever rejects.
THEOREM ActiveIsOwned == Spec => []ActiveHasExecution
<1>1. Init => ActiveHasExecution
  BY DEF Init, ActiveHasExecution
<1>2. TypeInv /\ ActiveHasExecution /\ [Next]_vars => ActiveHasExecution'
  <2> SUFFICES ASSUME TypeInv, ActiveHasExecution, [Next]_vars PROVE ActiveHasExecution'
    OBVIOUS
  <2> USE DEF ActiveHasExecution, Executing, TypeInv, TypeOK
  <2>1. CASE UNCHANGED vars
    BY <2>1 DEF vars, registry
  <2>2. ASSUME NEW w \in Workers, Spawn(w) \/ SpawnStep(w) \/ SpawnFails(w)
        PROVE  ActiveHasExecution'
    BY <2>2 DEF Spawn, SpawnStep, SpawnFails, CountExisting, Refuse, SaveInvocation, SaveChildRun,
                Register, StartChild, SpawnGoto, ExecGoto, registry
  <2>3. ASSUME NEW w \in Workers,
               ExecStep(w) \/ AdapterEnds(w) \/ StartThrows(w) \/ FinalizeThrows(w)
        PROVE  ActiveHasExecution'
    <3>1. UNCHANGED spawn
      BY <2>3 DEF ExecStep, ReadForTouch, WriteTouch, CallAdapter, ReadForOutcome, WriteOutcome,
                  EmitOutcome, Leave, AdapterEnds, StartThrows, FinalizeThrows
    <3>2. CASE Leave(w)
      BY <3>2 DEF Leave, ExecGoto
    <3>3. CASE ~Leave(w)
      <4>1. active' = active
        BY <2>3, <3>3 DEF ExecStep, ReadForTouch, WriteTouch, CallAdapter, ReadForOutcome,
              WriteOutcome, EmitOutcome, AdapterEnds, StartThrows, FinalizeThrows, registry
      <4>2. \E l \in ExecStates \ {"none", "done"} : ExecGoto(w, l)
        BY <2>3, <3>3 DEF ExecStep, ReadForTouch, WriteTouch, CallAdapter, ReadForOutcome,
              WriteOutcome, EmitOutcome, AdapterEnds, StartThrows, FinalizeThrows, Finalize,
              ExecStates
      <4> QED BY <3>1, <4>1, <4>2 DEF ExecGoto
    <3> QED BY <3>2, <3>3
  <2>4. ASSUME NEW w \in Workers, ChildEvent(w) \/ EventRead(w) \/ EventWrite(w)
        PROVE  ActiveHasExecution'
    BY <2>4 DEF ChildEvent, EventRead, EventWrite, registry
  <2>5. ASSUME NEW w \in Workers, NEW c \in Cancellers,
               LoadForCancel(c, w) \/ CancelStep(c, w) \/ CancelThrows(c, w)
        PROVE  ActiveHasExecution'
    BY <2>5 DEF LoadForCancel, CancelStep, CancelThrows, FindChildRun, MarkCancelled,
                ReadForCancel, WriteCancel, Abort, CancelReturns, registry
  <2> QED BY <2>1, <2>2, <2>3, <2>4, <2>5 DEF Next
<1>3. TypeInv /\ MarkInv => TypeInv
  OBVIOUS
<1> QED BY <1>1, <1>2, <1>3, MarksInvariant, PTL DEF Spec

\* The persistence of the workers these properties are about answers.
Sound == Workers \ Faulty

\* A cancel call that will drop the mark it has set.
Dropping(w) == \E c \in Cancellers : cancel[c][w] \in Marked /\ <<c, w>> \notin held

\* While a child executes, its run says what it is marked with, and nothing else has been
\* broadcast; when it is done, whatever mark there is belongs to a cancel call at work.
OutcomeOf(w) ==
  /\ spawn[w] \in {"idle", "locking", "overLimit", "checking", "refused"} => inv[w] = "none"
  /\ spawn[w] \in {"registering", "announcing"} => run[w] = "running"
  /\ exec[w] = "none" => outcomes[w] = {}
  /\ Executing(w) /\ finalized[w] = "none" => run[w] = "running" /\ outcomes[w] = {}
  /\ Executing(w) /\ finalized[w] # "none" =>
       run[w] = finalized[w] /\ outcomes[w] \subseteq {finalized[w]}
  /\ exec[w] = "done" => run[w] \in Terminal /\ w \notin active
  /\ exec[w] = "done" /\ finalized[w] # "none" => Dropping(w)

OutcomeInv == \A w \in Sound : OutcomeOf(w)

LEMMA OutcomeInit == Init => OutcomeInv
  BY DEF Init, OutcomeInv, OutcomeOf, Sound, Executing

\* The steps of the others leave what the invariant says of a worker.
LEMMA OutcomeOfOthers ==
  ASSUME OutcomeInv, NEW w \in Sound, spawn'[w] = spawn[w], inv'[w] = inv[w],
         run'[w] = run[w], outcomes'[w] = outcomes[w], exec'[w] = exec[w],
         finalized'[w] = finalized[w], w \in active' => w \in active,
         \A c \in Cancellers :
           /\ cancel[c][w] \in Marked => cancel'[c][w] \in Marked
           /\ <<c, w>> \in held' => <<c, w>> \in held
  PROVE  OutcomeOf(w)'
  BY DEF OutcomeInv, OutcomeOf, Executing, Dropping

LEMMA SpawnOutcomes ==
  ASSUME TypeInv, MarkInv, OutcomeInv, NEW w \in Workers,
         Spawn(w) \/ SpawnStep(w) \/ SpawnFails(w)
  PROVE  OutcomeInv'
<1> USE DEF TypeInv, TypeOK, OutcomeInv, OutcomeOf, SpawnGoto, ExecGoto, store, registry, Executing, Sound,
            Dropping
<1>1. CASE Spawn(w)
  BY <1>1 DEF Spawn
<1>2. CASE CountExisting(w)
  BY <1>2 DEF CountExisting
<1>3. CASE Refuse(w)
  BY <1>3 DEF Refuse
<1>4. CASE SaveInvocation(w)
  BY <1>4 DEF SaveInvocation
<1>5. CASE SaveChildRun(w)
  <2>1. exec[w] = "none"
    BY <1>5 DEF SaveChildRun, MarkInv
  <2> QED BY <1>5, <2>1 DEF SaveChildRun
<1>6. CASE Register(w)
  <2>1. exec[w] = "none"
    BY <1>6 DEF Register, MarkInv
  <2> QED BY <1>6, <2>1 DEF Register
<1>7. CASE StartChild(w)
  <2>1. exec[w] = "none" /\ finalized[w] = "none"
    BY <1>7 DEF StartChild, MarkInv, SpawnReturned
  <2> QED BY <1>7, <2>1 DEF StartChild
<1>8. CASE SpawnFails(w)
  BY <1>8 DEF SpawnFails
<1> QED BY <1>1, <1>2, <1>3, <1>4, <1>5, <1>6, <1>7, <1>8 DEF SpawnStep

LEMMA FinalizeOutcomes ==
  ASSUME TypeInv, MarkInv, OutcomeInv, NEW w \in Workers, NEW s \in Terminal, Finalize(w, s),
         exec[w] \in {"started", "touching", "touched", "adapter"},
         UNCHANGED <<chain, spawn, inv, outcomes, active, aborted, touch, seen, cancel, held>>
  PROVE  OutcomeInv'
<1> USE DEF TypeInv, TypeOK, OutcomeInv, OutcomeOf, ExecGoto, Executing, Sound, Dropping
<1>1. s # "none"
  BY DEF Terminal
<1>2. spawn[w] = "spawned"
  BY DEF MarkInv
<1>3. CASE finalized[w] # "none"
  BY <1>3 DEF Finalize
<1>4. CASE finalized[w] = "none"
  BY <1>1, <1>2, <1>4 DEF Finalize
<1> QED BY <1>3, <1>4

LEMMA ExecOutcomes ==
  ASSUME TypeInv, MarkInv, OutcomeInv, NEW w \in Workers,
         ExecStep(w) \/ AdapterEnds(w) \/ StartThrows(w) \/ FinalizeThrows(w)
  PROVE  OutcomeInv'
<1> USE DEF TypeInv, TypeOK, OutcomeInv, OutcomeOf, ExecGoto, store, registry, Executing, Sound, Dropping
<1>1. CASE ReadForTouch(w)
  BY <1>1 DEF ReadForTouch
<1>2. CASE WriteTouch(w)
  <2>1. spawn[w] = "spawned"
    BY <1>2 DEF WriteTouch, MarkInv
  <2> QED BY <1>2, <2>1 DEF WriteTouch
<1>3. CASE CallAdapter(w)
  BY <1>3 DEF CallAdapter
<1>4. CASE ReadForOutcome(w)
  BY <1>4 DEF ReadForOutcome
<1>5. CASE WriteOutcome(w)
  <2>1. spawn[w] = "spawned"
    BY <1>5 DEF WriteOutcome, MarkInv
  <2> QED BY <1>5, <2>1 DEF WriteOutcome
<1>6. CASE EmitOutcome(w)
  <2>1. finalized[w] # "none"
    BY <1>6 DEF EmitOutcome, MarkInv
  <2> QED BY <1>6, <2>1 DEF EmitOutcome
<1>7. CASE Leave(w)
  <2>1. finalized[w] \in Terminal
    BY <1>7 DEF Leave, MarkInv
  <2>2. w \in Sound => run[w] \in Terminal
    BY <1>7, <2>1 DEF Leave, Terminal
  <2>3. /\ exec'[w] = "done" /\ finalized'[w] = "none" /\ w \notin active'
        /\ UNCHANGED <<spawn, inv, run, outcomes, cancel, held>>
    BY <1>7 DEF Leave
  <2>4. spawn[w] = "spawned"
    BY <1>7 DEF Leave, MarkInv
  <2>5. ASSUME NEW v \in Sound, v # w
        PROVE  exec'[v] = exec[v] /\ finalized'[v] = finalized[v] /\ (v \in active' => v \in active)
    BY <1>7, <2>5 DEF Leave
  <2> HIDE DEF OutcomeInv, Dropping, Executing, Sound, TypeInv, TypeOK
  <2>6. ASSUME NEW v \in Sound, v # w PROVE OutcomeOf(v)'
    BY <2>3, <2>5, <2>6, OutcomeOfOthers
  <2>7. w \in Sound => OutcomeOf(w)'
    BY <2>2, <2>3, <2>4 DEF OutcomeOf, Executing
  <2> QED BY <2>6, <2>7 DEF OutcomeInv
<1>8. CASE AdapterEnds(w)
  <2>1. \E s \in Terminal : Finalize(w, s)
    BY <1>8, AdapterFinalizes
  <2> QED BY <1>8, <2>1, FinalizeOutcomes DEF AdapterEnds
<1>9. CASE StartThrows(w)
  <2>1. Thrown(w) \in Terminal
    BY ThrownTerminal
  <2> QED BY <1>9, <2>1, FinalizeOutcomes DEF StartThrows
<1>10. CASE FinalizeThrows(w)
  BY <1>10 DEF FinalizeThrows
<1> QED BY <1>1, <1>2, <1>3, <1>4, <1>5, <1>6, <1>7, <1>8, <1>9, <1>10 DEF ExecStep

LEMMA EventOutcomes ==
  ASSUME TypeInv, MarkInv, RecordInv, OutcomeInv, NEW w \in Workers,
         ChildEvent(w) \/ EventRead(w) \/ EventWrite(w)
  PROVE  OutcomeInv'
<1> USE DEF TypeInv, TypeOK, OutcomeInv, OutcomeOf, store, registry, Executing, Sound, Dropping
<1>1. CASE ChildEvent(w)
  BY <1>1 DEF ChildEvent
<1>2. CASE EventRead(w)
  BY <1>2 DEF EventRead
<1>3. CASE EventWrite(w)
  <2>1. spawn[w] = "spawned"
    BY <1>3 DEF EventWrite, MarkInv, RecordInv
  <2> QED BY <1>3, <2>1 DEF EventWrite
<1> QED BY <1>1, <1>2, <1>3

LEMMA CancelOutcomes ==
  ASSUME TypeInv, MarkInv, RecordInv, OutcomeInv, NEW w \in Workers, NEW c \in Cancellers,
         LoadForCancel(c, w) \/ CancelStep(c, w) \/ CancelThrows(c, w)
  PROVE  OutcomeInv'
<1>1. PICK l \in CancelStates : CancelGoto(c, w, l)
  BY DEF LoadForCancel, CancelStep, CancelThrows, FindChildRun, MarkCancelled, ReadForCancel,
         WriteCancel, Abort, CancelReturns, CancelStates
<1>2. /\ cancel'[c][w] = l
      /\ \A d \in Cancellers, v \in Workers : <<d, v>> # <<c, w>> => cancel'[d][v] = cancel[d][v]
  BY <1>1, CancelGotoTypes DEF TypeInv
<1>3. UNCHANGED <<spawn, exec>>
  BY DEF LoadForCancel, CancelStep, CancelThrows, FindChildRun, MarkCancelled, ReadForCancel,
         WriteCancel, Abort, CancelReturns
<1>4. \A v \in Workers : v # w =>
        /\ inv'[v] = inv[v] /\ run'[v] = run[v] /\ outcomes'[v] = outcomes[v]
        /\ finalized'[v] = finalized[v] /\ (v \in active' => v \in active)
        /\ \A d \in Cancellers : <<d, v>> \in held' => <<d, v>> \in held
  BY DEF LoadForCancel, CancelStep, CancelThrows, FindChildRun, MarkCancelled, ReadForCancel,
         WriteCancel, Abort, CancelReturns, store, registry, TypeInv, TypeOK
<1>5. ASSUME NEW v \in Sound, v # w
      PROVE  /\ spawn'[v] = spawn[v] /\ inv'[v] = inv[v] /\ run'[v] = run[v]
             /\ outcomes'[v] = outcomes[v] /\ exec'[v] = exec[v]
             /\ finalized'[v] = finalized[v] /\ (v \in active' => v \in active)
             /\ \A d \in Cancellers :
                  /\ cancel[d][v] \in Marked => cancel'[d][v] \in Marked
                  /\ <<d, v>> \in held' => <<d, v>> \in held
  BY <1>2, <1>3, <1>4, <1>5 DEF Sound
<1>6. CASE w \notin Sound
  BY <1>5, <1>6, OutcomeOfOthers DEF OutcomeInv
<1>7. CASE w \in Sound
  <2> SUFFICES OutcomeOf(w)'
    BY <1>5, OutcomeOfOthers DEF OutcomeInv
  <2>1. OutcomeOf(w) /\ inv[w] # "none" /\ spawn[w] = "spawned" /\ exec[w] # "none"
    <3>1. inv[w] # "none" /\ spawn[w] \in SpawnReturned
      BY DEF LoadForCancel, CancelStep, CancelThrows, FindChildRun, MarkCancelled, ReadForCancel,
             WriteCancel, Abort, CancelReturns, RecordInv, MarkInv
    <3>2. OutcomeOf(w) /\ (exec[w] # "none" <=> spawn[w] = "spawned")
      BY <1>7 DEF OutcomeInv, MarkInv
    <3> QED BY <3>1, <3>2 DEF OutcomeOf, SpawnReturned
  <2>2. ASSUME UNCHANGED <<run, outcomes, finalized, held>>, w \in active' => w \in active,
               cancel[c][w] \in Marked => l \in Marked
        PROVE  OutcomeOf(w)'
    <3>1. \A d \in Cancellers : cancel[d][w] \in Marked => cancel'[d][w] \in Marked
      BY <1>2, <2>2
    <3>2. Dropping(w) => Dropping(w)'
      BY <2>2, <3>1 DEF Dropping
    <3> QED BY <1>3, <2>1, <2>2, <3>2 DEF OutcomeOf, Executing
  <2>3. CASE LoadForCancel(c, w) \/ FindChildRun(c, w) \/ ReadForCancel(c, w) \/ WriteCancel(c, w)
    <3>1. UNCHANGED <<run, outcomes, finalized, held, active>>
      BY <2>3 DEF LoadForCancel, FindChildRun, ReadForCancel, WriteCancel, store, registry
    <3>2. cancel[c][w] \in Marked => cancel'[c][w] \in Marked
      BY <2>3, CancelGotoTypes
         DEF LoadForCancel, FindChildRun, ReadForCancel, WriteCancel, Marked, CancelStates, TypeInv
    <3> QED BY <1>2, <2>2, <3>1, <3>2
  <2>4. CASE MarkCancelled(c, w)
    <3>1. CASE finalized[w] # "none"
      <4>1. UNCHANGED <<run, outcomes, finalized, held>> /\ (w \in active' => w \in active)
        BY <2>4, <3>1 DEF MarkCancelled
      <4> QED BY <2>2, <2>4, <4>1 DEF MarkCancelled, Marked
    <3>2. CASE finalized[w] = "none"
      <4>1. /\ finalized'[w] = "cancelled" /\ run'[w] = "cancelled" /\ UNCHANGED outcomes
            /\ cancel'[c][w] = "runSaved" /\ w \notin active'
        BY <1>7, <2>4, <3>2, CancelGotoTypes DEF MarkCancelled, TypeInv, TypeOK, Sound, CancelStates
      <4>2. exec[w] = "done" => <<c, w>> \notin held'
        BY <2>1, <2>4, <3>2 DEF MarkCancelled, OutcomeOf
      <4>3. exec[w] = "done" => Dropping(w)'
        BY <4>1, <4>2 DEF Dropping, Marked
      <4> QED BY <1>3, <2>1, <3>2, <4>1, <4>3 DEF OutcomeOf, Executing, Terminal
    <3> QED BY <3>1, <3>2
  <2>5. CASE Abort(c, w)
    <3>1. /\ UNCHANGED <<run, finalized, held, active>> /\ cancel'[c][w] \in Marked
          /\ outcomes'[w] = outcomes[w] \cup {"cancelled"}
      BY <2>5, CancelGotoTypes DEF Abort, Marked, CancelStates, TypeInv, TypeOK
    <3>2. Executing(w) => finalized[w] = "cancelled"
      BY <2>5 DEF Abort, MarkInv, Marked
    <3>3. Dropping(w) => Dropping(w)'
      BY <1>2, <3>1 DEF Dropping
    <3> QED BY <1>3, <2>1, <3>1, <3>2, <3>3 DEF OutcomeOf, Executing
  <2>6. CASE CancelReturns(c, w)
    <3>1. UNCHANGED <<run, outcomes, held, active>> /\ cancel'[c][w] = "idle"
      BY <2>6, CancelGotoTypes DEF CancelReturns, CancelStates, TypeInv, store
    <3>2. CASE <<c, w>> \in held
      <4>1. UNCHANGED finalized
        BY <2>6, <3>2 DEF CancelReturns
      <4>2. Dropping(w) => Dropping(w)'
        BY <1>2, <3>1, <3>2 DEF Dropping
      <4> QED BY <1>3, <2>1, <3>1, <4>1, <4>2 DEF OutcomeOf, Executing
    <3>3. CASE <<c, w>> \notin held
      <4>1. finalized'[w] = "none" /\ ~Executing(w)
        BY <2>6, <3>3 DEF CancelReturns, MarkInv, Marked, TypeInv, TypeOK
      <4> QED BY <1>3, <2>1, <3>1, <4>1 DEF OutcomeOf, Executing
    <3> QED BY <3>2, <3>3
  <2>7. ~CancelThrows(c, w)
    BY <1>7 DEF CancelThrows, Sound
  <2> QED BY <2>3, <2>4, <2>5, <2>6, <2>7 DEF CancelStep
<1> QED BY <1>6, <1>7

LEMMA OutcomeStep == TypeInv /\ MarkInv /\ RecordInv /\ OutcomeInv /\ [Next]_vars => OutcomeInv'
<1> SUFFICES ASSUME TypeInv, MarkInv, RecordInv, OutcomeInv, [Next]_vars PROVE OutcomeInv'
  OBVIOUS
<1>1. CASE UNCHANGED vars
  BY <1>1 DEF vars, store, registry, OutcomeInv, OutcomeOf, Executing, Dropping
<1>2. CASE Next
  BY <1>2, SpawnOutcomes, ExecOutcomes, EventOutcomes, CancelOutcomes DEF Next
<1> QED BY <1>1, <1>2

LEMMA OutcomesInvariant == Spec => [](OutcomeInv /\ MarkInv)
<1> DEFINE IInv == TypeInv /\ MarkInv /\ RecordInv /\ OutcomeInv
<1>1. Init => IInv
  BY TypeInit, MarkInit, RecordInit, OutcomeInit
<1>2. IInv /\ [Next]_vars => IInv'
  BY TypeStep, MarkStep, RecordStep, OutcomeStep
<1>3. IInv => OutcomeInv /\ MarkInv
  OBVIOUS
<1> HIDE DEF IInv
<1> QED BY <1>1, <1>2, <1>3, PTL DEF Spec

\* While a child executes, its own end and every cancel call agree on one outcome.
THEOREM OneOutcome == Spec => []OneOutcomeWhileExecuting
<1>1. OutcomeInv /\ MarkInv => OneOutcomeWhileExecuting
  BY DEF OutcomeInv, OutcomeOf, OneOutcomeWhileExecuting, Sound
<1> QED BY <1>1, OutcomesInvariant, PTL

\* When the promise of a child resolves, its run is terminal.
THEOREM DoneMeansTerminal == Spec => []DoneIsTerminal
<1>1. OutcomeInv /\ MarkInv => DoneIsTerminal
  BY DEF OutcomeInv, OutcomeOf, DoneIsTerminal, Sound
<1> QED BY <1>1, OutcomesInvariant, PTL

\* A child that is done and that nobody cancels is in no registry any more.
THEOREM RegistriesAreDrained == Spec => []RegistriesDrain
<1>1. OutcomeInv /\ MarkInv => RegistriesDrain
  <2> SUFFICES ASSUME OutcomeInv, NEW w \in Sound, exec[w] = "done",
                      \A c \in Cancellers : cancel[c][w] = "idle"
               PROVE  w \notin active /\ finalized[w] = "none"
    BY DEF RegistriesDrain, Sound
  <2>1. ~Dropping(w)
    BY DEF Dropping, Marked
  <2> QED BY <2>1 DEF OutcomeInv, OutcomeOf
<1> QED BY <1>1, OutcomesInvariant, PTL


-----------------------------------------------------------------------------
(* What keeps the workers going *)

\* Cancel call c has marked the child while it was active and has not aborted it yet.
AboutToAbort(c, w) == <<c, w>> \in held /\ cancel[c][w] \in {"runSaved", "read", "written"}

\* The adapter of a child that was cancelled while it executed has been told to end, or
\* the cancel call that will tell it is at work.
CancelReaches ==
  \A w \in Sound :
    exec[w] = "adapter" /\ finalized[w] = "cancelled" =>
      w \in aborted \/ \E c \in Cancellers : AboutToAbort(c, w)

LEMMA ReachStep == TypeInv /\ MarkInv /\ CancelReaches /\ [Next]_vars => CancelReaches'
<1> SUFFICES ASSUME TypeInv, MarkInv, CancelReaches, [Next]_vars PROVE CancelReaches'
  OBVIOUS
<1> USE DEF AboutToAbort
<1>1. ASSUME UNCHANGED <<exec, finalized, aborted, cancel, held>>
      PROVE  CancelReaches'
  BY <1>1 DEF CancelReaches
<1>2. ASSUME NEW w \in Workers, UNCHANGED <<aborted, cancel, held>>,
             exec'[w] = "adapter" => finalized'[w] = "none",
             \A v \in Workers : v # w => exec'[v] = exec[v] /\ finalized'[v] = finalized[v]
      PROVE  CancelReaches'
  BY <1>2 DEF CancelReaches, Sound
<1>3. ASSUME NEW w \in Workers, Spawn(w) \/ SpawnStep(w) \/ SpawnFails(w)
      PROVE  CancelReaches'
  <2>1. CASE StartChild(w)
    <3>1. /\ UNCHANGED <<aborted, cancel, held, finalized>>
          /\ \E l \in {"started", "leaving"} : ExecGoto(w, l)
      BY <2>1 DEF StartChild, registry
    <3> QED BY <1>2, <3>1 DEF ExecGoto, TypeInv, TypeOK
  <2>2. CASE ~StartChild(w)
    BY <1>1, <1>3, <2>2 DEF Spawn, SpawnStep, SpawnFails, CountExisting, Refuse, SaveInvocation,
       SaveChildRun, Register, registry
  <2> QED BY <2>1, <2>2
<1>4. ASSUME NEW w \in Workers, ExecStep(w) \/ AdapterEnds(w) \/ StartThrows(w) \/ FinalizeThrows(w)
      PROVE  CancelReaches'
  <2>1. UNCHANGED <<aborted, cancel, held>>
    BY <1>4 DEF ExecStep, ReadForTouch, WriteTouch, CallAdapter, ReadForOutcome, WriteOutcome,
       EmitOutcome, Leave, AdapterEnds, StartThrows, FinalizeThrows, registry
  <2>2. /\ exec'[w] = "adapter" => finalized'[w] = "none"
        /\ \A v \in Workers : v # w => exec'[v] = exec[v] /\ finalized'[v] = finalized[v]
    <3>1. CASE AdapterEnds(w) \/ StartThrows(w)
      <4>1. \E s \in Terminal : Finalize(w, s)
        BY <3>1, AdapterFinalizes, ThrownTerminal DEF StartThrows
      <4> QED BY <4>1 DEF Finalize, ExecGoto, TypeInv, TypeOK
    <3>2. CASE Leave(w)
      BY <3>2 DEF Leave, ExecGoto, TypeInv, TypeOK
    <3>3. CASE CallAdapter(w)
      BY <3>3 DEF CallAdapter, ExecGoto, registry, TypeInv, TypeOK
    <3>4. CASE \/ ReadForTouch(w) \/ WriteTouch(w) \/ ReadForOutcome(w) \/ WriteOutcome(w)
               \/ EmitOutcome(w) \/ FinalizeThrows(w)
      BY <3>4 DEF ReadForTouch, WriteTouch, ReadForOutcome, WriteOutcome, EmitOutcome,
         FinalizeThrows, ExecGoto, registry, TypeInv, TypeOK
    <3> QED BY <1>4, <3>1, <3>2, <3>3, <3>4 DEF ExecStep
  <2> QED BY <1>2, <2>1, <2>2
<1>5. ASSUME NEW w \in Workers, ChildEvent(w) \/ EventRead(w) \/ EventWrite(w)
      PROVE  CancelReaches'
  BY <1>1, <1>5 DEF ChildEvent, EventRead, EventWrite, registry
<1>6. ASSUME NEW w \in Workers, NEW c \in Cancellers,
             LoadForCancel(c, w) \/ CancelStep(c, w) \/ CancelThrows(c, w)
      PROVE  CancelReaches'
  <2>1. PICK l \in CancelStates : CancelGoto(c, w, l)
    BY <1>6 DEF LoadForCancel, CancelStep, CancelThrows, FindChildRun, MarkCancelled, ReadForCancel,
           WriteCancel, Abort, CancelReturns, CancelStates
  <2>2. /\ cancel'[c][w] = l
        /\ \A d \in Cancellers, v \in Workers : <<d, v>> # <<c, w>> => cancel'[d][v] = cancel[d][v]
    BY <2>1, CancelGotoTypes DEF TypeInv
  <2>3. /\ UNCHANGED exec
        /\ \A v \in Workers : v # w => finalized'[v] = finalized[v] /\ (v \in aborted => v \in aborted')
        /\ \A d \in Cancellers, v \in Workers : <<d, v>> # <<c, w>> /\ <<d, v>> \in held => <<d, v>> \in held'
    BY <1>6 DEF LoadForCancel, CancelStep, CancelThrows, FindChildRun, MarkCancelled, ReadForCancel,
           WriteCancel, Abort, CancelReturns, registry, TypeInv, TypeOK
  <2>4. ASSUME w \in Sound, exec[w] = "adapter", finalized'[w] = "cancelled"
        PROVE  w \in aborted' \/ \E d \in Cancellers : AboutToAbort(d, w)'
    <3>1. CASE MarkCancelled(c, w) /\ finalized[w] = "none"
      <4>1. w \in active
        BY <2>4, <3>1 DEF MarkInv, Executing
      <4>2. <<c, w>> \in held' /\ cancel'[c][w] = "runSaved"
        BY <2>4, <3>1, <4>1, <2>2 DEF MarkCancelled, CancelGoto, Sound, TypeInv, TypeOK
      <4> QED BY <4>2
    <3>2. CASE ~(MarkCancelled(c, w) /\ finalized[w] = "none")
      <4>1. /\ finalized[w] = "cancelled" /\ UNCHANGED held
            /\ aborted' = aborted \/ (Abort(c, w) /\ (<<c, w>> \in held => w \in aborted') /\ aborted \subseteq aborted')
        BY <1>6, <2>4, <3>2 DEF LoadForCancel, CancelStep, CancelThrows, FindChildRun, MarkCancelled,
           ReadForCancel, WriteCancel, Abort, CancelReturns, registry, TypeInv, TypeOK
      <4>2. AboutToAbort(c, w) => w \in aborted' \/ AboutToAbort(c, w)'
        <5>1. CASE Abort(c, w)
          BY <4>1, <5>1 DEF Abort
        <5>2. CASE ReadForCancel(c, w) \/ WriteCancel(c, w)
          BY <2>2, <4>1, <5>2 DEF ReadForCancel, WriteCancel, CancelGoto, TypeInv, TypeOK
        <5>3. CASE CancelThrows(c, w)
          BY <2>4, <5>3 DEF CancelThrows, Sound
        <5>4. CASE LoadForCancel(c, w) \/ FindChildRun(c, w) \/ MarkCancelled(c, w) \/ CancelReturns(c, w)
          BY <5>4 DEF LoadForCancel, FindChildRun, MarkCancelled, CancelReturns
        <5> QED BY <1>6, <5>1, <5>2, <5>3, <5>4 DEF CancelStep
      <4>3. w \in aborted \/ \E d \in Cancellers : AboutToAbort(d, w)
        BY <2>4, <4>1 DEF CancelReaches
      <4> QED BY <2>2, <4>1, <4>2, <4>3
    <3> QED BY <3>1, <3>2
  <2>5. ASSUME NEW v \in Sound, v # w, exec[v] = "adapter", finalized'[v] = "cancelled"
        PROVE  v \in aborted' \/ \E d \in Cancellers : AboutToAbort(d, v)'
    <3>1. v \in aborted \/ \E d \in Cancellers : AboutToAbort(d, v)
      BY <2>3, <2>5 DEF CancelReaches, Sound
    <3>2. \A d \in Cancellers : AboutToAbort(d, v) => AboutToAbort(d, v)'
      BY <2>2, <2>3, <2>5 DEF Sound
    <3> QED BY <2>3, <2>5, <3>1, <3>2 DEF Sound
  <2> QED BY <2>3, <2>4, <2>5 DEF CancelReaches
<1>7. CASE UNCHANGED vars
  BY <1>1, <1>7 DEF vars, registry
<1> QED BY <1>3, <1>4, <1>5, <1>6, <1>7 DEF Next

\* The safety half of CancelEndsWorker: whoever marks an executing child has found it
\* active and aborts it after the mark, and no adapter is called on a marked child.
THEOREM CancelsReachTheAdapter == Spec => []CancelReaches
<1>1. Init => CancelReaches
  BY DEF Init, CancelReaches, Sound
<1>2. TypeInv /\ MarkInv /\ CancelReaches /\ [Next]_vars => CancelReaches'
  BY ReachStep
<1> QED BY <1>1, <1>2, MarksInvariant, PTL DEF Spec

\* Whenever a spawn call waits for the lock of the parent run, one call holds it.
SpawnLockHeld ==
  (\E w \in Workers : spawn[w] \notin {"idle"} \cup SpawnReturned) =>
    \E w \in Workers : LockHolder(w)

\* The spawn calls of a parent run never all wait for one another, whatever refuses or
\* throws: the earliest call that has not returned is the holder of the lock.
THEOREM SpawnLockIsHeld == Spec => []SpawnLockHeld
<1>1. TypeInv /\ LockInv => SpawnLockHeld
  <2> SUFFICES ASSUME TypeInv, LockInv, NEW w \in Workers, spawn[w] \notin {"idle"} \cup SpawnReturned
               PROVE  \E v \in Workers : LockHolder(v)
    BY DEF SpawnLockHeld
  <2> DEFINE Open == {i \in DOMAIN chain : spawn[chain[i]] \notin SpawnReturned}
             R == {ss \in Nat \X Nat : ss[1] < ss[2]}
  <2>1. /\ chain \in Seq(Workers) /\ DOMAIN chain \subseteq Nat
        /\ \A i \in DOMAIN chain : spawn[chain[i]] # "idle"
        /\ \A i \in DOMAIN chain : 1 .. (i - 1) \subseteq DOMAIN chain
    BY DEF TypeInv, TypeOK, ChainInv
  <2>2. Open \subseteq Nat /\ Open # {}
    BY <2>1 DEF LockInv
  <2>3. IsWellFoundedOn(R, Nat)
    <3>1. OpToRel(<, Nat) = R
      BY DEF OpToRel
    <3> QED BY <3>1, NatLessThanWellFounded
  <2>4. PICK x \in Open : \A y \in Open : <<y, x>> \notin R
    <3> HIDE DEF R, Open
    <3> QED BY <2>2, <2>3, WFMin
  <2>5. \A j \in 1 .. (x - 1) : spawn[chain[j]] \in SpawnReturned
    <3>1. \A j \in 1 .. (x - 1) : <<j, x>> \in R
      BY <2>2, <2>4
    <3> QED BY <2>1, <2>4, <3>1
  <2> QED BY <2>1, <2>4, <2>5 DEF LockHolder
<1> QED BY <1>1, LockInit, LockStep, MarksInvariant, PTL DEF Spec
=============================================================================
