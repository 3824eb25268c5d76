------------------------- MODULE SessionViewProofs --------------------------
(***************************************************************************)
(* Proofs about SessionView for every set of messages, every set of old     *)
(* runs and every bound: its types, that a history is not forgotten, and    *)
(* that the statuses, the links and the messages on screen are those of the *)
(* database once everything has settled.                                   *)
(***************************************************************************)
EXTENDS SessionView, SequenceTheorems, WellFoundedInduction, TLAPS

-----------------------------------------------------------------------------
(* Sequences *)

Created == {"queued", "running"}
Events == Created \cup {"started"} \cup Terminal
WireEvents == [run : Runs, event : Events]

\* A nonempty set of positions of a sequence has a last one.
LEMMA LastPosition ==
  ASSUME NEW n \in Nat, NEW S \in SUBSET (1 .. n), S # {}
  PROVE  \E i \in S : \A j \in S : j <= i
<1> DEFINE R == OpToRel(<, Nat)
           D == {n - i : i \in S}
<1>1. IsWellFoundedOn(R, Nat)
  BY NatLessThanWellFounded
<1>2. \A i \in S : i \in 1 .. n /\ n - i \in Nat
  OBVIOUS
<1>3. D \subseteq Nat /\ D # {}
  BY <1>2
<1>4. \E x \in D : \A y \in D : <<y, x>> \notin R
  BY <1>1, <1>3, WFMin
<1>5. \A x, y \in Nat : x < y => <<x, y>> \in R
  BY DEF OpToRel
<1> HIDE DEF R
<1>6. PICK i \in S : \A y \in D : <<y, n - i>> \notin R
  BY <1>4
<1>7. \A j \in S : ~(n - j < n - i)
  BY <1>2, <1>5, <1>6
<1> QED BY <1>2, <1>7

\* Leaving the queue keeps it a queue of runs.
LEMMA LeaveSeq ==
  ASSUME queue \in Seq(Runs), NEW r \in Runs
  PROVE  Leave(r) \in Seq(Runs)
<1>1. CASE \E i \in DOMAIN queue : queue[i] = r
  <2> DEFINE k == CHOOSE i \in DOMAIN queue : queue[i] = r
             f == [i \in 1 .. (Len(queue) - 1) |-> IF i < k THEN queue[i] ELSE queue[i + 1]]
  <2>1. k \in 1 .. Len(queue) /\ Len(queue) \in Nat /\ Len(queue) - 1 \in Nat
    BY <1>1
  <2>2. \A i \in 1 .. (Len(queue) - 1) : f[i] \in Runs
    BY <2>1
  <2>3. f \in Seq(Runs)
    BY <2>1, <2>2, IsASeq
  <2> QED BY <1>1, <2>3 DEF Leave
<1>2. CASE ~ \E i \in DOMAIN queue : queue[i] = r
  BY <1>2 DEF Leave
<1> QED BY <1>1, <1>2

-----------------------------------------------------------------------------
(* Events on their way *)

\* No event of the run is on its way; the first, the last of those that are.
Silent(r) == \A i \in DOMAIN wire : wire[i].run # r
FirstEvent(r, e) ==
  \E i \in DOMAIN wire :
    /\ wire[i].run = r /\ wire[i].event = e
    /\ \A j \in DOMAIN wire : wire[j].run = r => i <= j
LastEvent(r, e) ==
  \E i \in DOMAIN wire :
    /\ wire[i].run = r /\ wire[i].event = e
    /\ \A j \in DOMAIN wire : wire[j].run = r => j <= i

\* Forwarding events of a run: they come behind all others.
LEMMA Emitted ==
  ASSUME wire \in Seq(WireEvents), NEW r \in Runs,
         NEW es \in Seq(WireEvents), es # <<>>, \A i \in DOMAIN es : es[i].run = r, Emit(es)
  PROVE  /\ wire' \in Seq(WireEvents)
         /\ \A q \in Runs \ {r} : Silent(q) => Silent(q)'
         /\ \A q \in Runs \ {r} : \A e : LastEvent(q, e) => LastEvent(q, e)'
         /\ \A q \in Runs : \A e : FirstEvent(q, e) => FirstEvent(q, e)'
         /\ Silent(r) => FirstEvent(r, es[1].event)'
         /\ LastEvent(r, es[Len(es)].event)'
<1> DEFINE m == Len(wire)
           n == Len(es)
<1>0. n # 0
  BY EmptySeq
<1>1. m \in Nat /\ n \in Nat \ {0} /\ DOMAIN wire = 1 .. m /\ DOMAIN es = 1 .. n
  <2>1. m \in Nat /\ DOMAIN wire = 1 .. m
    BY LenProperties
  <2>2. n \in Nat /\ DOMAIN es = 1 .. n
    BY LenProperties
  <2> QED BY <1>0, <2>1, <2>2
<1>2. wire' = wire \o es
  BY DEF Emit
<1>3. /\ wire' \in Seq(WireEvents) /\ Len(wire') = m + n
      /\ \A i \in 1 .. (m + n) : wire'[i] = IF i <= m THEN wire[i] ELSE es[i - m]
  BY <1>1, <1>2, ConcatProperties
<1>4. DOMAIN wire' = 1 .. (m + n)
  BY <1>3
<1>5. \A i \in DOMAIN wire : i \in DOMAIN wire' /\ wire'[i] = wire[i] /\ i <= m
  BY <1>1, <1>3, <1>4
<1>6. ASSUME NEW i \in DOMAIN wire'
      PROVE  i \in DOMAIN wire \/ (i > m /\ wire'[i].run = r)
  <2>1. CASE i <= m
    BY <1>1, <1>4, <2>1
  <2>2. CASE i > m
    <3>1. i - m \in DOMAIN es /\ wire'[i] = es[i - m]
      BY <1>1, <1>3, <1>4, <2>2
    <3> QED BY <2>2, <3>1
  <2> QED BY <1>1, <1>4, <2>1, <2>2
<1>7. m + 1 \in DOMAIN wire' /\ wire'[m + 1] = es[1] /\ wire'[m + n] = es[n] /\ m + n \in DOMAIN wire'
      /\ es[1].run = r /\ es[n].run = r
  BY <1>1, <1>3, <1>4
<1>8. \A i \in DOMAIN wire' : i \in Nat /\ i <= m + n
  BY <1>1, <1>4
<1> HIDE DEF m, n
<1>9. \A q \in Runs \ {r} : Silent(q) => Silent(q)'
  BY <1>5, <1>6 DEF Silent
<1>10. \A q \in Runs \ {r} : \A e : LastEvent(q, e) => LastEvent(q, e)'
  BY <1>5, <1>6 DEF LastEvent
<1>11. ASSUME NEW q \in Runs, NEW e, FirstEvent(q, e) PROVE FirstEvent(q, e)'
  <2>1. PICK i \in DOMAIN wire :
          /\ wire[i].run = q /\ wire[i].event = e
          /\ \A j \in DOMAIN wire : wire[j].run = q => i <= j
    BY <1>11 DEF FirstEvent
  <2>2. i \in DOMAIN wire' /\ wire'[i] = wire[i] /\ i <= m
    BY <1>5
  <2>3. ASSUME NEW j \in DOMAIN wire', wire'[j].run = q PROVE i <= j
    <3>1. CASE j \in DOMAIN wire
      BY <1>5, <2>1, <2>3, <3>1
    <3>2. CASE j > m
      BY <1>1, <1>8, <2>2, <3>2
    <3> QED BY <1>6, <3>1, <3>2
  <2> QED BY <2>1, <2>2, <2>3 DEF FirstEvent
<1>12. ASSUME Silent(r) PROVE FirstEvent(r, es[1].event)'
  <2>1. \A j \in DOMAIN wire' : wire'[j].run = r => m + 1 <= j
    BY <1>1, <1>5, <1>6, <1>8, <1>12 DEF Silent
  <2> QED BY <1>7, <2>1 DEF FirstEvent
<1>13. LastEvent(r, es[n].event)'
  BY <1>7, <1>8 DEF LastEvent
<1> QED BY <1>3, <1>9, <1>10, <1>11, <1>12, <1>13 DEF n

\* Receiving the first event: the others move up.
LEMMA Received ==
  ASSUME wire \in Seq(WireEvents), wire # <<>>, wire' = Tail(wire), NEW r, r = Head(wire).run
  PROVE  /\ Head(wire) \in WireEvents
         /\ wire' \in Seq(WireEvents)
         /\ \A q : Silent(q) => Silent(q)' /\ q # r
         /\ \A q, e : q # r /\ FirstEvent(q, e) => FirstEvent(q, e)'
         /\ \A e : FirstEvent(r, e) => e = Head(wire).event
         /\ \A q, e : LastEvent(q, e) =>
              LastEvent(q, e)' \/ (q = r /\ e = Head(wire).event /\ Silent(q)')
<1> DEFINE m == Len(wire)
<1>1. m \in Nat \ {0} /\ DOMAIN wire = 1 .. m
  BY EmptySeq
<1>2. /\ wire' \in Seq(WireEvents) /\ Len(wire') = m - 1
      /\ \A i \in 1 .. (m - 1) : wire'[i] = wire[i + 1]
      /\ Head(wire) = wire[1]
  BY <1>1, HeadTailProperties
<1>3. DOMAIN wire' = 1 .. (m - 1)
  BY <1>2
<1>4. 1 \in DOMAIN wire /\ Head(wire) \in WireEvents
  BY <1>1, <1>2, ElementOfSeq
<1>5. \A i \in DOMAIN wire' : i + 1 \in DOMAIN wire /\ wire'[i] = wire[i + 1] /\ i \in Nat /\ i >= 1
  BY <1>1, <1>2, <1>3
<1>6. \A i \in DOMAIN wire : i = 1 \/ (i > 1 /\ i - 1 \in DOMAIN wire' /\ wire'[i - 1] = wire[i])
  BY <1>1, <1>2, <1>3
<1>7. DOMAIN wire \subseteq Nat
  BY <1>1
<1> HIDE DEF m
<1>8. ASSUME NEW q, Silent(q) PROVE Silent(q)' /\ q # r
  BY <1>2, <1>4, <1>5, <1>8 DEF Silent
<1>9. ASSUME NEW q, NEW e, q # r, FirstEvent(q, e) PROVE FirstEvent(q, e)'
  <2>1. PICK i \in DOMAIN wire :
          /\ wire[i].run = q /\ wire[i].event = e
          /\ \A j \in DOMAIN wire : wire[j].run = q => i <= j
    BY <1>9 DEF FirstEvent
  <2>2. i - 1 \in DOMAIN wire' /\ wire'[i - 1] = wire[i]
    BY <1>2, <1>6, <1>9, <2>1
  <2>3. \A j \in DOMAIN wire' : wire'[j].run = q => i - 1 <= j
    BY <1>5, <1>7, <2>1
  <2> QED BY <2>1, <2>2, <2>3 DEF FirstEvent
<1>10. ASSUME NEW e, FirstEvent(r, e) PROVE e = Head(wire).event
  <2>1. PICK i \in DOMAIN wire :
          /\ wire[i].run = r /\ wire[i].event = e
          /\ \A j \in DOMAIN wire : wire[j].run = r => i <= j
    BY <1>10 DEF FirstEvent
  <2>2. i <= 1
    BY <1>2, <1>4, <2>1
  <2> QED BY <1>2, <1>6, <1>7, <2>1, <2>2
<1>11. ASSUME NEW q, NEW e, LastEvent(q, e)
       PROVE  LastEvent(q, e)' \/ (q = r /\ e = Head(wire).event /\ Silent(q)')
  <2>1. PICK i \in DOMAIN wire :
          /\ wire[i].run = q /\ wire[i].event = e
          /\ \A j \in DOMAIN wire : wire[j].run = q => j <= i
    BY <1>11 DEF LastEvent
  <2>2. CASE i = 1
    <3>1. q = r /\ e = Head(wire).event
      BY <1>2, <2>1, <2>2
    <3>2. Silent(q)'
      BY <1>5, <2>1, <2>2 DEF Silent
    <3> QED BY <3>1, <3>2
  <2>3. CASE i # 1
    <3>1. i - 1 \in DOMAIN wire' /\ wire'[i - 1] = wire[i]
      BY <1>6, <2>3
    <3>2. \A j \in DOMAIN wire' : wire'[j].run = q => j <= i - 1
      BY <1>5, <1>7, <2>1
    <3> QED BY <2>1, <3>1, <3>2 DEF LastEvent
  <2> QED BY <2>2, <2>3
<1> QED BY <1>2, <1>4, <1>8, <1>9, <1>10, <1>11
-----------------------------------------------------------------------------
(* Types *)

WindowTypes ==
  /\ wire \in Seq(WireEvents)
  /\ snapshot \in [users : SUBSET Known, runs : [Known -> Statuses]]

TypeInv == TypeOK /\ WindowTypes

\* What a save with its event, or with the two ends of a run, does to row and wire.
LEMMA SavedOne ==
  ASSUME TypeInv, NEW r \in Runs, NEW s \in Statuses, NEW e \in Events, SaveAndEmit(r, s, e)
  PROVE  /\ status' = [status EXCEPT ![r] = s] /\ status' \in [Runs -> Statuses]
         /\ wire' \in Seq(WireEvents)
         /\ \A q \in Runs \ {r} : Silent(q) => Silent(q)'
         /\ \A q \in Runs \ {r} : \A f : LastEvent(q, f) => LastEvent(q, f)'
         /\ \A q \in Runs : \A f : FirstEvent(q, f) => FirstEvent(q, f)'
         /\ Silent(r) => FirstEvent(r, e)'
         /\ LastEvent(r, e)'
<1> DEFINE es == <<Event(r, e)>>
<1>1. es \in Seq(WireEvents) /\ es # <<>> /\ Len(es) = 1 /\ es[1] = Event(r, e)
      /\ \A i \in DOMAIN es : es[i].run = r
  BY DEF Event, WireEvents
<1>2. Emit(es)
  BY DEF SaveAndEmit
<1>3. es[1].event = e
  BY <1>1 DEF Event
<1>4. wire \in Seq(WireEvents)
  BY DEF TypeInv, WindowTypes
<1> HIDE DEF es
<1>5. status' = [status EXCEPT ![r] = s] /\ status' \in [Runs -> Statuses]
  BY DEF SaveAndEmit, SaveStatus, TypeInv, TypeOK
<1> QED BY <1>1, <1>2, <1>3, <1>4, <1>5, Emitted

LEMMA SavedTwo ==
  ASSUME TypeInv, NEW r \in Runs, TwoEnds(r)
  PROVE  /\ status' = [status EXCEPT ![r] = "cancelled"] /\ status' \in [Runs -> Statuses]
         /\ wire' \in Seq(WireEvents)
         /\ \A q \in Runs \ {r} : Silent(q) => Silent(q)'
         /\ \A q \in Runs \ {r} : \A f : LastEvent(q, f) => LastEvent(q, f)'
         /\ \A q \in Runs : \A f : FirstEvent(q, f) => FirstEvent(q, f)'
         /\ LastEvent(r, "failed")'
<1> DEFINE es == <<Event(r, "cancelled"), Event(r, "failed")>>
<1>1. es \in Seq(WireEvents) /\ es # <<>> /\ Len(es) = 2
      /\ \A i \in DOMAIN es : es[i].run = r
  BY DEF Event, WireEvents, Events, Terminal
<1>2. Emit(es)
  BY DEF TwoEnds
<1>3. es[2].event = "failed"
  BY DEF Event
<1>4. wire \in Seq(WireEvents)
  BY DEF TypeInv, WindowTypes
<1> HIDE DEF es
<1>5. status' = [status EXCEPT ![r] = "cancelled"] /\ status' \in [Runs -> Statuses]
  BY DEF TwoEnds, SaveStatus, TypeInv, TypeOK, Statuses, Terminal
<1> QED BY <1>1, <1>2, <1>3, <1>4, <1>5, Emitted

\* Where a run stands after a stop.
LEMMA StopTypes ==
  ASSUME TypeInv, NEW r \in Runs, Stop(r)
  PROVE  /\ queue' \in Seq(Runs)
         /\ exec' \in [Runs -> {"none", "waiting", "executing", "stopping", "done"}]
         /\ exec'[r] \in {"stopping", "done"}
         /\ \A q \in Runs \ {r} : exec'[q] = exec[q]
<1>1. queue \in Seq(Runs) /\ exec \in [Runs -> {"none", "waiting", "executing", "stopping", "done"}]
  BY DEF TypeInv, TypeOK
<1> QED BY <1>1, LeaveSeq DEF Stop, Goto

LEMMA WireRuns ==
  ASSUME NEW w \in Seq(WireEvents)
  PROVE  \A i \in DOMAIN w : w[i].run \in Runs
<1>1. \A i \in DOMAIN w : w[i] \in WireEvents
  BY ElementOfSeq
<1> QED BY <1>1 DEF WireEvents

\* An answer is one of a run.
LEMMA AnswerTypes ==
  ASSUME TypeInv, NEW r \in Runs, NEW ok \in BOOLEAN, Answer(r, ok)
  PROVE  replies' \subseteq [run : Runs, ok : BOOLEAN]
<1>1. [run |-> r, ok |-> ok] \in [run : Runs, ok : BOOLEAN]
  OBVIOUS
<1> QED BY <1>1 DEF Answer, TypeInv, TypeOK

\* The status an event leaves is one the store knows.
LEMMA StatusAfterType ==
  ASSUME TypeInv, NEW e \in WireEvents
  PROVE  StatusAfter(e) \in Statuses
<1>1. shown[e.run] \in Statuses /\ e.event \in Events
  BY DEF TypeInv, TypeOK, WireEvents, Known
<1> QED BY <1>1 DEF StatusAfter, Statuses, Events, Created, Terminal

\* The steps of the runtime and of the handler.
LEMMA RuntimeTypes ==
  ASSUME TypeInv, NEW r \in Runs, RuntimeStep(r) \/ StopButton(r) \/ FailureAndStop(r)
  PROVE  TypeInv'
<1>0. queue \in Seq(Runs) /\ exec \in [Runs -> {"none", "waiting", "executing", "stopping", "done"}]
  BY DEF TypeInv, TypeOK
<1>1. /\ status' \in [Runs -> Statuses] /\ wire' \in Seq(WireEvents)
      /\ queue' \in Seq(Runs)
      /\ exec' \in [Runs -> {"none", "waiting", "executing", "stopping", "done"}]
      /\ UNCHANGED <<handler, saved, windowVars>>
  <2>1. CASE RuntimeStep(r) /\ RunStarts(r)
    <3>1. SaveAndEmit(r, "running", "started") /\ exec' = [exec EXCEPT ![r] = "executing"]
          /\ queue' = queue /\ UNCHANGED <<handler, saved, windowVars>>
      BY <2>1 DEF RuntimeStep, RunStarts, Goto
    <3>2. status' \in [Runs -> Statuses] /\ wire' \in Seq(WireEvents)
      BY <3>1, SavedOne DEF Statuses, Events
    <3> QED BY <1>0, <3>1, <3>2
  <2>2. CASE RuntimeStep(r) /\ RunEnds(r)
    <3>1. PICK s \in {"succeeded", "failed"} : SaveAndEmit(r, s, s)
      BY <2>2 DEF RunEnds
    <3>2. status' \in [Runs -> Statuses] /\ wire' \in Seq(WireEvents)
      BY <3>1, SavedOne DEF Statuses, Events, Terminal
    <3> QED BY <1>0, <2>2, <3>2, LeaveSeq DEF RuntimeStep, RunEnds, Goto
  <2>3. CASE RuntimeStep(r) /\ RunStopped(r)
    <3>1. status' = status /\ wire' = wire
      BY <2>3 DEF RunStopped
    <3> QED BY <1>0, <2>3, <3>1, LeaveSeq DEF RuntimeStep, RunStopped, Goto, TypeInv, TypeOK, WindowTypes
  <2>4. CASE StopButton(r)
    <3>1. SaveAndEmit(r, "cancelled", "cancelled") /\ Stop(r) /\ UNCHANGED <<handler, saved, windowVars>>
      BY <2>4 DEF StopButton
    <3>2. status' \in [Runs -> Statuses] /\ wire' \in Seq(WireEvents)
      BY <3>1, SavedOne DEF Statuses, Events, Terminal
    <3> QED BY <3>1, <3>2, StopTypes
  <2>5. CASE FailureAndStop(r)
    BY <2>5, SavedTwo, StopTypes DEF FailureAndStop
  <2> QED BY <2>1, <2>2, <2>3, <2>4, <2>5 DEF RuntimeStep
<1>2. \A i \in DOMAIN wire' : wire'[i].run \in Runs
  BY <1>1, WireRuns
<1> QED BY <1>1, <1>2 DEF TypeInv, TypeOK, WindowTypes, windowVars, storeVars, loadVars

\* The steps of the handler.
LEMMA HandlerTypes ==
  ASSUME TypeInv, NEW r \in Runs, HandlerSteps(r)
  PROVE  TypeInv'
<1>0. queue \in Seq(Runs) /\ exec \in [Runs -> {"none", "waiting", "executing", "stopping", "done"}]
      /\ status \in [Runs -> Statuses] /\ wire \in Seq(WireEvents) /\ saved \subseteq Runs
      /\ replies \subseteq [run : Runs, ok : BOOLEAN]
  BY DEF TypeInv, TypeOK, WindowTypes
<1>1. /\ status' \in [Runs -> Statuses] /\ wire' \in Seq(WireEvents)
      /\ queue' \in Seq(Runs) /\ saved' \subseteq Runs
      /\ exec' \in [Runs -> {"none", "waiting", "executing", "stopping", "done"}]
      /\ replies' \subseteq [run : Runs, ok : BOOLEAN]
  <2>1. CASE CallEnqueue(r)
    <3> DEFINE s == IF queue = <<>> THEN "running" ELSE "queued"
    <3>1. SaveAndEmit(r, s, s) /\ queue' = Append(queue, r) /\ exec' = [exec EXCEPT ![r] = "waiting"]
          /\ saved' = saved /\ replies' = replies
      BY <2>1 DEF CallEnqueue, EnqueueRun, Goto
    <3>2. s \in Statuses /\ s \in Events
      BY DEF Statuses, Events, Created
    <3> HIDE DEF s
    <3>3. status' \in [Runs -> Statuses] /\ wire' \in Seq(WireEvents)
      BY <3>1, <3>2, SavedOne
    <3>4. queue' \in Seq(Runs)
      BY <1>0, <3>1, AppendProperties
    <3> QED BY <1>0, <3>1, <3>3, <3>4
  <2>2. CASE EnqueueThrows(r)
    <3>1. replies' \subseteq [run : Runs, ok : BOOLEAN]
      BY <2>2, AnswerTypes DEF EnqueueThrows
    <3> QED BY <1>0, <2>2, <3>1 DEF EnqueueThrows, runtimeVars
  <2>3. CASE CreateUserMessage(r)
    <3>1. replies' \subseteq [run : Runs, ok : BOOLEAN]
      BY <2>3, AnswerTypes DEF CreateUserMessage
    <3> QED BY <1>0, <2>3, <3>1 DEF CreateUserMessage, runtimeVars
  <2>4. CASE UserMessageFails(r)
    <3>1. /\ replies' \subseteq [run : Runs, ok : BOOLEAN]
          /\ saved' \subseteq Runs
          /\ Stop(r)
          /\ SaveAndEmit(r, "failed", "failed") \/ TwoEnds(r)
      BY <1>0, <2>4, AnswerTypes DEF UserMessageFails
    <3>2. status' \in [Runs -> Statuses] /\ wire' \in Seq(WireEvents)
      <4>1. CASE SaveAndEmit(r, "failed", "failed")
        BY <4>1, SavedOne DEF Statuses, Events, Terminal
      <4>2. CASE TwoEnds(r)
        BY <4>2, SavedTwo
      <4> QED BY <3>1, <4>1, <4>2
    <3> QED BY <3>1, <3>2, StopTypes
  <2> QED BY <2>1, <2>2, <2>3, <2>4 DEF HandlerSteps
<1>2. \A i \in DOMAIN wire' : wire'[i].run \in Runs
  BY <1>1, WireRuns
<1>3. \E from, to \in {"idle", "asked", "enqueued", "answered", "refused"} : HandlerStep(r, from, to)
  BY DEF HandlerSteps, CallEnqueue, EnqueueThrows, CreateUserMessage, UserMessageFails
<1>4. /\ handler' \in [Runs -> {"idle", "asked", "enqueued", "answered", "refused"}]
      /\ UNCHANGED <<sent, storeVars, loadVars, stale>>
  BY <1>3 DEF HandlerStep, TypeInv, TypeOK
<1> QED BY <1>1, <1>2, <1>4 DEF TypeInv, TypeOK, WindowTypes, storeVars, loadVars

\* Events, answers and messages in the window.
LEMMA WindowStepTypes ==
  ASSUME TypeInv, (\E r \in Runs : SendMessage(r)) \/ (\E p \in replies : ReceiveReply(p)) \/ ReceiveEvent
  PROVE  TypeInv'
<1>1. ASSUME NEW r \in Runs, SendMessage(r) PROVE TypeInv'
  <2>1. /\ handler' \in [Runs -> {"idle", "asked", "enqueued", "answered", "refused"}]
        /\ users' \subseteq Known
    BY <1>1 DEF SendMessage, TypeInv, TypeOK, Known
  <2>2. sent' \in Seq(Runs)
    BY <1>1, AppendProperties DEF SendMessage, TypeInv, TypeOK
  <2> QED BY <1>1, <2>1, <2>2 DEF SendMessage, TypeInv, TypeOK, WindowTypes, runtimeVars, loadVars
<1>2. ASSUME NEW p \in replies, ReceiveReply(p) PROVE TypeInv'
  BY <1>2 DEF ReceiveReply, TypeInv, TypeOK, WindowTypes, mainVars, runtimeVars, loadVars, Known
<1>3. CASE ReceiveEvent
  <2> DEFINE e == Head(wire)
  <2>1. /\ wire # <<>> /\ wire' = Tail(wire)
        /\ shown' = [shown EXCEPT ![e.run] = StatusAfter(e)]
        /\ link' = IF e.event \in {"queued", "running"} THEN LinkLatestPending(e.run) ELSE link
        /\ UNCHANGED <<mainVars, replies, sent, users, loadVars, stale>>
    BY <1>3 DEF ReceiveEvent
  <2>2. e \in WireEvents /\ wire' \in Seq(WireEvents)
    BY <2>1, Received DEF TypeInv, WindowTypes
  <2>3. StatusAfter(e) \in Statuses /\ e.run \in Runs
    BY <2>2, StatusAfterType DEF WireEvents
  <2>4. \A i \in DOMAIN wire' : wire'[i].run \in Runs
    BY <2>2, WireRuns
  <2> HIDE DEF e
  <2>5. LinkLatestPending(e.run) \in [Known -> Known \cup {NoRun}]
    <3>1. link \in [Known -> Known \cup {NoRun}] /\ e.run \in Known
      BY <2>3 DEF TypeInv, TypeOK, Known
    <3>2. \A x : [link EXCEPT ![x] = e.run] \in [Known -> Known \cup {NoRun}]
      BY <3>1
    <3> QED BY <3>1, <3>2 DEF LinkLatestPending
  <2>6. shown' \in [Known -> Statuses] /\ link' \in [Known -> Known \cup {NoRun}]
    BY <2>1, <2>3, <2>5 DEF TypeInv, TypeOK, Known
  <2> QED BY <2>1, <2>2, <2>4, <2>6 DEF TypeInv, TypeOK, WindowTypes, mainVars, runtimeVars, loadVars
<1> QED BY <1>1, <1>2, <1>3
LoadSteps == SelectSession \/ LeaveSession \/ ReadHistory \/ HistoryLoaded \/ LoadEnds

History == [at : {"idle", "reading", "messages read", "read", "workers"},
            cancelled : BOOLEAN, loaded : BOOLEAN, failed : BOOLEAN, count : 0 .. MaxLoads]

\* Selecting, leaving and loading a session.
LEMMA LoadTypes ==
  ASSUME TypeInv, LoadSteps
  PROVE  TypeInv'
<1>0. /\ history \in History /\ MaxLoads \in Nat
      /\ snapshot \in [users : SUBSET Known, runs : [Known -> Statuses]]
      /\ saved \subseteq Runs /\ status \in [Runs -> Statuses] /\ shown \in [Known -> Statuses]
      /\ users \subseteq Known /\ link \in [Known -> Known \cup {NoRun}] /\ stale \subseteq Runs
  BY SessionViewAssumption DEF TypeInv, TypeOK, WindowTypes, History
<1>1. NoSnapshot \in [users : SUBSET Known, runs : [Known -> Statuses]]
  BY DEF NoSnapshot, Statuses
<1>2. CASE SelectSession
  <2>1. history' \in History
    <3>1. CASE history.loaded \/ Loading
      BY <1>0, <1>2, <3>1 DEF SelectSession
    <3>2. CASE ~(history.loaded \/ Loading)
      <4>1. history' = [NotLoading EXCEPT !.at = "reading", !.count = history.count + 1]
        BY <1>2, <3>2 DEF SelectSession
      <4>2. history'.count = history.count + 1 /\ history'.count <= MaxLoads
        BY <1>2, <4>1 DEF SelectSession, NotLoading
      <4>3. history.count \in Nat
        <5>1. history.count \in 0 .. MaxLoads
          BY <1>0 DEF History
        <5> QED BY <1>0, <5>1
      <4>4. history.count + 1 \in 0 .. MaxLoads
        BY <1>0, <4>2, <4>3
      <4> QED BY <4>1, <4>4 DEF NotLoading, History
    <3> QED BY <3>1, <3>2
  <2>2. missed' \in BOOLEAN
    BY <1>2 DEF SelectSession, Loading
  <2> QED BY <1>2, <2>1, <2>2 DEF SelectSession, TypeInv, TypeOK, WindowTypes, History, mainVars, runtimeVars, storeVars
<1>3. CASE LeaveSession
  <2>1. history' \in History
    BY <1>0, <1>3 DEF LeaveSession, History, Loading
  <2> QED BY <1>1, <1>3, <2>1 DEF LeaveSession, TypeInv, TypeOK, WindowTypes, History, mainVars, runtimeVars, storeVars
<1>4. CASE ReadHistory
  <2>1. history' \in History
    BY <1>0, <1>4 DEF ReadHistory, History
  <2>2. [r \in Known |-> Persisted(r)] \in [Known -> Statuses]
    BY <1>0 DEF Persisted, Known, Statuses
  <2>3. SavedMessages \in SUBSET Known
    BY <1>0 DEF SavedMessages, Known
  <2>4. snapshot' \in [users : SUBSET Known, runs : [Known -> Statuses]]
    BY <1>0, <1>4, <2>2, <2>3 DEF ReadHistory
  <2> QED BY <1>4, <2>1, <2>4 DEF ReadHistory, TypeInv, TypeOK, WindowTypes, History, mainVars, runtimeVars, storeVars
<1>5. CASE HistoryLoaded
  <2>1. history' \in History
    BY <1>0, <1>5 DEF HistoryLoaded, History
  <2>2. users' \subseteq Known /\ link' \in [Known -> Known \cup {NoRun}] /\ stale' \subseteq Runs
    BY <1>0, <1>5 DEF HistoryLoaded
  <2>3. shown' \in [Known -> Statuses]
    BY <1>0, <1>5 DEF HistoryLoaded, RunForHistory, Statuses, Terminal
  <2> QED BY <1>1, <1>5, <2>1, <2>2, <2>3 DEF HistoryLoaded, TypeInv, TypeOK, WindowTypes, History, mainVars, runtimeVars
<1>6. CASE LoadEnds
  <2>1. history' \in History
    <3>1. NotLoading \in History
      BY SessionViewAssumption DEF NotLoading, History
    <3>2. history.cancelled \in BOOLEAN /\ history.count \in 0 .. MaxLoads
      BY <1>0 DEF History
    <3> QED BY <1>6, <3>1, <3>2 DEF LoadEnds, History
  <2> QED BY <1>1, <1>6, <2>1 DEF LoadEnds, TypeInv, TypeOK, WindowTypes, History, mainVars, runtimeVars, storeVars
<1> QED BY <1>2, <1>3, <1>4, <1>5, <1>6 DEF LoadSteps

LEMMA TypeInit == Init => TypeInv
<1> SUFFICES ASSUME Init PROVE TypeInv
  OBVIOUS
<1>1. NoSnapshot \in [users : SUBSET Known, runs : [Known -> Statuses]]
  BY DEF NoSnapshot, Statuses
<1>2. NotLoading \in History
  BY SessionViewAssumption DEF NotLoading, History
<1>3. queue \in Seq(Runs) /\ wire \in Seq(WireEvents) /\ sent \in Seq(Runs) /\ DOMAIN wire = {}
  BY DEF Init
<1>4. /\ handler \in [Runs -> {"idle", "asked", "enqueued", "answered", "refused"}]
      /\ exec \in [Runs -> {"none", "waiting", "executing", "stopping", "done"}]
      /\ status \in [Runs -> Statuses] /\ shown \in [Known -> Statuses]
      /\ link \in [Known -> Known \cup {NoRun}]
  BY DEF Init, Statuses
<1>5. TypeOK
  BY <1>2, <1>3, <1>4 DEF Init, TypeOK, History
<1>6. WindowTypes
  BY <1>1, <1>3 DEF Init, WindowTypes
<1> QED BY <1>5, <1>6 DEF TypeInv

LEMMA TypeStep == TypeInv /\ [Next]_vars => TypeInv'
<1> SUFFICES ASSUME TypeInv, [Next]_vars PROVE TypeInv'
  OBVIOUS
<1>1. ASSUME NEW r \in Runs, RuntimeStep(r) \/ StopButton(r) \/ FailureAndStop(r)
      PROVE  TypeInv'
  BY <1>1, RuntimeTypes
<1>2. ASSUME NEW r \in Runs, HandlerSteps(r) PROVE TypeInv'
  BY <1>2, HandlerTypes
<1>3. CASE (\E r \in Runs : SendMessage(r)) \/ (\E p \in replies : ReceiveReply(p)) \/ ReceiveEvent
  BY <1>3, WindowStepTypes
<1>4. CASE LoadSteps
  BY <1>4, LoadTypes
<1>5. CASE UNCHANGED vars
  BY <1>5 DEF vars, mainVars, runtimeVars, windowVars, storeVars, loadVars, TypeInv, TypeOK, WindowTypes
<1> QED BY <1>1, <1>2, <1>3, <1>4, <1>5 DEF Next, LoadSteps

\* The variables of the window and of the handler keep their types.
THEOREM TypeCorrect == Spec => []TypeOK
<1>1. Spec => []TypeInv
  BY TypeInit, TypeStep, PTL DEF Spec
<1>2. TypeInv => TypeOK
  BY DEF TypeInv
<1> QED BY <1>1, <1>2, PTL

-----------------------------------------------------------------------------
(* The history of a session *)

\* An abandoned load is one that goes on; if the session is selected again
\* meanwhile, this was noticed.
HistoryInv ==
  /\ history.cancelled => Loading /\ (active => missed)
  /\ HistoryNotForgotten

LEMMA HistoryInit == Init => HistoryInv
  BY DEF Init, HistoryInv, HistoryNotForgotten, NotLoading

LEMMA HistoryStep == TypeInv /\ HistoryInv /\ [Next]_vars => HistoryInv'
<1> SUFFICES ASSUME TypeInv, HistoryInv, [Next]_vars PROVE HistoryInv'
  OBVIOUS
<1>0. history \in History /\ active \in BOOLEAN /\ missed \in BOOLEAN
  BY DEF TypeInv, TypeOK, History
<1>1. CASE UNCHANGED loadVars
  BY <1>1 DEF loadVars, HistoryInv, HistoryNotForgotten, Loading
<1>2. CASE SelectSession
  <2>1. CASE history.loaded \/ Loading
    BY <1>2, <2>1 DEF SelectSession, HistoryInv, HistoryNotForgotten, Loading
  <2>2. CASE ~(history.loaded \/ Loading)
    <3>1. history' = [NotLoading EXCEPT !.at = "reading", !.count = history.count + 1]
      BY <1>2, <2>2 DEF SelectSession
    <3>2. history'.at = "reading" /\ history'.cancelled = FALSE
      BY <3>1 DEF NotLoading
    <3> QED BY <3>2 DEF HistoryInv, HistoryNotForgotten, Loading
  <2> QED BY <2>1, <2>2
<1>3. CASE LeaveSession
  <2>1. history'.cancelled = Loading /\ history'.at = history.at /\ active' = FALSE
    BY <1>0, <1>3 DEF LeaveSession, History
  <2> QED BY <2>1 DEF HistoryInv, HistoryNotForgotten, Loading
<1>4. CASE ReadHistory \/ HistoryLoaded
  <2>1. /\ history'.at \in {"messages read", "read", "workers"}
        /\ history'.cancelled = history.cancelled /\ active' = active /\ missed' = missed
    BY <1>0, <1>4 DEF ReadHistory, HistoryLoaded, History
  <2>2. ~history.cancelled
    BY <1>4 DEF ReadHistory, HistoryLoaded
  <2> QED BY <2>1, <2>2 DEF HistoryInv, HistoryNotForgotten, Loading
<1>5. CASE LoadEnds
  <2>1. active' = active /\ missed' = missed
    BY <1>5 DEF LoadEnds
  <2>2. CASE history' = [NotLoading EXCEPT !.loaded = TRUE]
    BY <2>2 DEF NotLoading, HistoryInv, HistoryNotForgotten, Loading
  <2>3. CASE history' = [NotLoading EXCEPT !.failed = ~history.cancelled, !.count = history.count]
    <3>1. history'.cancelled = FALSE /\ history'.failed = ~history.cancelled
      BY <2>3 DEF NotLoading
    <3> QED BY <2>1, <3>1 DEF HistoryInv, HistoryNotForgotten
  <2> QED BY <1>5, <2>2, <2>3 DEF LoadEnds
<1>6. [Next]_vars => UNCHANGED loadVars \/ LoadSteps
  BY DEF Next, LoadSteps, vars, windowVars, RuntimeStep, StopButton, FailureAndStop, HandlerSteps, CallEnqueue,
         EnqueueThrows, CreateUserMessage, UserMessageFails, HandlerStep, SendMessage, ReceiveReply, ReceiveEvent
<1> QED BY <1>1, <1>2, <1>3, <1>4, <1>5, <1>6 DEF LoadSteps

\* The selected session has its history, is loading it, or shows why it could not,
\* except when it was left and selected again before an abandoned load had ended.
THEOREM HistoryIsNotForgotten == Spec => []HistoryNotForgotten
<1>1. Spec => [](TypeInv /\ HistoryInv)
  BY TypeInit, TypeStep, HistoryInit, HistoryStep, PTL DEF Spec
<1>2. HistoryInv => HistoryNotForgotten
  BY DEF HistoryInv
<1> QED BY <1>1, <1>2, PTL
-----------------------------------------------------------------------------
(* The runs in the runtime *)

\* An event that tells of the end the row says: two ends are told by the failure.
Ends(e, s) == e = s \/ (s = "cancelled" /\ e = "failed")

\* How far the handler, the runtime and the row of a run are: a run that has left the
\* queue or is about to has a terminal row.
Progress(r) ==
  /\ handler[r] \in {"idle", "asked"} => exec[r] = "none"
  /\ handler[r] \in {"enqueued", "answered"} => exec[r] # "none"
  /\ exec[r] = "none" <=> status[r] = "none"
  /\ exec[r] \in {"stopping", "done"} => status[r] \in Terminal

\* Nobody has heard of a run that has no row.
Unheard(r) == Silent(r) /\ shown[r] = "none" /\ snapshot.runs[r] = "none"

RuntimeInv == \A r \in Runs : Progress(r) /\ (status[r] = "none" => Unheard(r))

LEMMA RuntimeInit == Init => RuntimeInv
<1> SUFFICES ASSUME Init, NEW r \in Runs PROVE Progress(r) /\ Unheard(r)
  BY DEF RuntimeInv
<1>1. DOMAIN wire = {}
  BY DEF Init
<1>2. r \in Known
  BY DEF Known
<1> QED BY <1>1, <1>2 DEF Init, Progress, Unheard, Silent, NoSnapshot

\* A step of run r saves its row and tells of it, or neither.
EventsKept(r) ==
  /\ \A q \in Runs \ {r} : Silent(q) => Silent(q)'
  /\ \A q \in Runs \ {r} : \A e : LastEvent(q, e) => LastEvent(q, e)'
  /\ \A q \in Runs : \A e : FirstEvent(q, e) => FirstEvent(q, e)'

RowSaved(r) ==
  \E s \in Statuses \ {"none"}, e \in Events :
    /\ status' = [status EXCEPT ![r] = s]
    /\ EventsKept(r)
    /\ LastEvent(r, e)'
    /\ s \in Terminal => e \in Terminal /\ Ends(e, s)
    /\ status[r] = "none" => e \in Created /\ FirstEvent(r, e)'

RowKept == status' = status /\ wire' = wire

RunStep(r) ==
  RuntimeStep(r) \/ StopButton(r) \/ FailureAndStop(r) \/ HandlerSteps(r) \/ SendMessage(r)

\* The end of a run, saved with its event or with two.
LEMMA EndSaved ==
  ASSUME TypeInv, NEW r \in Runs, status[r] # "none",
         (\E s \in Terminal : SaveAndEmit(r, s, s)) \/ TwoEnds(r)
  PROVE  RowSaved(r) /\ status'[r] \in Terminal /\ \A q \in Runs \ {r} : status'[q] = status[q]
<1>0. status \in [Runs -> Statuses]
  BY DEF TypeInv, TypeOK
<1>1. ASSUME NEW s \in Terminal, SaveAndEmit(r, s, s)
      PROVE  RowSaved(r) /\ status' = [status EXCEPT ![r] = s]
  <2>1. s \in Statuses \ {"none"} /\ s \in Events
    BY DEF Statuses, Events, Terminal
  <2> QED BY <1>1, <2>1, SavedOne DEF RowSaved, EventsKept, Ends
<1>2. CASE TwoEnds(r)
  <2>1. "cancelled" \in Statuses \ {"none"} /\ "failed" \in Events /\ "failed" \in Terminal /\ "cancelled" \in Terminal
    BY DEF Statuses, Events, Terminal
  <2> QED BY <1>0, <1>2, <2>1, SavedTwo DEF RowSaved, EventsKept, Ends
<1> QED BY <1>0, <1>1, <1>2

\* What a step of run r does to it and leaves of the others.
LEMMA RunSteps ==
  ASSUME TypeInv, RuntimeInv, NEW r \in Runs, RunStep(r)
  PROVE  /\ RowSaved(r) \/ RowKept
         /\ UNCHANGED <<shown, snapshot, stale>>
         /\ \A q \in Runs \ {r} : exec'[q] = exec[q] /\ handler'[q] = handler[q] /\ status'[q] = status[q]
         /\ Progress(r)'
<1> DEFINE Claim ==
      /\ RowSaved(r) \/ RowKept
      /\ UNCHANGED <<shown, snapshot, stale>>
      /\ \A q \in Runs \ {r} : exec'[q] = exec[q] /\ handler'[q] = handler[q] /\ status'[q] = status[q]
      /\ Progress(r)'
<1>0. /\ handler \in [Runs -> {"idle", "asked", "enqueued", "answered", "refused"}]
      /\ exec \in [Runs -> {"none", "waiting", "executing", "stopping", "done"}]
      /\ status \in [Runs -> Statuses] /\ Progress(r)
      /\ status[r] = "none" => Unheard(r)
  BY DEF TypeInv, TypeOK, RuntimeInv
<1>1. CASE RuntimeStep(r) /\ RunStarts(r)
  <2>1. SaveAndEmit(r, "running", "started") /\ exec[r] = "waiting" /\ handler' = handler
        /\ exec' = [exec EXCEPT ![r] = "executing"] /\ UNCHANGED <<shown, snapshot, stale>>
    BY <1>1 DEF RuntimeStep, RunStarts, Goto, windowVars, storeVars, loadVars
  <2>2. "running" \in Statuses \ {"none"} /\ "started" \in Events /\ "running" \notin Terminal
    BY DEF Statuses, Events, Terminal
  <2>3. status[r] # "none"
    BY <1>0, <2>1 DEF Progress
  <2>4. RowSaved(r) /\ status' = [status EXCEPT ![r] = "running"]
    BY <2>1, <2>2, <2>3, SavedOne DEF RowSaved, EventsKept
  <2> QED BY <1>0, <2>1, <2>4 DEF Progress
<1>2. CASE RuntimeStep(r) /\ RunEnds(r)
  <2>1. exec' = [exec EXCEPT ![r] = "done"] /\ exec[r] = "executing" /\ handler' = handler
        /\ UNCHANGED <<shown, snapshot, stale>>
    BY <1>2 DEF RuntimeStep, RunEnds, Goto, windowVars, storeVars, loadVars
  <2>2. \E s \in Terminal : SaveAndEmit(r, s, s)
    BY <1>2 DEF RunEnds, Terminal
  <2>3. status[r] # "none"
    BY <1>0, <2>1 DEF Progress
  <2>4. RowSaved(r) /\ status'[r] \in Terminal /\ \A q \in Runs \ {r} : status'[q] = status[q]
    BY <2>2, <2>3, EndSaved
  <2>5. "none" \notin Terminal
    BY DEF Terminal
  <2> QED BY <1>0, <2>1, <2>3, <2>4, <2>5 DEF Progress
<1>3. CASE RuntimeStep(r) /\ RunStopped(r)
  <2>1. status' = status /\ wire' = wire /\ exec' = [exec EXCEPT ![r] = "done"] /\ exec[r] = "stopping"
        /\ handler' = handler /\ UNCHANGED <<shown, snapshot, stale>>
    BY <1>3 DEF RuntimeStep, RunStopped, Goto, windowVars, storeVars, loadVars
  <2> QED BY <1>0, <2>1 DEF Progress, RowKept
<1>4. ASSUME (\E s \in Terminal : SaveAndEmit(r, s, s)) \/ TwoEnds(r), Stop(r),
             UNCHANGED <<shown, snapshot, stale>>, exec[r] # "none",
             \/ handler' = handler
             \/ handler[r] = "enqueued" /\ handler' = [handler EXCEPT ![r] = "refused"]
      PROVE  Claim
  <2>1. exec'[r] \in {"stopping", "done"} /\ \A q \in Runs \ {r} : exec'[q] = exec[q]
    BY <1>4, StopTypes
  <2>2. status[r] # "none"
    BY <1>0, <1>4 DEF Progress
  <2>3. RowSaved(r) /\ status'[r] \in Terminal /\ \A q \in Runs \ {r} : status'[q] = status[q]
    BY <1>4, <2>2, EndSaved
  <2>4. "none" \notin Terminal
    BY DEF Terminal
  <2>5. Progress(r)'
    BY <1>0, <1>4, <2>1, <2>3, <2>4 DEF Progress
  <2> QED BY <1>0, <1>4, <2>1, <2>3, <2>5
<1>5. CASE StopButton(r) \/ FailureAndStop(r)
  <2>1. MayStop(r) /\ Stop(r) /\ handler' = handler /\ UNCHANGED <<shown, snapshot, stale>>
        /\ (SaveAndEmit(r, "cancelled", "cancelled") \/ TwoEnds(r))
    BY <1>5 DEF StopButton, FailureAndStop, TwoEnds, windowVars, storeVars, loadVars
  <2>2. exec[r] # "none"
    BY <1>0, <2>1 DEF MayStop, Unheard, Progress
  <2> QED BY <1>4, <2>1, <2>2 DEF Terminal
<1>6. CASE CallEnqueue(r)
  <2> DEFINE s == IF queue = <<>> THEN "running" ELSE "queued"
  <2>1. SaveAndEmit(r, s, s) /\ exec' = [exec EXCEPT ![r] = "waiting"]
        /\ handler[r] = "asked" /\ handler' = [handler EXCEPT ![r] = "enqueued"]
        /\ UNCHANGED <<shown, snapshot, stale>>
    BY <1>6 DEF CallEnqueue, EnqueueRun, Goto, HandlerStep, storeVars, loadVars
  <2>2. s \in Statuses \ {"none"} /\ s \in Events /\ s \in Created /\ s \notin Terminal
    BY DEF Statuses, Events, Created, Terminal
  <2> HIDE DEF s
  <2>3. Silent(r)
    BY <1>0, <2>1 DEF Progress, Unheard
  <2>4. RowSaved(r) /\ status' = [status EXCEPT ![r] = s]
    BY <2>1, <2>2, <2>3, SavedOne DEF RowSaved, EventsKept
  <2> QED BY <1>0, <2>1, <2>2, <2>4 DEF Progress
<1>7. CASE EnqueueThrows(r) \/ CreateUserMessage(r) \/ SendMessage(r)
  <2>1. /\ UNCHANGED <<exec, status, wire, shown, snapshot, stale>>
        /\ \/ handler[r] = "asked" /\ handler' = [handler EXCEPT ![r] = "refused"]
           \/ handler[r] = "enqueued" /\ handler' = [handler EXCEPT ![r] = "answered"]
           \/ handler[r] = "idle" /\ handler' = [handler EXCEPT ![r] = "asked"]
    BY <1>7 DEF EnqueueThrows, CreateUserMessage, SendMessage, HandlerStep, runtimeVars, storeVars, loadVars
  <2> QED BY <1>0, <2>1 DEF Progress, RowKept
<1>8. CASE UserMessageFails(r)
  <2>1. /\ SaveAndEmit(r, "failed", "failed") \/ TwoEnds(r)
        /\ Stop(r) /\ UNCHANGED <<shown, snapshot, stale>>
        /\ handler[r] = "enqueued" /\ handler' = [handler EXCEPT ![r] = "refused"]
    BY <1>8 DEF UserMessageFails, HandlerStep, storeVars, loadVars
  <2>2. exec[r] # "none"
    BY <1>0, <2>1 DEF Progress
  <2> QED BY <1>4, <2>1, <2>2 DEF Terminal
<1> QED BY <1>1, <1>2, <1>3, <1>5, <1>6, <1>7, <1>8 DEF RunStep, RuntimeStep, HandlerSteps

\* The steps of the window leave the runtime and its rows alone.
WindowStep == (\E p \in replies : ReceiveReply(p)) \/ ReceiveEvent \/ LoadSteps

LEMMA WindowSteps ==
  ASSUME WindowStep \/ UNCHANGED vars
  PROVE  UNCHANGED mainVars /\ (wire' = wire \/ ReceiveEvent)
  BY DEF WindowStep, LoadSteps, ReceiveReply, ReceiveEvent, SelectSession, LeaveSession, ReadHistory,
         HistoryLoaded, LoadEnds, vars

LEMMA NextSteps == [Next]_vars <=> (\E r \in Runs : RunStep(r)) \/ WindowStep \/ UNCHANGED vars
  BY DEF Next, RunStep, WindowStep, LoadSteps

LEMMA RuntimeInvStep == TypeInv /\ RuntimeInv /\ [Next]_vars => RuntimeInv'
<1> SUFFICES ASSUME TypeInv, RuntimeInv, [Next]_vars, NEW q \in Runs
             PROVE  Progress(q)' /\ (status'[q] = "none" => Unheard(q)')
  BY DEF RuntimeInv
<1>0. Progress(q) /\ (status[q] = "none" => Unheard(q)) /\ status \in [Runs -> Statuses]
  BY DEF RuntimeInv, TypeInv, TypeOK
<1>1. ASSUME NEW r \in Runs, RunStep(r) PROVE Progress(q)' /\ (status'[q] = "none" => Unheard(q)')
  <2>1. /\ RowSaved(r) \/ RowKept
        /\ UNCHANGED <<shown, snapshot, stale>>
        /\ r # q => exec'[q] = exec[q] /\ handler'[q] = handler[q] /\ status'[q] = status[q]
        /\ Progress(r)'
    BY <1>1, RunSteps
  <2>2. Progress(q)'
    BY <1>0, <2>1 DEF Progress
  <2>3. status'[q] = "none" => Silent(q) /\ Unheard(q) /\ Silent(q)'
    <3>1. CASE RowKept
      BY <1>0, <3>1 DEF RowKept, Unheard, Silent
    <3>2. CASE RowSaved(r) /\ q = r
      BY <1>0, <3>2 DEF RowSaved
    <3>3. CASE RowSaved(r) /\ q # r
      BY <1>0, <2>1, <3>3 DEF RowSaved, EventsKept, Unheard
    <3> QED BY <2>1, <3>1, <3>2, <3>3
  <2> QED BY <2>1, <2>2, <2>3 DEF Unheard
<1>2. CASE WindowStep \/ UNCHANGED vars
  <2>1. UNCHANGED <<handler, exec, status, saved>>
    BY <1>2, WindowSteps DEF mainVars, runtimeVars
  <2>2. Progress(q)'
    BY <1>0, <2>1 DEF Progress
  <2>3. ASSUME status[q] = "none" PROVE Unheard(q)'
    <3>0. Unheard(q) /\ q \in Known /\ snapshot \in [users : SUBSET Known, runs : [Known -> Statuses]]
          /\ shown \in [Known -> Statuses]
      BY <1>0, <2>3 DEF Known, TypeInv, TypeOK, WindowTypes
    <3>1. CASE ReceiveEvent
      <4>1. /\ wire # <<>> /\ wire' = Tail(wire) /\ snapshot' = snapshot
            /\ shown' = [shown EXCEPT ![Head(wire).run] = StatusAfter(Head(wire))]
        BY <3>1 DEF ReceiveEvent, loadVars
      <4>2. Silent(q)' /\ q # Head(wire).run
        BY <3>0, <4>1, Received DEF TypeInv, WindowTypes, Unheard
      <4> QED BY <3>0, <4>1, <4>2 DEF Unheard
    <3>2. CASE HistoryLoaded
      <4>1. shown'[q] = shown[q] /\ snapshot' = NoSnapshot /\ wire' = wire
        BY <3>0, <3>2 DEF HistoryLoaded, Unheard
      <4> QED BY <3>0, <4>1 DEF Unheard, NoSnapshot, Silent
    <3>3. CASE ReadHistory
      <4>1. Persisted(q) = "none"
        BY <2>3, SessionViewAssumption DEF Persisted
      <4>2. shown' = shown /\ wire' = wire /\ snapshot'.runs[q] = "none"
        <5>1. snapshot.runs[q] = "none"
          BY <3>0 DEF Unheard
        <5>2. CASE snapshot' = [snapshot EXCEPT !.users = SavedMessages]
          BY <3>0, <3>3, <5>1, <5>2 DEF ReadHistory, storeVars
        <5>3. CASE snapshot' = [snapshot EXCEPT !.runs = [p \in Known |-> Persisted(p)]]
          BY <3>0, <3>3, <4>1, <5>3 DEF ReadHistory, storeVars
        <5> QED BY <3>3, <5>2, <5>3 DEF ReadHistory
      <4> QED BY <3>0, <4>2 DEF Unheard, Silent
    <3>4. CASE (\E p \in replies : ReceiveReply(p)) \/ SelectSession \/ LeaveSession \/ LoadEnds \/ UNCHANGED vars
      <4>1. shown' = shown /\ wire' = wire /\ snapshot' \in {snapshot, NoSnapshot}
        BY <3>4 DEF ReceiveReply, SelectSession, LeaveSession, LoadEnds, vars, windowVars, storeVars, loadVars
      <4> QED BY <3>0, <4>1 DEF Unheard, NoSnapshot, Silent
    <3> QED BY <1>2, <3>1, <3>2, <3>3, <3>4 DEF WindowStep, LoadSteps
  <2> QED BY <2>1, <2>2, <2>3
<1> QED BY <1>1, <1>2, NextSteps
-----------------------------------------------------------------------------
(* The statuses on screen *)

\* A run the window has not heard of is announced before anything else is told of it.
\* The end of a run is told last, and has been shown once nothing of the run is on its
\* way any more, unless an older snapshot has been merged after it.
ShownRun(r) ==
  /\ status[r] # "none" /\ shown[r] = "none" => \E e \in Created : FirstEvent(r, e)
  /\ status[r] \in Terminal =>
       \/ \E e \in Terminal : LastEvent(r, e) /\ Ends(e, status[r])
       \/ Silent(r) /\ (r \in stale \/ Ends(shown[r], status[r]))

\* An old run is not announced: only a history brings it, and shows it as failed.
OldShown(o) == shown[o] \in {"none", "failed"} /\ snapshot.runs[o] \in {"none", "running"}

ShownInv == (\A r \in Runs : ShownRun(r)) /\ (\A o \in Old : OldShown(o))

LEMMA ShownInit == Init => ShownInv
  BY DEF Init, ShownInv, ShownRun, OldShown, NoSnapshot, Known, Terminal

LEMMA StatusAfterKnown ==
  ASSUME NEW e \in WireEvents, shown[e.run] # "none" \/ e.event \in Created
  PROVE  /\ StatusAfter(e) # "none"
         /\ e.event \in Terminal => StatusAfter(e) = e.event
<1>1. e.event \in Events
  BY DEF WireEvents
<1> QED BY <1>1 DEF StatusAfter, Events, Created, Terminal

\* An event is received.
LEMMA ReceivedShown ==
  ASSUME TypeInv, RuntimeInv, ShownInv, ReceiveEvent, NEW q \in Runs
  PROVE  ShownRun(q)'
<1> DEFINE e == Head(wire)
<1>1. /\ wire # <<>> /\ wire' = Tail(wire) /\ shown' = [shown EXCEPT ![e.run] = StatusAfter(e)]
      /\ UNCHANGED <<status, stale>>
  BY DEF ReceiveEvent, mainVars, runtimeVars
<1>2. /\ e \in WireEvents
      /\ \A p : Silent(p) => Silent(p)' /\ p # e.run
      /\ \A p, x : p # e.run /\ FirstEvent(p, x) => FirstEvent(p, x)'
      /\ \A x : FirstEvent(e.run, x) => x = e.event
      /\ \A p, x : LastEvent(p, x) =>
           LastEvent(p, x)' \/ (p = e.run /\ x = e.event /\ Silent(p)')
  BY <1>1, Received DEF TypeInv, WindowTypes
<1>3. ShownRun(q) /\ shown \in [Known -> Statuses] /\ q \in Known
  BY DEF ShownInv, TypeInv, TypeOK, Known
<1>4. status[q] = "none" => Silent(q)
  BY DEF RuntimeInv, Unheard
<1> HIDE DEF e
<1>5. CASE q # e.run
  <2>1. shown'[q] = shown[q]
    BY <1>1, <1>3, <1>5
  <2> QED BY <1>1, <1>2, <1>3, <1>5, <2>1 DEF ShownRun
<1>6. CASE q = e.run
  <2>1. status[q] # "none" /\ ~Silent(q)
    BY <1>2, <1>4, <1>6
  <2>2. shown[e.run] # "none" \/ e.event \in Created
    BY <1>2, <1>3, <1>6, <2>1 DEF ShownRun
  <2>3. shown'[q] = StatusAfter(e)
    BY <1>1, <1>3, <1>6
  <2>4. shown'[q] # "none" /\ (e.event \in Terminal => shown'[q] = e.event)
    BY <1>2, <2>2, <2>3, StatusAfterKnown
  <2>5. ASSUME status[q] \in Terminal
        PROVE  \/ \E x \in Terminal : LastEvent(q, x)' /\ Ends(x, status[q])
               \/ Silent(q)' /\ Ends(shown'[q], status[q])
    <3>1. PICK x \in Terminal : LastEvent(q, x) /\ Ends(x, status[q])
      BY <1>3, <2>1, <2>5 DEF ShownRun
    <3> QED BY <1>2, <2>4, <3>1
  <2> QED BY <1>1, <2>4, <2>5 DEF ShownRun
<1> QED BY <1>5, <1>6

\* A history is merged.
LEMMA MergedShown ==
  ASSUME TypeInv, ShownInv, HistoryLoaded
  PROVE  ShownInv'
<1>0. /\ shown \in [Known -> Statuses] /\ snapshot.runs \in [Known -> Statuses]
      /\ UNCHANGED <<status, wire>> /\ snapshot' = NoSnapshot
      /\ shown' = [r \in Known |-> IF snapshot.runs[r] = "none" THEN shown[r]
                                   ELSE RunForHistory(r, snapshot.runs[r])]
      /\ stale' = stale \cup {r \in Runs : shown[r] \in Terminal /\ snapshot.runs[r] \notin {"none", shown[r]}}
  BY DEF TypeInv, TypeOK, WindowTypes, HistoryLoaded, mainVars, runtimeVars
<1>1. ASSUME NEW q \in Runs PROVE ShownRun(q)'
  <2>0. q \in Known /\ ShownRun(q)
    BY DEF Known, ShownInv
  <2>1. shown'[q] = "none" => shown[q] = "none"
    BY <1>0, <2>0 DEF RunForHistory
  <2>2. ASSUME status[q] \in Terminal, Ends(shown[q], status[q])
        PROVE  q \in stale' \/ shown'[q] = shown[q]
    <3>1. shown[q] \in Terminal
      BY <2>2 DEF Ends, Terminal
    <3>2. CASE snapshot.runs[q] \in {"none", shown[q]}
      BY <1>0, <2>0, <3>1, <3>2 DEF RunForHistory, Terminal
    <3>3. CASE snapshot.runs[q] \notin {"none", shown[q]}
      BY <1>0, <3>1, <3>3
    <3> QED BY <3>2, <3>3
  <2>3. /\ \A x : FirstEvent(q, x) => FirstEvent(q, x)'
        /\ \A x : LastEvent(q, x) => LastEvent(q, x)'
        /\ Silent(q) => Silent(q)'
    BY <1>0 DEF FirstEvent, LastEvent, Silent
  <2>4. stale \subseteq stale'
    BY <1>0
  <2> QED BY <1>0, <2>0, <2>1, <2>2, <2>3, <2>4 DEF ShownRun
<1>2. ASSUME NEW o \in Old PROVE OldShown(o)'
  <2>1. o \in Known /\ OldShown(o)
    BY DEF Known, ShownInv
  <2>2. shown'[o] \in {"none", "failed"}
    BY <1>0, <2>1 DEF OldShown, RunForHistory
  <2> QED BY <1>0, <2>1, <2>2 DEF OldShown, NoSnapshot
<1> QED BY <1>1, <1>2 DEF ShownInv

LEMMA ShownStep == TypeInv /\ RuntimeInv /\ ShownInv /\ [Next]_vars => ShownInv'
<1> SUFFICES ASSUME TypeInv, RuntimeInv, ShownInv, [Next]_vars PROVE ShownInv'
  OBVIOUS
<1>0. /\ status \in [Runs -> Statuses] /\ shown \in [Known -> Statuses]
      /\ snapshot \in [users : SUBSET Known, runs : [Known -> Statuses]]
      /\ Runs \subseteq Known /\ Old \subseteq Known
  BY DEF TypeInv, TypeOK, WindowTypes, Known
<1>1. ASSUME NEW r \in Runs, RunStep(r) PROVE ShownInv'
  <2>1. (RowSaved(r) \/ RowKept) /\ UNCHANGED <<shown, snapshot, stale>>
    BY <1>1, RunSteps
  <2>2. CASE RowKept
    BY <2>1, <2>2 DEF RowKept, ShownInv, ShownRun, OldShown, FirstEvent, LastEvent, Silent
  <2>3. CASE RowSaved(r)
    <3>1. PICK s \in Statuses \ {"none"}, e \in Events :
            /\ status' = [status EXCEPT ![r] = s]
            /\ EventsKept(r)
            /\ LastEvent(r, e)'
            /\ s \in Terminal => e \in Terminal /\ Ends(e, s)
            /\ status[r] = "none" => e \in Created /\ FirstEvent(r, e)'
      BY <2>3 DEF RowSaved
    <3>2. ASSUME NEW q \in Runs, q # r PROVE ShownRun(q)'
      <4>1. status'[q] = status[q] /\ ShownRun(q)
        BY <1>0, <3>1, <3>2 DEF ShownInv
      <4> QED BY <2>1, <3>1, <3>2, <4>1 DEF EventsKept, ShownRun
    <3>3. ShownRun(r)'
      <4>1. status'[r] = s /\ ShownRun(r)
        BY <1>0, <3>1 DEF ShownInv
      <4>2. shown'[r] = "none" => \E x \in Created : FirstEvent(r, x)'
        BY <2>1, <3>1, <4>1 DEF ShownRun, EventsKept
      <4> QED BY <3>1, <4>1, <4>2 DEF ShownRun
    <3> QED BY <2>1, <3>2, <3>3 DEF ShownInv, OldShown
  <2> QED BY <2>1, <2>2, <2>3
<1>2. CASE ReceiveEvent
  <2>1. ASSUME NEW o \in Old PROVE OldShown(o)'
    <3>1. /\ shown' = [shown EXCEPT ![Head(wire).run] = StatusAfter(Head(wire))] /\ snapshot' = snapshot
          /\ wire # <<>> /\ wire' = Tail(wire)
      BY <1>2 DEF ReceiveEvent, loadVars
    <3>2. Head(wire).run \in Runs
      BY <3>1, Received DEF TypeInv, WindowTypes, WireEvents
    <3>3. shown'[o] = shown[o]
      BY <1>0, <3>1, <3>2, SessionViewAssumption
    <3> QED BY <3>1, <3>3 DEF ShownInv, OldShown
  <2> QED BY <1>2, <2>1, ReceivedShown DEF ShownInv
<1>3. CASE HistoryLoaded
  BY <1>3, MergedShown
<1>4. CASE ReadHistory
  <2>1. UNCHANGED <<status, wire, shown, stale>>
    BY <1>4 DEF ReadHistory, mainVars, runtimeVars, storeVars
  <2>2. ASSUME NEW o \in Old PROVE snapshot'.runs[o] \in {"none", "running"}
    <3>1. CASE snapshot' = [snapshot EXCEPT !.users = SavedMessages]
      BY <1>0, <3>1 DEF ShownInv, OldShown
    <3>2. CASE snapshot' = [snapshot EXCEPT !.runs = [p \in Known |-> Persisted(p)]]
      BY <1>0, <3>2 DEF Persisted
    <3> QED BY <1>4, <3>1, <3>2 DEF ReadHistory
  <2> QED BY <2>1, <2>2 DEF ShownInv, ShownRun, OldShown, FirstEvent, LastEvent, Silent
<1>5. CASE (\E p \in replies : ReceiveReply(p)) \/ SelectSession \/ LeaveSession \/ LoadEnds \/ UNCHANGED vars
  <2>1. UNCHANGED <<status, wire, shown, stale>> /\ snapshot' \in {snapshot, NoSnapshot}
    BY <1>5 DEF ReceiveReply, SelectSession, LeaveSession, LoadEnds, vars, mainVars, runtimeVars, windowVars, storeVars, loadVars
  <2>2. \A o \in Old : snapshot'.runs[o] \in {"none", "running"}
    BY <1>0, <2>1 DEF ShownInv, OldShown, NoSnapshot
  <2> QED BY <2>1, <2>2 DEF ShownInv, ShownRun, OldShown, FirstEvent, LastEvent, Silent
<1> QED BY <1>1, <1>2, <1>3, <1>4, <1>5, NextSteps DEF WindowStep, LoadSteps

\* Once everything has settled the window shows each run as it is persisted, whatever
\* stops, late events and snapshots came in between; a run shown as ended when a
\* snapshot that says otherwise was merged is excepted.
THEOREM ScreenShowsPersisted == Spec => []ShownAsPersisted
<1>1. Spec => [](TypeInv /\ RuntimeInv /\ ShownInv)
  BY TypeInit, TypeStep, RuntimeInit, RuntimeInvStep, ShownInit, ShownStep, PTL DEF Spec
<1>2. TypeInv /\ RuntimeInv /\ ShownInv => ShownAsPersisted
  <2> SUFFICES ASSUME TypeInv, RuntimeInv, ShownInv, Quiet, NEW r \in Known \ stale
               PROVE  IF r \in Old THEN shown[r] \in {"none", "failed"}
                      ELSE shown[r] = status[r] \/ (status[r] = "cancelled" /\ shown[r] = "failed")
    BY DEF ShownAsPersisted
  <2>1. CASE r \in Old
    BY <2>1 DEF ShownInv, OldShown
  <2>2. CASE r \notin Old
    <3>1. r \in Runs /\ DOMAIN wire = {} /\ exec[r] \in {"none", "done"}
      BY <2>2 DEF Known, Quiet
    <3>2. CASE exec[r] = "none"
      BY <2>2, <3>1, <3>2 DEF RuntimeInv, Progress, Unheard
    <3>3. CASE exec[r] = "done"
      <4>1. status[r] \in Terminal /\ ShownRun(r)
        BY <3>1, <3>3 DEF RuntimeInv, Progress, ShownInv
      <4> QED BY <2>2, <3>1, <4>1 DEF ShownRun, LastEvent, Ends
    <3> QED BY <3>1, <3>2, <3>3
  <2> QED BY <2>1, <2>2
<1> QED BY <1>1, <1>2, PTL
-----------------------------------------------------------------------------
(* The messages on screen *)

\* A message is on screen from the send to a refusal, is saved before its handler
\* answers, and is linked to its run or an answer that settles it is on its way.  One
\* that was refused although it is saved comes back with a history, linked.
MessageOf(r) ==
  /\ r \in users => handler[r] # "idle"
  /\ r \in users /\ handler[r] = "refused" => r \in saved \/ [run |-> r, ok |-> FALSE] \in replies
  /\ r \in users /\ handler[r] = "refused" => link[r] = r \/ [run |-> r, ok |-> FALSE] \in replies
  /\ handler[r] \in {"asked", "enqueued", "answered"} => r \in users
  /\ handler[r] = "answered" => r \in saved
  /\ handler[r] = "answered" => link[r] = r \/ [run |-> r, ok |-> TRUE] \in replies
  /\ r \in saved => handler[r] \in {"answered", "refused"}

RepliesInv == \A p \in replies : handler[p.run] = IF p.ok THEN "answered" ELSE "refused"

\* Messages of old runs come with a history, and all of them.
OldMessages ==
  /\ snapshot.users \subseteq SavedMessages
  /\ \A o \in Old \cap users : link[o] = o
  /\ history.at \in {"messages read", "read"} /\ ~history.cancelled => Old \subseteq snapshot.users
  /\ history.at = "workers" \/ history.loaded => Old \subseteq users

MessageInv == (\A r \in Runs : MessageOf(r)) /\ RepliesInv /\ OldMessages

LEMMA MessageInit == Init => MessageInv
<1> SUFFICES ASSUME Init PROVE MessageInv
  OBVIOUS
<1>1. \A r \in Runs : MessageOf(r)
  BY DEF Init, MessageOf
<1>2. RepliesInv /\ OldMessages
  BY DEF Init, RepliesInv, OldMessages, NoSnapshot, NotLoading
<1> QED BY <1>1, <1>2 DEF MessageInv

\* run.created touches no message that has a run already.
LEMMA LinkedKept ==
  ASSUME TypeInv, NEW run, NEW q \in Known, link[q] # NoRun
  PROVE  LinkLatestPending(run)[q] = link[q]
<1> DEFINE pending == {i \in DOMAIN sent : sent[i] \in users /\ link[sent[i]] = NoRun}
           i == CHOOSE k \in pending : \A j \in pending : j <= k
<1>1. CASE pending = {}
  BY <1>1 DEF LinkLatestPending
<1>2. CASE pending # {}
  <2>1. sent \in Seq(Runs) /\ link \in [Known -> Known \cup {NoRun}]
    BY DEF TypeInv, TypeOK
  <2>2. Len(sent) \in Nat /\ pending \in SUBSET (1 .. Len(sent))
    BY <2>1
  <2>3. \E k \in pending : \A j \in pending : j <= k
    BY <1>2, <2>2, LastPosition
  <2>4. i \in pending
    BY <2>3
  <2>5. sent[i] # q
    BY <2>4
  <2>6. LinkLatestPending(run) = [link EXCEPT ![sent[i]] = run]
    BY <1>2 DEF LinkLatestPending
  <2> HIDE DEF i
  <2> QED BY <2>1, <2>5, <2>6
<1> QED BY <1>1, <1>2

\* The handler answers, and what it saved before.
LEMMA AnsweredMessage ==
  ASSUME TypeInv, MessageInv, NEW r \in Runs, NEW ok \in BOOLEAN,
         handler[r] \in {"asked", "enqueued"}, Answer(r, ok),
         handler' = [handler EXCEPT ![r] = IF ok THEN "answered" ELSE "refused"],
         saved' \in {saved, saved \cup {r}}, ok => r \in saved',
         UNCHANGED <<users, link, snapshot, history>>
  PROVE  MessageInv'
<1>0. /\ handler \in [Runs -> {"idle", "asked", "enqueued", "answered", "refused"}]
      /\ replies \subseteq [run : Runs, ok : BOOLEAN]
      /\ replies' = replies \cup {[run |-> r, ok |-> ok]}
  BY DEF TypeInv, TypeOK, Answer
<1>1. ASSUME NEW q \in Runs, q # r PROVE MessageOf(q)'
  <2>1. MessageOf(q) /\ handler'[q] = handler[q] /\ (q \in saved' <=> q \in saved)
    BY <1>0, <1>1 DEF MessageInv
  <2> QED BY <1>0, <2>1 DEF MessageOf
<1>2. MessageOf(r)'
  <2>1. MessageOf(r) /\ [run |-> r, ok |-> ok] \in replies'
    BY <1>0 DEF MessageInv
  <2>2. CASE ok = TRUE
    <3>1. handler'[r] = "answered" /\ [run |-> r, ok |-> TRUE] \in replies'
      BY <1>0, <2>1, <2>2
    <3> QED BY <2>1, <2>2, <3>1 DEF MessageOf
  <2>3. CASE ok = FALSE
    <3>1. handler'[r] = "refused" /\ [run |-> r, ok |-> FALSE] \in replies'
      BY <1>0, <2>1, <2>3
    <3> QED BY <2>1, <3>1 DEF MessageOf
  <2> QED BY <2>2, <2>3
<1>3. RepliesInv'
  <2>1. ASSUME NEW p \in replies PROVE handler'[p.run] = IF p.ok THEN "answered" ELSE "refused"
    <3>1. p.run \in Runs /\ handler[p.run] = IF p.ok THEN "answered" ELSE "refused"
      BY <1>0 DEF MessageInv, RepliesInv
    <3>2. p.run # r
      BY <3>1
    <3> QED BY <1>0, <3>1, <3>2
  <2>2. handler'[r] = IF ok THEN "answered" ELSE "refused"
    BY <1>0
  <2> QED BY <1>0, <2>1, <2>2 DEF RepliesInv
<1>4. OldMessages'
  BY DEF MessageInv, OldMessages, SavedMessages
<1> QED BY <1>1, <1>2, <1>3, <1>4 DEF MessageInv

\* The handler or the user takes a step nobody is told of.
LEMMA HandlerMoves ==
  ASSUME TypeInv, MessageInv, NEW r \in Runs,
         \/ handler[r] = "idle" /\ handler' = [handler EXCEPT ![r] = "asked"] /\ users' = users \cup {r}
         \/ handler[r] = "asked" /\ handler' = [handler EXCEPT ![r] = "enqueued"] /\ users' = users,
         UNCHANGED <<saved, replies, link, snapshot, history>>
  PROVE  MessageInv'
<1>0. /\ handler \in [Runs -> {"idle", "asked", "enqueued", "answered", "refused"}]
      /\ replies \subseteq [run : Runs, ok : BOOLEAN]
      /\ r \notin Old
  BY SessionViewAssumption DEF TypeInv, TypeOK
<1>1. ASSUME NEW q \in Runs, q # r PROVE MessageOf(q)'
  <2>1. MessageOf(q) /\ handler'[q] = handler[q] /\ (q \in users' <=> q \in users)
    BY <1>0, <1>1 DEF MessageInv
  <2> QED BY <2>1 DEF MessageOf
<1>2. MessageOf(r)'
  <2>1. MessageOf(r) /\ handler'[r] \in {"asked", "enqueued"} /\ handler[r] \in {"idle", "asked"}
    BY <1>0 DEF MessageInv
  <2>2. r \in users'
    BY <2>1 DEF MessageOf
  <2> QED BY <2>1, <2>2 DEF MessageOf
<1>3. RepliesInv'
  <2> SUFFICES ASSUME NEW p \in replies PROVE handler'[p.run] = IF p.ok THEN "answered" ELSE "refused"
    BY DEF RepliesInv
  <2>1. p.run \in Runs /\ handler[p.run] = IF p.ok THEN "answered" ELSE "refused"
    BY <1>0 DEF MessageInv, RepliesInv
  <2>2. p.run # r
    BY <2>1
  <2> QED BY <1>0, <2>1, <2>2
<1>4. OldMessages'
  BY <1>0 DEF MessageInv, OldMessages, SavedMessages
<1> QED BY <1>1, <1>2, <1>3, <1>4 DEF MessageInv

\* An answer is received.
LEMMA ReplyMessages ==
  ASSUME TypeInv, MessageInv, NEW p \in replies, ReceiveReply(p)
  PROVE  MessageInv'
<1> DEFINE r == p.run
<1>0. /\ replies \subseteq [run : Runs, ok : BOOLEAN] /\ link \in [Known -> Known \cup {NoRun}]
      /\ Runs \subseteq Known /\ Old \subseteq Known /\ Old \cap Runs = {}
  BY SessionViewAssumption DEF TypeInv, TypeOK, Known
<1>1. /\ UNCHANGED <<handler, saved, snapshot, history>>
      /\ replies' = replies \ {p}
      /\ link' = IF p.ok THEN [link EXCEPT ![r] = r] ELSE link
      /\ users' = IF p.ok THEN users ELSE users \ {r}
  BY DEF ReceiveReply, mainVars, loadVars
<1>2. p \in [run : Runs, ok : BOOLEAN] /\ r \in Runs /\ handler[r] = IF p.ok THEN "answered" ELSE "refused"
  BY <1>0 DEF MessageInv, RepliesInv
<1> HIDE DEF r
<1>3. ASSUME NEW q \in Runs PROVE MessageOf(q)'
  <2>0. MessageOf(q)
    BY DEF MessageInv
  <2>1. CASE q # r
    <3>1. /\ q \in users' <=> q \in users
          /\ link'[q] = link[q]
          /\ \A ok \in BOOLEAN : [run |-> q, ok |-> ok] \in replies => [run |-> q, ok |-> ok] \in replies'
      BY <1>0, <1>1, <2>1 DEF r
    <3> QED BY <1>1, <2>0, <3>1 DEF MessageOf
  <2>2. CASE q = r /\ p.ok
    <3>1. link'[q] = q /\ users' = users /\ handler'[q] = "answered"
      BY <1>0, <1>1, <1>2, <2>2
    <3> QED BY <1>1, <2>0, <3>1 DEF MessageOf
  <2>3. CASE q = r /\ ~p.ok
    <3>1. q \notin users' /\ handler'[q] = "refused"
      BY <1>1, <1>2, <2>3
    <3> QED BY <1>1, <2>0, <3>1 DEF MessageOf
  <2> QED BY <2>1, <2>2, <2>3
<1>4. RepliesInv'
  BY <1>1 DEF MessageInv, RepliesInv
<1>5. OldMessages'
  <2>1. \A o \in Old : (o \in users' <=> o \in users) /\ link'[o] = link[o]
    BY <1>0, <1>1, <1>2
  <2> QED BY <1>1, <2>1 DEF MessageInv, OldMessages, SavedMessages
<1> QED BY <1>3, <1>4, <1>5 DEF MessageInv

\* An event is received: run.created may link the newest pending message.
LEMMA EventMessages ==
  ASSUME TypeInv, MessageInv, ReceiveEvent
  PROVE  MessageInv'
<1>0. /\ Runs \subseteq Known /\ Old \subseteq Known /\ NoRun \notin Known
  BY SessionViewAssumption DEF Known
<1>1. /\ UNCHANGED <<handler, saved, replies, users, snapshot, history>>
      /\ \E run : link' \in {link, LinkLatestPending(run)}
  BY DEF ReceiveEvent, mainVars, loadVars
<1>2. \A q \in Known : link[q] # NoRun => link'[q] = link[q]
  BY <1>1, LinkedKept
<1>3. \A q \in Known : link[q] = q => link'[q] = q
  BY <1>0, <1>2
<1> QED BY <1>0, <1>1, <1>3 DEF MessageInv, MessageOf, RepliesInv, OldMessages, SavedMessages

\* A history is merged: what it adds was saved, and comes linked.
LEMMA MergedMessages ==
  ASSUME TypeInv, MessageInv, HistoryLoaded
  PROVE  MessageInv'
<1>0. /\ Runs \subseteq Known /\ Old \subseteq Known /\ Old \cap Runs = {}
      /\ history \in History
  BY SessionViewAssumption DEF Known, TypeInv, TypeOK, History
<1>1. /\ UNCHANGED <<handler, saved, replies>>
      /\ history.at = "read" /\ ~history.cancelled
      /\ users' = users \cup snapshot.users
      /\ link' = [r \in Known |-> IF r \in snapshot.users \ users THEN r ELSE link[r]]
      /\ snapshot' = NoSnapshot
  BY DEF HistoryLoaded, mainVars
<1>2. snapshot.users \subseteq saved \cup Old /\ Old \subseteq users'
  BY <1>1 DEF MessageInv, OldMessages, SavedMessages
<1>3. ASSUME NEW q \in Runs PROVE MessageOf(q)'
  <2>0. MessageOf(q) /\ q \in Known /\ q \notin Old
    BY <1>0 DEF MessageInv
  <2>1. CASE q \in snapshot.users \ users
    <3>1. q \in saved /\ link'[q] = q
      BY <1>1, <1>2, <2>0, <2>1
    <3> QED BY <1>1, <2>0, <2>1, <3>1 DEF MessageOf
  <2>2. CASE q \notin snapshot.users \ users
    <3>1. (q \in users' <=> q \in users) /\ link'[q] = link[q]
      BY <1>1, <2>0, <2>2
    <3> QED BY <1>1, <2>0, <3>1 DEF MessageOf
  <2> QED BY <2>1, <2>2
<1>4. RepliesInv'
  BY <1>1 DEF MessageInv, RepliesInv
<1>5. OldMessages'
  <2>1. \A o \in Old \cap users' : link'[o] = o
    BY <1>0, <1>1 DEF MessageInv, OldMessages
  <2>2. history'.at = "workers"
    BY <1>0 DEF HistoryLoaded, History
  <2> QED BY <1>1, <1>2, <2>1, <2>2 DEF OldMessages, NoSnapshot
<1> QED BY <1>3, <1>4, <1>5 DEF MessageInv

\* The other steps of a load touch neither messages nor links.
LEMMA LoadMessages ==
  ASSUME TypeInv, MessageInv, SelectSession \/ LeaveSession \/ ReadHistory \/ LoadEnds
  PROVE  MessageInv'
<1>0. /\ history \in History /\ snapshot \in [users : SUBSET Known, runs : [Known -> Statuses]]
  BY DEF TypeInv, TypeOK, WindowTypes, History
<1>1. UNCHANGED <<handler, saved, replies, users, link>>
  BY DEF SelectSession, LeaveSession, ReadHistory, LoadEnds, mainVars, runtimeVars, storeVars
<1>2. (\A r \in Runs : MessageOf(r)') /\ RepliesInv'
  BY <1>1 DEF MessageInv, MessageOf, RepliesInv
<1>3. OldMessages'
  <2>0. OldMessages /\ SavedMessages' = SavedMessages /\ \A o \in Old \cap users' : link'[o] = o
    BY <1>1 DEF MessageInv, OldMessages, SavedMessages
  <2>1. CASE SelectSession
    <3>1. snapshot' = snapshot
      BY <2>1 DEF SelectSession
    <3>2. CASE history' = history
      BY <1>1, <2>0, <3>1, <3>2 DEF OldMessages
    <3>3. CASE history' = [NotLoading EXCEPT !.at = "reading", !.count = history.count + 1]
      <4>1. history'.at = "reading" /\ history'.loaded = FALSE
        BY <3>3 DEF NotLoading
      <4> QED BY <1>1, <2>0, <3>1, <4>1 DEF OldMessages
    <3> QED BY <2>1, <3>2, <3>3 DEF SelectSession
  <2>2. CASE LeaveSession
    <3>1. /\ history'.at = history.at /\ history'.loaded = history.loaded /\ history'.cancelled = Loading
          /\ snapshot' = NoSnapshot
      BY <1>0, <2>2 DEF LeaveSession, History
    <3> QED BY <1>1, <2>0, <3>1 DEF OldMessages, NoSnapshot, Loading
  <2>3. CASE ReadHistory
    <3>1. CASE history.at = "reading" /\ history' = [history EXCEPT !.at = "messages read"]
               /\ snapshot' = [snapshot EXCEPT !.users = SavedMessages]
      <4>1. history'.at = "messages read" /\ history'.loaded = history.loaded /\ snapshot'.users = SavedMessages
        BY <1>0, <3>1 DEF History
      <4> QED BY <1>1, <2>0, <4>1 DEF OldMessages, SavedMessages
    <3>2. CASE history.at = "messages read" /\ history' = [history EXCEPT !.at = "read"]
               /\ snapshot' = [snapshot EXCEPT !.runs = [r \in Known |-> Persisted(r)]]
      <4>1. history'.at = "read" /\ history'.loaded = history.loaded /\ snapshot'.users = snapshot.users
            /\ history'.cancelled = history.cancelled
        BY <1>0, <3>2 DEF History
      <4> QED BY <1>1, <2>0, <3>2, <4>1 DEF OldMessages
    <3> QED BY <2>3, <3>1, <3>2 DEF ReadHistory
  <2>4. CASE LoadEnds
    <3>1. snapshot' = NoSnapshot
      BY <2>4 DEF LoadEnds
    <3>2. history'.at = "idle" /\ (history'.loaded => history.at = "workers")
      BY <2>4 DEF LoadEnds, NotLoading
    <3> QED BY <1>1, <2>0, <3>1, <3>2 DEF OldMessages, NoSnapshot
  <2> QED BY <2>1, <2>2, <2>3, <2>4
<1> QED BY <1>2, <1>3 DEF MessageInv

LEMMA MessageStep == TypeInv /\ MessageInv /\ [Next]_vars => MessageInv'
<1> SUFFICES ASSUME TypeInv, MessageInv, [Next]_vars PROVE MessageInv'
  OBVIOUS
<1>1. CASE UNCHANGED <<handler, saved, replies, users, link, snapshot, history>>
  BY <1>1 DEF MessageInv, MessageOf, RepliesInv, OldMessages, SavedMessages
<1>2. ASSUME NEW r \in Runs, RuntimeStep(r) \/ StopButton(r) \/ FailureAndStop(r) PROVE MessageInv'
  BY <1>1, <1>2 DEF RuntimeStep, StopButton, FailureAndStop, windowVars, storeVars, loadVars
<1>3. ASSUME NEW r \in Runs, EnqueueThrows(r) PROVE MessageInv'
  BY <1>3, AnsweredMessage DEF EnqueueThrows, HandlerStep, storeVars, loadVars
<1>4. ASSUME NEW r \in Runs, CreateUserMessage(r) PROVE MessageInv'
  BY <1>4, AnsweredMessage DEF CreateUserMessage, HandlerStep, storeVars, loadVars
<1>5. ASSUME NEW r \in Runs, UserMessageFails(r) PROVE MessageInv'
  BY <1>5, AnsweredMessage DEF UserMessageFails, HandlerStep, storeVars, loadVars
<1>6. ASSUME NEW r \in Runs, CallEnqueue(r) \/ SendMessage(r) PROVE MessageInv'
  BY <1>6, HandlerMoves DEF CallEnqueue, SendMessage, HandlerStep, storeVars, loadVars
<1>7. ASSUME NEW p \in replies, ReceiveReply(p) PROVE MessageInv'
  BY <1>7, ReplyMessages
<1>8. CASE ReceiveEvent
  BY <1>8, EventMessages
<1>9. CASE LoadSteps
  BY <1>9, MergedMessages, LoadMessages DEF LoadSteps
<1>10. CASE UNCHANGED vars
  BY <1>1, <1>10 DEF vars, mainVars, windowVars, storeVars, loadVars
<1> QED BY <1>2, <1>3, <1>4, <1>5, <1>6, <1>7, <1>8, <1>9, <1>10 DEF Next, HandlerSteps, LoadSteps

LEMMA MessagesAlways == Spec => [](TypeInv /\ MessageInv)
  BY TypeInit, TypeStep, MessageInit, MessageStep, PTL DEF Spec

\* Once everything has settled each message is linked to the run created for it, although
\* run.created links the newest pending message, whichever run it announces.
THEOREM LinksAreSettled == Spec => []LinksSettle
<1>1. TypeInv /\ MessageInv => LinksSettle
  <2> SUFFICES ASSUME TypeInv, MessageInv, Quiet, NEW r \in users PROVE link[r] = r
    BY DEF LinksSettle
  <2>1. CASE r \in Old
    BY <2>1 DEF MessageInv, OldMessages
  <2>2. CASE r \in Runs
    BY <2>2 DEF MessageInv, MessageOf, Quiet
  <2> QED BY <2>1, <2>2 DEF TypeInv, TypeOK, Known
<1> QED BY <1>1, MessagesAlways, PTL

\* Once everything has settled the conversation on screen is the one in the database:
\* no message was lost by a merge, none stays that was never saved.
THEOREM ScreenAgreesWithDatabase == Spec => []ScreenIsDatabase
<1>1. TypeInv /\ MessageInv => ScreenIsDatabase
  <2> SUFFICES ASSUME TypeInv, MessageInv, Quiet
               PROVE  /\ users \subseteq SavedMessages
                      /\ \A r \in saved : r \in users \/ handler[r] = "refused"
                      /\ history.loaded => Old \subseteq users
    BY DEF ScreenIsDatabase
  <2>1. replies = {} /\ users \subseteq Runs \cup Old /\ saved \subseteq Runs
        /\ \A r \in Runs : handler[r] \in {"idle", "answered", "refused"} /\ MessageOf(r)
    BY DEF Quiet, TypeInv, TypeOK, Known, MessageInv
  <2>2. users \subseteq SavedMessages
    BY <2>1 DEF MessageOf, SavedMessages
  <2>3. \A r \in saved : r \in users \/ handler[r] = "refused"
    BY <2>1 DEF MessageOf
  <2> QED BY <2>2, <2>3 DEF MessageInv, OldMessages
<1> QED BY <1>1, MessagesAlways, PTL
=============================================================================
