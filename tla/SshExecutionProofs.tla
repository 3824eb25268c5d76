------------------------- MODULE SshExecutionProofs -------------------------
(***************************************************************************)
(* Proofs about SshExecution for every number of commands and of output    *)
(* chunks, with and without failing persistence calls and channels.        *)
(***************************************************************************)
EXTENDS SshExecution, SequenceTheorems, WellFoundedInduction, TLAPS

-----------------------------------------------------------------------------
(* The inductive invariant *)

Before    == {"idle", "creating", "queueing", "refused"}
Final     == {"finalGet", "finalList", "finalSave"}
FailCalls == {"failGet", "failList", "failFirst", "failRelist", "failRest", "failSave"}
FinCalls  == {"creating", "queueing"} \cup Final \cup FailCalls
Orders    == {<<>>, <<"op">>, <<"fin">>, <<"op", "fin">>, <<"fin", "op">>}

\* The kind of the operation at work.
Kind == IF ops = <<>> THEN "none" ELSE Op.kind

\* Where the parts of the execution stand together.
ControlInv ==
  /\ adapter = "idle" <=> fin \in Before
  /\ waiting \in {<<"fin">>, <<"op", "fin">>, <<"fin", "op">>} <=> fin \in FinCalls
  /\ waiting \in {<<"op">>, <<"op", "fin">>, <<"fin", "op">>} <=> ops # <<>>
  /\ opAt = "none" <=> ops = <<>>
  /\ adapter = "idle" => at = 1
  /\ fin \in Final => adapter = "returned"
  /\ fin = "awaitOp" => adapter = "threw" /\ ops # <<>>
  /\ fin \notin Before \cup {"adapter"} => adapter \in {"returned", "threw"}
  /\ cbError => adapter = "threw"
  /\ adapter = "returned" => at = N

\* Each callback of the adapter is awaited; only output outlives its command.
OpInv ==
  /\ ops # <<>> => Op.index = at
  /\ Kind = "start" <=> adapter = "starting"
  /\ Kind \in Ended <=> adapter = "reporting"
  /\ Kind = "skipped" <=> adapter = "skipping"
  /\ Kind = "chunk" => adapter \in {"streaming", "completing", "threw"}
  /\ Kind = "chunk" <=> chunks > 0

Written == opAt \in {"get", "touch"}

\* The results before the command at work, its own, and those after it.
RowInv ==
  /\ fin = "queueing" => todo # {} /\ \A i \in Commands : result[i].status = "none" => i \in todo
  /\ fin \in Before => \A i \in Commands : result[i].status \in {"none", "queued"}
  /\ fin \notin Before => \A i \in Commands : result[i].status # "none"
  /\ fin \notin Before => \A i \in Commands : i < at => result[i].status \notin Active
  /\ \A i \in Commands : i > at => result[i].status \in {"none", "queued", "skipped", "failed"}
  /\ fin \in {"adapter", "awaitOp", "failGet", "failList"} \cup Final =>
       \A i \in Commands : i > at => result[i].status = "queued"
  /\ adapter \in {"connecting", "nextCommand", "nextSkip"} => result[at].status = "queued"
  /\ adapter = "starting" => result[at].status = IF Written THEN "running" ELSE "queued"
  /\ adapter \in {"streaming", "completing"} => result[at].status = "running"
  /\ adapter = "reporting" => result[at].status = IF Written THEN Kind ELSE "running"
  /\ adapter = "skipping" => result[at].status = IF Written THEN "skipped" ELSE "queued"
  /\ adapter = "returned" => result[at].status \notin Active
  /\ result[at].status \in Active => \A i \in Commands : i > at => result[i].status # "failed"
  /\ Kind = "chunk" => result[at].status \in {"running", "failed"}
  /\ Kind = "chunk" /\ fin \in {"adapter", "awaitOp", "failGet", "failList", "failFirst"} =>
       result[at].status = "running"

\* The operation at work saves over the row as it is: startExecution writes the
\* result of its command only between the save and the next read. For both take a turn
\* at a time, and failExecution began with the operation's first call behind its own.
FreshInv ==
  /\ opAt = "save" => opRead.row = result[at]
  /\ ops # <<>> /\ fin = "failGet" => opAt = "list" /\ waiting = <<"fin", "op">>
  /\ ops # <<>> /\ fin = "failList" =>
       \/ opAt = "list" /\ waiting = <<"op", "fin">>
       \/ opAt = "save" /\ "op" \notin selected /\ waiting = <<"fin", "op">>
  /\ ops # <<>> /\ (\/ fin = "failFirst" /\ "fin" \notin selected
                    \/ fin = "failRelist" /\ result[at].status = "running") =>
       \/ opAt = "save" /\ "op" \notin selected /\ waiting = <<"op", "fin">>
       \/ opAt = "save" /\ "op" \in selected /\ waiting = <<"fin", "op">>
  /\ ops # <<>> /\ (\/ fin = "failFirst" /\ "fin" \in selected
                    \/ fin = "failRest" /\ "fin" \notin selected /\ at \in todo) =>
       \/ opAt = "save" /\ "op" \in selected /\ waiting = <<"op", "fin">>
       \/ opAt = "get" /\ waiting = <<"fin", "op">>
  /\ ops # <<>> /\ fin = "failRest" /\ "fin" \in selected /\ at \in todo =>
       \/ opAt = "get" /\ waiting = <<"op", "fin">>
       \/ opAt = "touch" /\ "op" \notin selected /\ waiting = <<"fin", "op">>

\* Only a save has a SELECT behind it.
SelectInv == \A p \in selected : AtSave(p)

\* What failExecution has read is what it finds when it writes.
FailInv ==
  /\ fin = "failFirst" =>
       /\ Unfinished(result) # {}
       /\ \A i \in Commands : /\ result[i].status # "failed"
                              /\ copy.result[i].status = result[i].status
  /\ fin = "failRest" =>
       /\ todo # {} /\ todo = Unfinished(result)
       /\ \A i \in todo : copy.result[i].status = result[i].status
  /\ fin \in {"failSave", "done"} => Unfinished(result) = {}

\* Commands are skipped after a failed one only, and then all of them.
SkipInv ==
  /\ fin \in Before \cup {"adapter", "awaitOp", "failGet", "failList"} \cup Final =>
       \A i \in Commands : result[i].status = "skipped" =>
         \E j \in Commands : result[j].status = "failed"
  /\ adapter \in {"nextSkip", "skipping"} =>
       \E i \in Commands : i < at /\ result[i].status = "failed"
  /\ input.stopOnError /\ (\E i \in Commands : i < at /\ result[i].status = "failed") =>
       /\ adapter \in {"nextSkip", "skipping", "returned", "threw"}
       /\ result[at].status \in {"queued", "skipped"}
       /\ Kind \in {"none", "skipped"}

\* The chunks stored and still to be stored were received.
CountInv ==
  /\ \A i \in Commands : result[i].out <= received[i]
  /\ chunks <= received[at]
  /\ result[at].out + chunks <= received[at] + (IF Kind = "chunk" /\ Written THEN 1 ELSE 0)
  /\ fin \in {"failFirst", "failRest"} =>
       \A i \in Commands : copy.result[i].out <= result[i].out

\* An execution is reported as succeeded on what its results say.
CompleteInv ==
  /\ \A i \in Commands : result[i].status = "succeeded" => result[i].out = received[i]
  /\ fin = "finalSave" => copy.result = result
  /\ exec.status = "succeeded" => fin = "done" /\ adapter = "returned"
  /\ opRead.exec.status # "succeeded" 

SshInv ==
  /\ TypeOK /\ ControlInv /\ OpInv /\ RowInv /\ FreshInv /\ FailInv /\ SkipInv /\ CountInv
  /\ CompleteInv /\ StopOnErrorHolds /\ SucceededIsComplete

-----------------------------------------------------------------------------
(* The calls and the operation queue *)

\* Each caller has at most one persistence call waiting: the orders are all different.
LEMMA OrdersDiffer ==
  /\ <<>> # <<"op">> /\ <<>> # <<"fin">> /\ <<>> # <<"op", "fin">> /\ <<>> # <<"fin", "op">>
  /\ <<"op">> # <<"fin">> /\ <<"op">> # <<"op", "fin">> /\ <<"op">> # <<"fin", "op">>
  /\ <<"fin">> # <<"op", "fin">> /\ <<"fin">> # <<"fin", "op">>
  /\ <<"op", "fin">> # <<"fin", "op">>
<1>1. /\ Len(<<"op">>) = 1 /\ Len(<<"fin">>) = 1 /\ Len(<<"op", "fin">>) = 2
      /\ Len(<<"fin", "op">>) = 2 /\ Len(<<>>) = 0
  OBVIOUS
<1>2. <<"op">>[1] = "op" /\ <<"fin">>[1] = "fin" /\ <<"op", "fin">>[1] = "op"
      /\ <<"fin", "op">>[1] = "fin"
  OBVIOUS
<1> QED BY <1>1, <1>2

\* Appending to, and taking the head off, a short sequence of calls.
LEMMA Short ==
  ASSUME NEW p \in Callers, NEW q \in Callers
  PROVE  /\ Append(<<>>, p) = <<p>> /\ Append(<<p>>, q) = <<p, q>>
         /\ Tail(<<p>>) = <<>> /\ Tail(<<p, q>>) = <<q>>
         /\ Head(<<p>>) = p /\ Head(<<p, q>>) = p
<1>1. <<>> \in Seq(Callers) /\ <<p>> \in Seq(Callers) /\ <<q>> \in Seq(Callers) /\ <<p, q>> \in Seq(Callers)
  OBVIOUS
<1>2. Append(<<>>, p) = <<p>>
  BY <1>1, AppendProperties, SeqEqual
<1>3. Append(<<p>>, q) = <<p, q>>
  <2>1. /\ Append(<<p>>, q) \in Seq(Callers) /\ Len(Append(<<p>>, q)) = 2
        /\ Append(<<p>>, q)[1] = p /\ Append(<<p>>, q)[2] = q
    BY <1>1, AppendProperties
  <2>2. Len(<<p, q>>) = 2 /\ <<p, q>>[1] = p /\ <<p, q>>[2] = q
    OBVIOUS
  <2>3. \A i \in 1 .. 2 : Append(<<p>>, q)[i] = <<p, q>>[i]
    BY <2>1, <2>2
  <2> QED BY <1>1, <2>1, <2>2, <2>3, SeqEqual
<1>4. Tail(<<p>>) = <<>> /\ Head(<<p>>) = p
  BY <1>1, HeadTailProperties, SeqEqual
<1>5. Tail(<<p, q>>) = <<q>> /\ Head(<<p, q>>) = p
  BY <1>1, HeadTailProperties, SeqEqual
<1> QED BY <1>2, <1>3, <1>4, <1>5

Kinds == {"start", "chunk", "skipped"} \cup Ended

\* The operation queue is empty or holds the operation at work.
LEMMA OpsShape ==
  ASSUME TypeOK, ops # <<>>
  PROVE  /\ Op \in [kind : Kinds, index : Commands] /\ Tail(ops) = <<>>
         /\ Kind = Op.kind
<1> DEFINE S == [kind : Kinds, index : Commands]
<1>1. ops \in Seq(S) /\ Len(ops) <= 1
  BY DEF TypeOK, Kinds
<1> HIDE DEF S
<1>2. Len(ops) = 1 /\ Head(ops) \in S
  <2>1. Len(ops) \in Nat \ {0}
    BY <1>1, EmptySeq
  <2>2. Head(ops) \in S
    BY <1>1, HeadTailProperties
  <2>3. Len(ops) <= 1
    BY <1>1
  <2>4. \A n \in Nat \ {0} : n <= 1 => n = 1
    OBVIOUS
  <2>5. Len(ops) = 1
    BY <2>1, <2>3, <2>4
  <2> QED BY <2>2, <2>5
<1>3. Tail(ops) \in Seq(S) /\ Len(Tail(ops)) = 0
  BY <1>1, <1>2, HeadTailProperties
<1>4. Tail(ops) = <<>>
  BY <1>3, EmptySeq
<1> QED BY <1>2, <1>4 DEF Op, Kind, S

\* A callback the adapter waits for, or a chunk, is the only reason for an operation.
LEMMA NoOperation ==
  ASSUME TypeOK, OpInv
  PROVE  /\ adapter \notin {"starting", "reporting", "skipping"} /\ chunks = 0 => ops = <<>>
         /\ adapter \notin {"starting", "reporting", "skipping", "streaming", "completing", "threw"} =>
              ops = <<>> /\ chunks = 0
<1>1. adapter \notin {"starting", "reporting", "skipping"} /\ ops # <<>> => Kind = "chunk"
  BY OpsShape DEF OpInv, Kinds
<1>2. chunks \in Nat
  BY SshAssumption DEF TypeOK
<1> QED BY <1>1, <1>2 DEF OpInv

\* The adapter hands an operation over while none is at work and startExecution waits.
LEMMA EnqueueEffect ==
  ASSUME TypeOK, ControlInv, ops = <<>>, fin = "adapter",
         NEW kind \in Kinds, Enqueue(kind, at)
  PROVE  /\ ops' = <<[kind |-> kind, index |-> at]>> /\ ops' # <<>>
         /\ ops' \in Seq([kind : Kinds, index : Commands]) /\ Len(ops') <= 1
         /\ Op' = [kind |-> kind, index |-> at] /\ Kind' = kind
         /\ opAt' = "list"
         /\ waiting = <<>> /\ waiting' = <<"op">>
<1> DEFINE S == [kind : Kinds, index : Commands]
           o == [kind |-> kind, index |-> at]
<1>1. o \in S /\ <<o>> \in Seq(S) /\ Len(<<o>>) = 1 /\ Head(<<o>>) = o /\ <<o>> # <<>>
  BY DEF TypeOK
<1>2. Append(<<>>, o) = <<o>>
  BY <1>1, EmptySeq, AppendProperties, SeqEqual
<1>3. ops' = <<o>>
  BY <1>2 DEF Enqueue
<1>4. waiting = <<>>
  BY OrdersDiffer DEF TypeOK, ControlInv, FinCalls, Final, FailCalls
<1>5. waiting' = <<"op">> /\ opAt' = "list"
  BY <1>4, Short DEF Enqueue, Callers
<1>6. Op' = o /\ Kind' = kind
  BY <1>1, <1>3 DEF Op, Kind
<1> QED BY <1>1, <1>3, <1>4, <1>5, <1>6

\* A served call leaves the other caller's, and its caller may join again behind it.
LEMMA OpCall ==
  ASSUME waiting \in Orders, Served("op")
  PROVE  \/ waiting = <<"op">> /\ Tail(waiting) = <<>> /\ Append(Tail(waiting), "op") = <<"op">>
         \/ /\ waiting = <<"op", "fin">> /\ Tail(waiting) = <<"fin">>
            /\ Append(Tail(waiting), "op") = <<"fin", "op">>
  BY Short DEF Orders, Served, Callers

LEMMA FinCall ==
  ASSUME waiting \in Orders, Served("fin")
  PROVE  \/ waiting = <<"fin">> /\ Tail(waiting) = <<>> /\ Append(Tail(waiting), "fin") = <<"fin">>
         \/ /\ waiting = <<"fin", "op">> /\ Tail(waiting) = <<"op">>
            /\ Append(Tail(waiting), "fin") = <<"op", "fin">>
  BY Short DEF Orders, Served, Callers

-----------------------------------------------------------------------------
(* The adapter *)
LEMMA ConnectedInv == ASSUME SshInv, Connected PROVE SshInv'
<1>1. /\ ops = <<>> /\ fin = "adapter" /\ Enqueue("start", at) /\ adapter = "connecting"
      /\ adapter' = "starting"
      /\ UNCHANGED <<input, exec, result, fin, copy, todo, at, received, chunks, timedOut, opRead, cbError, selected>>
  <2>1. ops = <<>>
    BY NoOperation DEF Connected, SshInv, OpInv
  <2> QED BY <2>1 DEF Connected, SshInv, ControlInv, Before, rowVars, startVars
<1>2. /\ ops' # <<>>
      /\ ops' \in Seq([kind : Kinds, index : Commands]) /\ Len(ops') <= 1
      /\ Op' = [kind |-> "start", index |-> at] /\ Kind' = "start"
      /\ opAt' = "list"
      /\ waiting = <<>> /\ waiting' = <<"op">>
  BY <1>1, EnqueueEffect DEF SshInv, Kinds
<1>3. TypeOK'
  BY <1>1, <1>2 DEF SshInv, TypeOK, Kinds
<1>4. ControlInv'
  BY <1>1, <1>2, OrdersDiffer DEF SshInv, ControlInv, Before, Final, FinCalls, FailCalls
<1>5. OpInv'
  BY <1>1, <1>2, OrdersDiffer DEF SshInv, OpInv, Kind, Ended
<1>6. RowInv'
  BY <1>1, <1>2, OrdersDiffer DEF SshInv, RowInv, Kind, Ended, Before, Final, Active, Written
<1>7. FreshInv'
  BY <1>1, <1>2, OrdersDiffer DEF SshInv, FreshInv
<1>8. FailInv'
  BY <1>1, <1>2, OrdersDiffer DEF SshInv, FailInv, Unfinished
<1>9. SkipInv'
  BY <1>1, <1>2 DEF SshInv, SkipInv, RowInv, Before, Final
<1>10. CountInv'
  BY <1>1, <1>2 DEF SshInv, CountInv, Written, Kind
<1>11. CompleteInv' /\ StopOnErrorHolds' /\ SucceededIsComplete'
  BY <1>1, <1>2 DEF SshInv, CompleteInv, StopOnErrorHolds, SucceededIsComplete
<1> QED BY <1>3, <1>4, <1>5, <1>6, <1>7, <1>8, <1>9, <1>10, <1>11 DEF SshInv

\* An adapter that does not wait for a callback gives up, or its command ends.
LEMMA AdapterEndsInv ==
  ASSUME SshInv, ConnectionFails \/ TimeOut \/ ChannelClose
  PROVE  SshInv'
<1>1. /\ adapter \notin {"idle", "returned", "threw"} /\ fin = "adapter"
      /\ \/ adapter' = adapter
         \/ adapter \in {"connecting", "streaming"} /\ adapter' = "threw"
         \/ adapter = "streaming" /\ adapter' = "completing"
      /\ timedOut' \in BOOLEAN
      /\ UNCHANGED <<input, exec, result, fin, copy, todo, at, received, chunks, opVars, waiting, selected>>
  BY DEF ConnectionFails, TimeOut, ChannelClose, SshInv, TypeOK, ControlInv, Before, rowVars,
         startVars
<1>2. Kind' = Kind /\ Op' = Op /\ UNCHANGED <<ops, opAt, opRead, cbError>>
  BY <1>1 DEF Kind, Op, opVars
<1>3. TypeOK'
  BY <1>1, <1>2 DEF SshInv, TypeOK
<1>4. ControlInv'
  BY <1>1, <1>2 DEF SshInv, ControlInv, Before, Final, FinCalls, FailCalls
<1>5. OpInv'
  BY <1>1, <1>2 DEF SshInv, OpInv, Ended
<1>6. RowInv'
  <2>1. CASE adapter' = adapter
    BY <1>1, <1>2, <2>1 DEF SshInv, RowInv, Written
  <2>2. CASE adapter' \in {"threw", "completing"}
    BY <1>1, <1>2, <2>2 DEF SshInv, RowInv, Written, OpInv, Before, Active
  <2> QED BY <1>1, <2>1, <2>2
<1>7. FreshInv' /\ FailInv'
  BY <1>1, <1>2 DEF SshInv, FreshInv, FailInv, Unfinished
<1>8. SkipInv'
  BY <1>1, <1>2 DEF SshInv, SkipInv, Before, Final
<1>9. CountInv'
  BY <1>1, <1>2 DEF SshInv, CountInv, Written
<1>10. CompleteInv' /\ StopOnErrorHolds' /\ SucceededIsComplete'
  BY <1>1, <1>2 DEF SshInv, CompleteInv, StopOnErrorHolds, SucceededIsComplete
<1> QED BY <1>3, <1>4, <1>5, <1>6, <1>7, <1>8, <1>9, <1>10 DEF SshInv

\* The adapter waits for the callback that ends a command or begins the next.
LEMMA CallbackInv ==
  ASSUME SshInv, Complete \/ NextCommand
  PROVE  SshInv'
<1>1. PICK kind \in Kinds :
        /\ \/ adapter = "completing" /\ adapter' = "reporting" /\ kind \in Ended
           \/ adapter = "nextCommand" /\ adapter' = "starting" /\ kind = "start"
           \/ adapter = "nextSkip" /\ adapter' = "skipping" /\ kind = "skipped"
        /\ Enqueue(kind, at) /\ (adapter = "completing" => chunks = 0)
        /\ UNCHANGED <<input, exec, result, fin, copy, todo, at, received, chunks, timedOut, opRead, cbError, selected>>
  BY DEF Complete, NextCommand, Kinds, Ended, rowVars, startVars
<1>2. fin = "adapter" /\ ops = <<>> /\ chunks = 0
  BY <1>1, NoOperation DEF SshInv, ControlInv, Before
<1>3. /\ ops' # <<>>
      /\ ops' \in Seq([kind : Kinds, index : Commands]) /\ Len(ops') <= 1
      /\ Op' = [kind |-> kind, index |-> at] /\ Kind' = kind
      /\ opAt' = "list"
      /\ waiting = <<>> /\ waiting' = <<"op">>
  BY <1>1, <1>2, EnqueueEffect DEF SshInv
<1>4. TypeOK'
  BY <1>1, <1>3 DEF SshInv, TypeOK, Kinds
<1>5. ControlInv'
  BY <1>1, <1>2, <1>3, OrdersDiffer DEF SshInv, ControlInv, Before, Final, FinCalls, FailCalls
<1>6. OpInv'
  BY <1>1, <1>2, <1>3 DEF SshInv, OpInv, Ended
<1>7. RowInv'
  BY <1>1, <1>2, <1>3 DEF SshInv, RowInv, Ended, Before, Final, Active, Written
<1>8. FreshInv' /\ FailInv'
  BY <1>1, <1>2, <1>3 DEF SshInv, FreshInv, FailInv, Unfinished
<1>9. SkipInv'
  BY <1>1, <1>2, <1>3 DEF SshInv, SkipInv, Before, Final
<1>10. CountInv'
  BY <1>1, <1>2, <1>3 DEF SshInv, CountInv, Written, Kind
<1>11. CompleteInv' /\ StopOnErrorHolds' /\ SucceededIsComplete'
  BY <1>1, <1>2, <1>3 DEF SshInv, CompleteInv, StopOnErrorHolds, SucceededIsComplete
<1> QED BY <1>4, <1>5, <1>6, <1>7, <1>8, <1>9, <1>10, <1>11 DEF SshInv

\* A chunk is received; it is stored after those before it.
LEMMA OutputInv == ASSUME SshInv, Output PROVE SshInv'
<1>1. /\ adapter = "streaming" /\ fin = "adapter" /\ received[at] < MaxChunks
      /\ received' = [received EXCEPT ![at] = @ + 1] /\ chunks' = chunks + 1
      /\ UNCHANGED <<input, exec, result, fin, copy, todo, adapter, at, timedOut, opRead, cbError, selected>>
  BY DEF Output, SshInv, ControlInv, Before, rowVars, startVars
<1>2. /\ ops' # <<>> /\ ops' \in Seq([kind : Kinds, index : Commands]) /\ Len(ops') <= 1
      /\ Op'.index = at /\ Kind' = "chunk"
      /\ \/ ops = <<>> /\ opAt' = "list" /\ waiting = <<>> /\ waiting' = <<"op">>
         \/ ops # <<>> /\ Kind = "chunk" /\ UNCHANGED <<ops, opAt, waiting>>
  <2>1. CASE chunks = 0
    <3>1. ops = <<>> /\ Enqueue("chunk", at)
      BY <1>1, <2>1, NoOperation DEF Output, SshInv
    <3>2. /\ ops' # <<>>
          /\ ops' \in Seq([kind : Kinds, index : Commands]) /\ Len(ops') <= 1
          /\ Op' = [kind |-> "chunk", index |-> at] /\ Kind' = "chunk"
          /\ opAt' = "list" /\ waiting = <<>> /\ waiting' = <<"op">>
      BY <1>1, <3>1, EnqueueEffect DEF SshInv, Kinds
    <3> QED BY <3>1, <3>2
  <2>2. CASE chunks # 0
    <3>1. Kind = "chunk"
      BY <2>2, SshAssumption DEF SshInv, OpInv, TypeOK
    <3>2. ops # <<>> /\ UNCHANGED <<ops, opAt, waiting>>
      BY <2>2, <3>1 DEF Output, Kind
    <3> QED BY <3>1, <3>2 DEF SshInv, OpInv, TypeOK, Kinds, Kind, Op
  <2> QED BY <2>1, <2>2
<1>3. received[at] + 1 \in 0 .. MaxChunks /\ at \in Commands /\ chunks \in Nat
  BY <1>1, SshAssumption DEF SshInv, TypeOK
<1>4. CountInv'
  <2>1. \A i \in Commands : received'[i] = IF i = at THEN received[i] + 1 ELSE received[i]
    BY <1>1 DEF SshInv, TypeOK
  <2>2. \A i \in Commands : result'[i].out <= received'[i]
    BY <1>1, <2>1, SshAssumption DEF SshInv, CountInv, TypeOK, ResultRow
  <2>3. result[at].out + chunks <= received[at] + (IF Kind = "chunk" /\ Written THEN 1 ELSE 0)
    BY DEF SshInv, CountInv
  <2>4. (Kind = "chunk" /\ Written) => (Kind = "chunk" /\ Written)'
    BY <1>2 DEF Written, Kind
  <2>5. result'[at'].out + chunks' <= received'[at'] + (IF Kind = "chunk" /\ Written THEN 1 ELSE 0)'
    BY <1>1, <1>3, <2>1, <2>3, <2>4, SshAssumption DEF SshInv, TypeOK, ResultRow
  <2>6. chunks' <= received'[at']
    BY <1>1, <1>3, <2>1 DEF SshInv, CountInv, TypeOK
  <2> QED BY <1>1, <2>2, <2>5, <2>6 DEF SshInv, CountInv, ControlInv
<1>5. TypeOK'
  <2>1. chunks + 1 \in 0 .. MaxChunks
    BY <1>1, <1>3, SshAssumption DEF CountInv, SshInv, TypeOK
  <2> QED BY <1>1, <1>2, <1>3, <2>1 DEF SshInv, TypeOK, Kinds
<1>6. ControlInv'
  BY <1>1, <1>2, OrdersDiffer DEF SshInv, ControlInv, Before, Final, FinCalls, FailCalls
<1>7. OpInv'
  BY <1>1, <1>2, <1>3 DEF SshInv, OpInv, Ended
<1>8. RowInv'
  BY <1>1, <1>2 DEF SshInv, RowInv, Written, OpInv
<1>9. FreshInv' /\ FailInv'
  BY <1>1, <1>2 DEF SshInv, FreshInv, FailInv, Unfinished, Op
<1>10. SkipInv'
  BY <1>1, <1>2 DEF SshInv, SkipInv
<1>11. CompleteInv' /\ StopOnErrorHolds' /\ SucceededIsComplete'
  <2>1. result[at].status = "running"
    BY <1>1 DEF SshInv, RowInv
  <2>2. \A i \in Commands : i # at => received'[i] = received[i]
    BY <1>1 DEF SshInv, TypeOK
  <2> QED BY <1>1, <1>3, <2>1, <2>2 DEF SshInv, CompleteInv, StopOnErrorHolds, SucceededIsComplete
<1> QED BY <1>4, <1>5, <1>6, <1>7, <1>8, <1>9, <1>10, <1>11 DEF SshInv

-----------------------------------------------------------------------------
(* The operation at work *)

\* Whose operation is at work, and what cannot have happened yet.
LEMMA AtWork ==
  ASSUME SshInv, ops # <<>>
  PROVE  /\ Op.index = at /\ at \in Commands /\ Kind \in Kinds /\ Kind = Op.kind
         /\ adapter \in {"starting", "reporting", "skipping", "streaming", "completing", "threw"}
         /\ fin \notin Before \cup Final
         /\ adapter # "threw" => fin = "adapter"
<1>1. Op.index = at /\ at \in Commands /\ Kind \in Kinds /\ Kind = Op.kind
  BY OpsShape DEF SshInv, OpInv, TypeOK
<1>2. adapter \in {"starting", "reporting", "skipping", "streaming", "completing", "threw"}
  BY <1>1 DEF SshInv, OpInv, Kinds
<1> QED BY <1>1, <1>2 DEF SshInv, ControlInv, Before, Final

\* The read of the result and the read of the execution's row change no row.
LEMMA OpReadInv ==
  ASSUME SshInv, SelectInv, ListResult \/ GetExecution
  PROVE  SshInv'
<1>1. /\ ops # <<>> /\ Op.index = at /\ adapter # "returned" /\ Served("op") /\ Again("op")
      /\ UNCHANGED <<input, rowVars, startVars, adapterVars, ops, cbError>>
  <2>1. ops # <<>>
    BY DEF ListResult, GetExecution, SshInv, ControlInv
  <2> QED BY <2>1, AtWork DEF ListResult, GetExecution
<1>2. /\ Kind' = Kind /\ Op' = Op
      /\ UNCHANGED <<exec, result, selected, fin, copy, todo, adapter, at, received, chunks, timedOut>>
      /\ "op" \notin selected
  BY <1>1 DEF Kind, Op, rowVars, startVars, adapterVars, SelectInv, AtSave, ListResult, GetExecution
<1>3. \/ waiting = <<"op">> /\ waiting' = <<"op">>
      \/ waiting = <<"op", "fin">> /\ waiting' = <<"fin", "op">>
  BY <1>1, OpCall DEF Again, SshInv, TypeOK, Orders
<1>4. /\ \/ opAt = "list" /\ opAt' = "save" /\ opRead'.row = result[at] /\ opRead'.exec = opRead.exec
         \/ opAt = "get" /\ opAt' = "touch" /\ opRead'.row = opRead.row /\ opRead'.exec = exec
      /\ opRead' \in [row : ResultRow, exec : ExecRow]
  BY <1>1 DEF ListResult, GetExecution, SshInv, TypeOK
<1>5. TypeOK'
  BY <1>1, <1>2, <1>3, <1>4 DEF SshInv, TypeOK
<1>6. ControlInv'
  BY <1>1, <1>2, <1>3, <1>4, OrdersDiffer DEF SshInv, ControlInv
<1>7. OpInv'
  BY <1>1, <1>2 DEF SshInv, OpInv
<1>8. RowInv'
  BY <1>1, <1>2, <1>4 DEF SshInv, RowInv, Written
<1>9. FreshInv'
  BY <1>1, <1>2, <1>3, <1>4, OrdersDiffer DEF SshInv, FreshInv
<1>10. FailInv' /\ SkipInv'
  BY <1>1, <1>2 DEF SshInv, FailInv, SkipInv, Unfinished
<1>11. CountInv'
  BY <1>1, <1>2, <1>4 DEF SshInv, CountInv, Written
<1>12. CompleteInv' /\ StopOnErrorHolds' /\ SucceededIsComplete'
  BY <1>1, <1>2, <1>4 DEF SshInv, CompleteInv, StopOnErrorHolds, SucceededIsComplete
<1> QED BY <1>5, <1>6, <1>7, <1>8, <1>9, <1>10, <1>11, <1>12 DEF SshInv

\* The operation saves its result over the row as it still is.
LEMMA SaveResultInv == ASSUME SshInv, SaveResult PROVE SshInv'
<1>1. /\ ops # <<>> /\ Op.index = at /\ at \in Commands /\ opAt = "save" /\ opAt' = "get"
      /\ Kind \in Kinds /\ Kind = Op.kind
      /\ adapter # "returned" /\ Served("op") /\ Again("op")
      /\ "op" \in selected /\ selected' = selected \ {"op"}
      /\ UNCHANGED <<input, exec, fin, copy, todo, adapterVars, ops, opRead, cbError>>
  <2>1. ops # <<>>
    BY DEF SaveResult, SshInv, ControlInv
  <2> QED BY <2>1, AtWork DEF SaveResult, Inserted, startVars
<1>2. /\ Kind' = Kind /\ Op' = Op
      /\ UNCHANGED <<adapter, at, received, chunks, timedOut>>
  BY <1>1 DEF Kind, Op, adapterVars
<1>3. \/ waiting = <<"op">> /\ waiting' = <<"op">>
      \/ waiting = <<"op", "fin">> /\ waiting' = <<"fin", "op">>
  BY <1>1, OpCall DEF Again, SshInv, TypeOK, Orders
<1>4. /\ result' = [result EXCEPT ![at] = Updated(result[at])]
      /\ result \in [Commands -> ResultRow]
  BY <1>1 DEF SaveResult, SshInv, FreshInv, TypeOK
<1>5. /\ \A i \in Commands : i # at => result'[i] = result[i]
      /\ result'[at] = Updated(result[at])
  BY <1>1, <1>4
<1>6. /\ Kind = "start" => /\ fin = "adapter" /\ result[at].status = "queued"
                           /\ result'[at].status = "running" /\ result'[at].out = result[at].out
      /\ Kind = "chunk" => /\ result[at].status \in {"running", "failed"}
                           /\ result'[at].status = result[at].status
                           /\ result'[at].out = result[at].out + 1
                           /\ chunks > 0
      /\ Kind \in Ended => /\ fin = "adapter" /\ result[at].status = "running"
                           /\ result'[at].status = Kind /\ result'[at].out = received[at]
                           /\ chunks = 0
      /\ Kind = "skipped" => /\ fin = "adapter" /\ result[at].status = "queued"
                             /\ result'[at].status = "skipped" /\ result'[at].out = result[at].out
  <2>1. result[at].status \in CommandStatus /\ result[at] \in ResultRow /\ chunks \in Nat
    BY <1>1, <1>4, SshAssumption DEF ResultRow, SshInv, TypeOK
  <2>2. adapter \in {"starting", "reporting", "skipping"} => fin = "adapter"
    BY DEF SshInv, ControlInv, Before
  <2>3. CASE Kind = "start"
    BY <1>1, <1>5, <2>1, <2>2, <2>3 DEF Updated, SshInv, OpInv, RowInv, Written, Ended, ResultRow
  <2>4. CASE Kind = "chunk"
    BY <1>1, <1>5, <2>1, <2>2, <2>4 DEF Updated, SshInv, OpInv, RowInv, Written, Ended, ResultRow
  <2>5. CASE Kind \in Ended
    BY <1>1, <1>5, <2>1, <2>2, <2>5 DEF Updated, SshInv, OpInv, RowInv, Written, Ended, ResultRow
  <2>6. CASE Kind = "skipped"
    BY <1>1, <1>5, <2>1, <2>2, <2>6 DEF Updated, SshInv, OpInv, RowInv, Written, Ended, ResultRow
  <2> QED BY <1>1, <2>3, <2>4, <2>5, <2>6 DEF Kinds, Ended
<1>7. fin # "adapter" => Kind = "chunk"
  BY <1>1, <1>6 DEF Kinds
<1>8. /\ result[at].out \in Nat /\ received[at] \in 0 .. MaxChunks /\ chunks \in Nat
      /\ result[at].out <= received[at] /\ result[at].out + chunks <= received[at]
  BY <1>1, <1>4, SshAssumption DEF SshInv, CountInv, Written, TypeOK, ResultRow
<1>9. result' \in [Commands -> ResultRow]
  <2>1. result'[at].out \in 0 .. MaxChunks
    BY <1>1, <1>6, <1>8, SshAssumption DEF Kinds
  <2>2. result'[at].status \in CommandStatus
    BY <1>1, <1>6 DEF Kinds, Ended, CommandStatus
  <2>3. Updated(result[at]) \in [status : CommandStatus, out : 0 .. MaxChunks]
    BY <1>1, <1>4, <1>5, <2>1, <2>2 DEF Updated, ResultRow, Kinds, Ended
  <2> QED BY <1>4, <2>3 DEF ResultRow
<1>10. TypeOK'
  BY <1>1, <1>2, <1>3, <1>9 DEF SshInv, TypeOK
<1>11. ControlInv' /\ OpInv'
  BY <1>1, <1>2, <1>3, OrdersDiffer DEF SshInv, ControlInv, OpInv
<1>12. RowInv'
  BY <1>1, <1>2, <1>5, <1>6, <1>7 DEF SshInv, RowInv, OpInv, ControlInv, Written, Kinds, Ended, Active, Before, Final
<1>13. FreshInv'
  BY <1>1, <1>2, <1>3, <1>5, <1>6, <1>7, OrdersDiffer DEF SshInv, FreshInv
<1>14. FailInv'
  <2>1. fin # "adapter" => \A i \in Commands : result'[i].status = result[i].status
    BY <1>5, <1>6, <1>7
  <2> QED BY <1>1, <2>1 DEF SshInv, FailInv, Unfinished
<1>15. SkipInv'
  <2>1. \A i \in Commands : result[i].status = "failed" => result'[i].status = "failed"
    BY <1>1, <1>5, <1>6 DEF Kinds, Ended
  <2>2. Kind = "skipped" => \E i \in Commands : i < at /\ result[i].status = "failed"
    BY DEF SshInv, SkipInv, OpInv
  <2>3. result'[at].status = "skipped" => result[at].status = "skipped" \/ Kind = "skipped"
    BY <1>1, <1>6 DEF Kinds, Ended
  <2>4. fin \in Before \cup {"adapter", "awaitOp", "failGet", "failList"} \cup Final =>
          \A i \in Commands : result'[i].status = "skipped" =>
            \E j \in Commands : result'[j].status = "failed"
    BY <1>5, <2>1, <2>2, <2>3 DEF SshInv, SkipInv
  <2>5. adapter \in {"nextSkip", "skipping"} =>
          \E i \in Commands : i < at /\ result'[i].status = "failed"
    BY <2>1 DEF SshInv, SkipInv
  <2>6. \A i \in Commands : i < at => result'[i] = result[i]
    BY <1>1, <1>5 DEF Commands
  <2>7. input.stopOnError /\ (\E i \in Commands : i < at /\ result[i].status = "failed") =>
          Kind = "skipped"
    BY <1>1 DEF SshInv, SkipInv, Kinds, Ended
  <2> QED BY <1>1, <1>2, <1>6, <2>4, <2>5, <2>6, <2>7 DEF SshInv, SkipInv
<1>16. CountInv'
  <2>1. result'[at].out >= result[at].out /\ result'[at].out <= received[at]
    BY <1>1, <1>6, <1>8 DEF Kinds
  <2>2. result'[at].out + chunks <= received[at] + (IF Kind = "chunk" THEN 1 ELSE 0)
    BY <1>1, <1>6, <1>8 DEF Kinds, Ended
  <2>3. Written'
    BY <1>1 DEF Written
  <2>4. \A i \in Commands : /\ result[i].out \in Nat /\ copy.result[i].out \in Nat
                            /\ result'[i].out \in Nat
    BY <1>4, <1>9, SshAssumption DEF SshInv, TypeOK, ResultRow
  <2>5. fin \in {"failFirst", "failRest"} => \A i \in Commands : copy.result[i].out <= result'[i].out
    BY <1>5, <2>1, <2>4 DEF SshInv, CountInv
  <2> QED BY <1>1, <1>2, <1>5, <2>1, <2>2, <2>3, <2>5 DEF SshInv, CountInv
<1>17. CompleteInv'
  BY <1>1, <1>2, <1>5, <1>6 DEF SshInv, CompleteInv, ControlInv, Kinds, Ended, Final
<1>18. StopOnErrorHolds'
  BY <1>1, <1>2, <1>5, <1>6 DEF SshInv, StopOnErrorHolds, SkipInv, RowInv, OpInv, Kinds, Ended
<1>19. SucceededIsComplete'
  BY <1>1 DEF SshInv, CompleteInv, SucceededIsComplete
<1> QED BY <1>10, <1>11, <1>12, <1>13, <1>14, <1>15, <1>16, <1>17, <1>18, <1>19 DEF SshInv

\* The operation at work ends: the queue is empty or begins its next chunk, and
\* startExecution goes on if it waits for this end.
LEMMA OpEndsEffect ==
  ASSUME SshInv, ops # <<>>, Served("op"), NEW left \in {<<>>, <<Op>>}, OpEnds(left)
  PROVE  /\ ops' = left
         /\ opAt' = IF left = <<>> THEN "none" ELSE "list"
         /\ fin' = IF fin = "awaitOp" THEN "failGet" ELSE fin
         /\ waiting' = IF fin \in FinCalls \cup {"awaitOp"}
                       THEN IF left = <<>> THEN <<"fin">> ELSE <<"fin", "op">>
                       ELSE IF left = <<>> THEN <<>> ELSE <<"op">>
         /\ left = <<Op>> => ops' # <<>> /\ Op' = Op /\ Kind' = Kind
         /\ left = <<>> => Kind' = "none"
<1>1. Head(<<Op>>) = Op /\ <<Op>> # <<>>
  OBVIOUS
<1>2. ops' = left /\ opAt' = (IF left = <<>> THEN "none" ELSE "list")
      /\ fin' = (IF fin = "awaitOp" THEN "failGet" ELSE fin)
  BY DEF OpEnds, FinGoto
<1>3. Tail(waiting) = IF fin \in FinCalls THEN <<"fin">> ELSE <<>>
  <2>1. \/ waiting = <<"op">> /\ Tail(waiting) = <<>>
        \/ waiting = <<"op", "fin">> /\ Tail(waiting) = <<"fin">>
    BY OpCall DEF SshInv, TypeOK, Orders
  <2> QED BY <2>1, OrdersDiffer DEF SshInv, ControlInv
<1>4. /\ <<>> \o <<>> = <<>> /\ <<"fin">> \o <<>> = <<"fin">> /\ <<>> \o <<"fin">> = <<"fin">>
      /\ <<>> \o <<"op">> = <<"op">> /\ <<"fin">> \o <<"op">> = <<"fin", "op">>
  <2>1. <<>> \in Seq(Callers) /\ <<"op">> \in Seq(Callers) /\ <<"fin">> \in Seq(Callers)
    BY DEF Callers
  <2>2. <<"fin">> \o <<"op">> = Append(<<"fin">>, "op")
    BY <2>1, AppendIsConcat DEF Callers
  <2> QED BY <2>1, <2>2, ConcatEmptySeq, Short DEF Callers
<1>5. "awaitOp" \notin FinCalls
  BY DEF FinCalls, Final, FailCalls
<1>6. waiting' = Tail(waiting) \o (IF fin = "awaitOp" THEN <<"fin">> ELSE <<>>)
                               \o (IF left = <<>> THEN <<>> ELSE <<"op">>)
  BY DEF OpEnds
<1>7. waiting' = IF fin \in FinCalls \cup {"awaitOp"}
                 THEN IF left = <<>> THEN <<"fin">> ELSE <<"fin", "op">>
                 ELSE IF left = <<>> THEN <<>> ELSE <<"op">>
  <2>1. CASE fin \in FinCalls
    BY <1>3, <1>4, <1>5, <1>6, <2>1
  <2>2. CASE fin = "awaitOp"
    BY <1>3, <1>4, <1>5, <1>6, <2>2
  <2>3. CASE fin \notin FinCalls \cup {"awaitOp"}
    BY <1>3, <1>4, <1>6, <2>3
  <2> QED BY <2>1, <2>2, <2>3
<1>8. left = <<Op>> => ops' # <<>> /\ Op' = Op /\ Kind' = Kind
  <2>1. Kind = Op.kind
    BY AtWork
  <2> QED BY <1>1, <1>2, <2>1 DEF Op, Kind
<1>9. left = <<>> => Kind' = "none"
  BY <1>2 DEF Kind
<1> QED BY <1>2, <1>7, <1>8, <1>9

\* What TouchExecution does besides ending the operation.
LEMMA TouchEffect ==
  ASSUME SshInv, TouchExecution
  PROVE  /\ ops # <<>> /\ Served("op") /\ Written
         /\ exec' \in ExecRow /\ exec'.status # "succeeded"
         /\ selected' \subseteq selected
         /\ UNCHANGED <<input, result, copy, todo, received, timedOut, opRead, cbError>>
<1>1. ops # <<>> /\ Served("op") /\ Written
  BY DEF TouchExecution, Inserted, SshInv, ControlInv, Written
<1>2. opRead.exec \in ExecRow /\ opRead.exec.status # "succeeded"
  BY DEF SshInv, TypeOK, CompleteInv
<1>3. exec' = [opRead.exec EXCEPT !.status = "running"] \/ exec' = opRead.exec
  BY DEF TouchExecution
<1>4. exec' \in ExecRow /\ exec'.status # "succeeded"
  BY <1>2, <1>3 DEF ExecRow, ExecStatus
<1> QED BY <1>1, <1>4 DEF TouchExecution, Inserted

\* A chunk has been stored, the next one is handed over.
LEMMA TouchChunkInv == ASSUME SshInv, TouchExecution, Kind = "chunk" PROVE SshInv'
<1> DEFINE left == IF chunks > 1 THEN <<Op>> ELSE <<>>
<1>1. /\ Op.index = at /\ at \in Commands /\ Op.kind = "chunk"
      /\ adapter \in {"streaming", "completing", "threw"} /\ fin \notin Before \cup Final
      /\ adapter # "threw" => fin = "adapter"
      /\ Tail(ops) = <<>> /\ Op \in [kind : Kinds, index : Commands]
  BY TouchEffect, AtWork, OpsShape DEF SshInv, OpInv
<1>2. chunks' = chunks - 1 /\ UNCHANGED <<adapter, at>>
  BY <1>1 DEF TouchExecution
<1>3. OpEnds(left)
  <2>1. /\ <<>> \in Seq({Op}) /\ <<Op>> \in Seq({Op})
        /\ <<>> \o <<>> = <<>> /\ <<>> \o <<Op>> = <<Op>>
    BY ConcatEmptySeq
  <2> QED BY <1>1, <2>1 DEF TouchExecution
<1>4. /\ ops' = left
      /\ opAt' = IF left = <<>> THEN "none" ELSE "list"
      /\ fin' = IF fin = "awaitOp" THEN "failGet" ELSE fin
      /\ waiting' = IF fin \in FinCalls \cup {"awaitOp"}
                    THEN IF left = <<>> THEN <<"fin">> ELSE <<"fin", "op">>
                    ELSE IF left = <<>> THEN <<>> ELSE <<"op">>
      /\ left = <<Op>> => ops' # <<>> /\ Op' = Op /\ Kind' = Kind
      /\ left = <<>> => Kind' = "none"
  <2>1. left \in {<<>>, <<Op>>}
    OBVIOUS
  <2> HIDE DEF left
  <2> QED BY <1>3, <2>1, TouchEffect, OpEndsEffect
<1>5. chunks \in Nat \ {0} /\ <<Op>> # <<>>
  BY SshAssumption DEF SshInv, TypeOK, OpInv
<1>6. /\ chunks > 1 => left = <<Op>>
      /\ chunks = 1 => left = <<>>
      /\ chunks = 1 \/ chunks > 1
  BY <1>5
<1> HIDE DEF left
<1>7. TypeOK'
  <2>1. ops' \in Seq([kind : Kinds, index : Commands]) /\ Len(ops') <= 1
    <3> DEFINE S == [kind : Kinds, index : Commands]
    <3>1. Op \in S
      BY <1>1
    <3> HIDE DEF S
    <3>2. /\ <<Op>> \in Seq(S) /\ Len(<<Op>>) <= 1
          /\ <<>> \in Seq(S) /\ Len(<<>>) <= 1
      BY <3>1
    <3>3. ops' \in Seq(S) /\ Len(ops') <= 1
      <4>1. ops' = <<>> \/ ops' = <<Op>>
        BY <1>4, <1>6
      <4>2. CASE ops' = <<>>
        BY <3>2, <4>2
      <4>3. CASE ops' = <<Op>>
        BY <3>2, <4>3
      <4> QED BY <4>1, <4>2, <4>3
    <3> QED BY <3>3 DEF S
  <2>2. waiting' \in Orders /\ opAt' \in {"none", "list"}
    BY <1>4 DEF Orders
  <2>3. chunks' \in 0 .. MaxChunks
    BY <1>2, <1>5, SshAssumption DEF SshInv, TypeOK
  <2> QED BY <1>1, <1>2, <1>4, <2>1, <2>2, <2>3, TouchEffect DEF SshInv, TypeOK, Kinds, Orders
<1>8. ControlInv'
  BY <1>1, <1>2, <1>4, <1>5, <1>6, TouchEffect, OrdersDiffer DEF SshInv, ControlInv, Before, FinCalls, Final, FailCalls
<1>9. OpInv'
  BY <1>1, <1>2, <1>4, <1>5, <1>6 DEF SshInv, OpInv, Ended
<1>10. RowInv'
  BY <1>1, <1>2, <1>4, <1>5, <1>6, TouchEffect DEF SshInv, RowInv, Before, Final
<1>11. FreshInv'
  <2>1. waiting = <<"op">> \/ waiting = <<"op", "fin">>
    BY TouchEffect, OpCall DEF SshInv, TypeOK, Orders
  <2>2. opAt \in {"get", "touch"} /\ opAt = "touch"
    BY DEF TouchExecution
  <2>3. CASE left = <<>>
    BY <1>4, <2>3 DEF FreshInv
  <2>4. CASE left = <<Op>>
    <3>1. opAt' = "list" /\ (fin' \in FailCalls => waiting' = <<"fin", "op">>)
      BY <1>4, <1>5, <2>4 DEF FinCalls, FailCalls
    <3> QED BY <1>1, <1>2, <1>4, <2>1, <2>2, <2>4, <3>1, TouchEffect, OrdersDiffer DEF SshInv, FreshInv, FailCalls
  <2> QED BY <1>6, <2>3, <2>4
<1>12. FailInv'
  BY <1>1, <1>2, <1>4, TouchEffect DEF SshInv, FailInv, Unfinished
<1>13. SkipInv'
  BY <1>1, <1>2, <1>4, <1>5, <1>6, TouchEffect DEF SshInv, SkipInv, Before, Final
<1>14. CountInv'
  <2>1. result[at].out + chunks - 1 <= received[at] /\ chunks - 1 <= received[at]
    BY SMTT(30), <1>1, <1>5, TouchEffect, SshAssumption DEF SshInv, CountInv, TypeOK, ResultRow
  <2>2. result[at].out \in Nat /\ received[at] \in Nat
    BY <1>1, SshAssumption DEF SshInv, TypeOK, ResultRow
  <2>3. ~Written'
    BY <1>4 DEF Written
  <2> QED BY <1>2, <1>4, <1>5, <2>1, <2>2, <2>3, TouchEffect DEF SshInv, CountInv
<1>15. CompleteInv' /\ StopOnErrorHolds' /\ SucceededIsComplete'
  BY <1>1, <1>2, <1>4, TouchEffect DEF SshInv, CompleteInv, StopOnErrorHolds, SucceededIsComplete, Final
<1> QED BY <1>7, <1>8, <1>9, <1>10, <1>11, <1>12, <1>13, <1>14, <1>15 DEF SshInv

\* The end of a callback the adapter has waited for.
LEMMA TouchOtherEffect ==
  ASSUME SshInv, TouchExecution, Kind # "chunk"
  PROVE  /\ fin = "adapter" /\ fin' = "adapter"
         /\ ops' = <<>> /\ opAt' = "none" /\ Kind' = "none" /\ waiting' = <<>>
         /\ Op.kind = Kind /\ at \in Commands /\ chunks = 0 /\ Kind \in Kinds
<1>1. /\ at \in Commands /\ Op.kind = Kind /\ fin = "adapter" /\ Tail(ops) = <<>>
      /\ chunks = 0 /\ Kind \in Kinds
  <2>1. adapter # "threw"
    BY TouchEffect, AtWork DEF SshInv, OpInv, Kinds
  <2>2. ~(chunks > 0) /\ chunks \in Nat
    BY SshAssumption DEF SshInv, OpInv, TypeOK
  <2> QED BY <2>1, <2>2, TouchEffect, AtWork, OpsShape DEF SshInv
<1>2. OpEnds(<<>>)
  <2>1. <<>> \o <<>> = <<>>
    BY ConcatEmptySeq, EmptySeq
  <2> QED BY <1>1, <2>1 DEF TouchExecution
<1>3. fin \notin FinCalls \cup {"awaitOp"}
  BY <1>1 DEF FinCalls, Final, FailCalls
<1> QED BY <1>1, <1>2, <1>3, TouchEffect, OpEndsEffect

LEMMA TouchStartInv == ASSUME SshInv, TouchExecution, Kind = "start" PROVE SshInv'
<1>0. /\ fin = "adapter" /\ fin' = "adapter"
      /\ ops' = <<>> /\ opAt' = "none" /\ Kind' = "none" /\ waiting' = <<>>
      /\ at \in Commands /\ chunks = 0 /\ Written
      /\ exec' \in ExecRow /\ exec'.status # "succeeded"
      /\ selected' \subseteq selected
      /\ UNCHANGED <<input, result, copy, todo, received, timedOut, opRead, cbError>>
      /\ Op.kind = "start"
  BY TouchOtherEffect, TouchEffect
<1>1. /\ adapter = "starting" /\ adapter' \in {"threw", "streaming"} /\ UNCHANGED <<at, chunks>>
      /\ result[at].status = "running"
  BY <1>0 DEF TouchExecution, SshInv, OpInv, RowInv
<1>2. TypeOK'
  BY <1>1, <1>0, EmptySeq DEF SshInv, TypeOK
<1>3. ControlInv'
  BY <1>1, <1>0, OrdersDiffer DEF SshInv, ControlInv, Before, FinCalls, Final, FailCalls
<1>4. OpInv'
  BY <1>1, <1>0 DEF SshInv, OpInv, Ended
<1>5. RowInv'
  BY <1>1, <1>0 DEF SshInv, RowInv, Before, Final
<1>6. FreshInv' /\ FailInv'
  BY <1>0 DEF FreshInv, FailInv
<1>7. SkipInv'
  BY <1>1, <1>0 DEF SshInv, SkipInv
<1>8. CountInv'
  BY <1>1, <1>0 DEF SshInv, CountInv
<1>9. CompleteInv' /\ StopOnErrorHolds' /\ SucceededIsComplete'
  BY <1>1, <1>0 DEF SshInv, CompleteInv, StopOnErrorHolds, SucceededIsComplete
<1> QED BY <1>2, <1>3, <1>4, <1>5, <1>6, <1>7, <1>8, <1>9 DEF SshInv

\* A command has ended or was skipped: the adapter goes on to the next, or returns.
LEMMA TouchEndInv ==
  ASSUME SshInv, TouchExecution, Kind \in Ended \cup {"skipped"}
  PROVE  SshInv'
<1>0. /\ fin = "adapter" /\ fin' = "adapter"
      /\ ops' = <<>> /\ opAt' = "none" /\ Kind' = "none" /\ waiting' = <<>>
      /\ at \in Commands /\ chunks = 0 /\ Written
      /\ exec' \in ExecRow /\ exec'.status # "succeeded"
      /\ selected' \subseteq selected
      /\ UNCHANGED <<input, result, copy, todo, received, timedOut, opRead, cbError>>
      /\ Kind # "chunk" /\ Op.kind = Kind
  <2>1. Kind # "chunk"
    BY DEF Ended
  <2> QED BY <2>1, TouchOtherEffect, TouchEffect
<1>1. /\ Kind # "chunk" /\ Kind # "start" /\ chunks' = chunks /\ AfterCommand(Kind)
      /\ adapter = (IF Kind = "skipped" THEN "skipping" ELSE "reporting")
      /\ result[at].status = Kind
  <2>1. Kind # "chunk" /\ Kind # "start"
    BY DEF Ended
  <2> QED BY <2>1, <1>0 DEF TouchExecution, SshInv, OpInv, RowInv
<1>2. /\ at \in Commands /\ N \in Nat \ {0} /\ Commands = 1 .. N
      /\ \/ at = N /\ at' = at /\ adapter' = "returned"
         \/ /\ at # N /\ at' = at + 1 /\ at' \in Commands
            /\ adapter' = IF Kind = "skipped" \/ (Kind = "failed" /\ input.stopOnError)
                          THEN "nextSkip" ELSE "nextCommand"
  BY <1>1, <1>0, SshAssumption DEF AfterCommand, Commands
<1>3. TypeOK'
  BY <1>1, <1>2, <1>0, EmptySeq DEF SshInv, TypeOK
<1>4. ControlInv'
  BY <1>1, <1>2, <1>0, OrdersDiffer DEF SshInv, ControlInv, Before, FinCalls, Final, FailCalls
<1>5. OpInv'
  BY <1>1, <1>2, <1>0 DEF SshInv, OpInv, Ended
<1>6. RowInv'
  <2>1. \A i \in Commands : i > at => result[i].status = "queued"
    BY <1>0 DEF SshInv, RowInv
  <2>2. \A i \in Commands : i < at' => result[i].status \notin Active
    <3>1. result[at].status \notin Active
      BY <1>1 DEF Ended, Active
    <3> QED BY <1>2, <3>1, <1>0 DEF SshInv, RowInv, Before
  <2>3. \A i \in Commands : i > at' => i > at
    BY <1>2
  <2>4. adapter' = "returned" => result[at'].status \notin Active
    BY <1>1, <1>2 DEF Ended, Active
  <2>5. adapter' \in {"nextCommand", "nextSkip"} => result[at'].status = "queued"
    BY <1>2, <2>1
  <2>6. adapter' \in {"returned", "nextCommand", "nextSkip"}
    BY <1>2
  <2> QED BY <2>1, <2>2, <2>3, <2>4, <2>5, <2>6, <1>0 DEF SshInv, RowInv, Before, Final
<1>7. FreshInv' /\ FailInv'
  BY <1>0, <1>1 DEF FreshInv, FailInv
<1>8. SkipInv'
  <2>1. (\E i \in Commands : i < at /\ result[i].status = "failed") =>
          \E i \in Commands : i < at' /\ result[i].status = "failed"
    BY <1>2
  <2>2. adapter' \in {"nextSkip", "skipping"} => \E i \in Commands : i < at' /\ result[i].status = "failed"
    BY <1>1, <1>2, <2>1 DEF SshInv, SkipInv
  <2>3. ASSUME input.stopOnError, NEW i \in Commands, i < at', result[i].status = "failed"
        PROVE  /\ adapter' \in {"nextSkip", "returned"}
               /\ result[at'].status \in {"queued", "skipped"}
    <3>1. CASE at' = at
      BY <1>1, <1>2, <2>3, <3>1 DEF SshInv, SkipInv
    <3>2. CASE at' = at + 1 /\ i = at
      <4>1. result[at'].status = "queued"
        BY <1>2, <3>2, <1>0 DEF SshInv, RowInv
      <4> QED BY <1>1, <1>2, <2>3, <3>2, <4>1
    <3>3. CASE at' = at + 1 /\ i < at
      <4>1. result[at'].status = "queued"
        BY <1>2, <3>3, <1>0 DEF SshInv, RowInv
      <4>2. adapter # "reporting"
        BY <2>3, <3>3 DEF SshInv, SkipInv
      <4> QED BY <1>1, <1>2, <4>1, <4>2
    <3> QED BY <1>2, <2>3, <3>1, <3>2, <3>3
  <2> QED BY <1>1, <2>2, <2>3, <1>0 DEF SshInv, SkipInv
<1>9. CountInv'
  <2>1. result[at'].out <= received[at'] /\ received[at'] \in Nat /\ result[at'].out \in Nat
    BY SMTT(30), <1>2, SshAssumption DEF SshInv, CountInv, TypeOK, ResultRow
  <2> QED BY <1>1, <2>1, <1>0 DEF SshInv, CountInv
<1>10. CompleteInv' /\ StopOnErrorHolds' /\ SucceededIsComplete'
  BY <1>1, <1>0 DEF SshInv, CompleteInv, StopOnErrorHolds, SucceededIsComplete
<1> QED BY <1>3, <1>4, <1>5, <1>6, <1>7, <1>8, <1>9, <1>10 DEF SshInv

\* A rejected call ends the operation and the adapter, and no chunk is left.
LEMMA OpThrowsInv == ASSUME SshInv, OpThrows PROVE SshInv'
<1>1. /\ ops # <<>> /\ Served("op") /\ adapter' = "threw" /\ chunks' = 0 /\ cbError' = TRUE
      /\ selected' \subseteq selected
      /\ UNCHANGED <<input, exec, result, copy, todo, at, received, timedOut, opRead>>
      /\ OpEnds(<<>>)
  BY DEF OpThrows, Rejected, SshInv, ControlInv
<1>2. /\ ops' = <<>> /\ opAt' = "none" /\ Kind' = "none"
      /\ fin' = IF fin = "awaitOp" THEN "failGet" ELSE fin
      /\ waiting' = IF fin \in FinCalls \cup {"awaitOp"} THEN <<"fin">> ELSE <<>>
  BY <1>1, OpEndsEffect
<1>3. fin \notin Before \cup Final
  BY <1>1, AtWork
<1>4. TypeOK'
  <2>1. 0 \in 0 .. MaxChunks
    BY SshAssumption
  <2> QED BY <1>1, <1>2, <2>1 DEF SshInv, TypeOK
<1>5. ControlInv'
  BY <1>1, <1>2, <1>3, OrdersDiffer DEF SshInv, ControlInv, Before, FinCalls, Final, FailCalls
<1>6. OpInv'
  BY <1>1, <1>2 DEF OpInv, Ended
<1>7. RowInv'
  BY <1>1, <1>2, <1>3 DEF SshInv, RowInv, Before, Final
<1>8. FreshInv' /\ FailInv'
  BY <1>1, <1>2 DEF SshInv, FreshInv, FailInv, Unfinished
<1>9. SkipInv'
  BY <1>1, <1>2, <1>3 DEF SshInv, SkipInv, Before, Final
<1>10. CountInv'
  <2>1. /\ result[at].out <= received[at] /\ received[at] \in Nat /\ result[at].out \in Nat
    BY SshAssumption DEF SshInv, CountInv, TypeOK, ResultRow
  <2> QED BY <1>1, <1>2, <2>1 DEF SshInv, CountInv
<1>11. CompleteInv' /\ StopOnErrorHolds' /\ SucceededIsComplete'
  <2>1. exec.status # "succeeded"
    BY <1>1, AtWork DEF SshInv, CompleteInv
  <2> QED BY <1>1, <1>2, <1>3, <2>1 DEF SshInv, CompleteInv, StopOnErrorHolds, SucceededIsComplete, Final
<1> QED BY <1>4, <1>5, <1>6, <1>7, <1>8, <1>9, <1>10, <1>11 DEF SshInv

-----------------------------------------------------------------------------
(* startExecution *)

\* The loops go over the results in the order of the commands.
LEMMA LowestIsLeast ==
  ASSUME NEW S \in SUBSET Commands, S # {}
  PROVE  Lowest(S) \in S /\ \A j \in S : Lowest(S) <= j
<1> DEFINE R == {ss \in Nat \X Nat : ss[1] < ss[2]}
<1>1. IsWellFoundedOn(R, Nat)
  <2>1. OpToRel(<, Nat) = R
    BY DEF OpToRel
  <2> QED BY <2>1, NatLessThanWellFounded
<1>2. S \subseteq Nat
  BY SshAssumption DEF Commands
<1>3. PICK x \in S : \A y \in S : ~(<<y, x>> \in R)
  <2> HIDE DEF R
  <2> QED BY <1>1, <1>2, WFMin
<1>4. \A y \in S : x <= y
  <2>1. \A a, b \in Nat : a < b => <<a, b>> \in R
    OBVIOUS
  <2>2. \A y \in S : ~(y < x)
    BY <1>2, <1>3, <2>1
  <2> QED BY <1>2, <2>2
<1> QED BY <1>3, <1>4 DEF Lowest

\* runCommands writes the execution and its queued results before anything starts.
LEMMA CreateInv ==
  ASSUME SshInv, RunCommands \/ CreateStep \/ CreateThrows
  PROVE  SshInv'
<1>1. /\ adapter = "idle" /\ ops = <<>> /\ Kind = "none" /\ chunks = 0 /\ fin \in Before
      /\ opAt = "none" /\ ~cbError /\ at = 1 /\ at \in Commands
      /\ selected' \subseteq selected
      /\ UNCHANGED <<input, copy, at, received, chunks, timedOut, opVars>>
  <2>1. adapter = "idle" /\ fin \in Before
    BY DEF RunCommands, CreateStep, SaveExecution, SaveQueued, CreateThrows, SshInv, ControlInv, Before
  <2>2. ops = <<>> /\ chunks = 0
    BY <2>1, NoOperation DEF SshInv
  <2> QED BY <2>1, <2>2 DEF RunCommands, CreateStep, SaveExecution, SaveQueued, CreateThrows,
             SshInv, ControlInv, TypeOK, Kind, adapterVars, rowVars, Inserted, Rejected
<1>2. /\ Kind' = Kind /\ UNCHANGED <<ops, opAt, opRead, cbError>>
  BY <1>1 DEF Kind, opVars
<1>3. /\ waiting = IF fin \in FinCalls THEN <<"fin">> ELSE <<>>
      /\ waiting' = IF fin' \in FinCalls THEN <<"fin">> ELSE <<>>
  <2>1. waiting = IF fin \in FinCalls THEN <<"fin">> ELSE <<>>
    BY <1>1, OrdersDiffer DEF SshInv, ControlInv, TypeOK, Orders
  <2>2. CASE RunCommands
    BY <2>1, <2>2, Short DEF RunCommands, FinGoto, FinCalls, Final, FailCalls, Callers
  <2>3. CASE CreateStep \/ CreateThrows
    <3>1. /\ Served("fin") /\ fin \in {"creating", "queueing"}
          /\ \/ Again("fin") /\ fin' \in {"creating", "queueing"}
             \/ Last /\ fin' \in {"adapter", "refused"}
      BY <2>3 DEF CreateStep, SaveExecution, SaveQueued, CreateThrows, FinGoto, Inserted, Rejected
    <3>2. waiting = <<"fin">>
      BY <2>1, <3>1 DEF FinCalls
    <3> QED BY <3>1, <3>2, Short DEF Again, Last, FinCalls, Final, FailCalls, Callers
  <2> QED BY <2>1, <2>2, <2>3
<1>4. /\ \A i \in Commands : /\ result[i].status \in {"none", "queued"}
                             /\ result'[i].status \in {"none", "queued"}
                             /\ result'[i].out \in {0, result[i].out}
      /\ result' \in [Commands -> ResultRow]
      /\ todo' \subseteq Commands
      /\ exec' \in ExecRow /\ exec'.status \in {exec.status, "running"}
      /\ \/ fin' \in Before /\ adapter' = adapter
         \/ fin' = "adapter" /\ adapter' = "connecting" /\ todo' = {}
      /\ fin = "queueing" => \A i \in Commands : result'[i].status = "none" => i \in todo'
      /\ fin' = "queueing" => todo' # {} /\ \A i \in Commands : result'[i].status = "none" => i \in todo'
  <2>1. CASE RunCommands \/ CreateThrows \/ SaveExecution
    <3>1. UNCHANGED result /\ fin' \in Before /\ UNCHANGED adapter
          /\ \/ /\ fin = "creating"
                /\ exec' = [status |-> "running", ended |-> FALSE] /\ todo' = Commands
             \/ fin' # "queueing" /\ UNCHANGED <<exec, todo>>
      BY <2>1 DEF RunCommands, CreateThrows, SaveExecution, FinGoto, Before, rowVars, adapterVars
    <3>2. Commands # {} /\ [status |-> "running", ended |-> FALSE] \in ExecRow
      BY <1>1 DEF ExecRow, ExecStatus
    <3>3. /\ \A i \in Commands : result[i].status \in {"none", "queued"}
          /\ fin = "queueing" => \A i \in Commands : result[i].status = "none" => i \in todo
          /\ result \in [Commands -> ResultRow] /\ todo \subseteq Commands /\ exec \in ExecRow
      BY <1>1 DEF SshInv, TypeOK, RowInv
    <3>4. CASE fin' # "queueing" /\ UNCHANGED <<exec, todo>>
      BY <3>1, <3>3, <3>4
    <3>5. CASE fin = "creating" /\ exec' = [status |-> "running", ended |-> FALSE] /\ todo' = Commands
      BY <3>1, <3>2, <3>3, <3>5
    <3> QED BY <3>1, <3>4, <3>5
  <2>2. CASE SaveQueued
    <3> DEFINE i == Lowest(todo)
               row == [status |-> "queued", out |-> 0]
    <3>1. i \in todo /\ todo \subseteq Commands
      BY <2>2, LowestIsLeast DEF SaveQueued, SshInv, RowInv, TypeOK
    <3>2. /\ result' = [result EXCEPT ![i] = row] /\ todo' = todo \ {i}
          /\ fin = "queueing" /\ UNCHANGED exec
          /\ \/ todo' = {} /\ fin' = "adapter" /\ adapter' = "connecting"
             \/ todo' # {} /\ UNCHANGED <<fin, adapter>>
      BY <2>2 DEF SaveQueued, FinGoto
    <3>3. row \in ResultRow
      BY SshAssumption DEF ResultRow, CommandStatus
    <3> HIDE DEF i
    <3>4. /\ \A j \in Commands : result'[j] = IF j = i THEN row ELSE result[j]
          /\ result' \in [Commands -> ResultRow]
      BY <3>1, <3>2, <3>3 DEF SshInv, TypeOK
    <3> QED BY <1>1, <3>1, <3>2, <3>4 DEF SshInv, TypeOK, RowInv
  <2> QED BY <2>1, <2>2 DEF CreateStep
<1>5. TypeOK'
  BY <1>1, <1>2, <1>3, <1>4 DEF SshInv, TypeOK, Before
<1>6. ControlInv'
  BY <1>1, <1>2, <1>3, <1>4, OrdersDiffer DEF SshInv, ControlInv, Before, Final, FinCalls, FailCalls
<1>7. OpInv'
  BY <1>1, <1>2, <1>4 DEF SshInv, OpInv, Ended
<1>8. RowInv'
  <2>1. CASE fin' \in Before
    BY <1>1, <1>2, <1>4, <2>1 DEF SshInv, RowInv, Before, Final
  <2>2. CASE fin' = "adapter"
    <3>1. fin = "queueing"
      BY <2>2, <1>1 DEF RunCommands, CreateStep, SaveExecution, SaveQueued, CreateThrows, FinGoto, Before
    <3>2. \A i \in Commands : result'[i].status = "queued"
      BY <1>4, <2>2, <3>1 DEF Before
    <3>3. \A i \in Commands : ~(i < 1)
      BY SshAssumption DEF Commands
    <3> QED BY <1>1, <1>2, <1>4, <2>2, <3>2, <3>3 DEF SshInv, RowInv, Before, Final
  <2> QED BY <1>4, <2>1, <2>2
<1>9. FreshInv' /\ FailInv'
  BY <1>1, <1>2, <1>4 DEF SshInv, FreshInv, FailInv, Before
<1>10. SkipInv'
  BY <1>1, <1>2, <1>4 DEF SshInv, SkipInv, Before
<1>11. CountInv'
  <2>1. \A i \in Commands : /\ result[i].out \in Nat /\ received[i] \in Nat
                            /\ result[i].out <= received[i]
    BY SshAssumption DEF SshInv, TypeOK, ResultRow, CountInv
  <2>2. \A i \in Commands : result'[i].out <= received[i] /\ result'[i].out \in Nat
    BY <1>4, <2>1
  <2> QED BY <1>1, <1>2, <1>4, <2>1, <2>2 DEF SshInv, CountInv, Before
<1>12. CompleteInv' /\ StopOnErrorHolds' /\ SucceededIsComplete'
  <2>1. exec.status # "succeeded"
    BY <1>1 DEF SshInv, CompleteInv, Before
  <2> QED BY <1>1, <1>2, <1>4, <2>1 DEF SshInv, CompleteInv, StopOnErrorHolds, SucceededIsComplete, Before
<1> QED BY <1>5, <1>6, <1>7, <1>8, <1>9, <1>10, <1>11, <1>12 DEF SshInv

\* What a step of startExecution after the adapter finds and leaves alone.
LEMMA FinServed ==
  ASSUME SshInv, Served("fin"), fin \in Final \cup FailCalls, UNCHANGED <<input, adapterVars, opVars>>
  PROVE  /\ waiting = IF ops = <<>> THEN <<"fin">> ELSE <<"fin", "op">>
         /\ Again("fin") => waiting' = IF ops = <<>> THEN <<"fin">> ELSE <<"op", "fin">>
         /\ Last => waiting' = IF ops = <<>> THEN <<>> ELSE <<"op">>
         /\ Kind' = Kind /\ Op' = Op
         /\ UNCHANGED <<input, adapter, at, received, chunks, timedOut, ops, opAt, opRead, cbError>>
         /\ adapter \in {"returned", "threw"} /\ fin \notin Before
         /\ fin \in Final => adapter = "returned"
         /\ adapter = "returned" => ops = <<>> /\ at = N
         /\ ops # <<>> => Kind = "chunk" /\ result[at].status \in {"running", "failed"}
         /\ at \in Commands
<1>1. /\ fin \notin Before /\ fin \in FinCalls
      /\ fin \notin Before \cup {"adapter"}
  BY DEF Before, Final, FailCalls, FinCalls
<1>2. /\ adapter \in {"returned", "threw"}
      /\ fin \in Final => adapter = "returned"
      /\ adapter = "returned" => at = N
      /\ at \in Commands
  BY <1>1 DEF SshInv, ControlInv, TypeOK
<1>3. /\ adapter = "returned" => ops = <<>>
      /\ ops # <<>> => Kind = "chunk" /\ result[at].status \in {"running", "failed"}
  BY <1>2, AtWork DEF SshInv, OpInv, Kinds, RowInv
<1>4. /\ waiting = IF ops = <<>> THEN <<"fin">> ELSE <<"fin", "op">>
      /\ Again("fin") => waiting' = IF ops = <<>> THEN <<"fin">> ELSE <<"op", "fin">>
      /\ Last => waiting' = IF ops = <<>> THEN <<>> ELSE <<"op">>
  BY FinCall, OrdersDiffer DEF SshInv, TypeOK, Orders, ControlInv, Again, Last
<1> QED BY <1>1, <1>2, <1>3, <1>4 DEF Kind, Op, adapterVars, opVars

\* Type correctness of a step of startExecution.
LEMMA FinTypes ==
  ASSUME SshInv, Served("fin"), fin \in Final \cup FailCalls, UNCHANGED <<input, adapterVars, opVars>>,
         Again("fin") \/ Last,
         exec' \in ExecRow, result' \in [Commands -> ResultRow], todo' \subseteq Commands,
         copy' \in [exec : ExecRow, result : [Commands -> ResultRow]],
         fin' \in Final \cup FailCalls \cup {"done", "rejected"}, selected' \subseteq selected
  PROVE  TypeOK' /\ OpInv'
<1>1. waiting' \in {<<>>, <<"op">>, <<"fin">>, <<"op", "fin">>, <<"fin", "op">>}
  BY FinServed
<1>2. TypeOK'
  BY <1>1, FinServed DEF SshInv, TypeOK, Final, FailCalls
<1>3. OpInv'
  BY FinServed DEF SshInv, OpInv
<1> QED BY <1>2, <1>3

\* ... and that it still goes with the rest of the execution.
LEMMA FinControl ==
  ASSUME SshInv, Served("fin"), fin \in Final \cup FailCalls, UNCHANGED <<input, adapterVars, opVars>>,
         \/ Again("fin") /\ fin' \in Final \cup FailCalls
         \/ Last /\ fin' \in {"done", "rejected"},
         fin' \in Final => fin \in Final
  PROVE  ControlInv'
<1>1. /\ fin' \notin Before \cup {"adapter", "awaitOp"}
      /\ fin' \in FinCalls <=> fin' \in Final \cup FailCalls
      /\ fin' \in {"done", "rejected"} => fin' \notin Final \cup FailCalls
  BY DEF Before, Final, FailCalls, FinCalls
<1>2. fin \notin Before
  BY DEF Before, Final, FailCalls
<1>3. CASE Again("fin")
  BY <1>1, <1>2, <1>3, FinServed, OrdersDiffer DEF SshInv, ControlInv, Final
<1>4. CASE Last
  BY <1>1, <1>2, <1>4, FinServed, OrdersDiffer DEF SshInv, ControlInv, Final
<1> QED BY <1>3, <1>4

\* The adapter is through: startExecution begins its end, or waits for the operation.
LEMMA AdapterDoneInv ==
  ASSUME SshInv, AdapterReturned \/ AdapterThrew
  PROVE  SshInv'
<1>1. /\ fin = "adapter" /\ at \in Commands
      /\ UNCHANGED <<input, exec, result, copy, todo, adapter, at, received, chunks, timedOut,
                     ops, opAt, opRead, cbError, selected>>
      /\ \/ adapter = "returned" /\ ops = <<>> /\ fin' = "finalGet"
         \/ adapter = "threw" /\ ops = <<>> /\ fin' = "failGet"
         \/ adapter = "threw" /\ ops # <<>> /\ fin' = "awaitOp"
  BY DEF AdapterReturned, AdapterThrew, FinGoto, rowVars, adapterVars, opVars, SshInv, TypeOK
<1>2. Kind' = Kind /\ Op' = Op
  BY <1>1 DEF Kind, Op
<1>3. /\ waiting = IF ops = <<>> THEN <<>> ELSE <<"op">>
      /\ waiting' = IF ops = <<>> THEN <<"fin">> ELSE <<"op">>
  <2>1. waiting = IF ops = <<>> THEN <<>> ELSE <<"op">>
    BY <1>1, OrdersDiffer DEF SshInv, TypeOK, Orders, ControlInv, FinCalls, Final, FailCalls
  <2> QED BY <2>1, Short DEF AdapterReturned, AdapterThrew, Callers
<1>4. TypeOK'
  BY <1>1, <1>3 DEF SshInv, TypeOK
<1>5. ControlInv'
  BY <1>1, <1>3, OrdersDiffer DEF SshInv, ControlInv, Before, Final, FinCalls, FailCalls
<1>6. OpInv'
  BY <1>1, <1>2 DEF SshInv, OpInv
<1>7. RowInv'
  BY <1>1, <1>2 DEF SshInv, RowInv, Written, Before, Final
<1>8. FreshInv' /\ FailInv'
  BY <1>1, <1>2 DEF SshInv, FreshInv, FailInv, Unfinished
<1>9. SkipInv'
  BY <1>1, <1>2 DEF SshInv, SkipInv, Before, Final
<1>10. CountInv'
  BY <1>1, <1>2 DEF SshInv, CountInv, Written
<1>11. CompleteInv' /\ StopOnErrorHolds' /\ SucceededIsComplete'
  BY <1>1 DEF SshInv, CompleteInv, StopOnErrorHolds, SucceededIsComplete
<1> QED BY <1>4, <1>5, <1>6, <1>7, <1>8, <1>9, <1>10, <1>11 DEF SshInv

\* The steps that only read, and those that give up.
LEMMA FinReadInv ==
  ASSUME SshInv, SelectInv,
         ReadExecution \/ ListForFinal \/ ListForFail \/ Relist \/ (FinThrows /\ fin \in Final \cup FailCalls)
  PROVE  SshInv'
<1>1. /\ fin \in Final \cup FailCalls /\ Served("fin") /\ UNCHANGED <<input, adapterVars, opVars>>
      /\ UNCHANGED <<exec, result>> /\ selected' \subseteq selected
      /\ fin' # "rejected" => selected' = selected \ {"fin"}
      /\ \/ ReadExecution /\ Again("fin") /\ fin = "finalGet" /\ fin' = "finalList"
         \/ ReadExecution /\ Again("fin") /\ fin = "failGet" /\ fin' = "failList"
         \/ ListForFinal /\ Again("fin") /\ fin = "finalList" /\ fin' = "finalSave"
         \/ ListForFail /\ Again("fin") /\ fin = "failList" /\ fin' \in {"failRelist", "failFirst"}
         \/ Relist /\ Again("fin") /\ fin = "failRelist" /\ fin' \in {"failSave", "failRest"}
         \/ FinThrows /\ Again("fin") /\ fin \in Final /\ fin' = "failGet"
         \/ FinThrows /\ Last /\ fin' = "rejected"
  BY DEF ReadExecution, ListForFinal, ListForFail, Relist, FinThrows, Rejected, FinGoto,
         Final, FailCalls, rowVars, SelectInv, AtSave
<1>2. /\ todo' = IF fin = "failRelist" /\ fin' # "rejected" THEN Unfinished(result) ELSE todo
      /\ copy'.result = (IF fin \in {"finalList", "failList", "failRelist"} /\ fin' \notin {"rejected", "failGet"}
                           THEN result ELSE copy.result)
      /\ copy' \in [exec : ExecRow, result : [Commands -> ResultRow]]
  <2>1. /\ copy \in [exec : ExecRow, result : [Commands -> ResultRow]]
        /\ exec \in ExecRow /\ result \in [Commands -> ResultRow]
    BY DEF SshInv, TypeOK
  <2>2. CASE ReadExecution
    BY <1>1, <2>1, <2>2 DEF ReadExecution
  <2>3. CASE ListForFinal \/ ListForFail
    <3>1. /\ fin \in {"finalList", "failList"} /\ fin' \in {"finalSave", "failRelist", "failFirst"}
          /\ copy' = [copy EXCEPT !.result = result] /\ UNCHANGED todo
      BY <2>3 DEF ListForFinal, ListForFail, FinGoto
    <3> QED BY <2>1, <3>1
  <2>4. CASE Relist
    <3>1. /\ fin = "failRelist" /\ fin' \in {"failSave", "failRest"}
          /\ copy' = [copy EXCEPT !.result = result] /\ todo' = Unfinished(result)
      BY <2>4 DEF Relist, FinGoto
    <3> QED BY <2>1, <3>1
  <2>5. CASE FinThrows
    <3>1. UNCHANGED <<copy, todo>> /\ fin' \in {"rejected", "failGet"}
          /\ (fin' = "failGet" => fin \in Final)
      BY <2>5 DEF FinThrows, FinGoto, Final
    <3>2. fin \in Final => fin # "failRelist"
      BY DEF Final
    <3> QED BY <2>1, <3>1, <3>2
  <2> QED BY <1>1, <2>2, <2>3, <2>4, <2>5
<1>3. TypeOK' /\ OpInv'
  <2>1. todo' \subseteq Commands
    BY <1>2 DEF Unfinished, SshInv, TypeOK
  <2>2. fin' \in Final \cup FailCalls \cup {"done", "rejected"}
    BY <1>1 DEF Final, FailCalls
  <2> QED BY <1>1, <1>2, <2>1, <2>2, FinTypes DEF SshInv, TypeOK
<1>4. ControlInv'
  <2>1. \/ Again("fin") /\ fin' \in Final \cup FailCalls
        \/ Last /\ fin' \in {"done", "rejected"}
    BY <1>1 DEF Final, FailCalls
  <2>2. fin' \in Final => fin \in Final
    BY <1>1 DEF Final
  <2> QED BY <1>1, <2>1, <2>2, FinControl
<1>5. /\ Kind' = Kind
      /\ UNCHANGED <<input, adapter, at, received, chunks, timedOut, ops, opAt, opRead, cbError>>
      /\ adapter \in {"returned", "threw"} /\ fin \notin Before
      /\ fin \in Final => adapter = "returned"
      /\ adapter = "returned" => ops = <<>> /\ at = N
      /\ ops # <<>> => Kind = "chunk" /\ result[at].status \in {"running", "failed"}
      /\ at \in Commands
  BY <1>1, FinServed
<1>6. RowInv'
  <2>1. fin' \notin Before \cup {"adapter", "awaitOp"}
    BY <1>1 DEF Before
  <2>2. fin = "failList" \/ fin' # "failFirst"
    BY <1>1
  <2>3. fin' \in {"failGet", "failList"} \cup Final => fin \in {"failGet", "failList"} \cup Final
    BY <1>1 DEF Final
  <2>4. Kind' = "chunk" /\ fin' \in {"failGet", "failList", "failFirst"} => fin \in {"failGet", "failList"}
    BY <1>1, <1>5 DEF Kind, Final
  <2> QED BY <1>1, <1>5, <2>1, <2>2, <2>3, <2>4 DEF SshInv, RowInv, Written, Before
<1>7. FreshInv'
  <2>1. CASE ops = <<>>
    BY <1>1, <1>5, <2>1 DEF SshInv, FreshInv, ControlInv
  <2>2. CASE ops # <<>>
    <3>1. waiting = <<"fin", "op">> /\ (Again("fin") => waiting' = <<"op", "fin">>) /\ fin \notin Final
      BY <1>1, <1>5, <2>2, FinServed
    <3>2. fin' = "failRest" => (at \in todo' => result[at].status = "running")
      BY <1>1, <1>2, <1>5, <2>2 DEF Unfinished, Active
    <3> QED BY <1>1, <1>5, <2>2, <3>1, <3>2, OrdersDiffer DEF SshInv, FreshInv, Final
  <2> QED BY <2>1, <2>2
<1>8. FailInv'
  <2>1. CASE ListForFail
    <3>1. fin' = "failFirst" => FinalStatus(result) # "failed" /\ Unfinished(result) # {}
      BY <2>1 DEF ListForFail, FinGoto
    <3> QED BY <1>1, <1>2, <2>1, <3>1 DEF ListForFail, FinGoto, FailInv, Unfinished, FinalStatus
  <2>2. CASE Relist
    BY <1>1, <1>2, <2>2 DEF Relist, FinGoto, FailInv, Unfinished
  <2>3. CASE fin' \notin {"failFirst", "failRest", "failSave", "done"}
    BY <2>3 DEF FailInv
  <2> QED BY <1>1, <2>1, <2>2, <2>3
<1>9. SkipInv'
  <2>1. fin' \in Before \cup {"adapter", "awaitOp", "failGet", "failList"} \cup Final =>
          fin \in {"failGet"} \cup Final
    BY <1>1 DEF Before, Final
  <2> QED BY <1>1, <1>5, <2>1 DEF SshInv, SkipInv
<1>10. CountInv'
  <2>1. fin' \in {"failFirst", "failRest"} => copy'.result = result
    BY <1>1, <1>2 DEF Final
  <2>2. \A i \in Commands : result[i].out <= result[i].out
    BY SshAssumption DEF SshInv, TypeOK, ResultRow
  <2> QED BY <1>1, <1>5, <2>1, <2>2 DEF SshInv, CountInv, Written
<1>11. CompleteInv' /\ StopOnErrorHolds' /\ SucceededIsComplete'
  <2>1. exec.status # "succeeded"
    BY <1>1 DEF SshInv, CompleteInv, Final, FailCalls
  <2>2. fin' = "finalSave" => copy'.result = result
    BY <1>1, <1>2 DEF Final
  <2> QED BY <1>1, <1>5, <2>1, <2>2 DEF SshInv, CompleteInv, StopOnErrorHolds, SucceededIsComplete
<1> QED BY <1>3, <1>4, <1>6, <1>7, <1>8, <1>9, <1>10, <1>11 DEF SshInv

\* The final status is saved.
LEMMA FinEndsInv ==
  ASSUME SshInv, SaveFinal \/ SaveFailed
  PROVE  SshInv'
<1>1. /\ fin \in Final \cup FailCalls /\ Served("fin") /\ UNCHANGED <<input, adapterVars, opVars>>
      /\ UNCHANGED <<result, copy, todo>> /\ fin' = "done" /\ Last
      /\ selected' \subseteq selected
      /\ \/ fin = "finalSave" /\ exec' = [status |-> FinalStatus(copy.result), ended |-> TRUE]
         \/ fin = "failSave" /\ exec' = [status |-> "failed", ended |-> TRUE]
  BY DEF SaveFinal, SaveFailed, Inserted, FinGoto, Final, FailCalls
<1>2. exec' \in ExecRow /\ (exec'.status = "succeeded" => fin = "finalSave" /\ FinalStatus(copy.result) = "succeeded")
  <2>1. FinalStatus(copy.result) \in Ended /\ "failed" # "succeeded"
    BY DEF FinalStatus, Ended
  <2>2. \A s \in Ended : [status |-> s, ended |-> TRUE] \in ExecRow
    BY DEF ExecRow, ExecStatus
  <2>3. CASE fin = "finalSave"
    <3>1. exec' = [status |-> FinalStatus(copy.result), ended |-> TRUE]
      BY <1>1, <2>3
    <3> QED BY <2>1, <2>2, <2>3, <3>1
  <2>4. CASE fin = "failSave"
    <3>1. exec' = [status |-> "failed", ended |-> TRUE]
      BY <1>1, <2>4
    <3> QED BY <2>1, <2>2, <3>1 DEF Ended
  <2> QED BY <1>1, <2>3, <2>4
<1>3. TypeOK' /\ OpInv' /\ ControlInv'
  <2>1. fin' \notin Final
    BY <1>1 DEF Final
  <2> QED BY <1>1, <1>2, <2>1, FinTypes, FinControl DEF SshInv, TypeOK
<1>4. /\ Kind' = Kind
      /\ UNCHANGED <<input, adapter, at, received, chunks, timedOut, ops, opAt, opRead, cbError>>
      /\ adapter \in {"returned", "threw"} /\ fin \notin Before
      /\ fin \in Final => adapter = "returned"
      /\ adapter = "returned" => ops = <<>> /\ at = N
      /\ at \in Commands
  BY <1>1, FinServed
<1>5. RowInv'
  BY <1>1, <1>4 DEF SshInv, RowInv, Written, Before, Final
<1>6. FreshInv'
  BY <1>1, <1>4 DEF SshInv, FreshInv
<1>7. fin = "finalSave" => \A i \in Commands : result[i].status \in {"succeeded", "failed", "skipped"}
  <2> SUFFICES ASSUME fin = "finalSave", NEW i \in Commands
               PROVE  result[i].status \in {"succeeded", "failed", "skipped"}
    OBVIOUS
  <2>1. adapter = "returned" /\ at = N
    BY <1>4 DEF Final
  <2>2. i < at \/ i = at
    BY <2>1, SshAssumption DEF Commands
  <2>3. result[i].status \notin Active /\ result[i].status # "none"
    BY <1>4, <2>1, <2>2 DEF SshInv, RowInv
  <2> QED BY <2>3 DEF SshInv, TypeOK, ResultRow, CommandStatus, Active, Ended
<1>8. FailInv'
  BY <1>1, <1>7 DEF SshInv, FailInv, Unfinished, Active
<1>9. SkipInv'
  BY <1>1, <1>4 DEF SshInv, SkipInv, Before, Final
<1>10. CountInv'
  BY <1>1, <1>4 DEF SshInv, CountInv, Written
<1>11. exec'.status = "succeeded" => adapter = "returned" /\ SucceededIsComplete'
  <2> SUFFICES ASSUME exec'.status = "succeeded" PROVE adapter = "returned" /\ SucceededIsComplete'
    OBVIOUS
  <2>1. fin = "finalSave" /\ copy.result = result /\ adapter = "returned"
    BY <1>2, <1>4 DEF SshInv, CompleteInv, Final
  <2>2. \A i \in Commands : result[i].status # "failed"
    BY <1>2, <2>1 DEF FinalStatus
  <2>3. \A i \in Commands : result[i].status = "succeeded"
    BY <1>7, <2>1, <2>2 DEF SshInv, SkipInv, Final
  <2>4. \A i \in Commands : result[i] = [status |-> "succeeded", out |-> received[i]]
    <3> SUFFICES ASSUME NEW i \in Commands
                 PROVE  result[i] = [status |-> "succeeded", out |-> received[i]]
      OBVIOUS
    <3>1. result[i] \in ResultRow /\ result[i].out = received[i] /\ result[i].status = "succeeded"
      BY <2>3 DEF SshInv, TypeOK, CompleteInv
    <3> QED BY <3>1 DEF ResultRow
  <2> QED BY <1>1, <1>4, <2>1, <2>4 DEF SucceededIsComplete
<1>12. CompleteInv' /\ StopOnErrorHolds' /\ SucceededIsComplete'
  BY <1>1, <1>4, <1>11 DEF SshInv, CompleteInv, StopOnErrorHolds, SucceededIsComplete
<1> QED BY <1>3, <1>5, <1>6, <1>8, <1>9, <1>10, <1>12 DEF SshInv

\* A result written by failExecution: of a command that has not ended, the one at
\* work or one after it.
LEMMA FailWriteInv ==
  ASSUME SshInv, FailFirst \/ FailRest
  PROVE  SshInv'
<1>1. /\ fin \in FailCalls /\ fin \in Final \cup FailCalls /\ Served("fin") /\ Again("fin")
      /\ UNCHANGED <<input, exec, copy, adapterVars, opVars>>
      /\ "fin" \in selected /\ selected' = selected \ {"fin"}
      /\ fin \notin Final
  BY DEF FailFirst, FailRest, Inserted, Final, FailCalls
<1>2. PICK i \in Commands, s \in {"failed", "skipped"} :
        /\ result' = [result EXCEPT ![i] = [copy.result[i] EXCEPT !.status = s]]
        /\ i \in Unfinished(result) /\ \A j \in Unfinished(result) : i <= j
        /\ copy.result[i].status = result[i].status
        /\ \/ /\ fin = "failFirst" /\ fin' = "failRelist" /\ s = "failed" /\ UNCHANGED todo
              /\ \A j \in Commands : result[j].status # "failed"
           \/ /\ fin = "failRest" /\ i \in todo /\ todo' = todo \ {i} /\ todo = Unfinished(result)
              /\ fin' = (IF todo' = {} THEN "failSave" ELSE "failRest")
              /\ s = (IF result[i].status = "queued" THEN "skipped" ELSE "failed")
  <2>1. CASE FailFirst
    <3>1. /\ Unfinished(copy.result) = Unfinished(result) /\ Unfinished(result) # {}
          /\ Unfinished(result) \in SUBSET Commands
          /\ \A j \in Commands : result[j].status # "failed" /\ copy.result[j].status = result[j].status
      BY <2>1 DEF FailFirst, SshInv, FailInv, Unfinished
    <3>2. /\ Lowest(Unfinished(result)) \in Unfinished(result)
          /\ \A j \in Unfinished(result) : Lowest(Unfinished(result)) <= j
      BY <3>1, LowestIsLeast
    <3> QED BY <2>1, <3>1, <3>2 DEF FailFirst, FinGoto
  <2>2. CASE FailRest
    <3>1. /\ todo = Unfinished(result) /\ todo # {} /\ todo \in SUBSET Commands
          /\ \A j \in todo : copy.result[j].status = result[j].status
      BY <2>2 DEF FailRest, SshInv, FailInv, Unfinished
    <3>2. Lowest(todo) \in todo /\ \A j \in todo : Lowest(todo) <= j
      BY <3>1, LowestIsLeast
    <3> QED BY <2>2, <3>1, <3>2 DEF FailRest, FinGoto
  <2> QED BY <2>1, <2>2
<1>3. /\ Kind' = Kind
      /\ UNCHANGED <<input, adapter, at, received, chunks, timedOut, ops, opAt, opRead, cbError>>
      /\ adapter \in {"returned", "threw"} /\ fin \notin Before
      /\ adapter = "returned" => ops = <<>> /\ at = N
      /\ ops # <<>> => Kind = "chunk" /\ result[at].status \in {"running", "failed"}
      /\ waiting = IF ops = <<>> THEN <<"fin">> ELSE <<"fin", "op">>
      /\ waiting' = IF ops = <<>> THEN <<"fin">> ELSE <<"op", "fin">>
      /\ at \in Commands
  BY <1>1, FinServed
<1>4. /\ result \in [Commands -> ResultRow] /\ copy.result \in [Commands -> ResultRow]
      /\ copy.result[i].out <= result[i].out /\ copy.result[i].out \in 0 .. MaxChunks
  BY <1>2 DEF SshInv, TypeOK, CountInv, ResultRow
<1>5. /\ result' \in [Commands -> ResultRow]
      /\ \A j \in Commands : j # i => result'[j] = result[j]
      /\ result'[i].status = s /\ result'[i].out = copy.result[i].out
  <2>1. [copy.result[i] EXCEPT !.status = s] \in ResultRow
    BY <1>4 DEF ResultRow, CommandStatus, Ended
  <2>2. [copy.result[i] EXCEPT !.status = s].status = s /\ [copy.result[i] EXCEPT !.status = s].out = copy.result[i].out
    BY <1>4 DEF ResultRow
  <2> QED BY <1>2, <1>4, <2>1, <2>2
<1>6. /\ result[i].status \in Active /\ s \notin Active
      /\ i >= at
      /\ i > at => result[i].status = "queued"
      /\ \A j \in Commands : j < i => result[j].status \notin Active
  <2>1. result[i].status \in Active /\ s \notin Active
    BY <1>2 DEF Unfinished, Active
  <2>2. ~(i < at)
    BY <1>3, <2>1 DEF SshInv, RowInv
  <2>3. i > at => result[i].status = "queued"
    BY <2>1 DEF SshInv, RowInv, Active
  <2>4. \A j \in Commands : j < i => result[j].status \notin Active
    BY <1>2, SshAssumption DEF Unfinished, Commands
  <2> QED BY <1>3, <2>1, <2>2, <2>3, <2>4, SshAssumption DEF Commands
<1>7. fin' \in {"failRelist", "failSave", "failRest"}
  BY <1>2
<1>8. TypeOK' /\ OpInv' /\ ControlInv'
  <2>1. fin' \in FailCalls /\ fin' \notin Final
    BY <1>7 DEF FailCalls, Final
  <2>2. todo' \subseteq Commands
    BY <1>2 DEF SshInv, TypeOK
  <2> QED BY <1>1, <1>5, <2>1, <2>2, FinTypes, FinControl DEF SshInv, TypeOK
<1>9. RowInv'
  <2>1. fin' \notin Before \cup Final \cup {"adapter", "awaitOp", "failGet", "failList", "failFirst"}
    BY <1>7 DEF Before, Final
  <2>2. \A j \in Commands : j < at => result'[j] = result[j]
    BY <1>3, <1>5, <1>6, SshAssumption DEF Commands
  <2>3. result'[at].status \in Active => result[at].status \in Active /\ i # at
    BY <1>3, <1>5, <1>6
  <2>4. result'[at].status \in Active => \A j \in Commands : j > at => result'[j].status # "failed"
    <3> SUFFICES ASSUME result'[at].status \in Active PROVE FALSE
      OBVIOUS
    <3>1. i > at
      BY <1>3, <1>6, <2>3, SshAssumption DEF Commands
    <3> QED BY <1>3, <1>6, <2>3, <3>1
  <2>5. Kind' = "chunk" => result'[at].status \in {"running", "failed"}
    <3>1. CASE i = at /\ ops # <<>>
      <4>1. result[at].status = "running"
        BY <1>3, <1>6, <3>1 DEF Active
      <4> QED BY <1>2, <1>5, <3>1, <4>1
    <3>2. CASE i # at /\ ops # <<>>
      BY <1>3, <1>5, <3>2
    <3> QED BY <1>3, <3>1, <3>2 DEF Kind
  <2> QED BY <1>1, <1>3, <1>5, <1>6, <1>7, <2>1, <2>2, <2>4, <2>5 DEF SshInv, RowInv, Written, Before, Active
<1>10. FreshInv'
  <2>1. CASE ops = <<>>
    BY <1>3, <2>1 DEF SshInv, ControlInv, FreshInv
  <2>2. CASE ops # <<>> /\ i = at
    <3>1. result'[at].status # "running" /\ result[at].status = "running"
      BY <1>3, <1>5, <1>6, <2>2 DEF Active
    <3>2. opAt # "save" /\ (fin' = "failRest" => at \notin todo')
      BY <1>1, <1>2, <1>3, <2>2, OrdersDiffer DEF SshInv, FreshInv
    <3> QED BY <1>3, <1>7, <2>2, <3>1, <3>2 DEF FreshInv
  <2>3. CASE ops # <<>> /\ i # at
    <3>1. i > at
      BY <1>3, <1>6, <2>3, SshAssumption DEF Commands
    <3>2. result[at].status \notin Active
      BY <1>3, <1>6, <3>1
    <3>3. fin' = "failRest" => at \notin todo'
      BY <1>2, <3>2 DEF Unfinished
    <3>4. result'[at] = result[at] /\ result[at].status # "running"
      BY <1>3, <1>5, <2>3, <3>2 DEF Active
    <3> QED BY <1>3, <1>7, <2>3, <3>3, <3>4 DEF SshInv, FreshInv
  <2> QED BY <2>1, <2>2, <2>3
<1>11. FailInv'
  <2>1. Unfinished(result') = Unfinished(result) \ {i}
    BY <1>5, <1>6 DEF Unfinished
  <2>2. fin' \in {"failRest", "failSave"} => todo' = Unfinished(result') /\ (fin' = "failSave" <=> todo' = {})
    BY <1>2, <2>1
  <2>3. \A j \in todo' : fin' = "failRest" => copy.result[j].status = result'[j].status
    BY <1>2, <1>5 DEF SshInv, FailInv, Unfinished
  <2> QED BY <1>1, <1>7, <2>2, <2>3 DEF FailInv
<1>12. SkipInv'
  <2>1. fin' \notin Before \cup {"adapter", "awaitOp", "failGet", "failList"} \cup Final
    BY <1>7 DEF Before, Final
  <2>2. ASSUME input.stopOnError, NEW j \in Commands, j < at, result'[j].status = "failed"
        PROVE  result'[at].status \in {"queued", "skipped"} /\ Kind \in {"none", "skipped"}
    <3>1. result'[j] = result[j]
      BY <1>3, <1>5, <1>6, <2>2, SshAssumption DEF Commands
    <3>2. result[at].status \in {"queued", "skipped"} /\ Kind \in {"none", "skipped"}
      BY <2>2, <3>1 DEF SshInv, SkipInv
    <3>3. CASE i = at
      BY <1>2, <1>5, <1>6, <2>2, <3>1, <3>2, <3>3 DEF Active
    <3>4. CASE i # at
      BY <1>3, <1>5, <3>2, <3>4
    <3> QED BY <3>2, <3>3, <3>4
  <2> QED BY <1>3, <2>1, <2>2 DEF SkipInv
<1>13. CountInv'
  <2>1. \A j \in Commands : /\ result[j].out \in Nat /\ received[j] \in Nat /\ copy.result[j].out \in Nat
                            /\ result'[j].out \in Nat /\ result[j].out <= received[j]
    BY <1>5, SshAssumption DEF SshInv, TypeOK, ResultRow, CountInv
  <2>2. \A j \in Commands : result'[j].out <= result[j].out /\ copy.result[j].out <= result'[j].out
    BY <1>2, <1>4, <1>5, <2>1 DEF SshInv, CountInv
  <2>3. chunks \in Nat
    BY SshAssumption DEF SshInv, TypeOK
  <2>4. (Kind = "chunk" /\ Written)' = (Kind = "chunk" /\ Written)
    BY <1>3 DEF Written
  <2>5. result'[at].out + chunks <= received[at] + (IF Kind = "chunk" /\ Written THEN 1 ELSE 0)
    <3>1. result[at].out + chunks <= received[at] + (IF Kind = "chunk" /\ Written THEN 1 ELSE 0)
      BY DEF SshInv, CountInv
    <3> QED BY <1>3, <2>1, <2>2, <2>3, <3>1
  <2>6. \A j \in Commands : result'[j].out <= received[j]
    BY <2>1, <2>2
  <2> QED BY <1>1, <1>3, <2>2, <2>4, <2>5, <2>6 DEF SshInv, CountInv
<1>14. CompleteInv' /\ SucceededIsComplete'
  <2>1. exec.status # "succeeded"
    BY <1>1 DEF SshInv, CompleteInv, FailCalls
  <2> QED BY <1>1, <1>3, <1>5, <1>7, <2>1 DEF SshInv, CompleteInv, SucceededIsComplete
<1>15. StopOnErrorHolds'
  <2> SUFFICES ASSUME input.stopOnError, NEW j \in Commands, NEW k \in Commands, j < k,
                      result'[j].status = "failed"
               PROVE  result'[k].status \in {"none", "queued", "skipped"}
    BY <1>1 DEF StopOnErrorHolds
  <2>1. CASE j # i /\ k # i
    BY <1>5, <2>1 DEF SshInv, StopOnErrorHolds
  <2>2. CASE k = i
    <3>1. j # i /\ result[j].status = "failed"
      BY <1>5, <2>2, SshAssumption DEF Commands
    <3>2. result[k].status \in {"none", "queued", "skipped"} /\ fin = "failRest"
      BY <1>2, <3>1 DEF SshInv, StopOnErrorHolds
    <3> QED BY <1>2, <1>5, <1>6, <2>2, <3>2 DEF Active
  <2>3. CASE j = i
    <3>1. k > at /\ k # i
      BY <1>3, <1>6, <2>3, SshAssumption DEF Commands
    <3>2. result'[k] = result[k] /\ result[k].status \in {"none", "queued", "skipped", "failed"}
      BY <1>5, <3>1 DEF SshInv, RowInv
    <3>3. result[k].status # "failed"
      <4>1. CASE fin = "failFirst"
        BY <1>2, <4>1
      <4>2. CASE fin = "failRest"
        <5>1. result[i].status # "queued" /\ i = at
          BY <1>2, <1>3, <1>5, <1>6, <2>3, <4>2, SshAssumption DEF Commands
        <5> QED BY <1>6, <3>1, <5>1 DEF SshInv, RowInv
      <4> QED BY <1>2, <4>1, <4>2
    <3> QED BY <3>2, <3>3
  <2> QED BY <2>1, <2>2, <2>3
<1> QED BY <1>8, <1>9, <1>10, <1>11, <1>12, <1>13, <1>14, <1>15 DEF SshInv

-----------------------------------------------------------------------------
(* The two calls of a save *)

\* The SELECT of a save leaves everything but the turn of its caller.
LEMMA SelectStepInv ==
  ASSUME SshInv, NEW p \in Callers, Select(p)
  PROVE  SshInv'
<1>1. /\ Served(p) /\ Again(p) /\ AtSave(p) /\ p \notin selected
      /\ selected' = selected \cup {p} /\ p \in {"op", "fin"}
      /\ UNCHANGED <<input, exec, result, fin, copy, todo, adapter, at, received, chunks, timedOut,
                     ops, opAt, opRead, cbError>>
  BY DEF Select, Callers, startVars, adapterVars, opVars
<1>2. Kind' = Kind /\ Op' = Op /\ Written' = Written
  BY <1>1 DEF Kind, Op, Written
<1>3. \/ waiting = <<p>> /\ waiting' = <<p>>
      \/ p = "op" /\ waiting = <<"op", "fin">> /\ waiting' = <<"fin", "op">>
      \/ p = "fin" /\ waiting = <<"fin", "op">> /\ waiting' = <<"op", "fin">>
  BY <1>1, OpCall, FinCall DEF Again, SshInv, TypeOK, Orders
<1>4. TypeOK'
  BY <1>1, <1>3 DEF SshInv, TypeOK, Callers
<1>5. ControlInv' /\ OpInv'
  BY <1>1, <1>2, <1>3, OrdersDiffer DEF SshInv, ControlInv, OpInv
<1>6. FreshInv'
  <2>1. ops # <<>> /\ fin \in FailCalls => waiting \in {<<"op", "fin">>, <<"fin", "op">>}
    BY OrdersDiffer DEF SshInv, ControlInv, TypeOK, FinCalls
  <2>2. CASE p = "op"
    BY <1>1, <1>3, <2>1, <2>2, OrdersDiffer DEF SshInv, FreshInv, FailCalls, AtSave
  <2>3. CASE p = "fin"
    BY <1>1, <1>3, <2>1, <2>3, OrdersDiffer DEF SshInv, FreshInv, FailCalls, AtSave
  <2> QED BY <1>1, <2>2, <2>3
<1>7. RowInv' /\ FailInv' /\ SkipInv' /\ CountInv'
  BY <1>1, <1>2 DEF SshInv, RowInv, FailInv, SkipInv, CountInv, Unfinished
<1>8. CompleteInv' /\ StopOnErrorHolds' /\ SucceededIsComplete'
  BY <1>1 DEF SshInv, CompleteInv, StopOnErrorHolds, SucceededIsComplete
<1> QED BY <1>4, <1>5, <1>6, <1>7, <1>8 DEF SshInv

\* A caller that has had its SELECT makes no other call before the INSERT.
LEMMA SelectKept ==
  ASSUME SshInv, SelectInv, [Next]_vars
  PROVE  SelectInv'
<1>1. /\ "op" \in selected => opAt \in {"save", "touch"} /\ ops # <<>>
      /\ "fin" \in selected => fin \in FinCalls \ {"finalGet", "finalList", "failGet", "failList", "failRelist"}
      /\ selected \subseteq {"op", "fin"}
  BY DEF SshInv, SelectInv, AtSave, TypeOK, Callers, ControlInv, FinCalls, Final, FailCalls
<1> USE DEF SelectInv, AtSave, Inserted, Rejected, rowVars, startVars, adapterVars, opVars, FinGoto
<1>2. CASE \E p \in Callers : Select(p)
  BY <1>2 DEF Select
<1>3. CASE RunCommands \/ CreateStep \/ CreateThrows
  BY <1>1, <1>3 DEF RunCommands, CreateStep, SaveExecution, SaveQueued, CreateThrows
<1>4. CASE Connected \/ Output \/ Complete \/ NextCommand
  <2>1. UNCHANGED <<fin, selected>> /\ (opAt' = opAt \/ (ops = <<>> /\ opAt' = "list"))
    <3>1. ASSUME NEW kind, Enqueue(kind, at)
          PROVE  opAt' = opAt \/ (ops = <<>> /\ opAt' = "list")
      BY <3>1 DEF Enqueue
    <3>2. \/ \E kind : Enqueue(kind, at)
          \/ opAt' = opAt
      BY <1>4 DEF Connected, Output, Complete, NextCommand
    <3>3. UNCHANGED <<fin, selected>>
      BY <1>4 DEF Connected, Output, Complete, NextCommand
    <3> QED BY <3>1, <3>2, <3>3
  <2> QED BY <1>1, <2>1
<1>5. CASE ConnectionFails \/ TimeOut \/ ChannelClose
  BY <1>5 DEF ConnectionFails, TimeOut, ChannelClose
<1>6. CASE OpStep \/ OpThrows
  BY <1>1, <1>6 DEF OpStep, OpThrows, ListResult, SaveResult, GetExecution, TouchExecution, OpEnds
<1>7. CASE FinStep
  BY <1>1, <1>7 DEF FinStep, AdapterReturned, AdapterThrew, ReadExecution, ListForFinal, SaveFinal,
     ListForFail, FailFirst, Relist, FailRest, SaveFailed
<1>8. CASE FinThrows
  BY <1>1, <1>8 DEF FinThrows
<1>9. CASE UNCHANGED vars
  BY <1>9 DEF vars
<1> QED BY <1>2, <1>3, <1>4, <1>5, <1>6, <1>7, <1>8, <1>9 DEF Next

-----------------------------------------------------------------------------
(* The theorems *)

LEMMA SshInit == Init => SshInv /\ SelectInv
<1> SUFFICES ASSUME Init PROVE SshInv /\ SelectInv
  OBVIOUS
<1>1. /\ 1 \in Commands /\ 0 \in 0 .. MaxChunks
      /\ NoResult \in ResultRow /\ NoExec \in ExecRow
      /\ NoResult.status = "none" /\ NoResult.out = 0 /\ NoExec.status = "none"
  BY SshAssumption DEF Commands, NoResult, NoExec, ResultRow, ExecRow, CommandStatus, ExecStatus
<1>2. /\ result = [i \in Commands |-> NoResult] /\ received = [i \in Commands |-> 0]
      /\ \A i \in Commands : result[i] = NoResult /\ received[i] = 0
      /\ Kind = "none"
  BY DEF Init, Kind
<1>3. NoRows \in [exec : ExecRow, result : [Commands -> ResultRow]]
  BY <1>1 DEF NoRows
<1>4. TypeOK
  <2>1. result \in [Commands -> ResultRow] /\ received \in [Commands -> 0 .. MaxChunks]
    BY <1>1, <1>2
  <2>2. ops \in Seq([kind : {"start", "chunk", "skipped"} \cup Ended, index : Commands]) /\ Len(ops) <= 1
    <3>1. ops = <<>> /\ Len(<<>>) <= 1
      BY DEF Init
    <3> QED BY <3>1
  <2>3. opRead \in [row : ResultRow, exec : ExecRow]
    BY <1>1 DEF Init
  <2> QED BY <1>1, <1>3, <2>1, <2>2, <2>3 DEF Init, TypeOK
<1>5. ControlInv /\ OpInv
  BY <1>1, <1>2, OrdersDiffer DEF Init, ControlInv, OpInv, Before, Final, FinCalls, FailCalls, Ended
<1>6. RowInv
  BY <1>1, <1>2 DEF Init, RowInv, Before, Final, Active
<1>7. FreshInv /\ FailInv
  BY DEF Init, FreshInv, FailInv
<1>8. SkipInv
  BY <1>1, <1>2 DEF Init, SkipInv
<1>9. CountInv
  BY <1>1, <1>2 DEF Init, CountInv, Written
<1>10. CompleteInv /\ StopOnErrorHolds /\ SucceededIsComplete
  BY <1>1, <1>2 DEF Init, CompleteInv, StopOnErrorHolds, SucceededIsComplete
<1>11. SelectInv
  BY DEF Init, SelectInv
<1> QED BY <1>4, <1>5, <1>6, <1>7, <1>8, <1>9, <1>10, <1>11 DEF SshInv

LEMMA SshNext == SshInv /\ SelectInv /\ [Next]_vars => (SshInv /\ SelectInv)'
<1> SUFFICES ASSUME SshInv, SelectInv, [Next]_vars PROVE SshInv' /\ SelectInv'
  OBVIOUS
<1> SUFFICES SshInv'
  BY SelectKept
<1>0. CASE \E p \in Callers : Select(p)
  BY <1>0, SelectStepInv
<1>1. CASE RunCommands \/ CreateStep \/ CreateThrows
  BY <1>1, CreateInv
<1>2. CASE Connected \/ ConnectionFails \/ TimeOut \/ ChannelClose
  BY <1>2, ConnectedInv, AdapterEndsInv
<1>3. CASE Output \/ Complete \/ NextCommand
  BY <1>3, OutputInv, CallbackInv
<1>4. CASE OpStep \/ OpThrows
  <2>1. CASE TouchExecution
    <3>1. Kind \in {"chunk", "start"} \cup Ended \cup {"skipped"}
      BY <2>1, TouchEffect, AtWork DEF Kinds
    <3> QED BY <2>1, <3>1, TouchChunkInv, TouchStartInv, TouchEndInv
  <2> QED BY <1>4, <2>1, OpReadInv, SaveResultInv, OpThrowsInv DEF OpStep
<1>5. CASE FinStep \/ FinThrows
  <2>1. CASE FinThrows
    <3>1. fin \in FinCalls
      BY <2>1, OrdersDiffer, FinCall DEF FinThrows, Rejected, SshInv, TypeOK, Orders, ControlInv
    <3>2. fin \in Final \cup FailCalls
      BY <2>1, <3>1 DEF FinThrows, FinCalls
    <3> QED BY <2>1, <3>2, FinReadInv
  <2> QED BY <1>5, <2>1, AdapterDoneInv, FinReadInv, FinEndsInv, FailWriteInv DEF FinStep
<1>6. CASE UNCHANGED vars
  <2>1. /\ UNCHANGED <<input, exec, result, fin, copy, todo, adapter, at, received, chunks, timedOut,
                       ops, opAt, opRead, cbError, waiting, selected>>
    BY <1>6 DEF vars, rowVars, startVars, adapterVars, opVars
  <2>2. Kind' = Kind /\ Op' = Op
    BY <2>1 DEF Kind, Op
  <2> QED BY <2>1, <2>2 DEF SshInv, TypeOK, ControlInv, OpInv, RowInv, FreshInv, FailInv, SkipInv,
             CountInv, CompleteInv, StopOnErrorHolds, SucceededIsComplete, Written, Unfinished
<1> QED BY <1>0, <1>1, <1>2, <1>3, <1>4, <1>5, <1>6 DEF Next

\* The rows, the adapter and the operation queue keep their types for every number of
\* commands: never two operations are queued, never two calls of one caller wait.
THEOREM TypeCorrect == Spec => []TypeOK
<1>1. SshInv => TypeOK
  BY DEF SshInv
<1> QED BY <1>1, SshInit, SshNext, PTL DEF Spec

\* However commands, timeouts, channel errors and rejected saves interleave, no
\* command behind a failed one is run when the execution is to stop on errors.
THEOREM StopsOnError == Spec => []StopOnErrorHolds
<1>1. SshInv => StopOnErrorHolds
  BY DEF SshInv
<1> QED BY <1>1, SshInit, SshNext, PTL DEF Spec

\* Once startExecution is through every command has ended: no operation that ran
\* beside failExecution has put a result back to running.
THEOREM EveryResultSettles == Spec => []ResultsSettle
<1>1. SshInv => ResultsSettle
  BY DEF SshInv, FailInv, ResultsSettle
<1> QED BY <1>1, SshInit, SshNext, PTL DEF Spec

\* An execution reported as succeeded has run each command to success, with all of
\* the output it wrote.
THEOREM SuccessIsComplete == Spec => []SucceededIsComplete
<1>1. SshInv => SucceededIsComplete
  BY DEF SshInv
<1> QED BY <1>1, SshInit, SshNext, PTL DEF Spec

\* After startExecution has failed an execution, the output that still arrives reopens
\* the row of the execution at most (finding ssh_late): no command's result changes its
\* status, and after an adapter that returned nothing is written any more.
LateOutputOnly ==
  [][fin = "done" =>
       /\ \A i \in Commands : result'[i].status = result[i].status
       /\ exec' # exec => Kind = "chunk" /\ adapter = "threw"]_vars

LEMMA LateStep ==
  ASSUME SshInv, [Next]_vars, fin = "done"
  PROVE  /\ \A i \in Commands : result'[i].status = result[i].status
         /\ exec' # exec => Kind = "chunk" /\ adapter = "threw"
<1>1. /\ ~RunCommands /\ ~CreateStep /\ ~CreateThrows /\ ~FinStep
      /\ ~FinThrows
  <2>1. ~FinThrows
    BY FinCall, OrdersDiffer DEF FinThrows, Rejected, SshInv, TypeOK, Orders, ControlInv, FinCalls, Final, FailCalls
  <2> QED BY <2>1 DEF RunCommands, CreateStep, SaveExecution, SaveQueued, CreateThrows, FinStep, AdapterReturned,
     AdapterThrew, ReadExecution, ListForFinal, SaveFinal, ListForFail, FailFirst, Relist, FailRest,
     SaveFailed, Final, FailCalls
<1>2. CASE UNCHANGED <<exec, result>>
  BY <1>2
<1>3. CASE SaveResult \/ TouchExecution
  <2>1. Kind \in Kinds /\ ops # <<>> /\ Op.index = at /\ Kind = Op.kind
    BY <1>3, AtWork DEF SaveResult, TouchExecution, SshInv, ControlInv, OpInv, Kind
  <2>2. adapter \in {"returned", "threw"}
    BY DEF SshInv, ControlInv, Before
  <2>3. Kind = "chunk" /\ adapter = "threw"
    BY <2>1, <2>2 DEF SshInv, OpInv, Kinds
  <2>4. result[at].status = "failed"
    BY <2>3 DEF SshInv, RowInv, FailInv, Unfinished, Active, TypeOK
  <2>5. CASE SaveResult
    <3>1. opRead.row = result[at] /\ result' = [result EXCEPT ![at] = Updated(opRead.row)] /\ UNCHANGED exec
      BY <2>1, <2>5 DEF SaveResult, SshInv, FreshInv
    <3>2. Updated(opRead.row).status = "failed"
      <4>1. result[at] \in ResultRow
        BY <2>1, AtWork DEF SshInv, TypeOK
      <4> QED BY <2>1, <2>3, <2>4, <3>1, <4>1 DEF Updated, Ended, ResultRow
    <3> QED BY <2>4, <3>1, <3>2 DEF SshInv, TypeOK
  <2>6. CASE TouchExecution
    BY <2>3, <2>6 DEF TouchExecution
  <2> QED BY <1>3, <2>5, <2>6
<1>4. UNCHANGED <<exec, result>> \/ SaveResult \/ TouchExecution
  BY <1>1 DEF Next, vars, rowVars, Select, Connected, ConnectionFails, TimeOut, Output, ChannelClose, Complete,
     NextCommand, OpStep, OpThrows, ListResult, GetExecution
<1> QED BY <1>2, <1>3, <1>4

THEOREM OnlyOutputIsLate == Spec => LateOutputOnly
<1>1. LateOutputOnly <=>
        [][fin = "done" =>
             /\ \A i \in Commands : result'[i].status = result[i].status
             /\ exec' # exec => Kind = "chunk" /\ adapter = "threw"]_vars
  BY DEF LateOutputOnly
<1> QED BY <1>1, SshInit, SshNext, LateStep, PTL DEF Spec
=============================================================================
