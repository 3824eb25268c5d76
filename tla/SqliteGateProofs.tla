-------------------------- MODULE SqliteGateProofs --------------------------
(***************************************************************************)
(* Proofs about SqliteGate for every set of callers and every bound: its    *)
(* types, that calls settle in order, that quitting loses no earlier call,  *)
(* that maintenance stays out of transactions, and that the gate            *)
(* implements the serial store.                                            *)
(***************************************************************************)
EXTENDS SqliteGate, SequenceTheorems, TLAPS

Waiting(d) == \E i \in DOMAIN gate : gate[i] = d

Users == Callers \cup Background

-----------------------------------------------------------------------------
(* The gate as a queue *)

\* A user that does not wait yet goes to the end of the queue.
LEMMA EnterQueue ==
  ASSUME TypeOK, NEW d \in Users, ~Waiting(d), gate' = Append(gate, d)
  PROVE  /\ gate' \in Seq(Users)
         /\ \A i, j \in DOMAIN gate' : gate'[i] = gate'[j] => i = j
         /\ gate' # <<>>
         /\ gate # <<>> => Head(gate') = Head(gate)
         /\ \A e : Waiting(e)' <=> Waiting(e) \/ e = d
         /\ DOMAIN gate' = DOMAIN gate \cup {Len(gate) + 1}
         /\ \A i \in DOMAIN gate : gate'[i] = gate[i]
         /\ gate'[Len(gate) + 1] = d
         /\ \A i \in DOMAIN gate : i < Len(gate) + 1
<1>1. gate \in Seq(Users) /\ Len(gate) \in Nat /\ DOMAIN gate = 1 .. Len(gate)
  BY DEF TypeOK, Users
<1>2. /\ gate' \in Seq(Users) /\ Len(gate') = Len(gate) + 1
      /\ gate'[Len(gate) + 1] = d
      /\ \A i \in 1 .. Len(gate) : gate'[i] = gate[i]
  BY <1>1, AppendProperties
<1>3. DOMAIN gate' = 1 .. (Len(gate) + 1)
  BY <1>2
<1>4. \A i, j \in DOMAIN gate' : gate'[i] = gate'[j] => i = j
  BY <1>1, <1>2, <1>3 DEF TypeOK, Waiting
<1>5. \A e : Waiting(e)' <=> Waiting(e) \/ e = d
  BY <1>1, <1>2, <1>3 DEF Waiting
<1>6. gate' # <<>>
  BY <1>1, <1>2
<1>7. ASSUME gate # <<>> PROVE Head(gate') = Head(gate)
  <2>1. Len(gate) >= 1
    BY <1>1, <1>7, EmptySeq
  <2> QED BY <1>1, <1>2, <1>6, <2>1
<1> QED BY <1>1, <1>2, <1>3, <1>4, <1>5, <1>6, <1>7

\* The user at the head leaves; the others move up.
LEMMA LeaveQueue ==
  ASSUME TypeOK, gate # <<>>, gate' = Tail(gate)
  PROVE  /\ gate' \in Seq(Users)
         /\ \A i, j \in DOMAIN gate' : gate'[i] = gate'[j] => i = j
         /\ \A e : Waiting(e)' <=> Waiting(e) /\ e # Head(gate)
         /\ \A i \in DOMAIN gate : i # 1 => i - 1 \in DOMAIN gate' /\ gate'[i - 1] = gate[i]
         /\ 1 \in DOMAIN gate /\ gate[1] = Head(gate)
<1>1. gate \in Seq(Users) /\ Len(gate) \in Nat /\ DOMAIN gate = 1 .. Len(gate) /\ Len(gate) >= 1
  BY EmptySeq DEF TypeOK, Users
<1>2. /\ gate' \in Seq(Users) /\ Len(gate') = Len(gate) - 1
      /\ \A i \in 1 .. (Len(gate) - 1) : gate'[i] = gate[i + 1]
      /\ Head(gate) = gate[1]
  BY <1>1, HeadTailProperties
<1>3. DOMAIN gate' = 1 .. (Len(gate) - 1)
  BY <1>2
<1>4. \A i, j \in DOMAIN gate' : gate'[i] = gate'[j] => i = j
  BY <1>1, <1>2, <1>3 DEF TypeOK
<1>5. \A i \in DOMAIN gate : i # 1 => i - 1 \in DOMAIN gate' /\ gate'[i - 1] = gate[i]
  BY <1>1, <1>2, <1>3
<1>6. ASSUME NEW e, Waiting(e), e # Head(gate) PROVE Waiting(e)'
  BY <1>1, <1>2, <1>5, <1>6 DEF Waiting
<1>7. ASSUME NEW e, Waiting(e)' PROVE Waiting(e) /\ e # Head(gate)
  <2>1. PICK i \in DOMAIN gate' : gate'[i] = e
    BY <1>7 DEF Waiting
  <2>2. i + 1 \in DOMAIN gate /\ gate[i + 1] = e /\ i + 1 # 1 /\ 1 \in DOMAIN gate
    BY <1>1, <1>2, <1>3, <2>1
  <2> QED BY <1>2, <2>2 DEF Waiting, TypeOK
<1> QED BY <1>1, <1>2, <1>4, <1>5, <1>6, <1>7

-----------------------------------------------------------------------------
(* The holder of the gate *)

\* Who waits at the gate and who may pass by: a call waits until it settles, the
\* owner of the open transaction is at the head, and only its statements bypass.
TurnInv ==
  /\ \A c \in Callers : Waiting(c) <=> pc[c] \in {"called"} \cup Inside
  /\ Waiting("quit") => phase \in {"closing", "exited"}
  /\ Waiting("maintenance") => maint # <<>>
  /\ \A d : d \in direct <=> d \in Callers /\ pc[d] = "calling"
  /\ Alive => \A c \in Callers : pc[c] \in Inside => token = c
  /\ token # NoCaller => pc[token] \in Inside /\ gate # <<>> /\ Head(gate) = token

\* A statement is called only while the body has one left.
CountInv == \A c \in Callers : pc[c] = "calling" => writes[c] < MaxCalls

GateInv == TypeOK /\ TurnInv /\ CountInv

LEMMA GateInit == Init => GateInv
<1> SUFFICES ASSUME Init PROVE GateInv
  OBVIOUS
<1>1. TypeOK
  BY BoundsAssumption DEF Init, TypeOK
<1>2. TurnInv
  BY DEF Init, TurnInv, Waiting, Inside
<1>3. CountInv
  BY DEF Init, CountInv
<1> QED BY <1>1, <1>2, <1>3 DEF GateInv

\* A user whose turn it is without passing by is at the head, and no transaction
\* but its own is open.
LEMMA AtHead ==
  ASSUME GateInv, NEW d \in Users, d \notin direct, Turn(d)
  PROVE  gate # <<>> /\ Head(gate) = d /\ token \in {NoCaller, d}
  BY DEF GateInv, TurnInv, Turn

\* Only the owner of the open transaction passes by the queue.
LEMMA EnterOutside ==
  ASSUME GateInv, NEW d \in Users, d \in Callers => pc[d] = "idle", Enter(d)
  PROVE  gate' = Append(gate, d) /\ direct' = direct
<1>1. Store(d) = NoCaller
  BY DEF Store, Inside
<1> QED BY <1>1 DEF Enter, IsTransactionOwner

LEMMA CallKeeps ==
  ASSUME GateInv, NEW c \in Callers, Call(c)
  PROVE  GateInv'
<1> USE DEF GateInv
<1>1. pc[c] = "idle" /\ ~Waiting(c) /\ c \in Users
  BY DEF Call, TurnInv, Inside, Users
<1>2. gate' = Append(gate, c) /\ direct' = direct
  BY <1>1, EnterOutside DEF Call
<1>3. /\ gate' \in Seq(Users)
      /\ \A i, j \in DOMAIN gate' : gate'[i] = gate'[j] => i = j
      /\ gate' # <<>>
      /\ gate # <<>> => Head(gate') = Head(gate)
      /\ \A e : Waiting(e)' <=> Waiting(e) \/ e = c
  BY <1>1, <1>2, EnterQueue
<1>4. order' \in Seq(Callers)
  BY AppendProperties DEF Call, TypeOK
<1>5. pc' = [pc EXCEPT ![c] = "called"]
  BY DEF Call, Goto
<1>6. TypeOK'
  BY <1>2, <1>3, <1>4, <1>5 DEF Call, TypeOK, Users, disk, upkeep, life
<1>7. TurnInv'
  BY <1>1, <1>2, <1>3, <1>5, CallersAssumption
     DEF Call, TurnInv, TypeOK, Inside, Alive, disk, upkeep, life, Background
<1>8. CountInv'
  BY <1>5 DEF Call, CountInv, TypeOK
<1> QED BY <1>6, <1>7, <1>8

LEMMA StatementKeeps ==
  ASSUME GateInv, NEW c \in Callers, Statement(c) \/ BeginThrows(c)
  PROVE  GateInv'
<1> USE DEF GateInv
<1>1. pc[c] = "called" /\ c \notin direct /\ c \in Users
  BY DEF Statement, BeginThrows, TurnInv, Users
<1>2. gate # <<>> /\ Head(gate) = c /\ token \in {NoCaller, c}
  BY <1>1, AtHead DEF Statement, BeginThrows
<1>3. token = NoCaller /\ token' = NoCaller
  BY <1>1, <1>2, CallersAssumption DEF TurnInv, Inside, Statement, BeginThrows
<1>4. gate' = Tail(gate) /\ direct' = direct
  BY <1>1 DEF Statement, BeginThrows, Release
<1>5. /\ gate' \in Seq(Users)
      /\ \A i, j \in DOMAIN gate' : gate'[i] = gate'[j] => i = j
      /\ \A e : Waiting(e)' <=> Waiting(e) /\ e # c
  BY <1>2, <1>4, LeaveQueue
<1>6. PICK l \in Settled : pc' = [pc EXCEPT ![c] = l]
  BY DEF Statement, BeginThrows, Goto, Settled
<1>7. db' \subseteq Rows /\ view' \in [Callers -> SUBSET Rows] /\ saved' \subseteq Rows
  <2>1. <<c, 1>> \in Rows
    BY BoundsAssumption DEF Rows
  <2>2. CASE BeginThrows(c)
    BY <2>2 DEF BeginThrows, TypeOK, disk
  <2>3. CASE Statement(c)
    <3>1. db' \in {db, db \cup {<<c, 1>>}} /\ view' \in {view, [view EXCEPT ![c] = db]}
      BY <2>3 DEF Statement
    <3>2. saved' = saved
      BY <2>3 DEF Statement
    <3> QED BY <2>1, <3>1, <3>2 DEF TypeOK
  <2> QED BY <2>2, <2>3
<1>8. TypeOK'
  BY <1>3, <1>4, <1>5, <1>6, <1>7
     DEF Statement, BeginThrows, TypeOK, Users, upkeep, life, Settled
<1>9. token' = NoCaller /\ phase' = phase /\ maint' = maint
  BY <1>3 DEF Statement, BeginThrows, upkeep, life
<1>10. /\ \A d \in Callers \ {c} : pc'[d] = pc[d]
       /\ pc'[c] = l /\ l \notin {"called"} \cup Inside
  BY <1>6 DEF TypeOK, Inside, Settled
<1>11. TurnInv'
  BY <1>1, <1>3, <1>4, <1>5, <1>9, <1>10, CallersAssumption
     DEF TurnInv, Inside, Alive, Background
<1>12. CountInv'
  BY <1>10 DEF Statement, BeginThrows, CountInv, Settled
<1> QED BY <1>8, <1>11, <1>12

LEMMA BeginKeeps ==
  ASSUME GateInv, NEW c \in Callers, Begin(c)
  PROVE  GateInv'
<1> USE DEF GateInv
<1>1. pc[c] = "called" /\ c \notin direct /\ c \in Users
  BY DEF Begin, TurnInv, Users
<1>2. gate # <<>> /\ Head(gate) = c /\ token \in {NoCaller, c}
  BY <1>1, AtHead DEF Begin
<1>3. token = NoCaller
  BY <1>1, <1>2, CallersAssumption DEF TurnInv, Inside
<1>4. pc' = [pc EXCEPT ![c] = "inside"]
  BY DEF Begin, Goto
<1>5. TypeOK'
  BY <1>4 DEF Begin, TypeOK, Inside, queues, upkeep, life
<1>6. \A e : Waiting(e)' <=> Waiting(e)
  BY DEF Begin, queues, Waiting
<1>7. TurnInv'
  BY <1>1, <1>2, <1>3, <1>4, <1>6, CallersAssumption
     DEF Begin, TurnInv, TypeOK, Inside, Alive, queues, upkeep, life
<1>8. CountInv'
  BY <1>4 DEF Begin, CountInv, TypeOK
<1> QED BY <1>5, <1>7, <1>8

LEMMA BodyKeeps ==
  ASSUME GateInv, NEW c \in Callers, BodyCalls(c) \/ BodyStatement(c)
  PROVE  GateInv'
<1> USE DEF GateInv
<1>1. /\ gate' = gate
      /\ \A d : d \in direct' <=> d \in Callers /\ pc'[d] = "calling"
      /\ pc[c] \in Inside /\ pc' \in [Callers -> {"idle", "called"} \cup Inside \cup Settled]
      /\ pc'[c] \in Inside /\ \A d \in Callers \ {c} : pc'[d] = pc[d]
  <2>1. CASE BodyCalls(c)
    <3>1. token = c /\ Store(c) = c
      BY <2>1 DEF BodyCalls, TurnInv, Store, Inside
    <3>2. direct' = direct \cup {c} /\ gate' = gate
      BY <2>1, <3>1, CallersAssumption DEF BodyCalls, Enter, IsTransactionOwner
    <3> QED BY <2>1, <3>2 DEF BodyCalls, Goto, TurnInv, TypeOK, Inside
  <2>2. CASE BodyStatement(c)
    BY <2>2 DEF BodyStatement, Goto, TurnInv, TypeOK, Inside
  <2> QED BY <2>1, <2>2
<1>2. direct' \subseteq Users
  BY <1>1 DEF Users
<1>3. db' \subseteq Rows /\ writes' \in [Callers -> 0 .. MaxCalls]
  <2>1. CASE BodyCalls(c)
    BY <2>1 DEF BodyCalls, TypeOK, disk
  <2>2. CASE BodyStatement(c)
    <3>1. writes[c] \in 0 .. MaxCalls /\ writes[c] < MaxCalls
      BY <2>2 DEF BodyStatement, TypeOK, CountInv
    <3>2. writes[c] + 1 \in 0 .. MaxCalls /\ <<c, writes[c] + 1>> \in Rows
      BY <3>1, BoundsAssumption DEF Rows
    <3> QED BY <2>2, <3>2 DEF BodyStatement, TypeOK
  <2> QED BY <2>1, <2>2
<1>4. TypeOK'
  BY <1>1, <1>2, <1>3 DEF BodyCalls, BodyStatement, TypeOK, Users, disk, upkeep, life
<1>5. \A e : Waiting(e)' <=> Waiting(e)
  BY <1>1 DEF Waiting
<1>6. token' = token /\ phase' = phase /\ maint' = maint
  BY DEF BodyCalls, BodyStatement, upkeep, life
<1>7. TurnInv'
  BY <1>1, <1>5, <1>6 DEF TurnInv, TypeOK, Inside, Alive
<1>8. CountInv'
  <2>1. CASE BodyCalls(c)
    BY <2>1 DEF BodyCalls, Goto, CountInv, TypeOK
  <2>2. CASE BodyStatement(c)
    BY <2>2 DEF BodyStatement, Goto, CountInv, TypeOK
  <2> QED BY <2>1, <2>2
<1> QED BY <1>4, <1>7, <1>8

LEMMA EndKeeps ==
  ASSUME GateInv, NEW c \in Callers, Commit(c) \/ Rollback(c)
  PROVE  GateInv'
<1> USE DEF GateInv
<1>1. pc[c] \in Inside /\ Alive
  BY DEF Commit, Rollback, Inside
<1>2. token = c /\ gate # <<>> /\ Head(gate) = c
  BY <1>1, CallersAssumption DEF TurnInv
<1>3. gate' = Tail(gate)
  BY DEF Commit, Rollback, Release, TurnInv
<1>4. /\ gate' \in Seq(Users)
      /\ \A i, j \in DOMAIN gate' : gate'[i] = gate'[j] => i = j
      /\ \A e : Waiting(e)' <=> Waiting(e) /\ e # c
  BY <1>2, <1>3, LeaveQueue
<1>5. PICK l \in Settled : pc' = [pc EXCEPT ![c] = l]
  BY DEF Commit, Rollback, Goto, Settled
<1>6. /\ \A d \in Callers \ {c} : pc'[d] = pc[d]
      /\ pc'[c] = l /\ l \notin {"called"} \cup Inside
  BY <1>5 DEF TypeOK, Inside, Settled
<1>7. \A d : d \in direct' <=> d \in Callers /\ pc'[d] = "calling"
  <2>1. CASE Commit(c)
    <3>1. c \notin direct /\ direct' = direct
      BY <2>1 DEF Commit, TurnInv, Release
    <3> QED BY <3>1, <1>6 DEF TurnInv, Inside
  <2>2. CASE Rollback(c)
    BY <2>2, <1>6 DEF Rollback, TurnInv, Inside
  <2> QED BY <2>1, <2>2
<1>8. /\ token' = NoCaller /\ phase' = phase /\ maint' = maint
      /\ writes' = writes /\ db' \in {db, saved} /\ saved' = saved
  BY DEF Commit, Rollback, disk, upkeep, life
<1>9. TypeOK'
  BY <1>4, <1>5, <1>7, <1>8 DEF Commit, Rollback, TypeOK, Users, upkeep, life
<1>10. TurnInv'
  BY <1>2, <1>4, <1>6, <1>7, <1>8, CallersAssumption
     DEF TurnInv, Inside, Alive, Background
<1>11. CountInv'
  BY <1>6, <1>8 DEF CountInv, Settled
<1> QED BY <1>9, <1>10, <1>11

LEMMA MaintenanceKeeps ==
  ASSUME GateInv, (\E task \in Tasks : Tick(task)) \/ MaintenanceRuns \/ MaintenanceCalls
  PROVE  GateInv'
<1> USE DEF GateInv
<1>1. "maintenance" \in Users /\ "maintenance" \notin Callers /\ "maintenance" \notin direct
  BY CallersAssumption DEF Users, Background, TurnInv
<1>2. Maintaining <=> Waiting("maintenance")
  BY <1>1 DEF Maintaining, Waiting
<1>3. /\ pc' = pc /\ token' = token /\ phase' = phase /\ writes' = writes
      /\ view' = view /\ db' = db /\ saved' = saved /\ before' = before /\ order' = order
  BY DEF Tick, MaintenanceRuns, MaintenanceCalls, calls, disk, life
<1>4. CountInv'
  BY <1>3 DEF CountInv
<1>5. ticks' \in 0 .. MaxTicks
  BY BoundsAssumption DEF Tick, MaintenanceRuns, MaintenanceCalls, upkeep, TypeOK
<1>6. ASSUME gate' = gate, direct' = direct, maint' = maint
      PROVE  TypeOK' /\ TurnInv'
  <2>1. \A e : Waiting(e)' <=> Waiting(e)
    BY <1>6 DEF Waiting
  <2> QED BY <1>3, <1>5, <1>6, <2>1 DEF TypeOK, TurnInv, Alive
<1>7. ASSUME Enter("maintenance"), ~Waiting("maintenance"), maint' # <<>>,
             maint' \in Seq({"checkpoint", "vacuum"})
      PROVE  TypeOK' /\ TurnInv'
  <2>1. gate' = Append(gate, "maintenance") /\ direct' = direct
    BY <1>1, <1>7, EnterOutside
  <2>2. /\ gate' \in Seq(Users)
        /\ \A i, j \in DOMAIN gate' : gate'[i] = gate'[j] => i = j
        /\ gate' # <<>>
        /\ gate # <<>> => Head(gate') = Head(gate)
        /\ \A e : Waiting(e)' <=> Waiting(e) \/ e = "maintenance"
    BY <1>1, <1>7, <2>1, EnterQueue
  <2>3. TypeOK'
    BY <1>3, <1>5, <1>7, <2>1, <2>2 DEF TypeOK, Users
  <2>4. TurnInv'
    BY <1>1, <1>3, <1>7, <2>1, <2>2 DEF TurnInv, Alive
  <2> QED BY <2>3, <2>4
<1>8. CASE \E task \in Tasks : Tick(task)
  <2>1. PICK task \in Tasks : Tick(task)
    BY <1>8
  <2>2. task # <<>> /\ task \in Seq({"checkpoint", "vacuum"})
    <3>1. CASE task = <<"checkpoint">>
      BY <3>1
    <3>2. CASE task = <<"checkpoint", "vacuum", "checkpoint">>
      BY <3>2
    <3> QED BY <3>1, <3>2 DEF Tasks
  <2>3. CASE maint = <<>>
    BY <1>7, <2>1, <2>2, <2>3, <1>4 DEF Tick, TurnInv
  <2>4. CASE maint # <<>>
    BY <1>6, <2>1, <2>4, <1>4 DEF Tick, queues
  <2> QED BY <2>3, <2>4
<1>9. CASE MaintenanceCalls
  BY <1>2, <1>4, <1>7, <1>9 DEF MaintenanceCalls, upkeep, TypeOK
<1>10. CASE MaintenanceRuns
  <2>1. gate # <<>> /\ Head(gate) = "maintenance"
    BY <1>1, <1>10, AtHead DEF MaintenanceRuns
  <2>2. gate' = Tail(gate) /\ direct' = direct
    BY <1>1, <1>10 DEF MaintenanceRuns, Release
  <2>3. /\ gate' \in Seq(Users)
        /\ \A i, j \in DOMAIN gate' : gate'[i] = gate'[j] => i = j
        /\ \A e : Waiting(e)' <=> Waiting(e) /\ e # "maintenance"
    BY <2>1, <2>2, LeaveQueue
  <2>4. token = NoCaller
    BY <1>1, <2>1 DEF TurnInv, TypeOK
  <2>5. maint' \in Seq({"checkpoint", "vacuum"})
    <3>1. maint # <<>>
      BY <1>2, <1>10 DEF MaintenanceRuns, TurnInv
    <3>2. Tail(maint) \in Seq({"checkpoint", "vacuum"})
      BY <3>1, HeadTailProperties DEF TypeOK
    <3>3. <<>> \in Seq({"checkpoint", "vacuum"})
      OBVIOUS
    <3>4. maint' = Tail(maint) \/ maint' = <<>>
      BY <1>10 DEF MaintenanceRuns
    <3> QED BY <3>2, <3>3, <3>4
  <2>6. TypeOK'
    BY <1>3, <1>5, <2>2, <2>3, <2>5 DEF TypeOK, Users
  <2>7. TurnInv'
    BY <1>1, <1>3, <2>2, <2>3, <2>4 DEF TurnInv, Alive
  <2> QED BY <1>4, <2>6, <2>7
<1> QED BY <1>8, <1>9, <1>10

LEMMA QuitKeeps ==
  ASSUME GateInv, Quit \/ QuitCheckpoint \/ Close \/ Exit
  PROVE  GateInv'
<1> USE DEF GateInv
<1>1. "quit" \in Users /\ "quit" \notin Callers /\ "quit" \notin direct
  BY CallersAssumption DEF Users, Background, TurnInv
<1>2. /\ pc' = pc /\ writes' = writes /\ view' = view /\ maint' = maint
      /\ ticks' = ticks /\ order' = order /\ saved' = saved /\ db' \in {db, saved}
  BY DEF Quit, QuitCheckpoint, Close, Exit, calls, disk, upkeep
<1>3. CountInv'
  BY <1>2 DEF CountInv
<1>4. CASE Quit
  <2>1. ~Waiting("quit")
    BY <1>4 DEF Quit, TurnInv
  <2>2. gate' = Append(gate, "quit") /\ direct' = direct
    BY <1>1, <1>4, EnterOutside DEF Quit
  <2>3. /\ gate' \in Seq(Users)
        /\ \A i, j \in DOMAIN gate' : gate'[i] = gate'[j] => i = j
        /\ gate' # <<>>
        /\ gate # <<>> => Head(gate') = Head(gate)
        /\ \A e : Waiting(e)' <=> Waiting(e) \/ e = "quit"
    BY <1>1, <2>1, <2>2, EnterQueue
  <2>4. TypeOK'
    BY <1>2, <1>4, <2>2, <2>3 DEF Quit, TypeOK, Users
  <2>5. TurnInv'
    BY <1>1, <1>2, <1>4, <2>2, <2>3 DEF Quit, TurnInv, Alive
  <2> QED BY <1>3, <2>4, <2>5
<1>5. CASE QuitCheckpoint
  <2>1. gate # <<>> /\ Head(gate) = "quit"
    BY <1>1, <1>5, AtHead DEF QuitCheckpoint
  <2>2. gate' = Tail(gate) /\ direct' = direct
    BY <1>1, <1>5 DEF QuitCheckpoint, Release
  <2>3. /\ gate' \in Seq(Users)
        /\ \A i, j \in DOMAIN gate' : gate'[i] = gate'[j] => i = j
        /\ \A e : Waiting(e)' <=> Waiting(e) /\ e # "quit"
    BY <2>1, <2>2, LeaveQueue
  <2>4. token = NoCaller /\ token' = NoCaller
    BY <1>1, <1>5, <2>1 DEF TurnInv, TypeOK, QuitCheckpoint
  <2>5. TypeOK'
    BY <1>2, <1>5, <2>2, <2>3 DEF QuitCheckpoint, TypeOK, Users
  <2>6. TurnInv'
    BY <1>1, <1>2, <1>5, <2>2, <2>3, <2>4 DEF QuitCheckpoint, TurnInv, Alive
  <2> QED BY <1>3, <2>5, <2>6
<1>6. CASE Close \/ Exit
  <2>1. gate' = gate /\ direct' = direct /\ before' = before /\ token' \in {token, NoCaller}
    BY <1>6 DEF Close, Exit, queues
  <2>2. \A e : Waiting(e)' <=> Waiting(e)
    BY <2>1 DEF Waiting
  <2>3. TypeOK'
    BY <1>2, <1>6, <2>1 DEF Close, Exit, TypeOK
  <2>4. /\ Waiting("quit") => phase' = "exited"
        /\ phase' # "exited" => phase # "exited" /\ token' = token
    BY <1>6 DEF Close, Exit, TurnInv
  <2>5. TurnInv'
    BY <1>2, <2>1, <2>2, <2>4 DEF TurnInv, Alive
  <2> QED BY <1>3, <2>3, <2>5
<1> QED BY <1>4, <1>5, <1>6

LEMMA GateNext == GateInv /\ [Next]_vars => GateInv'
<1> SUFFICES ASSUME GateInv, [Next]_vars PROVE GateInv'
  OBVIOUS
<1>1. ASSUME NEW c \in Callers, Call(c) \/ OperationStep(c) PROVE GateInv'
  BY <1>1, CallKeeps, StatementKeeps, BeginKeeps, BodyKeeps, EndKeeps DEF OperationStep
<1>2. CASE UNCHANGED vars
  BY <1>2 DEF vars, queues, calls, disk, upkeep, life, GateInv, TypeOK, TurnInv, CountInv,
              Waiting, Alive
<1> QED BY <1>1, <1>2, MaintenanceKeeps, QuitKeeps DEF Next, MaintenanceStep

THEOREM GateInvariant == Spec => []GateInv
<1>1. Init => GateInv
  BY GateInit
<1>2. GateInv /\ [Next]_vars => GateInv'
  BY GateNext
<1> QED BY <1>1, <1>2, PTL DEF Spec

\* The variables keep their types and nobody waits at the gate twice.
THEOREM TypeCorrect == Spec => []TypeOK
<1>1. GateInv => TypeOK
  BY DEF GateInv
<1> QED BY <1>1, GateInvariant, PTL

\* Nothing of the maintenance task runs while a transaction is open.
THEOREM MaintenanceStaysOutside == Spec => MaintenanceOutsideTransactions
<1>1. ASSUME GateInv, [Next]_vars PROVE maint # <<>> /\ maint' # maint => token = NoCaller
  <2> SUFFICES ASSUME maint # <<>>, maint' # maint PROVE token = NoCaller
    OBVIOUS
  <2>1. MaintenanceRuns
    BY <1>1 DEF Next, vars, upkeep, Call, OperationStep, Statement, Begin, BeginThrows,
                BodyCalls, BodyStatement, Commit, Rollback, Tick, MaintenanceStep,
                MaintenanceCalls, Quit, QuitCheckpoint, Close, Exit
  <2>2. "maintenance" \in Users /\ "maintenance" \notin Callers /\ "maintenance" \notin direct
    BY <1>1, CallersAssumption DEF GateInv, Users, Background, TurnInv
  <2>3. token \in {NoCaller, "maintenance"}
    BY <1>1, <2>1, <2>2, AtHead DEF MaintenanceRuns
  <2> QED BY <1>1, <2>2, <2>3 DEF GateInv, TypeOK
<1>2. MaintenanceOutsideTransactions
        <=> [][maint # <<>> /\ maint' # maint => token = NoCaller]_vars
  BY DEF MaintenanceOutsideTransactions
<1> QED BY <1>1, <1>2, GateInvariant, PTL DEF Spec

-----------------------------------------------------------------------------
(* What keeps the gate moving *)

\* Whoever is at the head of the gate can run: it is a transaction whose statement in
\* progress, if any, has gone past the gate, or an operation that has not begun while no
\* transaction is open.
HeadCanRun ==
  Alive /\ gate # <<>> =>
    \/ /\ token = Head(gate)
       /\ pc[token] = "inside" \/ (pc[token] = "calling" /\ token \in direct)
    \/ /\ token = NoCaller /\ direct = {}
       /\ Head(gate) \in Callers => pc[Head(gate)] = "called"

\* Every call in progress has its place in the gate, hence behind a head that can run.
EveryCallHasATurn ==
  Alive => \A c \in Callers : pc[c] \in {"called"} \cup Inside => gate # <<>> /\ Waiting(c)

\* The queue of the connection never waits for itself: no operation at its head waits for
\* one behind it, and a transaction's own statements do not queue behind the transaction.
THEOREM GateNeverBlocks == Spec => [](HeadCanRun /\ EveryCallHasATurn)
<1>1. GateInv => HeadCanRun
  <2> SUFFICES ASSUME GateInv, Alive, gate # <<>>
               PROVE  \/ /\ token = Head(gate)
                         /\ pc[token] = "inside" \/ (pc[token] = "calling" /\ token \in direct)
                      \/ /\ token = NoCaller /\ direct = {}
                         /\ Head(gate) \in Callers => pc[Head(gate)] = "called"
    BY DEF HeadCanRun
  <2>1. token \in Callers \cup {NoCaller} /\ NoCaller \notin Callers
    BY CallersAssumption DEF GateInv, TypeOK
  <2>2. CASE token # NoCaller
    BY <2>1, <2>2 DEF GateInv, TurnInv, Inside
  <2>3. CASE token = NoCaller
    <3>1. \A c \in Callers : pc[c] \notin Inside
      BY <2>1, <2>3 DEF GateInv, TurnInv
    <3>2. direct = {}
      BY <3>1 DEF GateInv, TurnInv, Inside
    <3>3. Waiting(Head(gate))
      <4>1. 1 \in DOMAIN gate /\ gate[1] = Head(gate)
        BY DEF GateInv, TypeOK
      <4> QED BY <4>1 DEF Waiting
    <3> QED BY <2>3, <3>1, <3>2, <3>3 DEF GateInv, TurnInv
  <2> QED BY <2>2, <2>3
<1>2. GateInv => EveryCallHasATurn
  BY DEF GateInv, TurnInv, TypeOK, EveryCallHasATurn, Waiting
<1> QED BY <1>1, <1>2, GateInvariant, PTL

-----------------------------------------------------------------------------
(* The order of the calls *)

Ahead(c, d) == \E a, b \in DOMAIN gate : a < b /\ gate[a] = c /\ gate[b] = d

\* What is ahead of what stays so, however the queue moves, until it leaves.
LEMMA AheadEnters ==
  ASSUME TypeOK, NEW e \in Users, ~Waiting(e), gate' = Append(gate, e),
         NEW c, NEW d, Ahead(c, d) \/ (Waiting(c) /\ d = e)
  PROVE  Ahead(c, d)'
<1>1. /\ DOMAIN gate' = DOMAIN gate \cup {Len(gate) + 1}
      /\ \A i \in DOMAIN gate : gate'[i] = gate[i]
      /\ gate'[Len(gate) + 1] = e
      /\ \A i \in DOMAIN gate : i < Len(gate) + 1
  BY EnterQueue
<1> QED BY <1>1 DEF Ahead, Waiting

LEMMA AheadLeaves ==
  ASSUME TypeOK, gate # <<>>, gate' = Tail(gate),
         NEW c, NEW d, Ahead(c, d), c # Head(gate)
  PROVE  Ahead(c, d)'
<1>1. PICK a, b \in DOMAIN gate : a < b /\ gate[a] = c /\ gate[b] = d
  BY DEF Ahead
<1>2. /\ \A i \in DOMAIN gate : i # 1 => i - 1 \in DOMAIN gate' /\ gate'[i - 1] = gate[i]
      /\ gate[1] = Head(gate)
      /\ DOMAIN gate = 1 .. Len(gate) /\ Len(gate) \in Nat
  BY LeaveQueue, LenProperties DEF TypeOK
<1>3. a # 1 /\ b # 1 /\ a - 1 < b - 1
  BY <1>1, <1>2
<1> QED BY <1>1, <1>2, <1>3 DEF Ahead

\* How a step moves the queue: not at all, by a new user at its end, or by the
\* head leaving, which settles when it is a call.
LEMMA QueueMoves ==
  ASSUME GateInv, [Next]_vars
  PROVE  \/ gate' = gate
         \/ \E e \in Users : ~Waiting(e) /\ gate' = Append(gate, e)
         \/ /\ gate # <<>> /\ gate' = Tail(gate)
            /\ Head(gate) \in Callers => pc'[Head(gate)] \in Settled
<1> USE DEF GateInv
<1>1. "quit" \in Users \ Callers /\ "maintenance" \in Users \ Callers
  BY CallersAssumption DEF Users, Background
<1>2. "quit" \notin direct /\ "maintenance" \notin direct
  BY <1>1 DEF TurnInv
<1>3. ASSUME NEW c \in Callers, Call(c) PROVE c \in Users /\ ~Waiting(c) /\ gate' = Append(gate, c)
  BY <1>3, EnterOutside DEF Call, TurnInv, Inside, Users
<1>4. ASSUME NEW c \in Callers, Statement(c) \/ BeginThrows(c)
      PROVE  gate # <<>> /\ gate' = Tail(gate) /\ Head(gate) = c /\ pc'[c] \in Settled
  <2>1. pc[c] = "called" /\ c \notin direct /\ c \in Users
    BY <1>4 DEF Statement, BeginThrows, TurnInv, Users
  <2>2. gate # <<>> /\ Head(gate) = c
    BY <1>4, <2>1, AtHead DEF Statement, BeginThrows
  <2>3. pc'[c] \in Settled
    BY <1>4 DEF Statement, BeginThrows, Goto, TypeOK, Settled
  <2> QED BY <1>4, <2>1, <2>2, <2>3 DEF Statement, BeginThrows, Release
<1>5. ASSUME NEW c \in Callers, Commit(c) \/ Rollback(c)
      PROVE  gate # <<>> /\ gate' = Tail(gate) /\ Head(gate) = c /\ pc'[c] \in Settled
  <2>1. token = c /\ gate # <<>> /\ Head(gate) = c
    BY <1>5, CallersAssumption DEF Commit, Rollback, TurnInv, Inside
  <2>2. gate' = Tail(gate)
    BY <1>5 DEF Commit, Rollback, Release, TurnInv
  <2>3. pc'[c] \in Settled
    BY <1>5 DEF Commit, Rollback, Goto, TypeOK, Settled
  <2> QED BY <2>1, <2>2, <2>3
<1>6. ASSUME NEW c \in Callers, Begin(c) \/ BodyCalls(c) \/ BodyStatement(c) PROVE gate' = gate
  <2>1. CASE BodyCalls(c)
    <3>1. token = c /\ Store(c) = c
      BY <2>1 DEF BodyCalls, TurnInv, Store, Inside
    <3> QED BY <2>1, <3>1, CallersAssumption DEF BodyCalls, Enter, IsTransactionOwner
  <2> QED BY <1>6, <2>1 DEF Begin, BodyStatement, queues
<1>7. ASSUME NEW task \in Tasks, Tick(task)
      PROVE  \/ gate' = gate
             \/ ~Waiting("maintenance") /\ gate' = Append(gate, "maintenance")
  BY <1>1, <1>7, EnterOutside DEF Tick, TurnInv, queues
<1>8. ASSUME MaintenanceCalls
      PROVE  ~Waiting("maintenance") /\ gate' = Append(gate, "maintenance")
  BY <1>1, <1>8, EnterOutside DEF MaintenanceCalls, Maintaining, Waiting
<1>9. ASSUME MaintenanceRuns
      PROVE  gate # <<>> /\ gate' = Tail(gate) /\ Head(gate) \notin Callers
  BY <1>1, <1>2, <1>9, AtHead DEF MaintenanceRuns, Release
<1>10. ASSUME Quit PROVE ~Waiting("quit") /\ gate' = Append(gate, "quit")
  BY <1>1, <1>10, EnterOutside DEF Quit, TurnInv
<1>11. ASSUME QuitCheckpoint
       PROVE  gate # <<>> /\ gate' = Tail(gate) /\ Head(gate) \notin Callers
  BY <1>1, <1>2, <1>11, AtHead DEF QuitCheckpoint, Release
<1>12. CASE Close \/ Exit \/ UNCHANGED vars
  BY <1>12 DEF Close, Exit, vars, queues
<1> QED BY <1>1, <1>3, <1>4, <1>5, <1>6, <1>7, <1>8, <1>9, <1>10, <1>11, <1>12
           DEF Next, OperationStep, MaintenanceStep

\* A call is overtaken by nobody, and once settled or made it stays so.
LEMMA NobodyOvertakes ==
  ASSUME GateInv, [Next]_vars, NEW c \in Callers, NEW d, Ahead(c, d)
  PROVE  pc'[c] \in Settled \/ Ahead(c, d)'
<1>1. CASE gate' = gate
  BY <1>1 DEF Ahead
<1>2. CASE \E e \in Users : ~Waiting(e) /\ gate' = Append(gate, e)
  BY <1>2, AheadEnters DEF GateInv
<1>3. CASE gate # <<>> /\ gate' = Tail(gate) /\ (Head(gate) \in Callers => pc'[Head(gate)] \in Settled)
  BY <1>3, AheadLeaves DEF GateInv
<1> QED BY <1>1, <1>2, <1>3, QueueMoves

LEMMA CallsAdvance ==
  ASSUME GateInv, [Next]_vars, NEW c \in Callers
  PROVE  /\ pc[c] \in Settled => pc'[c] \in Settled
         /\ pc[c] # "idle" => pc'[c] # "idle"
<1> USE DEF Goto, GateInv, TypeOK, Settled, Inside
<1>1. ASSUME NEW d \in Callers, Call(d) \/ OperationStep(d)
      PROVE  /\ pc[d] \notin Settled /\ pc'[d] # "idle"
             /\ \A e \in Callers \ {d} : pc'[e] = pc[e]
  BY <1>1 DEF Call, OperationStep, Statement, Begin, BeginThrows, BodyCalls, BodyStatement,
              Commit, Rollback
<1>2. CASE \E d \in Callers : Call(d) \/ OperationStep(d)
  BY <1>1, <1>2
<1>3. CASE (\E task \in Tasks : Tick(task)) \/ MaintenanceStep
  BY <1>3 DEF Tick, MaintenanceStep, MaintenanceRuns, MaintenanceCalls, calls
<1>4. CASE Quit \/ QuitCheckpoint \/ Close \/ Exit \/ UNCHANGED vars
  BY <1>4 DEF Quit, QuitCheckpoint, Close, Exit, calls, vars
<1> QED BY <1>2, <1>3, <1>4 DEF Next

\* An unsettled call is ahead at the gate of every later one.
FifoInv ==
  /\ \A i \in DOMAIN order : pc[order[i]] # "idle"
  /\ \A i, j \in DOMAIN order : \A c, d \in Callers :
       i < j /\ order[i] = c /\ order[j] = d => pc[c] \in Settled \/ Ahead(c, d)

LEMMA FifoNext == GateInv /\ FifoInv /\ [Next]_vars => FifoInv'
<1> SUFFICES ASSUME GateInv, FifoInv, [Next]_vars PROVE FifoInv'
  OBVIOUS
<1>1. order \in Seq(Callers) /\ DOMAIN order = 1 .. Len(order) /\ Len(order) \in Nat
  BY LenProperties DEF GateInv, TypeOK
<1>2. \A i \in DOMAIN order : order[i] \in Callers
  BY <1>1
<1>3. \A i \in DOMAIN order : pc'[order[i]] # "idle"
  BY <1>2, CallsAdvance DEF FifoInv
<1>4. ASSUME NEW i \in DOMAIN order, NEW j \in DOMAIN order, NEW c \in Callers, NEW d \in Callers,
             i < j, order[i] = c, order[j] = d
      PROVE  pc'[c] \in Settled \/ Ahead(c, d)'
  <2>1. pc[c] \in Settled \/ Ahead(c, d)
    BY <1>4 DEF FifoInv
  <2> QED BY <2>1, CallsAdvance, NobodyOvertakes
<1>5. CASE order' = order
  BY <1>3, <1>4, <1>5 DEF FifoInv
<1>6. ASSUME NEW e \in Callers, Call(e) PROVE FifoInv'
  <2>1. /\ DOMAIN order' = 1 .. (Len(order) + 1)
        /\ \A i \in DOMAIN order : order'[i] = order[i]
        /\ order'[Len(order) + 1] = e
    BY <1>1, <1>6, AppendProperties, LenProperties DEF Call
  <2>2. e \in Users /\ ~Waiting(e) /\ gate' = Append(gate, e)
    BY <1>6, EnterOutside DEF GateInv, Call, TurnInv, Inside, Users
  <2>3. pc'[e] = "called"
    BY <1>6 DEF Call, Goto, GateInv, TypeOK
  <2>4. ASSUME NEW i \in DOMAIN order, NEW c \in Callers, order[i] = c
        PROVE  pc'[c] \in Settled \/ Ahead(c, e)'
    <3>1. CASE pc[c] \in Settled
      BY <3>1, CallsAdvance
    <3>2. CASE pc[c] \notin Settled
      <4>1. pc[c] \in {"called"} \cup Inside
        BY <2>4, <3>2 DEF FifoInv, GateInv, TypeOK
      <4>2. Waiting(c)
        BY <4>1 DEF GateInv, TurnInv
      <4> QED BY <2>2, <4>2, AheadEnters DEF GateInv
    <3> QED BY <3>1, <3>2
  <2>5. ASSUME NEW i \in DOMAIN order' PROVE pc'[order'[i]] # "idle"
    BY <1>1, <1>3, <2>1, <2>3, <2>5
  <2>6. ASSUME NEW i \in DOMAIN order', NEW j \in DOMAIN order', NEW c \in Callers,
               NEW d \in Callers, i < j, order'[i] = c, order'[j] = d
        PROVE  pc'[c] \in Settled \/ Ahead(c, d)'
    <3>1. i \in DOMAIN order /\ order[i] = c
      BY <1>1, <2>1, <2>6
    <3>2. CASE j \in DOMAIN order
      BY <1>4, <2>1, <2>6, <3>1, <3>2
    <3>3. CASE j = Len(order) + 1
      BY <2>1, <2>4, <2>6, <3>1, <3>3
    <3> QED BY <1>1, <2>1, <3>2, <3>3
  <2> QED BY <2>5, <2>6 DEF FifoInv
<1>7. (\E c \in Callers : Call(c)) \/ order' = order
  BY DEF Next, vars, OperationStep, Statement, Begin, BeginThrows, BodyCalls, BodyStatement,
         Commit, Rollback, Tick, MaintenanceStep, MaintenanceRuns, MaintenanceCalls,
         Quit, QuitCheckpoint, Close, Exit
<1> QED BY <1>5, <1>6, <1>7

\* Calls settle in the order they were made.
THEOREM CallsSettleInOrder == Spec => []FifoSettles
<1>1. Init => FifoInv
  BY DEF Init, FifoInv
<1>2. GateInv /\ FifoInv /\ [Next]_vars => FifoInv'
  BY FifoNext
<1>3. GateInv /\ FifoInv => FifoSettles
  <2> SUFFICES ASSUME GateInv, FifoInv,
                      NEW i \in DOMAIN order, NEW j \in DOMAIN order, i < j,
                      pc[order[j]] \in Settled
               PROVE  pc[order[i]] \in Settled
    BY DEF FifoSettles
  <2>1. order[i] \in Callers /\ order[j] \in Callers
    BY DEF GateInv, TypeOK
  <2>2. ~Waiting(order[j])
    BY <2>1 DEF GateInv, TurnInv, Inside, Settled
  <2> QED BY <2>1, <2>2 DEF FifoInv, Ahead, Waiting
<1> QED BY <1>1, <1>2, <1>3, GateInvariant, PTL DEF Spec

-----------------------------------------------------------------------------
(* The end of the process *)

\* Until it has run, the last checkpoint is behind every call that was in flight.
QuitInv ==
  /\ phase = "closing" => \A c \in before : pc[c] \in Settled \/ Ahead(c, "quit")
  /\ phase \in {"checkpointed", "closed"} => \A c \in before : pc[c] \in Settled

LEMMA QuitNext == GateInv /\ QuitInv /\ [Next]_vars => QuitInv'
<1> SUFFICES ASSUME GateInv, QuitInv, [Next]_vars PROVE QuitInv'
  OBVIOUS
<1>1. before \subseteq Callers
  BY DEF GateInv, TypeOK
<1>2. "quit" \in Users /\ "quit" \notin Callers /\ "quit" \notin direct
  BY CallersAssumption DEF Users, Background, GateInv, TurnInv
<1>3. CASE phase' = phase /\ before' = before
  <2>1. ASSUME NEW c \in before, pc[c] \in Settled \/ Ahead(c, "quit")
        PROVE  pc'[c] \in Settled \/ Ahead(c, "quit")'
    BY <1>1, <2>1, CallsAdvance, NobodyOvertakes
  <2>2. ASSUME NEW c \in before, pc[c] \in Settled PROVE pc'[c] \in Settled
    BY <1>1, <2>2, CallsAdvance
  <2> QED BY <1>3, <2>1, <2>2 DEF QuitInv
<1>4. CASE Quit
  <2>1. ~Waiting("quit") /\ gate' = Append(gate, "quit")
    BY <1>2, <1>4, EnterOutside DEF Quit, GateInv, TurnInv
  <2>2. ASSUME NEW c \in before' PROVE Ahead(c, "quit")'
    <3>1. c \in Callers /\ pc[c] \in {"called"} \cup Inside
      BY <1>4, <2>2 DEF Quit, GateInv, TypeOK
    <3>2. Waiting(c)
      BY <3>1 DEF GateInv, TurnInv
    <3> QED BY <1>2, <2>1, <3>2, AheadEnters DEF GateInv
  <2> QED BY <1>4, <2>2 DEF Quit, QuitInv
<1>5. CASE QuitCheckpoint
  <2>1. gate # <<>> /\ Head(gate) = "quit"
    BY <1>2, <1>5, AtHead DEF QuitCheckpoint
  <2>2. 1 \in DOMAIN gate /\ gate[1] = "quit" /\ \A i \in DOMAIN gate : ~(i < 1)
    BY <2>1, EmptySeq, LenProperties DEF GateInv, TypeOK
  <2>3. ASSUME NEW c PROVE ~Ahead(c, "quit")
    BY <2>2 DEF Ahead, GateInv, TypeOK
  <2>4. \A c \in before : pc[c] \in Settled
    BY <1>5, <2>3 DEF QuitCheckpoint, QuitInv
  <2> QED BY <1>5, <2>4 DEF QuitCheckpoint, QuitInv, calls
<1>6. CASE Close
  BY <1>6 DEF Close, QuitInv, calls
<1>7. CASE Exit
  BY <1>7 DEF Exit, QuitInv
<1>8. \/ Quit \/ QuitCheckpoint \/ Close \/ Exit
      \/ phase' = phase /\ before' = before
  BY DEF Next, vars, life, Call, OperationStep, Statement, Begin, BeginThrows, BodyCalls,
         BodyStatement, Commit, Rollback, Tick, MaintenanceStep, MaintenanceRuns,
         MaintenanceCalls
<1> QED BY <1>3, <1>4, <1>5, <1>6, <1>7, <1>8

\* A graceful quit closes the connection after every earlier call has settled.
THEOREM QuitWaits == Spec => []QuitLosesNothing
<1>1. Init => QuitInv
  BY DEF Init, QuitInv
<1>2. GateInv /\ QuitInv /\ [Next]_vars => QuitInv'
  BY QuitNext
<1>3. QuitInv => QuitLosesNothing
  BY DEF QuitInv, QuitLosesNothing
<1> QED BY <1>1, <1>2, <1>3, GateInvariant, PTL DEF Spec

-----------------------------------------------------------------------------
(* The refinement of the serial store *)

\* The rows of the open transaction are those its body has written so far.
StoreInv ==
  /\ \A c \in Callers : pc[c] \in {"idle", "called"} => writes[c] = 0
  /\ token # NoCaller /\ Open => db = saved \cup ({token} \X (1 .. writes[token]))

LEMMA StoreNext == GateInv /\ StoreInv /\ [Next]_vars => StoreInv'
<1> SUFFICES ASSUME GateInv, StoreInv, [Next]_vars PROVE StoreInv'
  OBVIOUS
<1> USE DEF GateInv, TypeOK, StoreInv, Goto, Inside, Settled
<1>1. ASSUME NEW c \in Callers, Call(c) PROVE StoreInv'
  BY <1>1 DEF Call, Open, disk, life
<1>2. ASSUME NEW c \in Callers, Statement(c) \/ BeginThrows(c) PROVE StoreInv'
  <2>1. pc[c] = "called" /\ c \notin direct /\ c \in Users
    BY <1>2 DEF Statement, BeginThrows, TurnInv, Users
  <2>2. token \in {NoCaller, c}
    BY <1>2, <2>1, AtHead DEF Statement, BeginThrows
  <2>3. token' = NoCaller
    BY <1>2, <2>1, <2>2, CallersAssumption DEF Statement, BeginThrows, TurnInv
  <2> QED BY <1>2, <2>3 DEF Statement, BeginThrows
<1>3. ASSUME NEW c \in Callers, Begin(c) PROVE StoreInv'
  <2>1. writes[c] = 0 /\ writes' = writes /\ db' = db /\ saved' = db /\ token' = c
    BY <1>3 DEF Begin
  <2>2. {c} \X (1 .. writes[c]) = {}
    BY <2>1
  <2> QED BY <1>3, <2>1, <2>2 DEF Begin
<1>4. ASSUME NEW c \in Callers, BodyCalls(c) PROVE StoreInv'
  BY <1>4 DEF BodyCalls, Open, disk, life
<1>5. ASSUME NEW c \in Callers, BodyStatement(c) PROVE StoreInv'
  <2>1. token = c /\ token' = c /\ saved' = saved
    BY <1>5, CallersAssumption DEF BodyStatement, TurnInv
  <2>2. writes[c] \in Nat /\ writes'[c] = writes[c] + 1
    BY <1>5 DEF BodyStatement
  <2>3. 1 .. (writes[c] + 1) = (1 .. writes[c]) \cup {writes[c] + 1}
    BY <2>2
  <2>4. db' = saved \cup ({c} \X (1 .. writes'[c]))
    BY <1>5, <2>1, <2>2, <2>3, CallersAssumption DEF BodyStatement
  <2>5. \A d \in Callers : pc'[d] \in {"idle", "called"} => writes'[d] = 0
    BY <1>5 DEF BodyStatement
  <2> QED BY <2>1, <2>4, <2>5
<1>6. ASSUME NEW c \in Callers, Commit(c) \/ Rollback(c) PROVE StoreInv'
  BY <1>6 DEF Commit, Rollback
<1>7. CASE (\E task \in Tasks : Tick(task)) \/ MaintenanceStep
  BY <1>7 DEF Tick, MaintenanceStep, MaintenanceRuns, MaintenanceCalls, calls, disk, life, Open
<1>8. CASE Quit \/ QuitCheckpoint \/ UNCHANGED vars
  BY <1>8 DEF Quit, QuitCheckpoint, calls, disk, life, vars, Open
<1>9. CASE Close \/ Exit
  BY <1>9 DEF Close, Exit, calls, Open
<1> QED BY <1>1, <1>2, <1>3, <1>4, <1>5, <1>6, <1>7, <1>8, <1>9 DEF Next, OperationStep

Acked == {c \in Callers : pc[c] = "resolved"}

\* A step that settles no call successfully, writes nothing and opens or closes no
\* transaction to any effect is a stutter of the serial store.
LEMMA Stutter ==
  ASSUME GateInv, StoreInv, [Next]_vars,
         ~ \E c \in Callers : Statement(c) \/ Commit(c)
  PROVE  Committed' = Committed /\ Acked' = Acked /\ view' = view
<1> USE DEF GateInv, TypeOK, Committed, Acked, Goto, Inside
<1>1. ASSUME NEW c \in Callers, Call(c) PROVE Committed' = Committed /\ Acked' = Acked /\ view' = view
  BY <1>1 DEF Call, disk
<1>2. ASSUME NEW c \in Callers, Begin(c) \/ BeginThrows(c)
      PROVE  Committed' = Committed /\ Acked' = Acked /\ view' = view
  <2>1. pc[c] = "called" /\ c \notin direct /\ c \in Users
    BY <1>2 DEF Begin, BeginThrows, TurnInv, Users
  <2>2. token \in {NoCaller, c}
    BY <1>2, <2>1, AtHead DEF Begin, BeginThrows
  <2>3. token = NoCaller
    BY <2>1, <2>2, CallersAssumption DEF TurnInv
  <2> QED BY <1>2, <2>3, CallersAssumption DEF Begin, BeginThrows, disk
<1>3. ASSUME NEW c \in Callers, BodyCalls(c) \/ BodyStatement(c)
      PROVE  Committed' = Committed /\ Acked' = Acked /\ view' = view
  <2>1. token = c /\ token' = c /\ c # NoCaller
    BY <1>3, CallersAssumption DEF BodyCalls, BodyStatement, TurnInv
  <2> QED BY <1>3, <2>1 DEF BodyCalls, BodyStatement, disk
<1>4. ASSUME NEW c \in Callers, Rollback(c)
      PROVE  Committed' = Committed /\ Acked' = Acked /\ view' = view
  <2>1. token = c /\ c # NoCaller
    BY <1>4, CallersAssumption DEF Rollback, TurnInv
  <2> QED BY <1>4, <2>1 DEF Rollback
<1>5. CASE (\E task \in Tasks : Tick(task)) \/ MaintenanceStep
  BY <1>5 DEF Tick, MaintenanceStep, MaintenanceRuns, MaintenanceCalls, calls, disk
<1>6. CASE Quit \/ QuitCheckpoint \/ Close \/ Exit \/ UNCHANGED vars
  BY <1>6 DEF Quit, QuitCheckpoint, Close, Exit, calls, disk, vars
<1> QED BY <1>1, <1>2, <1>3, <1>4, <1>5, <1>6 DEF Next, OperationStep

\* A statement takes effect whole when it runs, outside every transaction.
LEMMA StatementSerial ==
  ASSUME GateInv, StoreInv, NEW c \in Callers, Statement(c)
  PROVE  Serial!Write(c) \/ Serial!Read(c)
         \/ (Committed' = Committed /\ Acked' = Acked /\ view' = view)
<1> USE DEF GateInv, TypeOK, Committed, Acked, Goto, Inside
<1>1. pc[c] = "called" /\ c \notin direct /\ c \in Users
  BY DEF Statement, TurnInv, Users
<1>2. token = NoCaller /\ token' = NoCaller
  BY <1>1, AtHead, CallersAssumption DEF Statement, TurnInv
<1>3. CASE db' = db \cup {<<c, 1>>} /\ Goto(c, "resolved") /\ UNCHANGED view
  <2>1. {<<c, 1>>} = {c} \X (1 .. 1) /\ 1 \in 0 .. MaxCalls
    BY BoundsAssumption
  <2>2. Acked' = Acked \cup {c} /\ c \notin Acked
    BY <1>1, <1>3
  <2> QED BY <1>2, <1>3, <2>1, <2>2 DEF Serial!Write
<1>4. CASE view' = [view EXCEPT ![c] = db] /\ Goto(c, "resolved") /\ UNCHANGED db
  <2>1. Acked' = Acked \cup {c} /\ c \notin Acked
    BY <1>1, <1>4
  <2> QED BY <1>2, <1>4, <2>1 DEF Serial!Read
<1>5. CASE Goto(c, "rejected") /\ UNCHANGED <<db, view>>
  BY <1>1, <1>2, <1>5
<1> QED BY <1>3, <1>4, <1>5 DEF Statement

\* A transaction takes effect whole when it commits.
LEMMA CommitSerial ==
  ASSUME GateInv, StoreInv, NEW c \in Callers, Commit(c)
  PROVE  Serial!Write(c)
<1> USE DEF GateInv, TypeOK, Committed, Acked, Goto, Inside
<1>1. token = c /\ c # NoCaller /\ token' = NoCaller /\ pc[c] = "inside"
  BY CallersAssumption DEF Commit, TurnInv
<1>2. db' = saved \cup ({c} \X (1 .. writes[c])) /\ writes[c] \in 0 .. MaxCalls
  BY <1>1 DEF Commit, StoreInv, disk
<1>3. Acked' = Acked \cup {c} /\ c \notin Acked /\ view' = view
  BY <1>1 DEF Commit
<1> QED BY <1>1, <1>2, <1>3 DEF Serial!Write

\* The gate implements the serial store: transactions and single statements take
\* effect whole, in one order, and reads see no open transaction.
THEOREM ImplementsStore == Spec => ImplementsSerialStore
<1>1. Init => Serial!Init /\ StoreInv
  BY DEF Init, Serial!Init, StoreInv, Committed
<1>2. GateInv /\ StoreInv /\ [Next]_vars => StoreInv'
  BY StoreNext
<1>3. GateInv /\ StoreInv /\ [Next]_vars => [Serial!Next]_<<Committed, Acked, view>>
  <2> SUFFICES ASSUME GateInv, StoreInv, [Next]_vars
               PROVE  Serial!Next \/ (Committed' = Committed /\ Acked' = Acked /\ view' = view)
    OBVIOUS
  <2>1. CASE \E c \in Callers : Statement(c) \/ Commit(c)
    BY <2>1, StatementSerial, CommitSerial DEF Serial!Next
  <2>2. CASE ~ \E c \in Callers : Statement(c) \/ Commit(c)
    BY <2>2, Stutter
  <2> QED BY <2>1, <2>2
<1> QED BY <1>1, <1>2, <1>3, GateInvariant, PTL DEF Spec, ImplementsSerialStore, Serial!Spec, Acked
=============================================================================
