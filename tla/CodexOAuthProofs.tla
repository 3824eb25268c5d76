--------------------------- MODULE CodexOAuthProofs --------------------------
(***************************************************************************)
(* Proofs about CodexOAuth for every number of authorizations and of        *)
(* failing persistence calls: its types, that the callback port is given    *)
(* back, that the panel never returns to an earlier session, and that a     *)
(* connection is saved or undone whole.                                     *)
(***************************************************************************)
EXTENDS CodexOAuth, TLAPS

-----------------------------------------------------------------------------
(* The inductive invariant *)

\* What the panel waits for and shows belongs to the authorization asked for last.
CurrentInv ==
  /\ \A call \in current : panel.open /\ call[2] = started
  /\ panel.session # None => panel.open /\ panel.session = started

\* A session reaches the panel once its start has returned, and is saved once.
SessionInv ==
  /\ \A s \in Sessions : s > started => start[s] = "idle"
  /\ \A s \in Sessions : start[s] # "done" => save[s] = "idle"
  /\ \A s \in Sessions : panel.session = s \/ panel.ref = s => start[s] = "done"
  /\ \A s \in Sessions : panel.session = s /\ save[s] # "idle" =>
       panel.autoSaved = s /\ panel.status # "pending"
  /\ \A s \in Sessions : <<"poll", s>> \in current =>
       panel.session = s /\ panel.status = "pending"
  /\ \A s \in Sessions : <<"start", s>> \in current =>
       panel.session = None /\ <<"save", s>> \notin current

\* A flow that is being bound is untouched, unless it was replaced meanwhile; a device
\* flow has no server.
BindInv ==
  \A s \in Sessions :
    /\ start[s] = "listening" /\ s \notin overtaken =>
         flow[s] = NewFlow
    /\ start[s] \in {"idle", "cleaning", "listening"} => flow[s].mode = "browser"
    /\ start[s] = "device" \/ flow[s].mode = "device" => flow[s].server = "closed"
    /\ poll[s] = "fetching" => start[s] = "done" /\ flow[s].mode = "device"
    /\ s \notin overtaken /\ flow[s].server = "listening" =>
         flow[s].inMap /\ flow[s].status = "pending" /\ flow[s].owned

Undo == {"undoModels", "undoProv", "undoCred"}

\* How far a save has come that nobody disturbs, and what a rollback goes back to.
SavedSoFar(s) ==
  /\ save[s] # "read" => previous[s] = Whole(wanted)
  /\ save[s] \in Undo => failures > 0
  /\ save[s] = "prov" => rows = [Whole(wanted) EXCEPT !.cred = s]
  /\ save[s] \in {"read", "cred"} => rows = Whole(wanted)
  /\ save[s] = "delete" => rows = [Whole(s) EXCEPT !.models = wanted]
  /\ save[s] \in {"models", "lastModel"} => rows.cred = s /\ rows.prov = s
  /\ save[s] \in {"undoProv", "undoCred"} => rows.models = wanted
  /\ save[s] = "undoCred" => rows.prov = wanted

WriteInv ==
  ~disturbed /\ failures < 2 =>
    /\ \A s, t \in Sessions : Writing(s) /\ Writing(t) => s = t
    /\ \A s \in Sessions : Writing(s) => SavedSoFar(s)
    /\ (\A s \in Sessions : ~Writing(s)) => rows = Whole(wanted)

OAuthInv == TypeOK /\ CurrentInv /\ SessionInv /\ BindInv /\ WriteInv

-----------------------------------------------------------------------------
(* What the gateway's operations do to one flow *)

\* How a flow may change once its server has been bound or given up.
Settles(f, g) ==
  /\ g.mode = f.mode
  /\ f.server = "closed" => g.server = "closed"
  /\ g.server = "listening" => f.server = "listening"
  /\ f.inMap /\ f.status = "pending" /\ f.owned /\ g.server = "listening" =>
       g.inMap /\ g.status = "pending" /\ g.owned

\* The helpers that are nested in others.
LEMMA InnerTypes ==
  ASSUME NEW f \in Flows
  PROVE  /\ CloseServer(f) \in Flows
         /\ Drop(f) \in Flows
         /\ MarkFailed(f) \in Flows
         /\ [Drop(f) EXCEPT !.status = "failed", !.code = FALSE] \in Flows
<1>1. CloseServer(f) \in Flows
  BY DEF CloseServer, Flows
<1>2. Drop(f) \in Flows
  BY DEF Drop, Flows
<1>3. MarkFailed(f) \in Flows
  BY DEF MarkFailed, ScheduleDeletion, Flows
<1>4. [Drop(f) EXCEPT !.status = "failed", !.code = FALSE] \in Flows
  BY <1>2 DEF Flows
<1>. QED  BY <1>1, <1>2, <1>3, <1>4

\* closeFlowServer closes an owned server that listens.
LEMMA CloseEffect ==
  ASSUME NEW f \in Flows
  PROVE  /\ CloseServer(f).mode = f.mode /\ CloseServer(f).inMap = f.inMap
         /\ CloseServer(f).status = f.status
         /\ f.server = "closed" => CloseServer(f).server = "closed"
         /\ CloseServer(f).server = "listening" => f.server = "listening" /\ ~f.owned
BY DEF CloseServer, Flows

LEMMA DeleteSettles ==
  ASSUME NEW f \in Flows
  PROVE  DeleteFlow(f) \in Flows /\ Settles(f, DeleteFlow(f))
<1>. DEFINE g == Drop(f)
<1>1. g \in Flows /\ g.mode = f.mode /\ g.server = f.server /\ g.owned = f.owned
  BY DEF Drop, Flows
<1>2. DeleteFlow(f) = IF f.inMap THEN CloseServer(g) ELSE f
  BY DEF DeleteFlow
<1>. HIDE DEF g
<1>3. /\ CloseServer(g) \in Flows /\ CloseServer(g).mode = g.mode
      /\ g.server = "closed" => CloseServer(g).server = "closed"
      /\ CloseServer(g).server = "listening" => g.server = "listening" /\ ~g.owned
  BY <1>1, InnerTypes, CloseEffect
<1>. QED  BY <1>1, <1>2, <1>3 DEF Settles

LEMMA ReplaceSettles ==
  ASSUME NEW f \in Flows
  PROVE  Replace(f) \in Flows /\ Settles(f, Replace(f))
<1>. DEFINE d == Drop(f)
            g == [d EXCEPT !.status = "failed", !.code = FALSE]
<1>0. d \in Flows /\ d.mode = f.mode /\ d.server = f.server /\ d.owned = f.owned
  BY DEF Drop, Flows
<1>1. g \in Flows /\ g.mode = f.mode /\ g.server = f.server /\ g.owned = f.owned
      /\ g.status = "failed"
  <2>. HIDE DEF d
  <2>. QED  BY <1>0 DEF Flows
<1>2. Replace(f) = IF f.inMap THEN CloseServer(g) ELSE f
  BY DEF Replace
<1>. HIDE DEF g
<1>3. /\ CloseServer(g) \in Flows /\ CloseServer(g).mode = g.mode
      /\ g.server = "closed" => CloseServer(g).server = "closed"
      /\ CloseServer(g).server = "listening" => g.server = "listening" /\ ~g.owned
  BY <1>1, InnerTypes, CloseEffect
<1>. QED  BY <1>1, <1>2, <1>3 DEF Settles

LEMMA MarkFailedEffect ==
  ASSUME NEW f \in Flows
  PROVE  LET g == MarkFailed(f) IN
         g \in Flows /\ g.mode = f.mode /\ g.server = f.server /\ g.owned = f.owned
<1>. DEFINE g == [f EXCEPT !.status = "failed", !.timer = FALSE, !.code = FALSE]
<1>1. g \in Flows /\ g.mode = f.mode /\ g.server = f.server /\ g.owned = f.owned
  BY DEF Flows
<1>2. MarkFailed(f) = [g EXCEPT !.cleanup = TRUE]
  BY DEF MarkFailed, ScheduleDeletion
<1>. HIDE DEF g
<1>. QED  BY <1>1, <1>2 DEF Flows

LEMMA CallbackSettles ==
  ASSUME NEW f \in Flows, NEW withCode \in BOOLEAN, Serving(f)
  PROVE  /\ CallbackResult(f, withCode) \in Flows
         /\ Settles(f, CallbackResult(f, withCode))
<1>. DEFINE g == IF withCode
                 THEN ScheduleDeletion([f EXCEPT !.status = "authorized", !.code = TRUE,
                                                 !.timer = FALSE])
                 ELSE MarkFailed(f)
<1>1. g \in Flows /\ g.mode = f.mode /\ g.server = f.server /\ g.owned = f.owned
  BY MarkFailedEffect DEF ScheduleDeletion, Flows
<1>2. CallbackResult(f, withCode) = IF f.owned THEN [g EXCEPT !.server = "answering"] ELSE g
  BY DEF CallbackResult
<1>. HIDE DEF g
<1>3. [g EXCEPT !.server = "answering"] \in Flows
      /\ [g EXCEPT !.server = "answering"].mode = f.mode
      /\ [g EXCEPT !.server = "answering"].server = "answering"
  BY <1>1 DEF Flows
<1>. QED  BY <1>1, <1>2, <1>3 DEF Settles, Serving

LEMMA TimeoutSettles ==
  ASSUME NEW f \in Flows
  PROVE  LET g == IF f.status = "pending" THEN CloseServer(MarkFailed(f))
                  ELSE [f EXCEPT !.timer = FALSE]
         IN  g \in Flows /\ Settles(f, g)
<1>1. [f EXCEPT !.timer = FALSE] \in Flows /\ Settles(f, [f EXCEPT !.timer = FALSE])
  BY DEF Flows, Settles
<1>. DEFINE g == MarkFailed(f)
<1>2. g \in Flows /\ g.mode = f.mode /\ g.server = f.server /\ g.owned = f.owned
  BY MarkFailedEffect
<1>. HIDE DEF g
<1>3. /\ CloseServer(g) \in Flows /\ CloseServer(g).mode = g.mode
      /\ g.server = "closed" => CloseServer(g).server = "closed"
      /\ CloseServer(g).server = "listening" => g.server = "listening" /\ ~g.owned
  BY <1>2, InnerTypes, CloseEffect
<1>4. CloseServer(g) \in Flows /\ Settles(f, CloseServer(g))
  BY <1>2, <1>3 DEF Settles
<1>. QED  BY <1>1, <1>4 DEF g

LEMMA RetentionSettles ==
  ASSUME NEW f \in Flows
  PROVE  LET g == [DeleteFlow(f) EXCEPT !.cleanup = FALSE] IN g \in Flows /\ Settles(f, g)
<1>. DEFINE d == DeleteFlow(f)
<1>1. d \in Flows /\ Settles(f, d)
  BY DeleteSettles
<1>. HIDE DEF d
<1>2. LET g == [d EXCEPT !.cleanup = FALSE]
      IN  /\ g \in Flows /\ g.mode = d.mode /\ g.server = d.server /\ g.owned = d.owned
          /\ g.inMap = d.inMap /\ g.status = d.status
  BY <1>1 DEF Flows
<1>. QED  BY <1>1, <1>2 DEF Settles, d

\* A device flow keeps its mode and has no server, whatever the token endpoint answers.
LEMMA PollSettles ==
  ASSUME NEW f \in Flows, NEW answer \in {"pending", "authorized", "failed"}
  PROVE  LET g == PollResult(f, answer) IN
         g \in Flows /\ g.mode = f.mode /\ g.server = f.server
BY DEF PollResult, ScheduleDeletion, Flows

-----------------------------------------------------------------------------
(* The panel opens, closes and starts *)

\* BindInv survives every step that starts or settles flows; only startAuthorization's
\* own steps bind servers.
LEMMA BindKept ==
  ASSUME TypeOK, BindInv,
         flow' \in [Sessions -> Flows],
         overtaken \subseteq overtaken',
         \A s \in Sessions : Settles(flow[s], flow'[s]),
         \A s \in Sessions :
           start[s] = "listening" /\ s \notin overtaken' => flow'[s] = flow[s],
         \A s \in Sessions :
           start'[s] = start[s] \/ (start[s] = "idle" /\ start'[s] = "cleaning"),
         \A s \in Sessions : poll'[s] = "fetching" =>
           poll[s] = "fetching" \/ (start[s] = "done" /\ flow[s].mode = "device")
  PROVE  BindInv'
<1>. SUFFICES ASSUME NEW s \in Sessions
              PROVE  BindInv!(s)'
  BY DEF BindInv
<1>0. Settles(flow[s], flow'[s]) /\ (s \notin overtaken' => s \notin overtaken)
  OBVIOUS
<1>. DEFINE B == /\ start[s] = "listening" /\ s \notin overtaken => flow[s] = NewFlow
                 /\ start[s] \in {"idle", "cleaning", "listening"} => flow[s].mode = "browser"
                 /\ start[s] = "device" \/ flow[s].mode = "device" =>
                      flow[s].server = "closed"
                 /\ poll[s] = "fetching" => start[s] = "done" /\ flow[s].mode = "device"
                 /\ s \notin overtaken /\ flow[s].server = "listening" =>
                      flow[s].inMap /\ flow[s].status = "pending" /\ flow[s].owned
<1>1. B
  BY DEF BindInv
<1>2. (start[s] = "listening" /\ s \notin overtaken => flow[s] = NewFlow)'
  BY <1>0, <1>1, NewFlow' = NewFlow DEF NewFlow, NoFlow
<1>. QED  BY <1>0, <1>1, <1>2 DEF Settles

\* resetCodexOAuthState touches the flow of a session whose start has returned.
LEMMA CancelledSettles ==
  ASSUME TypeOK, SessionInv
  PROVE  /\ Cancelled(panel.ref) \in [Sessions -> Flows]
         /\ \A s \in Sessions : Settles(flow[s], Cancelled(panel.ref)[s])
         /\ \A s \in Sessions : start[s] = "listening" => Cancelled(panel.ref)[s] = flow[s]
<1>0. \A s \in Sessions : flow[s] \in Flows
  BY DEF TypeOK
<1>1. \A s \in Sessions : Settles(flow[s], flow[s])
  BY DEF Settles
<1>2. CASE panel.ref = None
  BY <1>1, <1>2 DEF Cancelled, TypeOK
<1>3. CASE panel.ref # None
  <2>1. panel.ref \in Sessions
    BY <1>3, OAuthAssumption DEF TypeOK, Sessions, None
  <2>2. Cancelled(panel.ref) = [flow EXCEPT ![panel.ref] = DeleteFlow(flow[panel.ref])]
    BY <1>3 DEF Cancelled
  <2>3. /\ DeleteFlow(flow[panel.ref]) \in Flows
        /\ Settles(flow[panel.ref], DeleteFlow(flow[panel.ref]))
    BY <2>1, <1>0, DeleteSettles
  <2>4. start[panel.ref] = "done"
    BY <2>1 DEF SessionInv
  <2>. QED  BY <1>1, <2>1, <2>2, <2>3, <2>4 DEF TypeOK
<1>. QED  BY <1>2, <1>3

LEMMA ResetPreserves ==
  ASSUME OAuthInv, NEW open \in BOOLEAN, Reset(open)
  PROVE  OAuthInv'
<1>. USE DEF OAuthInv
<1>0. /\ current' = {} /\ panel' = ResetPanel(open) /\ flow' = Cancelled(panel.ref)
      /\ svc' = svc \ {panel.ref}
      /\ UNCHANGED <<started, start, poll, save, previous, rows, failures, wanted,
                     disturbed, overtaken>>
  BY DEF Reset, rowVars
<1>1. TypeOK'
  <2>1. 0 \in 0 .. MaxStarts
    BY OAuthAssumption
  <2>. QED  BY <1>0, <2>1, CancelledSettles DEF TypeOK, ResetPanel, None
<1>2. CurrentInv'
  BY <1>0 DEF CurrentInv, ResetPanel
<1>3. SessionInv'
  <2>1. panel'.session = None /\ panel'.ref = None
    BY <1>0 DEF ResetPanel
  <2>2. \A s \in Sessions : s # None
    BY DEF Sessions, None
  <2>. QED  BY <1>0, <2>1, <2>2 DEF SessionInv
<1>4. BindInv'
  BY <1>0, <1>1, CancelledSettles, BindKept DEF TypeOK
<1>5. WriteInv'
  BY <1>0 DEF WriteInv, SavedSoFar, Writing, Whole
<1>. QED  BY <1>1, <1>2, <1>3, <1>4, <1>5

LEMMA StartPreserves ==
  ASSUME OAuthInv, StartCodexOAuth
  PROVE  OAuthInv'
<1>. USE DEF OAuthInv
<1>0. /\ panel.open /\ panel.action = "none" /\ started < MaxStarts
      /\ started' = started + 1
      /\ start' = [start EXCEPT ![started'] = "cleaning"]
      /\ current' = {<<"start", started'>>}
      /\ panel' = [panel EXCEPT !.status = "idle", !.action = "starting",
                            !.session = None, !.ref = None]
      /\ svc' = svc \ {panel.ref}
      /\ flow' = [s \in Sessions |-> Replace(Cancelled(panel.ref)[s])]
      /\ overtaken' = overtaken \cup
           {s \in Sessions : flow[s].inMap /\ flow[s].server = "binding"}
      /\ UNCHANGED <<poll, save, previous, rows, failures, wanted, disturbed>>
  BY DEF StartCodexOAuth, rowVars
<1>1. started' \in Sessions /\ start[started'] = "idle"
  BY <1>0, OAuthAssumption DEF TypeOK, Sessions, SessionInv
<1>. DEFINE c == Cancelled(panel.ref)
<1>2. /\ c \in [Sessions -> Flows]
      /\ \A s \in Sessions : Settles(flow[s], c[s])
      /\ \A s \in Sessions : start[s] = "listening" => c[s] = flow[s]
  BY CancelledSettles
<1>3. \A s \in Sessions : Replace(c[s]) \in Flows /\ Settles(c[s], Replace(c[s]))
  BY <1>2, ReplaceSettles
<1>4. flow' \in [Sessions -> Flows]
  BY <1>0, <1>3
<1>5. \A s \in Sessions : Settles(flow[s], flow'[s])
  <2>. HIDE DEF c
  <2>1. \A s \in Sessions : flow'[s] = Replace(c[s])
    BY <1>0 DEF c
  <2>. QED  BY <1>2, <1>3, <2>1 DEF Settles
<1>6. TypeOK'
  <2>1. started' \in 0 .. MaxStarts /\ 0 \in 0 .. MaxStarts
    BY <1>0, OAuthAssumption DEF TypeOK
  <2>2. start' \in [Sessions -> {"idle", "cleaning", "listening", "device", "opening", "done"}]
    BY <1>0, <1>1 DEF TypeOK
  <2>3. current' \subseteq ({"start", "poll", "save"} \X Sessions)
    BY <1>0, <1>1
  <2>4. panel' \in [open : BOOLEAN, status : {"idle", "pending", "authorized", "failed"},
                action : {"none", "starting", "saving"}, session : 0 .. MaxStarts,
                ref : 0 .. MaxStarts, autoSaved : 0 .. MaxStarts]
    BY <1>0, <2>1 DEF TypeOK, None
  <2>. QED  BY <1>0, <1>4, <2>1, <2>2, <2>3, <2>4 DEF TypeOK
<1>7. panel'.session = None /\ panel'.ref = None /\ panel'.open
  BY <1>0 DEF TypeOK
<1>8. CurrentInv'
  BY <1>0, <1>7 DEF CurrentInv
<1>9. SessionInv'
  <2>1. \A s \in Sessions : s # None
    BY DEF Sessions, None
  <2>2. \A s \in Sessions : s # started' => start'[s] = start[s]
    BY <1>0, <1>1 DEF TypeOK
  <2>3. (\A s \in Sessions : s > started => start[s] = "idle")'
    BY <1>0, <2>2 DEF SessionInv, TypeOK, Sessions
  <2>4. (\A s \in Sessions : start[s] # "done" => save[s] = "idle")'
    BY <1>0, <1>1, <2>2 DEF SessionInv
  <2>5. \A s \in Sessions : <<"poll", s>> \notin current'
    BY <1>0
  <2>. QED  BY <1>0, <1>7, <2>1, <2>3, <2>4, <2>5 DEF SessionInv
<1>10. BindInv'
  <2>1. \A s \in Sessions :
          start'[s] = start[s] \/ (start[s] = "idle" /\ start'[s] = "cleaning")
    BY <1>0, <1>1 DEF TypeOK
  <2>2. \A s \in Sessions :
           start[s] = "listening" /\ s \notin overtaken' => flow'[s] = flow[s]
    <3>. SUFFICES ASSUME NEW s \in Sessions, start[s] = "listening", s \notin overtaken'
                  PROVE  FALSE
      OBVIOUS
    <3>1. s \notin overtaken /\ ~(flow[s].inMap /\ flow[s].server = "binding")
      BY <1>0
    <3>2. flow[s] = NewFlow
      BY <3>1 DEF BindInv
    <3>. QED  BY <3>1, <3>2 DEF NewFlow, NoFlow
  <2>. QED  BY <1>0, <1>4, <1>5, <2>1, <2>2, BindKept
<1>11. WriteInv'
  BY <1>0 DEF WriteInv, SavedSoFar, Writing, Whole
<1>. QED  BY <1>6, <1>8, <1>9, <1>10, <1>11

-----------------------------------------------------------------------------
(* The steps of startAuthorization *)

\* A call of the panel that rejects leaves the panel on the session it has.
LEMMA PanelFailsPreserves ==
  ASSUME TypeOK, CurrentInv, NEW call, PanelFails(call), started' = started
  PROVE  /\ CurrentInv'
         /\ current' \subseteq current /\ call \notin current'
         /\ current' \subseteq ({"start", "poll", "save"} \X Sessions)
         /\ panel' \in [open : BOOLEAN, status : {"idle", "pending", "authorized", "failed"},
                action : {"none", "starting", "saving"}, session : 0 .. MaxStarts,
                ref : 0 .. MaxStarts, autoSaved : 0 .. MaxStarts]
         /\ panel'.open = panel.open /\ panel'.session = panel.session
         /\ panel'.ref = panel.ref /\ panel'.autoSaved = panel.autoSaved
         /\ panel'.status = panel.status \/ (panel'.status = "failed" /\ call \in current)
<1>1. current' = current \ {call}
  BY DEF PanelFails
<1>. DEFINE Panels == [open : BOOLEAN, status : {"idle", "pending", "authorized", "failed"},
                action : {"none", "starting", "saving"}, session : 0 .. MaxStarts,
                ref : 0 .. MaxStarts, autoSaved : 0 .. MaxStarts]
            p == [panel EXCEPT !.status = "failed", !.action = "none"]
<1>2. panel \in Panels
  BY DEF TypeOK
<1>3. /\ p \in Panels /\ p.open = panel.open /\ p.session = panel.session
      /\ p.ref = panel.ref /\ p.autoSaved = panel.autoSaved /\ p.status = "failed"
  BY <1>2
<1>4. panel' = IF call \in current THEN p ELSE panel
  BY DEF PanelFails
<1>. HIDE DEF p, Panels
<1>5. /\ panel' \in Panels
      /\ panel'.open = panel.open /\ panel'.session = panel.session
      /\ panel'.ref = panel.ref /\ panel'.autoSaved = panel.autoSaved
      /\ panel'.status = panel.status \/ (panel'.status = "failed" /\ call \in current)
  BY <1>2, <1>3, <1>4
<1>6. CurrentInv'
  BY <1>1, <1>5 DEF CurrentInv
<1>. QED  BY <1>1, <1>5, <1>6 DEF TypeOK, Panels

\* SessionInv and CurrentInv over a step of startAuthorization that does not return.
LEMMA StartGoesOn ==
  ASSUME TypeOK, CurrentInv, SessionInv, NEW s \in Sessions, start[s] \notin {"idle", "done"},
         start'[s] # "done",
         \A t \in Sessions : t # s => start'[t] = start[t],
         UNCHANGED <<panel, current, started, save>>
  PROVE  CurrentInv' /\ SessionInv'
<1>1. CurrentInv'
  BY DEF CurrentInv
<1>2. (\A t \in Sessions : t > started => start[t] = "idle")'
  BY DEF SessionInv
<1>3. (\A t \in Sessions : start[t] # "done" => save[t] = "idle")'
  BY DEF SessionInv
<1>4. (\A t \in Sessions : panel.session = t \/ panel.ref = t => start[t] = "done")'
  BY DEF SessionInv
<1>. QED  BY <1>1, <1>2, <1>3, <1>4 DEF SessionInv

\* startAuthorization or the handler rejects.
LEMMA StartEnds ==
  ASSUME TypeOK, CurrentInv, SessionInv, NEW s \in Sessions, start[s] \notin {"idle", "done"},
         start' = [start EXCEPT ![s] = "done"], PanelFails(<<"start", s>>),
         UNCHANGED <<started, save>>
  PROVE  CurrentInv' /\ SessionInv'
<1>0. start'[s] = "done" /\ \A t \in Sessions : t # s => start'[t] = start[t]
  BY DEF TypeOK
<1>1. /\ CurrentInv' /\ current' \subseteq current
      /\ panel'.session = panel.session /\ panel'.ref = panel.ref
      /\ panel'.autoSaved = panel.autoSaved
      /\ panel'.status = panel.status \/ (panel'.status = "failed" /\ <<"start", s>> \in current)
  BY PanelFailsPreserves
<1>2. (\A t \in Sessions : t > started => start[t] = "idle")'
  BY <1>0 DEF SessionInv
<1>3. (\A t \in Sessions : start[t] # "done" => save[t] = "idle")'
  BY <1>0 DEF SessionInv
<1>4. (\A t \in Sessions : panel.session = t \/ panel.ref = t => start[t] = "done")'
  BY <1>0, <1>1 DEF SessionInv
<1>5. (\A t \in Sessions : panel.session = t /\ save[t] # "idle" =>
         panel.autoSaved = t /\ panel.status # "pending")'
  BY <1>1 DEF SessionInv
<1>6. (\A t \in Sessions : <<"poll", t>> \in current =>
         panel.session = t /\ panel.status = "pending")'
  <2>. SUFFICES ASSUME NEW t \in Sessions, <<"poll", t>> \in current'
                PROVE  panel'.session = t /\ panel'.status = "pending"
    OBVIOUS
  <2>1. panel.session = t /\ panel.status = "pending"
    BY <1>1 DEF SessionInv
  <2>2. t # None
    BY DEF Sessions, None
  <2>3. <<"start", s>> \notin current
    BY <2>1, <2>2 DEF SessionInv
  <2>. QED  BY <1>1, <2>1, <2>3
<1>7. (\A t \in Sessions : <<"start", t>> \in current =>
         panel.session = None /\ <<"save", t>> \notin current)'
  BY <1>1 DEF SessionInv
<1>. QED  BY <1>1, <1>2, <1>3, <1>4, <1>5, <1>6, <1>7 DEF SessionInv

\* The handler's answer reaches the panel.
LEMMA OpenedPreserves ==
  ASSUME TypeOK, CurrentInv, SessionInv, NEW s \in Sessions, Opened(s),
         UNCHANGED <<started, save>>
  PROVE  CurrentInv' /\ SessionInv'
<1>. DEFINE mine == <<"start", s>> \in current
<1>0. start[s] = "opening" /\ start'[s] = "done"
      /\ \A t \in Sessions : t # s => start'[t] = start[t]
  BY DEF Opened, TypeOK
<1>1. current' = current \ {<<"start", s>>}
  BY DEF Opened
<1>2. ~mine => panel' = panel
  BY DEF Opened
<1>3. mine => /\ panel'.open /\ panel'.status = "pending" /\ panel'.session = s
              /\ panel'.ref = s /\ s = started /\ panel.session = None
  BY DEF Opened, CurrentInv, SessionInv
<1>4. mine => \A t \in Sessions : <<"poll", t>> \notin current
  <2>1. \A t \in Sessions : t # None
    BY DEF Sessions, None
  <2>. QED  BY <1>3, <2>1 DEF SessionInv
<1>5. CurrentInv'
  BY <1>1, <1>2, <1>3 DEF CurrentInv
<1>6. (\A t \in Sessions : t > started => start[t] = "idle")'
  BY <1>0 DEF SessionInv
<1>7. (\A t \in Sessions : start[t] # "done" => save[t] = "idle")'
  BY <1>0 DEF SessionInv
<1>8. (\A t \in Sessions : panel.session = t \/ panel.ref = t => start[t] = "done")'
  BY <1>0, <1>2, <1>3 DEF SessionInv
<1>9. save'[s] = "idle"
  BY <1>0 DEF SessionInv
<1>10. (\A t \in Sessions : panel.session = t /\ save[t] # "idle" =>
         panel.autoSaved = t /\ panel.status # "pending")'
  BY <1>2, <1>3, <1>9 DEF SessionInv
<1>11. (\A t \in Sessions : <<"poll", t>> \in current =>
         panel.session = t /\ panel.status = "pending")'
  BY <1>1, <1>2, <1>4 DEF SessionInv
<1>12. (\A t \in Sessions : <<"start", t>> \in current =>
         panel.session = None /\ <<"save", t>> \notin current)'
  <2>. SUFFICES ASSUME NEW t \in Sessions, <<"start", t>> \in current'
                PROVE  panel'.session = None /\ <<"save", t>> \notin current'
    OBVIOUS
  <2>1. <<"start", t>> \in current /\ t # s
    BY <1>1
  <2>2. t = started
    BY <2>1 DEF CurrentInv
  <2>3. panel'.session = None
    BY <1>2, <1>3, <2>1, <2>2 DEF SessionInv
  <2>. QED  BY <1>1, <2>1, <2>3 DEF SessionInv
<1>. QED  BY <1>5, <1>6, <1>7, <1>8, <1>10, <1>11, <1>12 DEF SessionInv

\* A step of startAuthorization changes the flow of its own session.
LEMMA BindAt ==
  ASSUME TypeOK, BindInv, NEW s \in Sessions, start[s] \notin {"idle", "done"},
         flow' \in [Sessions -> Flows],
         \A t \in Sessions : t # s => flow'[t] = flow[t] /\ start'[t] = start[t],
         UNCHANGED <<poll, overtaken>>,
         start'[s] = "listening" => flow'[s] = NewFlow,
         start'[s] \notin {"idle", "cleaning"},
         start'[s] = "device" \/ flow'[s].mode = "device" => flow'[s].server = "closed",
         s \notin overtaken /\ flow'[s].server = "listening" =>
           flow'[s].inMap /\ flow'[s].status = "pending" /\ flow'[s].owned
  PROVE  BindInv'
<1>. SUFFICES ASSUME NEW t \in Sessions
              PROVE  BindInv!(t)'
  BY DEF BindInv
<1>1. NewFlow' = NewFlow /\ NewFlow.mode = "browser"
  BY DEF NewFlow, NoFlow
<1>2. CASE t = s
  <2>1. poll[s] # "fetching"
    BY DEF BindInv
  <2>. QED  BY <1>1, <1>2, <2>1
<1>3. CASE t # s
  BY <1>1, <1>3 DEF BindInv
<1>. QED  BY <1>2, <1>3

LEMMA BindStart ==
  ASSUME TypeOK, BindInv, NEW s \in Sessions, UNCHANGED <<poll, overtaken>>,
         Cleaned(s) \/ Listens(s) \/ PortTaken(s) \/ ListenFails(s)
           \/ DeviceStarts(s) \/ DeviceFails(s) \/ Opened(s) \/ OpenFails(s)
  PROVE  flow' \in [Sessions -> Flows] /\ BindInv'
<1>. DEFINE f == flow[s]
<1>0. f \in Flows
  BY DEF TypeOK
<1>b. /\ start[s] = "listening" /\ s \notin overtaken => f = NewFlow
      /\ start[s] \in {"idle", "cleaning", "listening"} => f.mode = "browser"
      /\ start[s] = "device" \/ f.mode = "device" => f.server = "closed"
      /\ s \notin overtaken /\ f.server = "listening" =>
           f.inMap /\ f.status = "pending" /\ f.owned
  BY DEF BindInv
<1>. HIDE DEF f
<1>1. CASE Cleaned(s)
  <2>1. /\ start[s] = "cleaning" /\ start'[s] = "listening" /\ flow'[s] = NewFlow
        /\ \A t \in Sessions : t # s => flow'[t] = flow[t] /\ start'[t] = start[t]
    BY <1>1 DEF Cleaned, TypeOK
  <2>2. NewFlow \in Flows /\ NewFlow.mode = "browser" /\ NewFlow.server = "binding"
    BY DEF NewFlow, NoFlow, Flows
  <2>3. flow' \in [Sessions -> Flows]
    BY <1>1, <2>2 DEF Cleaned, TypeOK
  <2>. QED  BY <2>1, <2>2, <2>3, BindAt
<1>2. CASE Listens(s)
  <2>. DEFINE g == [[f EXCEPT !.server = "listening"] EXCEPT !.timer = TRUE]
  <2>1. /\ start[s] = "listening" /\ start'[s] = "opening" /\ flow'[s] = g
        /\ \A t \in Sessions : t # s => flow'[t] = flow[t] /\ start'[t] = start[t]
        /\ flow' = [flow EXCEPT ![s] = g]
    BY <1>2 DEF Listens, ToService, TypeOK, f
  <2>2. g \in Flows /\ g.mode = f.mode /\ g.inMap = f.inMap /\ g.status = f.status
        /\ g.owned = f.owned
    BY <1>0 DEF Flows
  <2>. HIDE DEF g
  <2>3. flow' \in [Sessions -> Flows]
    BY <2>1, <2>2 DEF TypeOK
  <2>4. s \notin overtaken => f.inMap /\ f.status = "pending" /\ f.owned
    BY <1>b, <2>1 DEF NewFlow, NoFlow
  <2>5. f.mode = "browser"
    BY <1>b, <2>1
  <2>. QED  BY <2>1, <2>2, <2>3, <2>4, <2>5, BindAt
<1>3. CASE PortTaken(s)
  <2>1. /\ start[s] = "listening" /\ start'[s] = "device" /\ flow'[s] = Unbound(f)
        /\ \A t \in Sessions : t # s => flow'[t] = flow[t] /\ start'[t] = start[t]
        /\ flow' = [flow EXCEPT ![s] = Unbound(f)]
    BY <1>3 DEF PortTaken, TypeOK, f
  <2>2. Unbound(f) \in Flows /\ Unbound(f).server = "closed"
    BY <1>0 DEF Flows, Unbound
  <2>3. flow' \in [Sessions -> Flows]
    BY <2>1, <2>2 DEF TypeOK
  <2>. QED  BY <2>1, <2>2, <2>3, BindAt
<1>4. CASE ListenFails(s)
  <2>. DEFINE g == [Unbound(f) EXCEPT !.inMap = FALSE]
  <2>1. /\ start[s] = "listening" /\ start'[s] = "done" /\ flow'[s] = g
        /\ \A t \in Sessions : t # s => flow'[t] = flow[t] /\ start'[t] = start[t]
        /\ flow' = [flow EXCEPT ![s] = g]
    BY <1>4 DEF ListenFails, StartThrows, TypeOK, f
  <2>2. g \in Flows /\ g.server = "closed"
    BY <1>0 DEF Flows, Unbound
  <2>. HIDE DEF g
  <2>3. flow' \in [Sessions -> Flows]
    BY <2>1, <2>2 DEF TypeOK
  <2>. QED  BY <2>1, <2>2, <2>3, BindAt
<1>5. CASE DeviceStarts(s)
  <2>. DEFINE g == [[f EXCEPT !.mode = "device"] EXCEPT !.timer = TRUE]
  <2>1. /\ start[s] = "device" /\ start'[s] = "opening" /\ flow'[s] = g
        /\ \A t \in Sessions : t # s => flow'[t] = flow[t] /\ start'[t] = start[t]
        /\ flow' = [flow EXCEPT ![s] = g]
    BY <1>5 DEF DeviceStarts, ToService, TypeOK, f
  <2>2. g \in Flows /\ g.server = "closed"
    BY <1>0, <1>b, <2>1 DEF Flows
  <2>. HIDE DEF g
  <2>3. flow' \in [Sessions -> Flows]
    BY <2>1, <2>2 DEF TypeOK
  <2>. QED  BY <2>1, <2>2, <2>3, BindAt
<1>6. CASE DeviceFails(s)
  <2>1. /\ start[s] = "device" /\ start'[s] = "done" /\ flow'[s] = Drop(f)
        /\ \A t \in Sessions : t # s => flow'[t] = flow[t] /\ start'[t] = start[t]
        /\ flow' = [flow EXCEPT ![s] = Drop(f)]
    BY <1>6 DEF DeviceFails, StartThrows, TypeOK, f
  <2>2. Drop(f) \in Flows /\ Drop(f).server = "closed"
    BY <1>0, <1>b, <2>1 DEF Flows, Drop
  <2>3. flow' \in [Sessions -> Flows]
    BY <2>1, <2>2 DEF TypeOK
  <2>. QED  BY <2>1, <2>2, <2>3, BindAt
<1>7. CASE Opened(s)
  <2>1. /\ start[s] = "opening" /\ start'[s] = "done" /\ flow' = flow /\ flow'[s] = f
        /\ \A t \in Sessions : t # s => flow'[t] = flow[t] /\ start'[t] = start[t]
    BY <1>7 DEF Opened, TypeOK, f
  <2>3. flow' \in [Sessions -> Flows]
    BY <2>1 DEF TypeOK
  <2>. QED  BY <1>b, <2>1, <2>3, BindAt
<1>8. CASE OpenFails(s)
  <2>1. /\ start[s] = "opening" /\ start'[s] = "done" /\ flow'[s] = DeleteFlow(f)
        /\ \A t \in Sessions : t # s => flow'[t] = flow[t] /\ start'[t] = start[t]
        /\ flow' = [flow EXCEPT ![s] = DeleteFlow(f)]
    BY <1>8 DEF OpenFails, StartThrows, TypeOK, f
  <2>2. DeleteFlow(f) \in Flows /\ Settles(f, DeleteFlow(f))
    BY <1>0, DeleteSettles
  <2>3. flow' \in [Sessions -> Flows]
    BY <2>1, <2>2 DEF TypeOK
  <2>4. /\ DeleteFlow(f).mode = "device" => DeleteFlow(f).server = "closed"
        /\ s \notin overtaken /\ DeleteFlow(f).server = "listening" =>
             /\ DeleteFlow(f).inMap /\ DeleteFlow(f).owned
             /\ DeleteFlow(f).status = "pending"
    BY <1>b, <2>2 DEF Settles
  <2>. QED  BY <2>1, <2>3, <2>4, BindAt
<1>. QED  BY <1>1, <1>2, <1>3, <1>4, <1>5, <1>6, <1>7, <1>8

LEMMA StartStepPreserves ==
  ASSUME OAuthInv, NEW s \in Sessions, StartStep(s)
  PROVE  OAuthInv'
<1>. USE DEF OAuthInv
<1>0. UNCHANGED <<started, poll, save, previous, rows, failures, wanted, disturbed,
                  overtaken>>
  BY DEF StartStep, rowVars
<1>1. flow' \in [Sessions -> Flows] /\ BindInv'
  BY <1>0, BindStart DEF StartStep
<1>. DEFINE Steps == {"idle", "cleaning", "listening", "device", "opening", "done"}
            Calls == {"start", "poll", "save"} \X Sessions
            Panels == [open : BOOLEAN, status : {"idle", "pending", "authorized", "failed"},
                action : {"none", "starting", "saving"}, session : 0 .. MaxStarts,
                ref : 0 .. MaxStarts, autoSaved : 0 .. MaxStarts]
            Rest == start' \in [Sessions -> Steps] /\ svc' \subseteq Sessions
                    /\ current' \subseteq Calls /\ panel' \in Panels
                    /\ CurrentInv' /\ SessionInv'
<1>2. start \in [Sessions -> Steps] /\ svc \subseteq Sessions /\ current \subseteq Calls
      /\ panel \in Panels
  BY DEF TypeOK
<1>3. ASSUME NEW f, StartThrows(s, f), start[s] \notin {"idle", "done"}
      PROVE  Rest
  <2>1. start' = [start EXCEPT ![s] = "done"] /\ svc' = svc \ {s} /\ PanelFails(<<"start", s>>)
    BY <1>3 DEF StartThrows
  <2>2. CurrentInv' /\ SessionInv'
    BY <1>0, <1>3, <2>1, StartEnds
  <2>3. current' \subseteq Calls /\ panel' \in Panels
    BY <1>0, <2>1, PanelFailsPreserves
  <2>4. start' \in [Sessions -> Steps]
    BY <1>2, <2>1
  <2>. QED  BY <1>2, <2>1, <2>2, <2>3, <2>4
<1>4. ASSUME NEW at \in {"listening", "device", "opening"}, start' = [start EXCEPT ![s] = at],
             svc' \in {svc, svc \cup {s}}, start[s] \notin {"idle", "done"},
             UNCHANGED panelVars
      PROVE  Rest
  <2>1. UNCHANGED <<panel, current>>
    BY <1>4 DEF panelVars
  <2>2. start'[s] # "done" /\ \A t \in Sessions : t # s => start'[t] = start[t]
    BY <1>2, <1>4
  <2>3. CurrentInv' /\ SessionInv'
    BY <1>0, <1>4, <2>1, <2>2, StartGoesOn
  <2>. QED  BY <1>2, <1>4, <2>1, <2>3
<1>5. ASSUME Opened(s) PROVE Rest
  <2>1. CurrentInv' /\ SessionInv'
    BY <1>0, <1>5, OpenedPreserves
  <2>2. s \in 0 .. MaxStarts /\ 0 \in 0 .. MaxStarts
    BY OAuthAssumption DEF Sessions
  <2>3. panel' \in Panels
    BY <1>2, <1>5, <2>2 DEF Opened, None
  <2>4. start' = [start EXCEPT ![s] = "done"] /\ svc' = svc /\ current' \subseteq current
    BY <1>5 DEF Opened
  <2>5. start' \in [Sessions -> Steps]
    BY <1>2, <2>4
  <2>. QED  BY <1>2, <2>1, <2>3, <2>4, <2>5
<1>6. Rest
  <2>. HIDE DEF Rest
  <2>1. CASE Cleaned(s)
    BY <1>4, <2>1 DEF Cleaned
  <2>2. CASE Listens(s)
    BY <1>4, <2>2 DEF Listens, ToService
  <2>3. CASE PortTaken(s)
    BY <1>4, <2>3 DEF PortTaken
  <2>4. CASE ListenFails(s)
    BY <1>3, <2>4 DEF ListenFails
  <2>5. CASE DeviceStarts(s)
    BY <1>4, <2>5 DEF DeviceStarts, ToService
  <2>6. CASE DeviceFails(s)
    BY <1>3, <2>6 DEF DeviceFails
  <2>7. CASE OpenFails(s)
    BY <1>3, <2>7 DEF OpenFails
  <2>. QED  BY <1>5, <2>1, <2>2, <2>3, <2>4, <2>5, <2>6, <2>7 DEF StartStep
<1>7. TypeOK'
  BY <1>0, <1>1, <1>6 DEF TypeOK
<1>8. WriteInv'
  BY <1>0 DEF WriteInv, SavedSoFar, Writing, Whole
<1>. QED  BY <1>1, <1>6, <1>7, <1>8

-----------------------------------------------------------------------------
(* The callback server, the timers and the status requests *)

LEMMA FlowStepPreserves ==
  ASSUME OAuthInv, NEW s \in Sessions,
         Callback(s) \/ Answered(s) \/ Timeout(s) \/ Retention(s)
  PROVE  OAuthInv'
<1>. USE DEF OAuthInv
<1>. DEFINE f == flow[s]
<1>0. f \in Flows
  BY DEF TypeOK
<1>1. /\ UNCHANGED <<started, start, svc, poll, save, current, panel, previous, rows,
                     failures, wanted, disturbed, overtaken>>
      /\ \E g : flow' = [flow EXCEPT ![s] = g]
  BY DEF Callback, Answered, Timeout, Retention, FlowStep, panelVars, rowVars
<1>2. f.timer \/ f.cleanup \/ Serving(f)
  BY DEF Callback, Answered, Timeout, Retention, Serving
<1>3. start[s] = "listening" => s \in overtaken
  <2>1. start[s] = "listening" /\ s \notin overtaken => f = NewFlow
    BY DEF BindInv
  <2>2. ~NewFlow.timer /\ ~NewFlow.cleanup /\ NewFlow.server = "binding"
    BY DEF NewFlow, NoFlow
  <2>. QED  BY <1>2, <2>1, <2>2 DEF Serving
<1>4. PICK g : flow' = [flow EXCEPT ![s] = g] /\ g \in Flows /\ Settles(f, g)
  <2>1. CASE Callback(s)
    <3>1. PICK withCode \in BOOLEAN : Serving(f) /\ FlowStep(s, CallbackResult(f, withCode))
      BY <2>1 DEF Callback
    <3>. QED  BY <1>0, <3>1, CallbackSettles DEF FlowStep
  <2>2. CASE Answered(s)
    <3>1. CloseServer(f) \in Flows /\ Settles(f, CloseServer(f))
      BY <1>0, <2>2, InnerTypes, CloseEffect DEF Answered, Settles
    <3>. QED  BY <2>2, <3>1 DEF Answered, FlowStep
  <2>3. CASE Timeout(s)
    <3>. DEFINE g == IF f.status = "pending" THEN CloseServer(MarkFailed(f))
                     ELSE [f EXCEPT !.timer = FALSE]
    <3>1. g \in Flows /\ Settles(f, g)
      BY <1>0, TimeoutSettles
    <3>2. flow' = [flow EXCEPT ![s] = g]
      BY <2>3 DEF Timeout, FlowStep
    <3>. HIDE DEF g
    <3>. QED  BY <3>1, <3>2
  <2>4. CASE Retention(s)
    <3>. DEFINE g == [DeleteFlow(f) EXCEPT !.cleanup = FALSE]
    <3>1. g \in Flows /\ Settles(f, g)
      BY <1>0, RetentionSettles
    <3>2. flow' = [flow EXCEPT ![s] = g]
      BY <2>4 DEF Retention, FlowStep
    <3>. HIDE DEF g
    <3>. QED  BY <3>1, <3>2
  <2>. QED  BY <2>1, <2>2, <2>3, <2>4
<1>5. flow' \in [Sessions -> Flows]
  BY <1>4 DEF TypeOK
<1>6. /\ \A t \in Sessions : Settles(flow[t], flow'[t])
      /\ \A t \in Sessions : start[t] = "listening" /\ t \notin overtaken' => flow'[t] = flow[t]
  <2>1. \A t \in Sessions : t # s => flow'[t] = flow[t]
    BY <1>4 DEF TypeOK
  <2>2. flow'[s] = g
    BY <1>4 DEF TypeOK
  <2>3. \A t \in Sessions : Settles(flow[t], flow[t])
    BY DEF Settles
  <2>. QED  BY <1>1, <1>3, <1>4, <2>1, <2>2, <2>3
<1>7. TypeOK'
  BY <1>1, <1>5 DEF TypeOK
<1>8. BindInv'
  BY <1>1, <1>5, <1>6, BindKept
<1>9. CurrentInv' /\ SessionInv' /\ WriteInv'
  BY <1>1 DEF CurrentInv, SessionInv, WriteInv, SavedSoFar, Writing, Whole
<1>. QED  BY <1>7, <1>8, <1>9

\* The panel asks for the status of the session it shows.
LEMMA CheckStatusPreserves ==
  ASSUME OAuthInv, NEW s \in Sessions, CheckStatus(s),
         UNCHANGED <<started, start, save, rowVars, overtaken>>
  PROVE  OAuthInv'
<1>. USE DEF OAuthInv
<1>1. /\ panel.open /\ panel.session = s /\ panel.status = "pending"
      /\ current' = current \cup {<<"poll", s>>}
      /\ UNCHANGED <<started, flow, panel, start, save, previous, rows, failures,
                     wanted, disturbed, overtaken>>
  BY DEF CheckStatus, rowVars
<1>. DEFINE answer == IF s \notin svc \/ ~flow[s].inMap THEN "failed"
                      ELSE IF flow[s].mode = "device" /\ flow[s].status = "pending"
                      THEN "fetching" ELSE flow[s].status
            Answers == {"none", "fetching", "pending", "authorized", "failed", "rejected"}
<1>2. /\ answer \in Answers
      /\ answer = "fetching" => flow[s].mode = "device"
  BY DEF TypeOK, Flows
<1>3. /\ poll' = [poll EXCEPT ![s] = answer]
      /\ svc' = IF answer = "failed" THEN svc \ {s} ELSE svc
  BY DEF CheckStatus, AnswerPoll
<1>. HIDE DEF answer
<1>4. poll' \in [Sessions -> Answers] /\ svc' \subseteq Sessions
  BY <1>2, <1>3 DEF TypeOK
<1>5. current' \subseteq ({"start", "poll", "save"} \X Sessions)
  BY <1>1 DEF TypeOK
<1>6. TypeOK'
  BY <1>1, <1>4, <1>5 DEF TypeOK
<1>7. CurrentInv'
  <2>1. s = started
    BY <1>1 DEF CurrentInv, Sessions, None
  <2>. QED  BY <1>1, <2>1 DEF CurrentInv
<1>8. SessionInv'
  <2>1. (\A t \in Sessions : <<"poll", t>> \in current =>
           panel.session = t /\ panel.status = "pending")'
    BY <1>1 DEF SessionInv
  <2>2. (\A t \in Sessions : <<"start", t>> \in current =>
         panel.session = None /\ <<"save", t>> \notin current)'
    BY <1>1 DEF SessionInv
  <2>. QED  BY <1>1, <2>1, <2>2 DEF SessionInv
<1>9. BindInv'
  <2>1. start[s] = "done"
    BY <1>1 DEF SessionInv
  <2>2. \A t \in Sessions : poll'[t] = "fetching" =>
           poll[t] = "fetching" \/ (start[t] = "done" /\ flow[t].mode = "device")
    BY <1>2, <1>3, <2>1 DEF TypeOK
  <2>3. \A t \in Sessions : Settles(flow[t], flow'[t])
    BY <1>1 DEF Settles
  <2>. QED  BY <1>1, <1>6, <2>2, <2>3, BindKept DEF TypeOK
<1>10. WriteInv'
  BY <1>1 DEF WriteInv, SavedSoFar, Writing, Whole
<1>. QED  BY <1>6, <1>7, <1>8, <1>9, <1>10

\* The token endpoint answers a device poll.
LEMMA PollFetchedPreserves ==
  ASSUME OAuthInv, NEW s \in Sessions, PollFetched(s),
         UNCHANGED <<started, start, save, rowVars, overtaken>>
  PROVE  OAuthInv'
<1>. USE DEF OAuthInv
<1>1. /\ poll[s] = "fetching"
      /\ UNCHANGED <<started, panel, current, start, save, previous, rows, failures,
                     wanted, disturbed, overtaken>>
  BY DEF PollFetched, rowVars, panelVars
<1>. DEFINE Answers == {"none", "fetching", "pending", "authorized", "failed", "rejected"}
<1>2. start[s] = "done" /\ flow[s].mode = "device" /\ flow[s].server = "closed"
  BY <1>1 DEF BindInv
<1>3. /\ flow' \in [Sessions -> Flows]
      /\ \A t \in Sessions : t # s => flow'[t] = flow[t]
      /\ flow'[s].mode = flow[s].mode /\ flow'[s].server = flow[s].server
  <2>1. CASE UNCHANGED flow
    BY <2>1 DEF TypeOK
  <2>2. CASE \E answer \in {"pending", "authorized", "failed"} :
               flow' = [flow EXCEPT ![s] = PollResult(flow[s], answer)]
    <3>1. PICK answer \in {"pending", "authorized", "failed"} :
            flow' = [flow EXCEPT ![s] = PollResult(flow[s], answer)]
      BY <2>2
    <3>2. flow[s] \in Flows
      BY DEF TypeOK
    <3>3. LET g == PollResult(flow[s], answer) IN
          g \in Flows /\ g.mode = flow[s].mode /\ g.server = flow[s].server
      BY <3>2, PollSettles
    <3>. QED  BY <3>1, <3>3 DEF TypeOK
  <2>. QED  BY <2>1, <2>2 DEF PollFetched
<1>4. PICK answer \in Answers :
        /\ poll' = [poll EXCEPT ![s] = answer]
        /\ svc' = IF answer = "failed" THEN svc \ {s} ELSE svc
  <2>1. \A t \in Sessions : flow'[t].status \in Answers \cup {"none"}
    BY <1>3 DEF Flows
  <2>2. CASE AnswerPoll(s, "rejected")
    BY <2>2 DEF AnswerPoll
  <2>3. CASE AnswerPoll(s, flow'[s].status)
    BY <2>1, <2>3 DEF AnswerPoll
  <2>. QED  BY <2>2, <2>3 DEF PollFetched
<1>5. poll' \in [Sessions -> Answers] /\ svc' \subseteq Sessions
  BY <1>4 DEF TypeOK
<1>6. TypeOK'
  BY <1>1, <1>3, <1>5 DEF TypeOK
<1>7. BindInv'
  <2>1. \A t \in Sessions : poll'[t] = "fetching" =>
           poll[t] = "fetching" \/ (start[t] = "done" /\ flow[t].mode = "device")
    BY <1>2, <1>4 DEF TypeOK
  <2>2. \A t \in Sessions : Settles(flow[t], flow'[t])
    BY <1>2, <1>3 DEF Settles
  <2>. QED  BY <1>1, <1>2, <1>3, <2>1, <2>2, BindKept
<1>8. CurrentInv' /\ SessionInv' /\ WriteInv'
  BY <1>1 DEF CurrentInv, SessionInv, WriteInv, SavedSoFar, Writing, Whole
<1>. QED  BY <1>6, <1>7, <1>8

\* The answer reaches the panel, which still shows the session if the call is current.
LEMMA PollReturnsPreserves ==
  ASSUME OAuthInv, NEW s \in Sessions, PollReturns(s),
         UNCHANGED <<started, start, save, rowVars, overtaken>>
  PROVE  OAuthInv'
<1>. USE DEF OAuthInv
<1>. DEFINE call == <<"poll", s>>
            Panels == [open : BOOLEAN, status : {"idle", "pending", "authorized", "failed"},
                action : {"none", "starting", "saving"}, session : 0 .. MaxStarts,
                ref : 0 .. MaxStarts, autoSaved : 0 .. MaxStarts]
<1>1. /\ poll' = [poll EXCEPT ![s] = "none"] /\ current' = current \ {call}
      /\ UNCHANGED <<started, flow, svc, start, save, previous, rows, failures,
                     wanted, disturbed, overtaken>>
  BY DEF PollReturns, PanelFails, rowVars
<1>2. call \in current => /\ panel.session = s /\ panel.status = "pending" /\ panel.open
                          /\ s = started /\ save[s] = "idle" /\ s # None
                          /\ \A t \in Sessions : <<"start", t>> \notin current
  <2>1. s # None
    BY DEF Sessions, None
  <2>. QED  BY <2>1 DEF SessionInv, CurrentInv
<1>3. /\ panel' \in Panels
      /\ call \notin current => panel' = panel
      /\ call \in current => /\ panel'.session = s /\ panel'.open /\ panel'.ref = panel.ref
  <2>1. CASE poll[s] = "rejected"
    <3>1. PanelFails(call)
      BY <2>1 DEF PollReturns
    <3>. QED  BY <1>1, <1>2, <3>1, PanelFailsPreserves DEF PanelFails
  <2>2. CASE poll[s] # "rejected"
    <3>1. poll[s] \in {"pending", "authorized", "failed"} /\ s \in 0 .. MaxStarts
      BY <2>2, OAuthAssumption DEF PollReturns, TypeOK, Sessions
    <3>2. panel' = IF call \in current
                   THEN [panel EXCEPT !.status = poll[s], !.session = s] ELSE panel
      BY <2>2 DEF PollReturns
    <3>. QED  BY <1>2, <3>1, <3>2 DEF TypeOK
  <2>. QED  BY <2>1, <2>2
<1>4. TypeOK'
  BY <1>1, <1>3 DEF TypeOK
<1>5. CurrentInv'
  BY <1>1, <1>2, <1>3 DEF CurrentInv
<1>6. SessionInv'
  <2>1. CASE call \notin current
    BY <1>1, <1>3, <2>1 DEF SessionInv
  <2>2. CASE call \in current
    <3>1. \A t \in Sessions : <<"poll", t>> \notin current'
      BY <1>1, <1>2, <2>2 DEF CurrentInv
    <3>2. \A t \in Sessions : <<"start", t>> \notin current'
      BY <1>1, <1>2, <2>2
    <3>3. (\A t \in Sessions : panel.session = t \/ panel.ref = t => start[t] = "done")'
      BY <1>1, <1>2, <1>3, <2>2 DEF SessionInv
    <3>4. (\A t \in Sessions : panel.session = t /\ save[t] # "idle" =>
             panel.autoSaved = t /\ panel.status # "pending")'
      BY <1>1, <1>2, <1>3, <2>2
    <3>. QED  BY <1>1, <3>1, <3>2, <3>3, <3>4 DEF SessionInv
  <2>. QED  BY <2>1, <2>2
<1>7. BindInv'
  <2>1. \A t \in Sessions : poll'[t] = "fetching" => poll[t] = "fetching"
    BY <1>1 DEF TypeOK
  <2>2. \A t \in Sessions : Settles(flow[t], flow'[t])
    BY <1>1 DEF Settles
  <2>. QED  BY <1>1, <1>4, <2>1, <2>2, BindKept DEF TypeOK
<1>8. WriteInv'
  BY <1>1 DEF WriteInv, SavedSoFar, Writing, Whole
<1>. QED  BY <1>4, <1>5, <1>6, <1>7, <1>8

-----------------------------------------------------------------------------
(* The steps of saveOAuthConnection: what the panel sees *)

PanelInv == CurrentInv /\ SessionInv

PanelTypes ==
  /\ current \subseteq ({"start", "poll", "save"} \X Sessions)
  /\ panel \in [open : BOOLEAN, status : {"idle", "pending", "authorized", "failed"},
                action : {"none", "starting", "saving"}, session : 0 .. MaxStarts,
                ref : 0 .. MaxStarts, autoSaved : 0 .. MaxStarts]

LEMMA SaveGoesOn ==
  ASSUME TypeOK, PanelInv, NEW s \in Sessions, NEW at,
         save[s] # "idle", save' = [save EXCEPT ![s] = at], at # "idle",
         UNCHANGED <<started, start, panelVars>>
  PROVE  PanelInv' /\ PanelTypes'
<1>1. save'[s] = at /\ \A t \in Sessions : t # s => save'[t] = save[t]
  BY DEF TypeOK
<1>2. CurrentInv' /\ PanelTypes'
  BY DEF PanelInv, CurrentInv, panelVars, PanelTypes, TypeOK
<1>3. SessionInv'
  BY <1>1 DEF PanelInv, SessionInv, panelVars
<1>. QED  BY <1>2, <1>3 DEF PanelInv

\* A save that ends, well or badly, either leaves the panel or clears its session.
LEMMA SaveEnds ==
  ASSUME TypeOK, PanelInv, NEW s \in Sessions, save[s] # "idle",
         save' = [save EXCEPT ![s] = "done"],
         current' = current \ {<<"save", s>>},
         \/ panel' = panel
         \/ panel' = [panel EXCEPT !.ref = None]
         \/ panel' = ResetPanel(FALSE) /\ <<"save", s>> \in current
         \/ /\ <<"save", s>> \in current
            /\ panel' = [panel EXCEPT !.status = "failed", !.action = "none",
                                      !.session = None, !.ref = None],
         UNCHANGED <<started, start>>
  PROVE  PanelInv' /\ PanelTypes'
<1>. USE DEF PanelInv
<1>1. save'[s] = "done" /\ \A t \in Sessions : t # s => save'[t] = save[t]
  BY DEF TypeOK
<1>2. \A t \in Sessions : t # None
  BY DEF Sessions, None
<1>3. 0 \in 0 .. MaxStarts
  BY OAuthAssumption
<1>4. \A call \in current' : call \in current
  OBVIOUS
<1>. DEFINE Panels == [open : BOOLEAN, status : {"idle", "pending", "authorized", "failed"},
                action : {"none", "starting", "saving"}, session : 0 .. MaxStarts,
                ref : 0 .. MaxStarts, autoSaved : 0 .. MaxStarts]
            Same == /\ panel'.session = panel.session /\ panel'.status = panel.status
                    /\ panel'.autoSaved = panel.autoSaved /\ panel'.open = panel.open
                    /\ panel'.ref \in {panel.ref, None}
            Cleared == /\ <<"save", s>> \in current
                       /\ panel'.session = None /\ panel'.ref = None
                       /\ panel'.open = panel.open \/ panel' = ResetPanel(FALSE)
<1>5. panel \in Panels
  BY DEF TypeOK
<1>6. panel' \in Panels /\ (Same \/ Cleared)
  <2>1. CASE panel' = panel
    BY <1>5, <2>1
  <2>2. CASE panel' = [panel EXCEPT !.ref = None]
    BY <1>3, <1>5, <2>2 DEF None
  <2>3. CASE panel' = ResetPanel(FALSE) /\ <<"save", s>> \in current
    <3>1. ResetPanel(FALSE) \in Panels
      BY <1>3 DEF ResetPanel, None
    <3>2. ResetPanel(FALSE).session = None /\ ResetPanel(FALSE).ref = None
      BY DEF ResetPanel
    <3>. HIDE DEF Panels
    <3>. QED  BY <2>3, <3>1, <3>2
  <2>4. CASE /\ <<"save", s>> \in current
             /\ panel' = [panel EXCEPT !.status = "failed", !.action = "none",
                                       !.session = None, !.ref = None]
    BY <1>3, <1>5, <2>4 DEF None
  <2>. QED  BY <2>1, <2>2, <2>3, <2>4
<1>. HIDE DEF Panels
<1>7. PanelTypes'
  BY <1>4, <1>6 DEF PanelTypes, Panels, TypeOK
<1>8. CASE Same
  <2>1. CurrentInv'
    BY <1>4, <1>8 DEF CurrentInv
  <2>2. SessionInv'
    BY <1>1, <1>2, <1>4, <1>8 DEF SessionInv
  <2>. QED  BY <1>7, <2>1, <2>2
<1>9. CASE Cleared
  <2>1. s = started
    BY <1>9 DEF CurrentInv
  <2>2. \A t \in Sessions : <<"poll", t>> \notin current'
    BY <2>1 DEF CurrentInv, SessionInv
  <2>3. SessionInv'
    BY <1>1, <1>2, <1>4, <1>9, <2>2 DEF SessionInv
  <2>4. CurrentInv'
    <3>1. CASE panel'.open = panel.open
      BY <1>4, <1>9, <3>1 DEF CurrentInv
    <3>2. \A t \in Sessions : <<"start", t>> \notin current'
      BY <1>9, <2>1 DEF CurrentInv, SessionInv
    <3>3. current' = {}
      BY <2>1, <2>2, <3>2 DEF CurrentInv, TypeOK
    <3>. QED  BY <1>9, <3>1, <3>3 DEF CurrentInv
  <2>. QED  BY <1>7, <2>3, <2>4
<1>. QED  BY <1>6, <1>8, <1>9

\* The panel begins a save, or finds that the flow is gone.
LEMMA SaveBegins ==
  ASSUME TypeOK, PanelInv, NEW s \in Sessions, SaveConnection(s),
         UNCHANGED <<started, start>>
  PROVE  PanelInv' /\ PanelTypes' /\ save[s] = "idle"
<1>. USE DEF PanelInv
<1>1. /\ panel.open /\ panel.session = s /\ panel.status = "authorized" /\ panel.autoSaved # s
      /\ s # None /\ s \in 0 .. MaxStarts /\ 0 \in 0 .. MaxStarts
      /\ s = started /\ start[s] = "done" /\ save[s] = "idle"
  <2>1. s # None /\ s \in 0 .. MaxStarts /\ 0 \in 0 .. MaxStarts
    BY OAuthAssumption DEF Sessions, None
  <2>. QED  BY <2>1 DEF SaveConnection, SessionInv, CurrentInv
<1>2. \A t \in Sessions : t # s => save'[t] = save[t]
  BY DEF SaveConnection, TypeOK
<1>3. (\A t \in Sessions : t > started => start[t] = "idle")'
  BY DEF SessionInv
<1>4. (\A t \in Sessions : start[t] # "done" => save[t] = "idle")'
  BY <1>1, <1>2 DEF SessionInv
<1>5. CASE /\ current' = {<<"save", s>>}
           /\ panel' = [panel EXCEPT !.action = "saving", !.autoSaved = s]
  <2>1. /\ panel'.open = panel.open /\ panel'.session = s /\ panel'.status = "authorized"
        /\ panel'.autoSaved = s /\ panel'.ref = panel.ref
    BY <1>1, <1>5 DEF TypeOK
  <2>2. PanelTypes'
    <3>1. current' \subseteq ({"start", "poll", "save"} \X Sessions)
      BY <1>5
    <3>2. panel' \in [open : BOOLEAN, status : {"idle", "pending", "authorized", "failed"},
                action : {"none", "starting", "saving"}, session : 0 .. MaxStarts,
                ref : 0 .. MaxStarts, autoSaved : 0 .. MaxStarts]
      BY <1>1, <1>5 DEF TypeOK
    <3>. QED  BY <3>1, <3>2 DEF PanelTypes
  <2>3. CurrentInv'
    BY <1>1, <1>5, <2>1 DEF CurrentInv
  <2>4. (\A t \in Sessions : panel.session = t \/ panel.ref = t => start[t] = "done")'
    BY <1>1, <2>1 DEF SessionInv
  <2>5. (\A t \in Sessions : panel.session = t /\ save[t] # "idle" =>
             panel.autoSaved = t /\ panel.status # "pending")'
    BY <2>1
  <2>6. SessionInv'
    BY <1>3, <1>4, <1>5, <2>4, <2>5 DEF SessionInv
  <2>. QED  BY <1>1, <2>2, <2>3, <2>6
<1>6. CASE /\ current' = {}
           /\ panel' = [panel EXCEPT !.status = "failed", !.autoSaved = s,
                                    !.session = None, !.ref = None]
  <2>1. panel'.session = None /\ panel'.ref = None
    BY <1>6 DEF TypeOK
  <2>2. PanelTypes'
    BY <1>1, <1>6 DEF PanelTypes, TypeOK, None
  <2>3. CurrentInv'
    BY <1>6, <2>1 DEF CurrentInv
  <2>4. \A t \in Sessions : t # None
    BY DEF Sessions, None
  <2>6. SessionInv'
    BY <1>3, <1>4, <1>6, <2>1, <2>4 DEF SessionInv
  <2>. QED  BY <1>1, <2>2, <2>3, <2>6
<1>. QED  BY <1>5, <1>6 DEF SaveConnection

SaveSteps == {"idle", "exchange", "read", "cred", "prov", "delete", "models", "lastModel",
              "status", "undoModels", "undoProv", "undoCred", "done"}

\* What the panel sees of a step of the save, and where the save stands after it.
LEMMA SavePanel ==
  ASSUME TypeOK, PanelInv, NEW s \in Sessions, SaveStep(s)
  PROVE  /\ PanelInv' /\ PanelTypes'
         /\ save' \in [Sessions -> SaveSteps]
         /\ \A t \in Sessions : t # s => save'[t] = save[t]
<1>0. UNCHANGED <<started, start, poll, overtaken>>
  BY DEF SaveStep
<1>1. ASSUME SaveThrows(s), save[s] # "idle"
      PROVE  PanelInv' /\ PanelTypes' /\ save' = [save EXCEPT ![s] = "done"]
  BY <1>0, <1>1, SaveEnds DEF SaveThrows
<1>2. ASSUME NEW at \in SaveSteps \ {"idle"}, save' = [save EXCEPT ![s] = at],
             save[s] # "idle", UNCHANGED panelVars
      PROVE  PanelInv' /\ PanelTypes'
  BY <1>0, <1>2, SaveGoesOn
<1>. DEFINE Goal == PanelInv' /\ PanelTypes'
                    /\ \E at \in SaveSteps : save' = [save EXCEPT ![s] = at]
<1>3. ASSUME SaveConnection(s) PROVE Goal
  <2>1. \E at \in SaveSteps : save' = [save EXCEPT ![s] = at]
    BY <1>3 DEF SaveConnection, SaveSteps
  <2>. QED  BY <1>0, <1>3, <2>1, SaveBegins
<1>4. ASSUME Exchanged(s) PROVE Goal
  <2>1. save[s] = "exchange"
    BY <1>4 DEF Exchanged
  <2>2. CASE SaveThrows(s)
    BY <1>1, <2>1, <2>2 DEF SaveSteps
  <2>3. CASE save' = [save EXCEPT ![s] = "read"] /\ UNCHANGED panelVars
    BY <1>2, <2>1, <2>3 DEF SaveSteps
  <2>. QED  BY <1>4, <2>2, <2>3 DEF Exchanged
<1>5. ASSUME ReadPrevious(s) PROVE Goal
  <2>1. save[s] = "read"
    BY <1>5 DEF ReadPrevious
  <2>2. CASE SaveThrows(s)
    BY <1>1, <2>1, <2>2 DEF SaveSteps
  <2>3. CASE save' = [save EXCEPT ![s] = "cred"] /\ UNCHANGED panelVars
    BY <1>2, <2>1, <2>3 DEF SaveSteps
  <2>. QED  BY <1>5, <2>2, <2>3 DEF ReadPrevious
<1>6. /\ \A at \in {"cred", "prov", "delete", "models", "lastModel", "undoModels", "undoProv"} :
           NextSave[at] \in SaveSteps \ {"idle"}
  BY DEF NextSave, SaveSteps
<1>7. ASSUME WriteRow(s) PROVE Goal
  <2>1. /\ save[s] \in {"cred", "prov", "delete", "models", "lastModel"} /\ UNCHANGED panelVars
        /\ save' = [save EXCEPT ![s] = NextSave[save[s]]]
    BY <1>7 DEF WriteRow
  <2>. QED  BY <1>2, <1>6, <2>1 DEF SaveSteps
<1>8. ASSUME Saved(s) PROVE Goal
  <2>1. /\ save[s] = "status" /\ save' = [save EXCEPT ![s] = "done"]
        /\ current' = current \ {<<"save", s>>}
        /\ panel' = IF <<"save", s>> \in current THEN ResetPanel(FALSE)
                    ELSE [panel EXCEPT !.ref = None]
    BY <1>8 DEF Saved
  <2>. QED  BY <1>0, <2>1, SaveEnds DEF SaveSteps
<1>9. ASSUME WriteThrows(s) PROVE Goal
  <2>1. save[s] # "idle" /\ save' = [save EXCEPT ![s] = "undoModels"] /\ UNCHANGED panelVars
    BY <1>9 DEF WriteThrows
  <2>. QED  BY <1>2, <2>1 DEF SaveSteps
<1>10. ASSUME Rollback(s) PROVE Goal
  <2>1. save[s] \in {"undoModels", "undoProv", "undoCred"}
    BY <1>10 DEF Rollback
  <2>2. CASE SaveThrows(s)
    BY <1>1, <2>1, <2>2 DEF SaveSteps
  <2>3. CASE /\ save[s] # "undoCred" /\ save' = [save EXCEPT ![s] = NextSave[save[s]]]
             /\ UNCHANGED panelVars
    BY <1>2, <1>6, <2>1, <2>3 DEF SaveSteps
  <2>. QED  BY <1>10, <2>2, <2>3 DEF Rollback
<1>11. ASSUME StatusThrows(s) PROVE Goal
  BY <1>1, <1>11 DEF StatusThrows, SaveSteps
<1>12. Goal
  <2>. HIDE DEF Goal
  <2>. QED  BY <1>3, <1>4, <1>5, <1>7, <1>8, <1>9, <1>10, <1>11 DEF SaveStep
<1>. QED  BY <1>12 DEF TypeOK, SaveSteps

-----------------------------------------------------------------------------
(* The steps of saveOAuthConnection: what is written *)

Rows == [cred : Owners, prov : Owners, models : Owners \cup {Partial}]

LEMMA WholeRows ==
  ASSUME NEW o \in Owners
  PROVE  Whole(o) \in Rows
BY DEF Whole, Rows

LEMMA WriteTypes ==
  ASSUME TypeOK, NEW s \in Sessions, SaveStep(s)
  PROVE  /\ rows' \in Rows /\ previous' \in [Sessions -> Rows]
         /\ failures' \in 0 .. MaxFailures /\ wanted' \in Owners /\ disturbed' \in BOOLEAN
         /\ svc' \subseteq Sessions
<1>0. /\ rows \in Rows /\ previous \in [Sessions -> Rows] /\ failures \in 0 .. MaxFailures
      /\ wanted \in Owners /\ disturbed \in BOOLEAN /\ svc \subseteq Sessions
      /\ s \in Owners /\ NoRow \in Owners
  BY DEF TypeOK, Rows, Owners
<1>. DEFINE Goal == /\ rows' \in Rows /\ previous' \in [Sessions -> Rows]
                    /\ failures' \in 0 .. MaxFailures /\ wanted' \in Owners
                    /\ disturbed' \in BOOLEAN /\ svc' \subseteq Sessions
<1>1. \A at \in {"cred", "prov", "delete", "models", "lastModel"} : Written(s, at) \in Rows
  BY <1>0 DEF Written, Rows
<1>2. \A at \in Undo : Restored(s, at) \in Rows
  <2>1. previous[s] \in Rows
    BY <1>0
  <2>. QED  BY <1>0, <2>1 DEF Restored, Rows, Undo
<1>3. failures < MaxFailures => failures + 1 \in 0 .. MaxFailures
  BY <1>0, OAuthAssumption
<1>. USE <1>0
<1>11. Forgotten(s) \in [Sessions -> Rows]
  BY WholeRows DEF Forgotten
<1>12. SaveThrows(s) => previous' = Forgotten(s)
  BY DEF SaveThrows
<1>4. CASE SaveConnection(s)
  BY <1>4 DEF SaveConnection, rowVars
<1>5. CASE Exchanged(s)
  BY <1>5, <1>11, <1>12 DEF Exchanged
<1>6. CASE ReadPrevious(s)
  BY <1>6, <1>11, <1>12 DEF ReadPrevious
<1>7. CASE WriteRow(s)
  BY <1>1, <1>7, <1>11 DEF WriteRow
<1>8. CASE Saved(s)
  BY <1>8 DEF Saved, rowVars
<1>13. CASE StatusThrows(s)
  BY <1>11, <1>12, <1>13 DEF StatusThrows
<1>9. CASE WriteThrows(s)
  BY <1>3, <1>9 DEF WriteThrows
<1>10. CASE Rollback(s)
  BY <1>2, <1>3, <1>10, <1>11, <1>12 DEF Rollback, Undo
<1>. QED  BY <1>4, <1>5, <1>6, <1>7, <1>8, <1>9, <1>10, <1>13 DEF SaveStep

\* A step that only moves the save of s, without touching a row.
LEMMA OthersWrite ==
  ASSUME NEW s \in Sessions, \A t \in Sessions : t # s => save'[t] = save[t]
  PROVE  \A t \in Sessions : t # s => (Writing(t)' <=> Writing(t))
BY DEF Writing

\* The writer of an undisturbed save takes its next step.
LEMMA WriterGoesOn ==
  ASSUME WriteInv, TypeOK, NEW s \in Sessions, Writing(s),
         \A t \in Sessions : t # s => save'[t] = save[t],
         disturbed' = disturbed, failures' \in {failures, failures + 1},
         ~disturbed /\ failures' < 2 =>
           IF Writing(s)' THEN SavedSoFar(s)' ELSE rows' = Whole(wanted')
  PROVE  WriteInv'
<1>. SUFFICES ASSUME ~disturbed, failures' < 2
              PROVE  /\ \A t, u \in Sessions : Writing(t)' /\ Writing(u)' => t = u
                     /\ \A t \in Sessions : Writing(t)' => SavedSoFar(t)'
                     /\ (\A t \in Sessions : ~Writing(t)') => rows' = Whole(wanted')
  BY DEF WriteInv, Whole
<1>1. failures < 2
  BY DEF TypeOK
<1>2. \A t \in Sessions : t # s => ~Writing(t)
  BY <1>1 DEF WriteInv
<1>3. \A t \in Sessions : t # s => ~Writing(t)'
  BY <1>2, OthersWrite
<1>. QED  BY <1>3

LEMMA WriteStep ==
  ASSUME WriteInv, TypeOK, PanelInv, NEW s \in Sessions, SaveStep(s)
  PROVE  WriteInv'
<1>0. /\ \A t \in Sessions : t # s => save'[t] = save[t]
      /\ failures \in Nat
  BY SavePanel DEF TypeOK
<1>1. ASSUME ~Writing(s), ~Writing(s)', UNCHANGED <<rows, wanted, failures, disturbed>>,
             previous' = previous \/ previous' = Forgotten(s)
      PROVE  WriteInv'
  <2>1. \A t \in Sessions : Writing(t)' <=> Writing(t)
    BY <1>0, <1>1, OthersWrite
  <2>2. \A t \in Sessions : Writing(t) => SavedSoFar(t)' = SavedSoFar(t)
    <3>1. \A t \in Sessions : t # s => previous'[t] = previous[t]
      BY <1>1 DEF Forgotten, TypeOK
    <3>. QED  BY <1>0, <1>1, <3>1 DEF SavedSoFar, Whole
  <2>3. Whole(wanted)' = Whole(wanted)
    BY <1>1 DEF Whole
  <2>. QED  BY <1>1, <2>1, <2>2, <2>3 DEF WriteInv
<1>2. CASE SaveConnection(s)
  <2>1. save[s] = "idle"
    BY <1>2, SaveBegins DEF SaveStep
  <2>2. \E at \in {"exchange", "done"} : save' = [save EXCEPT ![s] = at]
    BY <1>2 DEF SaveConnection
  <2>3. save'[s] \in {"exchange", "done"}
    BY <2>2 DEF TypeOK
  <2>. QED  BY <1>1, <1>2, <2>1, <2>3 DEF SaveConnection, rowVars, Writing
<1>3. CASE Exchanged(s)
  <2>1. save[s] = "exchange" /\ UNCHANGED <<rows, failures, wanted>>
    BY <1>3 DEF Exchanged
  <2>2. CASE save' = [save EXCEPT ![s] = "read"]
             /\ disturbed' = (disturbed \/ \E t \in Sessions : Writing(t))
    <3>. SUFFICES ASSUME ~disturbed', failures < 2
                  PROVE  /\ \A t, u \in Sessions : Writing(t)' /\ Writing(u)' => t = u
                         /\ \A t \in Sessions : Writing(t)' => SavedSoFar(t)'
                         /\ (\A t \in Sessions : ~Writing(t)') => rows' = Whole(wanted')
      BY <2>1 DEF WriteInv, Whole
    <3>1. ~disturbed /\ \A t \in Sessions : ~Writing(t)
      BY <2>2
    <3>2. rows = Whole(wanted)
      BY <3>1 DEF WriteInv
    <3>3. \A t \in Sessions : t # s => ~Writing(t)'
      BY <1>0, <3>1, OthersWrite
    <3>4. save'[s] = "read"
      BY <2>2 DEF TypeOK
    <3>5. SavedSoFar(s)' /\ Whole(wanted') = Whole(wanted)
      BY <2>1, <3>2, <3>4 DEF SavedSoFar, Whole, Undo
    <3>. QED  BY <2>1, <3>2, <3>3, <3>5
  <2>3. CASE SaveThrows(s) /\ UNCHANGED disturbed
    <3>1. save'[s] = "done" /\ previous' = Forgotten(s)
      BY <2>3 DEF SaveThrows, TypeOK
    <3>. QED  BY <1>1, <2>1, <2>3, <3>1 DEF Writing
  <2>. QED  BY <1>3, <2>2, <2>3 DEF Exchanged
<1>. DEFINE Calm == ~disturbed /\ failures < 2
<1>4. Calm /\ Writing(s) => SavedSoFar(s)
  BY DEF WriteInv
<1>. DEFINE r == rows
            Goal == Calm => IF Writing(s)' THEN SavedSoFar(s)' ELSE rows' = Whole(wanted')
<1>5. rows \in Rows /\ wanted \in Owners /\ s # NoRow /\ previous[s] \in Rows
  BY DEF TypeOK, Rows, NoRow, Sessions
<1>6. CASE ReadPrevious(s)
  <2>1. save[s] = "read" /\ UNCHANGED <<rows, failures, wanted, disturbed>>
    BY <1>6 DEF ReadPrevious
  <2>2. Writing(s)
    BY <2>1 DEF Writing
  <2>3. Calm => rows = Whole(wanted)
    BY <1>4, <2>1, <2>2 DEF SavedSoFar
  <2>4. Goal
    <3>1. CASE save'[s] = "done"
      BY <2>1, <2>3, <3>1 DEF Writing, Whole
    <3>2. CASE save'[s] = "cred" /\ previous'[s] = rows
      BY <2>1, <2>3, <3>2 DEF Writing, SavedSoFar, Whole, Undo
    <3>. QED  BY <1>6, <3>1, <3>2 DEF ReadPrevious, SaveThrows, TypeOK
  <2>. QED  BY <1>0, <2>1, <2>2, <2>4, WriterGoesOn
<1>7. CASE WriteRow(s) /\ save[s] # "lastModel"
  <2>1. /\ save[s] \in {"cred", "prov", "delete", "models"}
        /\ rows' = Written(s, save[s]) /\ save'[s] = NextSave[save[s]]
        /\ UNCHANGED <<previous, failures, wanted, disturbed>>
    BY <1>7 DEF WriteRow, TypeOK
  <2>2. Writing(s)
    BY <2>1 DEF Writing
  <2>3. Calm => SavedSoFar(s)' /\ Writing(s)'
    <3>. SUFFICES ASSUME Calm PROVE SavedSoFar(s)' /\ Writing(s)'
      OBVIOUS
    <3>0. SavedSoFar(s) /\ Whole(wanted') = Whole(wanted)
      BY <1>4, <2>1, <2>2
    <3>5. previous'[s] = Whole(wanted)
      BY <2>1, <3>0 DEF SavedSoFar
    <3>1. CASE save[s] = "cred"
      <4>1. save'[s] = "prov" /\ rows' = [rows EXCEPT !.cred = s]
        BY <2>1, <3>1 DEF NextSave, Written
      <4>2. rows = Whole(wanted)
        BY <3>0, <3>1 DEF SavedSoFar
      <4>. QED  BY <2>1, <3>0, <3>5, <4>1, <4>2 DEF SavedSoFar, Undo, Writing
    <3>2. CASE save[s] = "prov"
      <4>1. save'[s] = "delete" /\ rows' = [rows EXCEPT !.prov = s]
        BY <2>1, <3>2 DEF NextSave, Written
      <4>2. rows = [Whole(wanted) EXCEPT !.cred = s]
        BY <3>0, <3>2 DEF SavedSoFar
      <4>3. rows = [cred |-> s, prov |-> wanted, models |-> wanted]
        BY <4>2 DEF Whole
      <4>4. rows' = [cred |-> s, prov |-> s, models |-> wanted]
        BY <4>1, <4>3
      <4>5. [Whole(s) EXCEPT !.models = wanted] = [cred |-> s, prov |-> s, models |-> wanted]
        BY DEF Whole
      <4>6. rows' = [Whole(s) EXCEPT !.models = wanted']
        BY <2>1, <4>4, <4>5
      <4>. QED  BY <2>1, <3>0, <3>5, <4>1, <4>6 DEF SavedSoFar, Undo, Writing
    <3>3. CASE save[s] = "delete"
      <4>1. save'[s] = "models" /\ rows' = [rows EXCEPT !.models = NoRow]
        BY <2>1, <3>3 DEF NextSave, Written
      <4>2. rows = [Whole(s) EXCEPT !.models = wanted]
        BY <3>0, <3>3 DEF SavedSoFar
      <4>3. rows'.cred = s /\ rows'.prov = s
        BY <4>1, <4>2 DEF Whole
      <4>. QED  BY <2>1, <3>0, <3>5, <4>1, <4>3 DEF SavedSoFar, Undo, Writing
    <3>4. CASE save[s] = "models"
      <4>1. save'[s] = "lastModel" /\ rows' = [rows EXCEPT !.models = Partial]
        BY <2>1, <3>4 DEF NextSave, Written
      <4>2. rows.cred = s /\ rows.prov = s
        BY <3>0, <3>4 DEF SavedSoFar
      <4>3. rows'.cred = s /\ rows'.prov = s
        BY <1>5, <4>1, <4>2 DEF Rows
      <4>. QED  BY <2>1, <3>0, <3>5, <4>1, <4>3 DEF SavedSoFar, Undo, Writing
    <3>. QED  BY <2>1, <3>1, <3>2, <3>3, <3>4
  <2>. QED  BY <1>0, <2>1, <2>2, <2>3, WriterGoesOn
<1>8. CASE WriteRow(s) /\ save[s] = "lastModel"
  <2>1. /\ save[s] = "lastModel" /\ save'[s] = "status" /\ wanted' = s
        /\ rows' = [rows EXCEPT !.models = s] /\ UNCHANGED <<failures, disturbed>>
    BY <1>8 DEF WriteRow, Written, NextSave, TypeOK
  <2>2. Writing(s) /\ ~Writing(s)'
    BY <2>1 DEF Writing
  <2>3. Calm => rows.cred = s /\ rows.prov = s
    BY <1>4, <2>1, <2>2 DEF SavedSoFar
  <2>4. Calm => rows' = Whole(wanted')
    BY <1>5, <2>1, <2>3 DEF Whole, Rows
  <2>. QED  BY <1>0, <2>1, <2>2, <2>4, WriterGoesOn
<1>9. CASE WriteThrows(s)
  <2>1. /\ save[s] \in {"cred", "prov", "delete", "models", "lastModel"}
        /\ save'[s] = "undoModels"
        /\ \/ failures' = failures + 1
           \/ save[s] \in {"models", "lastModel"} /\ rows.prov = NoRow /\ UNCHANGED failures
        /\ UNCHANGED <<previous, rows, wanted, disturbed>>
    BY <1>9 DEF WriteThrows, TypeOK
  <2>2. Writing(s) /\ Writing(s)'
    BY <2>1 DEF Writing
  <2>3. ~disturbed /\ failures' < 2 => SavedSoFar(s)'
    <3>. SUFFICES ASSUME ~disturbed, failures' < 2
                  PROVE  SavedSoFar(s)'
      OBVIOUS
    <3>1. failures < 2
      BY <1>0, <2>1
    <3>2. SavedSoFar(s)
      BY <1>4, <2>2, <3>1
    <3>3. failures' > 0
      BY <1>0, <1>5, <2>1, <3>2 DEF SavedSoFar
    <3>. QED  BY <2>1, <3>2, <3>3 DEF SavedSoFar, Whole
  <2>. QED  BY <1>0, <2>1, <2>2, <2>3, WriterGoesOn
<1>10. CASE Rollback(s)
  <2>1. save[s] \in Undo /\ UNCHANGED <<wanted, disturbed>>
    BY <1>10 DEF Rollback, Undo
  <2>2. Writing(s)
    BY <2>1 DEF Writing, Undo
  <2>3. CASE failures' = failures + 1 /\ SaveThrows(s) /\ UNCHANGED rows
    <3>1. ~(~disturbed /\ failures' < 2)
      BY <1>0, <1>4, <2>1, <2>2, <2>3 DEF SavedSoFar
    <3>. QED  BY <1>0, <2>1, <2>2, <2>3, <3>1, WriterGoesOn
  <2>4. CASE rows' = Restored(s, save[s]) /\ UNCHANGED failures
             /\ IF save[s] = "undoCred" THEN SaveThrows(s)
                ELSE save' = [save EXCEPT ![s] = NextSave[@]] /\ UNCHANGED <<panelVars, previous>>
    <3>1. Calm => IF Writing(s)' THEN SavedSoFar(s)' ELSE rows' = Whole(wanted')
      <4>. SUFFICES ASSUME Calm
                    PROVE  IF Writing(s)' THEN SavedSoFar(s)' ELSE rows' = Whole(wanted')
        OBVIOUS
      <4>0. /\ SavedSoFar(s) /\ Whole(wanted') = Whole(wanted)
            /\ previous[s].cred = wanted /\ previous[s].prov = wanted
            /\ previous[s].models = wanted /\ previous[s] = Whole(wanted) /\ failures' > 0
        BY <1>4, <2>1, <2>2, <2>4 DEF SavedSoFar, Whole, Undo
      <4>1. CASE save[s] = "undoModels"
        <5>1. /\ save'[s] = "undoProv" /\ UNCHANGED previous
              /\ rows' = [rows EXCEPT !.models = previous[s].models]
          BY <2>4, <4>1 DEF Restored, NextSave, TypeOK
        <5>2. rows'.models = wanted'
          BY <1>5, <2>1, <4>0, <5>1 DEF Rows
        <5>. QED  BY <2>1, <4>0, <5>1, <5>2 DEF SavedSoFar, Writing, Undo
      <4>2. CASE save[s] = "undoProv"
        <5>1. /\ save'[s] = "undoCred" /\ UNCHANGED previous
              /\ rows' = [rows EXCEPT !.prov = previous[s].prov]
          BY <2>4, <4>2 DEF Restored, NextSave, TypeOK
        <5>2. rows'.models = wanted' /\ rows'.prov = wanted'
          BY <1>5, <2>1, <4>0, <4>2, <5>1 DEF Rows, SavedSoFar
        <5>. QED  BY <2>1, <4>0, <5>1, <5>2 DEF SavedSoFar, Writing, Undo
      <4>3. CASE save[s] = "undoCred"
        <5>1. save'[s] = "done" /\ rows' = [rows EXCEPT !.cred = previous[s].cred]
          BY <2>4, <4>3 DEF Restored, SaveThrows, TypeOK
        <5>2. rows.models = wanted /\ rows.prov = wanted
          BY <4>0, <4>3 DEF SavedSoFar
        <5>3. rows' = Whole(wanted')
          BY <1>5, <2>1, <4>0, <5>1, <5>2 DEF Rows, Whole
        <5>. QED  BY <5>1, <5>3 DEF Writing
      <4>. QED  BY <2>1, <4>1, <4>2, <4>3 DEF Undo
    <3>. QED  BY <1>0, <2>1, <2>2, <2>4, <3>1, WriterGoesOn
  <2>. QED  BY <1>10, <2>3, <2>4 DEF Rollback
<1>11. CASE Saved(s)
  BY <1>1, <1>11 DEF Saved, Writing, rowVars, TypeOK
<1>12. CASE StatusThrows(s)
  BY <1>1, <1>12 DEF StatusThrows, SaveThrows, Writing, TypeOK
<1>. QED  BY <1>2, <1>3, <1>6, <1>7, <1>8, <1>9, <1>10, <1>11, <1>12 DEF SaveStep

LEMMA SaveStepPreserves ==
  ASSUME OAuthInv, NEW s \in Sessions, SaveStep(s)
  PROVE  OAuthInv'
<1>. USE DEF OAuthInv
<1>0. UNCHANGED <<started, start, poll, overtaken>>
  BY DEF SaveStep
<1>1. PanelInv
  BY DEF PanelInv
<1>2. PanelInv' /\ PanelTypes' /\ save' \in [Sessions -> SaveSteps]
  BY <1>1, SavePanel
<1>3. flow' = flow \/ (save[s] = "exchange" /\ flow' = [flow EXCEPT ![s] = DeleteFlow(flow[s])])
  BY DEF SaveStep, SaveConnection, Exchanged, ReadPrevious, WriteRow, Saved, StatusThrows,
         WriteThrows, Rollback
<1>4. flow' \in [Sessions -> Flows] /\ BindInv'
  <2>0. \A t \in Sessions : Settles(flow[t], flow[t])
    BY DEF Settles
  <2>1. CASE flow' = flow
    BY <1>0, <2>0, <2>1, BindKept DEF TypeOK
  <2>2. CASE save[s] = "exchange" /\ flow' = [flow EXCEPT ![s] = DeleteFlow(flow[s])]
    <3>1. DeleteFlow(flow[s]) \in Flows /\ Settles(flow[s], DeleteFlow(flow[s]))
      BY DeleteSettles DEF TypeOK
    <3>2. start[s] = "done"
      BY <2>2 DEF SessionInv
    <3>3. flow' \in [Sessions -> Flows] /\ flow'[s] = DeleteFlow(flow[s])
          /\ \A t \in Sessions : t # s => flow'[t] = flow[t]
      BY <2>2, <3>1 DEF TypeOK
    <3>4. \A t \in Sessions : Settles(flow[t], flow'[t])
      BY <2>0, <3>1, <3>3
    <3>. QED  BY <1>0, <3>2, <3>3, <3>4, BindKept
  <2>. QED  BY <1>3, <2>1, <2>2
<1>5. TypeOK'
  BY <1>0, <1>2, <1>4, WriteTypes DEF TypeOK, PanelTypes, SaveSteps, Rows
<1>6. WriteInv'
  BY <1>1, WriteStep
<1>. QED  BY <1>2, <1>4, <1>5, <1>6 DEF PanelInv

LEMMA DeleteProviderPreserves ==
  ASSUME OAuthInv, DeleteProvider
  PROVE  OAuthInv'
<1>. USE DEF OAuthInv
<1>1. /\ rows' = Whole(NoRow) /\ wanted' = NoRow
      /\ disturbed' = (disturbed \/ \E s \in Sessions : Writing(s))
      /\ UNCHANGED <<started, flow, svc, start, poll, save, current, panel, previous,
                     failures, overtaken>>
  BY DEF DeleteProvider, gatewayVars, panelVars
<1>2. TypeOK'
  <2>1. Whole(NoRow) \in Rows /\ NoRow \in Owners
    BY WholeRows DEF Owners
  <2>2. disturbed' \in BOOLEAN
    BY <1>1 DEF TypeOK
  <2>. QED  BY <1>1, <2>1, <2>2 DEF TypeOK, Rows
<1>3. CurrentInv' /\ SessionInv'
  BY <1>1 DEF CurrentInv, SessionInv
<1>4. BindInv'
  <2>1. \A t \in Sessions : Settles(flow[t], flow[t])
    BY DEF Settles
  <2>. QED  BY <1>1, <2>1, BindKept DEF TypeOK
<1>5. WriteInv'
  <2>1. ~disturbed' => \A s \in Sessions : ~Writing(s)'
    BY <1>1 DEF Writing
  <2>. QED  BY <1>1, <2>1 DEF WriteInv, Whole
<1>. QED  BY <1>2, <1>3, <1>4, <1>5

-----------------------------------------------------------------------------
(* The invariant, and the theorems *)

LEMMA InitInv ==
  ASSUME Init
  PROVE  OAuthInv
<1>0. 0 \in 0 .. MaxStarts /\ 0 \in 0 .. MaxFailures /\ MaxStarts + 1 \in Nat
  BY OAuthAssumption
<1>1. NoFlow \in Flows /\ NoFlow.mode = "browser" /\ NoFlow.server = "none"
  BY DEF NoFlow, Flows
<1>2. NoRow \in Owners /\ Old \in Owners
  BY DEF Owners
<1>3. \A o \in Owners : Whole(o) \in Rows
  BY WholeRows
<1>4. /\ panel = ResetPanel(FALSE) /\ panel.session = None /\ panel.ref = None
      /\ panel \in [open : BOOLEAN, status : {"idle", "pending", "authorized", "failed"},
                action : {"none", "starting", "saving"}, session : 0 .. MaxStarts,
                ref : 0 .. MaxStarts, autoSaved : 0 .. MaxStarts]
  BY <1>0 DEF Init, ResetPanel, None
<1>5. wanted \in Owners /\ rows \in Rows /\ previous \in [Sessions -> Rows]
  BY <1>2, <1>3 DEF Init
<1>6. TypeOK
  BY <1>0, <1>1, <1>4, <1>5 DEF Init, TypeOK, Rows
<1>7. CurrentInv
  BY <1>4 DEF Init, CurrentInv
<1>8. SessionInv
  <2>1. \A s \in Sessions : s # None
    BY DEF Sessions, None
  <2>. QED  BY <1>4, <2>1 DEF Init, SessionInv
<1>9. BindInv
  BY <1>1 DEF Init, BindInv
<1>10. WriteInv
  BY DEF Init, WriteInv, Writing
<1>. QED  BY <1>6, <1>7, <1>8, <1>9, <1>10 DEF OAuthInv

LEMMA StepInv ==
  ASSUME OAuthInv, [Next]_vars
  PROVE  OAuthInv'
<1>1. CASE OpenDialog \/ CloseDialog
  BY <1>1, ResetPreserves DEF OpenDialog, CloseDialog
<1>2. CASE AutoStart \/ Retry
  BY <1>2, StartPreserves DEF AutoStart, Retry
<1>3. CASE DeleteProvider
  BY <1>3, DeleteProviderPreserves
<1>4. ASSUME NEW s \in Sessions, StartStep(s) PROVE OAuthInv'
  BY <1>4, StartStepPreserves
<1>5. ASSUME NEW s \in Sessions, Callback(s) \/ Answered(s) \/ Timeout(s) \/ Retention(s)
      PROVE  OAuthInv'
  BY <1>5, FlowStepPreserves
<1>6. ASSUME NEW s \in Sessions, PollStep(s) PROVE OAuthInv'
  BY <1>6, CheckStatusPreserves, PollFetchedPreserves, PollReturnsPreserves DEF PollStep
<1>7. ASSUME NEW s \in Sessions, SaveStep(s) PROVE OAuthInv'
  BY <1>7, SaveStepPreserves
<1>8. CASE UNCHANGED vars
  BY <1>8 DEF vars, gatewayVars, panelVars, rowVars, OAuthInv, TypeOK, CurrentInv, SessionInv,
     BindInv, WriteInv, SavedSoFar, Writing, Whole, Owners, Sessions, Flows, NewFlow, NoFlow
<1>. QED  BY <1>1, <1>2, <1>3, <1>4, <1>5, <1>6, <1>7, <1>8 DEF Next

LEMMA Invariance == Spec => []OAuthInv
BY InitInv, StepInv, PTL DEF Spec

\* The gateway, the service, the panel and the rows keep their types, whatever the
\* order of callbacks, timers, answers and clicks.
THEOREM TypeCorrect == Spec => []TypeOK
<1>1. OAuthInv => TypeOK
  BY DEF OAuthInv
<1>. QED  BY <1>1, Invariance, PTL

\* A callback server that waits belongs to a pending flow of the map, except for a flow
\* that startAuthorization replaced while its server was binding.
THEOREM PortIsReleased == Spec => []PortReleased
<1>1. OAuthInv => PortReleased
  BY DEF OAuthInv, BindInv, PortReleased
<1>. QED  BY <1>1, Invariance, PTL

\* The request ids of the panel keep it on the authorization it asked for last.
THEOREM PanelIsCurrent == Spec => []PanelFollowsLatest
<1>1. OAuthInv => PanelFollowsLatest
  BY DEF OAuthInv, CurrentInv, PanelFollowsLatest
<1>. QED  BY <1>1, Invariance, PTL

\* saveOAuthConnection and rollbackCodexConnection leave the whole of one connection,
\* unless two writers overlapped or the rollback failed. A save that has written its last
\* row stands, also when the read of the status it ends with rejects (StatusThrows).
THEOREM SaveIsAllOrNothing == Spec => []SaveAllOrNothing
<1>1. OAuthInv => SaveAllOrNothing
  BY DEF OAuthInv, WriteInv, SaveAllOrNothing
<1>. QED  BY <1>1, Invariance, PTL

-----------------------------------------------------------------------------
(* What keeps the gateway's map from growing *)

\* A flow of the map, whose startAuthorization call stands at `at`, has its retention
\* timer armed, or it is pending with its timeout armed or about to be.
Armed(f, at) ==
  f.inMap => f.cleanup \/ (f.status = "pending" /\ (at \in {"listening", "device"} \/ f.timer))

FlowsAreTimed == \A s \in Sessions : Armed(flow[s], start[s])

LEMMA ArmedInner ==
  ASSUME NEW f \in Flows, NEW at
  PROVE  /\ Armed(f, at) => Armed(CloseServer(f), at)
         /\ ~Drop(f).inMap /\ ~DeleteFlow(f).inMap /\ ~Replace(f).inMap
         /\ MarkFailed(f).cleanup
         /\ f.inMap = CloseServer(f).inMap /\ f.cleanup = CloseServer(f).cleanup
<1>1. /\ CloseServer(f).inMap = f.inMap /\ CloseServer(f).cleanup = f.cleanup
      /\ CloseServer(f).status = f.status /\ CloseServer(f).timer = f.timer
  BY DEF CloseServer, Flows
<1>2. Drop(f) \in Flows /\ ~Drop(f).inMap
  BY DEF Drop, Flows
<1>3. ~CloseServer(Drop(f)).inMap
  BY <1>2, CloseEffect
<1>4. ~DeleteFlow(f).inMap
  BY <1>3 DEF DeleteFlow
<1>5. ~Replace(f).inMap
  <2> DEFINE g == [Drop(f) EXCEPT !.status = "failed", !.code = FALSE]
  <2>1. g \in Flows /\ ~g.inMap
    BY <1>2, InnerTypes DEF Flows
  <2> HIDE DEF g
  <2>2. ~CloseServer(g).inMap
    BY <2>1, CloseEffect
  <2> QED BY <2>2 DEF Replace, g
<1>6. MarkFailed(f).cleanup
  <2> DEFINE g == [f EXCEPT !.status = "failed", !.timer = FALSE, !.code = FALSE]
  <2>1. g \in Flows
    BY DEF Flows
  <2> HIDE DEF g
  <2>2. ScheduleDeletion(g).cleanup
    BY <2>1 DEF ScheduleDeletion, Flows
  <2> QED BY <2>2 DEF MarkFailed, g
<1> QED BY <1>1, <1>2, <1>4, <1>5, <1>6 DEF Armed

LEMMA ArmedOuter ==
  ASSUME NEW f \in Flows, NEW at, Armed(f, at)
  PROVE  /\ \A withCode \in BOOLEAN : Armed(CallbackResult(f, withCode), at)
         /\ \A answer \in {"pending", "authorized", "failed"} : Armed(PollResult(f, answer), at)
         /\ f.timer => Armed(IF f.status = "pending" THEN CloseServer(MarkFailed(f))
                             ELSE [f EXCEPT !.timer = FALSE], at)
         /\ Armed([DeleteFlow(f) EXCEPT !.cleanup = FALSE], at)
<1>1. ASSUME NEW withCode \in BOOLEAN PROVE Armed(CallbackResult(f, withCode), at)
  <2> DEFINE a == [f EXCEPT !.status = "authorized", !.code = TRUE, !.timer = FALSE]
             g == IF withCode THEN ScheduleDeletion(a) ELSE MarkFailed(f)
  <2>1. ScheduleDeletion(a) \in Flows /\ ScheduleDeletion(a).cleanup
    BY DEF ScheduleDeletion, Flows
  <2>2. g \in Flows /\ g.cleanup
    BY <2>1, InnerTypes, ArmedInner
  <2>3. CallbackResult(f, withCode) = IF f.owned THEN [g EXCEPT !.server = "answering"] ELSE g
    BY DEF CallbackResult
  <2> HIDE DEF g
  <2>4. CallbackResult(f, withCode).cleanup
    BY <2>2, <2>3 DEF Flows
  <2> QED BY <2>4 DEF Armed
<1>2. ASSUME NEW answer \in {"pending", "authorized", "failed"} PROVE Armed(PollResult(f, answer), at)
  BY DEF Armed, PollResult, ScheduleDeletion, Flows
<1>3. ASSUME f.timer
      PROVE  Armed(IF f.status = "pending" THEN CloseServer(MarkFailed(f))
                   ELSE [f EXCEPT !.timer = FALSE], at)
  <2>1. CASE f.status = "pending"
    BY <2>1, InnerTypes, ArmedInner DEF Armed
  <2>2. CASE f.status # "pending"
    BY <2>2 DEF Armed, Flows
  <2> QED BY <2>1, <2>2
<1>4. Armed([DeleteFlow(f) EXCEPT !.cleanup = FALSE], at)
  <2> DEFINE d == DeleteFlow(f)
  <2>1. d \in Flows /\ ~d.inMap
    BY DeleteSettles, ArmedInner
  <2> HIDE DEF d
  <2>2. ~[d EXCEPT !.cleanup = FALSE].inMap
    BY <2>1 DEF Flows
  <2> QED BY <2>2 DEF Armed, d
<1> QED BY <1>1, <1>2, <1>3, <1>4

LEMMA TimedCancel ==
  ASSUME TypeOK, FlowsAreTimed
  PROVE  \A s \in Sessions : /\ Armed(Cancelled(panel.ref)[s], start[s])
                             /\ Cancelled(panel.ref)[s] \in Flows
<1>1. CASE panel.ref = None
  BY <1>1 DEF Cancelled, FlowsAreTimed, TypeOK
<1>2. CASE panel.ref # None
  <2>1. panel.ref \in 0 .. MaxStarts
    BY DEF TypeOK
  <2>2. Cancelled(panel.ref) = [flow EXCEPT ![panel.ref] = DeleteFlow(@)]
    BY <1>2 DEF Cancelled
  <2>3. \A s \in Sessions : flow[s] \in Flows
    BY DEF TypeOK
  <2>4. \A s \in Sessions : DeleteFlow(flow[s]) \in Flows /\ ~DeleteFlow(flow[s]).inMap
    BY <2>3, DeleteSettles, ArmedInner
  <2> QED BY <2>2, <2>3, <2>4 DEF FlowsAreTimed, Armed, TypeOK
<1> QED BY <1>1, <1>2

\* A step that changes one flow and the standing of its start.
LEMMA TimedAt ==
  ASSUME FlowsAreTimed, NEW s \in Sessions, Armed(flow'[s], start'[s]),
         \A t \in Sessions : t # s => flow'[t] = flow[t] /\ start'[t] = start[t]
  PROVE  FlowsAreTimed'
BY DEF FlowsAreTimed

LEMMA TimedStart ==
  ASSUME TypeOK, FlowsAreTimed, NEW s \in Sessions, StartStep(s)
  PROVE  FlowsAreTimed'
<1> DEFINE f == flow[s]
<1>1. f \in Flows /\ Armed(f, start[s])
  BY DEF TypeOK, FlowsAreTimed
<1>2. ASSUME NEW g, flow' = [flow EXCEPT ![s] = g], NEW l, start' = [start EXCEPT ![s] = l],
             Armed(g, l)
      PROVE  FlowsAreTimed'
  BY <1>2, TimedAt DEF TypeOK
<1>3. ASSUME NEW g \in Flows, ~g.inMap, StartThrows(s, g)
      PROVE  FlowsAreTimed'
  <2>1. Armed(g, "done")
    BY <1>3 DEF Armed
  <2> QED BY <1>2, <1>3, <2>1 DEF StartThrows
<1>4. ASSUME NEW g \in Flows, Armed(g, "device"), ToService(s, g)
      PROVE  FlowsAreTimed'
  <2>1. Armed([g EXCEPT !.timer = TRUE], "opening")
    BY <1>4 DEF Armed, Flows
  <2> QED BY <1>2, <1>4, <2>1 DEF ToService
<1>5. CASE Cleaned(s)
  <2>1. Armed(NewFlow, "listening")
    BY DEF NewFlow, NoFlow, Armed
  <2> QED BY <1>2, <1>5, <2>1 DEF Cleaned
<1>6. CASE Listens(s)
  <2>1. [f EXCEPT !.server = "listening"] \in Flows
    BY <1>1 DEF Flows
  <2>2. Armed([f EXCEPT !.server = "listening"], "device")
    BY <1>1, <1>6 DEF Armed, Flows, Listens
  <2> QED BY <1>4, <1>6, <2>1, <2>2 DEF Listens
<1>7. CASE PortTaken(s)
  <2>1. Armed(Unbound(f), "device")
    BY <1>1, <1>7 DEF Armed, Flows, Unbound, PortTaken
  <2> QED BY <1>2, <1>7, <2>1 DEF PortTaken, TypeOK
<1>8. CASE ListenFails(s)
  <2> DEFINE g == [Unbound(f) EXCEPT !.inMap = FALSE]
  <2>1. g \in Flows /\ ~g.inMap
    BY <1>1 DEF Flows, Unbound
  <2> QED BY <1>3, <1>8, <2>1 DEF ListenFails
<1>9. CASE DeviceStarts(s)
  <2>1. [f EXCEPT !.mode = "device"] \in Flows /\ Armed([f EXCEPT !.mode = "device"], "device")
    BY <1>1, <1>9 DEF Armed, Flows, DeviceStarts
  <2> QED BY <1>4, <1>9, <2>1 DEF DeviceStarts
<1>10. CASE DeviceFails(s)
  <2>1. Drop(f) \in Flows /\ ~Drop(f).inMap
    BY <1>1, InnerTypes, ArmedInner
  <2> QED BY <1>3, <1>10, <2>1 DEF DeviceFails
<1>11. CASE Opened(s)
  <2>1. Armed(f, "done")
    BY <1>1, <1>11 DEF Armed, Opened
  <2>2. start' = [start EXCEPT ![s] = "done"] /\ UNCHANGED flow
    BY <1>11 DEF Opened
  <2> QED BY <2>1, <2>2, TimedAt DEF TypeOK
<1>12. CASE OpenFails(s)
  <2>1. DeleteFlow(f) \in Flows /\ ~DeleteFlow(f).inMap
    BY <1>1, DeleteSettles, ArmedInner
  <2> QED BY <1>3, <1>12, <2>1 DEF OpenFails
<1> QED BY <1>5, <1>6, <1>7, <1>8, <1>9, <1>10, <1>11, <1>12 DEF StartStep

LEMMA TimedNext == TypeOK /\ FlowsAreTimed /\ [Next]_vars => FlowsAreTimed'
<1> SUFFICES ASSUME TypeOK, FlowsAreTimed, [Next]_vars PROVE FlowsAreTimed'
  OBVIOUS
<1>1. ASSUME UNCHANGED <<flow, start>> PROVE FlowsAreTimed'
  BY <1>1 DEF FlowsAreTimed
<1>2. ASSUME NEW s \in Sessions, NEW g, flow' = [flow EXCEPT ![s] = g], UNCHANGED start,
             Armed(g, start[s])
      PROVE  FlowsAreTimed'
  BY <1>2, TimedAt DEF TypeOK
<1>3. \A s \in Sessions : flow[s] \in Flows /\ Armed(flow[s], start[s])
  BY DEF TypeOK, FlowsAreTimed
<1>4. CASE OpenDialog \/ CloseDialog
  <2>1. flow' = Cancelled(panel.ref) /\ UNCHANGED start
    BY <1>4 DEF OpenDialog, CloseDialog, Reset
  <2> QED BY <2>1, TimedCancel DEF FlowsAreTimed
<1>5. CASE AutoStart \/ Retry
  <2>1. flow' = [s \in Sessions |-> Replace(Cancelled(panel.ref)[s])]
    BY <1>5 DEF AutoStart, Retry, StartCodexOAuth
  <2>2. \A s \in Sessions : ~Replace(Cancelled(panel.ref)[s]).inMap
    BY TimedCancel, ArmedInner
  <2> QED BY <2>1, <2>2 DEF FlowsAreTimed, Armed
<1>6. ASSUME NEW s \in Sessions, Callback(s) \/ Answered(s) \/ Timeout(s) \/ Retention(s)
      PROVE  FlowsAreTimed'
  <2>1. \E g : Armed(g, start[s]) /\ FlowStep(s, g)
    BY <1>3, <1>6, ArmedInner, ArmedOuter DEF Callback, Answered, Timeout, Retention
  <2> QED BY <1>2, <2>1 DEF FlowStep
<1>7. ASSUME NEW s \in Sessions, PollStep(s)
      PROVE  FlowsAreTimed'
  <2>1. CASE PollFetched(s)
    <3>1. \/ UNCHANGED flow
          \/ \E answer \in {"pending", "authorized", "failed"} :
               flow' = [flow EXCEPT ![s] = PollResult(flow[s], answer)]
      BY <2>1 DEF PollFetched, TypeOK
    <3>2. UNCHANGED start
      BY <1>7 DEF PollStep
    <3> QED BY <1>1, <1>2, <1>3, <3>1, <3>2, ArmedOuter
  <2>2. CASE CheckStatus(s) \/ PollReturns(s)
    BY <1>1, <1>7, <2>2 DEF CheckStatus, PollReturns, PollStep
  <2> QED BY <1>7, <2>1, <2>2 DEF PollStep
<1>8. ASSUME NEW s \in Sessions, SaveStep(s)
      PROVE  FlowsAreTimed'
  <2>1. UNCHANGED start /\ (UNCHANGED flow \/ flow' = [flow EXCEPT ![s] = DeleteFlow(flow[s])])
    BY <1>8 DEF SaveStep, SaveConnection, Exchanged, ReadPrevious, WriteRow, Saved, StatusThrows,
       WriteThrows, Rollback, TypeOK
  <2>2. Armed(DeleteFlow(flow[s]), start[s])
    BY <1>3, ArmedInner DEF Armed
  <2> QED BY <1>1, <1>2, <2>1, <2>2
<1>9. CASE DeleteProvider \/ UNCHANGED vars
  BY <1>1, <1>9 DEF DeleteProvider, vars, gatewayVars
<1> QED BY <1>4, <1>5, <1>6, <1>7, <1>8, <1>9, TimedStart DEF Next

\* The safety half of FlowsReaped: whichever calls of the gateway, timers, callbacks
\* and answers interleave, a flow of the map has a timer armed that will take it out,
\* or its startAuthorization is about to arm one.
THEOREM EveryFlowIsTimed == Spec => []FlowsAreTimed
<1>1. Init => FlowsAreTimed
  BY DEF Init, FlowsAreTimed, Armed, NoFlow
<1>2. OAuthInv => TypeOK
  BY DEF OAuthInv
<1> QED BY <1>1, <1>2, Invariance, TimedNext, PTL DEF Spec
=============================================================================
