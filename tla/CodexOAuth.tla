----------------------------- MODULE CodexOAuth -----------------------------
(***************************************************************************)
(* Connecting a ChatGPT account: the provider settings panel starts an      *)
(* authorization, polls it and saves it; the IPC handler opens the browser; *)
(* the gateway keeps a map of flows, each with a callback server, a timeout *)
(* and a retention timer; the model provider service writes the connection  *)
(* (credential, provider and models) with a rollback.                       *)
(*                                                                         *)
(* A session is one call of startAuthorization. JavaScript runs each        *)
(* handler up to its next await without interruption, so the part of a      *)
(* handler between two awaits is one action.                                *)
(***************************************************************************)
EXTENDS Naturals, FiniteSets

CONSTANTS
  MaxStarts,     \* bound: calls of startAuthorization
  MaxFailures    \* bound: rejected writes of a save or its rollback

ASSUME OAuthAssumption == MaxStarts \in Nat \ {0} /\ MaxFailures \in Nat

Sessions == 1 .. MaxStarts
None == 0

VARIABLES
  started,   \* sessions 1 .. started have been asked for
  flow,      \* CodexOAuthFlow of each session, with its place in the map flows
  start,     \* where startAuthorization and the handler around it stand
  svc,       \* oauthSessions of the model provider service
  poll,      \* the status request of each session: at fetch, or its answer on the way
  save,      \* where saveOAuthConnection stands
  previous,  \* what it has read, while a rollback may restore it
  current,   \* panel calls whose requestId is still codexOAuthRequestIdRef.current
  panel,     \* the dialog, codexOAuthState and the two session refs
  rows,      \* who wrote the persisted credential, provider and models
  failures,  \* writes of a save or its rollback that have rejected
  wanted,    \* history: whose connection the last call that wrote all its rows left
  disturbed, \* history: two writers of the connection have overlapped
  overtaken  \* history: sessions replaced while their server was binding

gatewayVars == <<flow, svc>>
panelVars == <<current, panel>>
rowVars == <<previous, rows, failures, wanted, disturbed>>
vars == <<started, gatewayVars, start, poll, save, panelVars, rowVars, overtaken>>

\* Who wrote a row: nobody (there is none), a session, or an earlier connection. The
\* two models of a connection may also be saved only in part.
NoRow == 0
Old == MaxStarts + 1
Partial == MaxStarts + 2
Owners == {NoRow, Old} \cup Sessions
Whole(o) == [cred |-> o, prov |-> o, models |-> o]

NoFlow == [status |-> "none", mode |-> "browser", code |-> FALSE, inMap |-> FALSE,
           timer |-> FALSE, cleanup |-> FALSE, server |-> "none", owned |-> FALSE]
NewFlow == [NoFlow EXCEPT !.status = "pending", !.inMap = TRUE,
                          !.server = "binding", !.owned = TRUE]

\* resetCodexOAuthState
ResetPanel(open) == [open |-> open, status |-> "idle", action |-> "none",
                     session |-> None, ref |-> None, autoSaved |-> None]

Init ==
  /\ started = 0
  /\ flow = [s \in Sessions |-> NoFlow]
  /\ start = [s \in Sessions |-> "idle"]
  /\ svc = {}
  /\ poll = [s \in Sessions |-> "none"]
  /\ save = [s \in Sessions |-> "idle"]
  /\ previous = [s \in Sessions |-> Whole(NoRow)]
  /\ current = {} /\ panel = ResetPanel(FALSE)
  /\ wanted \in {NoRow, Old} /\ rows = Whole(wanted)
  /\ failures = 0 /\ disturbed = FALSE /\ overtaken = {}

-----------------------------------------------------------------------------
(* What the gateway does to a flow *)

Serving(f) == f.server \in {"listening", "answering"}
PortFree == \A s \in Sessions : ~Serving(flow[s])

\* closeFlowServer: a server that does not listen yet is let go, not closed
CloseServer(f) ==
  IF ~f.owned THEN f
  ELSE [f EXCEPT !.owned = FALSE, !.server = IF @ = "binding" THEN @ ELSE "closed"]

Drop(f) == [f EXCEPT !.inMap = FALSE, !.timer = FALSE, !.cleanup = FALSE]

DeleteFlow(f) == IF f.inMap THEN CloseServer(Drop(f)) ELSE f

ScheduleDeletion(f) == [f EXCEPT !.cleanup = TRUE]

MarkFailed(f) ==
  ScheduleDeletion([f EXCEPT !.status = "failed", !.timer = FALSE, !.code = FALSE])

\* cleanupUnconsumedFlows, for one flow of the map
Replace(f) ==
  IF f.inMap THEN CloseServer([Drop(f) EXCEPT !.status = "failed", !.code = FALSE]) ELSE f

\* handleCallback, for a request with the state of the flow
CallbackResult(f, withCode) ==
  LET g == IF withCode
           THEN ScheduleDeletion([f EXCEPT !.status = "authorized", !.code = TRUE,
                                           !.timer = FALSE])
           ELSE MarkFailed(f)
  IN  IF f.owned THEN [g EXCEPT !.server = "answering"] ELSE g

\* Mutant: the retention timer is not armed once the device code is settled
PollResultUnscheduled(f, answer) ==
  LET g == CASE answer = "authorized" -> [f EXCEPT !.status = "authorized", !.code = TRUE]
             [] answer = "failed" -> [f EXCEPT !.status = "failed", !.code = FALSE]
             [] answer = "pending" -> f
  IN  IF g.status = "pending" THEN g ELSE [g EXCEPT !.timer = FALSE]

\* pollDeviceAuthorization's answer, then the end of getAuthorizationStatus
PollResult(f, answer) ==
  LET g == CASE answer = "authorized" -> [f EXCEPT !.status = "authorized", !.code = TRUE]
             [] answer = "failed" -> [f EXCEPT !.status = "failed", !.code = FALSE]
             [] answer = "pending" -> f
  IN  IF g.status = "pending" THEN g ELSE ScheduleDeletion([g EXCEPT !.timer = FALSE])

-----------------------------------------------------------------------------
(* The panel *)

Cancelled(s) == IF s = None THEN flow ELSE [flow EXCEPT ![s] = DeleteFlow(@)]

\* closeCodexConnection and unmounting close it, openCodexConnection opens it
Reset(open) ==
  /\ current' = {}
  /\ panel' = ResetPanel(open)
  /\ flow' = Cancelled(panel.ref)
  /\ svc' = svc \ {panel.ref}
  /\ UNCHANGED <<started, start, poll, save, rowVars, overtaken>>

OpenDialog == started < MaxStarts /\ ~panel.open /\ Reset(TRUE)
CloseDialog == panel.open /\ Reset(FALSE)

\* startCodexOAuth: cancels the previous session, then startAuthorization
\* replaces every flow of the map
StartCodexOAuth ==
  /\ panel.open /\ panel.action = "none" /\ started < MaxStarts
  /\ started' = started + 1
  /\ start' = [start EXCEPT ![started'] = "cleaning"]
  /\ current' = {<<"start", started'>>}
  /\ panel' = [panel EXCEPT !.status = "idle", !.action = "starting",
                            !.session = None, !.ref = None]
  /\ svc' = svc \ {panel.ref}
  /\ flow' = [s \in Sessions |-> Replace(Cancelled(panel.ref)[s])]
  /\ overtaken' = overtaken \cup
       {s \in Sessions : flow[s].inMap /\ flow[s].server = "binding"}
  /\ UNCHANGED <<poll, save, rowVars>>

AutoStart == panel.status = "idle" /\ StartCodexOAuth
Retry == panel.status = "failed" /\ StartCodexOAuth

\* A call of the panel rejects: shown only if no newer request superseded it
PanelFails(call) ==
  /\ current' = current \ {call}
  /\ panel' = IF call \in current
              THEN [panel EXCEPT !.status = "failed", !.action = "none"] ELSE panel

-----------------------------------------------------------------------------
(* startAuthorization, startOAuthAuthorization and the IPC handler *)

ToService(s, f) ==
  /\ flow' = [flow EXCEPT ![s] = [f EXCEPT !.timer = TRUE]]
  /\ svc' = svc \cup {s}
  /\ start' = [start EXCEPT ![s] = "opening"]
  /\ UNCHANGED panelVars

StartThrows(s, f) ==
  /\ flow' = [flow EXCEPT ![s] = f]
  /\ svc' = svc \ {s}
  /\ start' = [start EXCEPT ![s] = "done"]
  /\ PanelFails(<<"start", s>>)

\* The replaced flows' servers have closed: a new flow, and its server binds
Cleaned(s) ==
  /\ start[s] = "cleaning"
  /\ start' = [start EXCEPT ![s] = "listening"]
  /\ flow' = [flow EXCEPT ![s] = NewFlow]
  /\ UNCHANGED <<svc, panelVars>>

Listens(s) ==
  /\ start[s] = "listening" /\ PortFree
  /\ ToService(s, [flow[s] EXCEPT !.server = "listening"])

Unbound(f) == [f EXCEPT !.owned = FALSE, !.server = "closed"]

\* An earlier server or another program, which comes and goes, holds the port
PortTaken(s) ==
  /\ start[s] = "listening"
  /\ start' = [start EXCEPT ![s] = "device"]
  /\ flow' = [flow EXCEPT ![s] = Unbound(@)]
  /\ UNCHANGED <<svc, panelVars>>

ListenFails(s) ==
  /\ start[s] = "listening"
  /\ StartThrows(s, [Unbound(flow[s]) EXCEPT !.inMap = FALSE])

DeviceStarts(s) ==
  /\ start[s] = "device"
  /\ ToService(s, [flow[s] EXCEPT !.mode = "device"])

DeviceFails(s) == start[s] = "device" /\ StartThrows(s, Drop(flow[s]))

\* Mutant: the request id is not compared after the await
OpenedUnchecked(s) ==
  /\ start[s] = "opening"
  /\ start' = [start EXCEPT ![s] = "done"]
  /\ current' = current \ {<<"start", s>>}
  /\ panel' = [panel EXCEPT !.status = "pending", !.action = "none",
                            !.session = s, !.ref = s, !.autoSaved = None]
  /\ UNCHANGED <<flow, svc>>

Opened(s) ==
  /\ start[s] = "opening"
  /\ start' = [start EXCEPT ![s] = "done"]
  /\ current' = current \ {<<"start", s>>}
  /\ panel' = IF <<"start", s>> \in current
              THEN [open |-> TRUE, status |-> "pending", action |-> "none",
                    session |-> s, ref |-> s, autoSaved |-> None]
              ELSE panel
  /\ UNCHANGED <<flow, svc>>

OpenFails(s) == start[s] = "opening" /\ StartThrows(s, DeleteFlow(flow[s]))

StartStep(s) ==
  /\ \/ Cleaned(s) \/ Listens(s) \/ PortTaken(s) \/ ListenFails(s)
     \/ DeviceStarts(s) \/ DeviceFails(s) \/ Opened(s) \/ OpenFails(s)
  /\ UNCHANGED <<started, poll, save, rowVars, overtaken>>

-----------------------------------------------------------------------------
(* The callback server and the timers of a flow *)

FlowStep(s, f) ==
  /\ flow' = [flow EXCEPT ![s] = f]
  /\ UNCHANGED <<started, start, svc, poll, save, panelVars, rowVars, overtaken>>

Callback(s) ==
  \E withCode \in BOOLEAN :
    Serving(flow[s]) /\ FlowStep(s, CallbackResult(flow[s], withCode))

\* The callback page has been written: its onDone closes the server
Answered(s) == flow[s].server = "answering" /\ FlowStep(s, CloseServer(flow[s]))

\* Mutant: the timeout leaves the callback server open
TimeoutKeepsServer(s) ==
  /\ flow[s].timer
  /\ FlowStep(s, IF flow[s].status = "pending" THEN MarkFailed(flow[s])
                 ELSE [flow[s] EXCEPT !.timer = FALSE])

Timeout(s) ==
  /\ flow[s].timer
  /\ FlowStep(s, IF flow[s].status = "pending" THEN CloseServer(MarkFailed(flow[s]))
                 ELSE [flow[s] EXCEPT !.timer = FALSE])

Retention(s) ==
  /\ flow[s].cleanup
  /\ FlowStep(s, [DeleteFlow(flow[s]) EXCEPT !.cleanup = FALSE])

-----------------------------------------------------------------------------
(* checkCodexOAuthStatus and getOAuthAuthorizationStatus *)

Polling == \E s \in Sessions : <<"poll", s>> \in current

AnswerPoll(s, answer) ==
  /\ poll' = [poll EXCEPT ![s] = answer]
  /\ svc' = IF answer = "failed" THEN svc \ {s} ELSE svc

\* Mutant: a session that is no longer known still counts as pending
CheckStatusKeepsPending(s) ==
  /\ panel.open /\ panel.session = s /\ panel.status = "pending" /\ ~Polling
  /\ current' = current \cup {<<"poll", s>>}
  /\ AnswerPoll(s, IF s \notin svc \/ ~flow[s].inMap THEN "pending"
                   ELSE IF flow[s].mode = "device" /\ flow[s].status = "pending"
                   THEN "fetching" ELSE flow[s].status)
  /\ UNCHANGED <<flow, panel>>

CheckStatus(s) ==
  /\ panel.open /\ panel.session = s /\ panel.status = "pending" /\ ~Polling
  /\ current' = current \cup {<<"poll", s>>}
  /\ AnswerPoll(s, IF s \notin svc \/ ~flow[s].inMap THEN "failed"
                   ELSE IF flow[s].mode = "device" /\ flow[s].status = "pending"
                   THEN "fetching" ELSE flow[s].status)
  /\ UNCHANGED <<flow, panel>>

\* The token endpoint answers; the flow is not looked up again
PollFetched(s) ==
  /\ poll[s] = "fetching"
  /\ \/ \E answer \in {"pending", "authorized", "failed"} :
          /\ flow' = [flow EXCEPT ![s] = PollResult(@, answer)]
          /\ AnswerPoll(s, flow'[s].status)
     \/ AnswerPoll(s, "rejected") /\ UNCHANGED flow
  /\ UNCHANGED panelVars

\* Mutant: a rejected status request is shown like an answer
PollReturnsRaw(s) ==
  /\ poll[s] \notin {"none", "fetching"}
  /\ poll' = [poll EXCEPT ![s] = "none"]
  /\ current' = current \ {<<"poll", s>>}
  /\ panel' = IF <<"poll", s>> \in current
              THEN [panel EXCEPT !.status = poll[s], !.session = s] ELSE panel
  /\ UNCHANGED <<flow, svc>>

PollReturns(s) ==
  /\ poll[s] \notin {"none", "fetching"}
  /\ poll' = [poll EXCEPT ![s] = "none"]
  /\ IF poll[s] = "rejected" THEN PanelFails(<<"poll", s>>)
     ELSE /\ current' = current \ {<<"poll", s>>}
          /\ panel' = IF <<"poll", s>> \in current
                      THEN [panel EXCEPT !.status = poll[s], !.session = s] ELSE panel
  /\ UNCHANGED <<flow, svc>>

PollStep(s) ==
  /\ CheckStatus(s) \/ PollFetched(s) \/ PollReturns(s)
  /\ UNCHANGED <<started, start, save, rowVars, overtaken>>

-----------------------------------------------------------------------------
(* saveCodexOAuthConnection and saveOAuthConnection *)

\* No rollback can follow any more
Forgotten(s) == [previous EXCEPT ![s] = Whole(NoRow)]

Writing(s) == save[s] \notin {"idle", "exchange", "status", "done"}

SaveThrows(s) ==
  /\ save' = [save EXCEPT ![s] = "done"]
  /\ current' = current \ {<<"save", s>>}
  /\ previous' = Forgotten(s)
  /\ panel' = IF <<"save", s>> \in current
              THEN [panel EXCEPT !.status = "failed", !.action = "none",
                                 !.session = None, !.ref = None]
              ELSE panel

\* The auto save effect and the checks up to the token exchange
SaveConnection(s) ==
  /\ panel.open /\ panel.session = s /\ panel.status = "authorized"
  /\ panel.action = "none" /\ panel.autoSaved # s
  /\ IF s \in svc /\ flow[s].inMap /\ flow[s].status = "authorized" /\ flow[s].code
     THEN /\ current' = {<<"save", s>>}
          /\ panel' = [panel EXCEPT !.action = "saving", !.autoSaved = s]
          /\ save' = [save EXCEPT ![s] = "exchange"]
          /\ UNCHANGED svc
     ELSE /\ save' = [save EXCEPT ![s] = "done"]
          /\ current' = {}
          /\ panel' = [panel EXCEPT !.status = "failed", !.autoSaved = s,
                                    !.session = None, !.ref = None]
          /\ svc' = IF ~flow[s].inMap \/ flow[s].status = "failed" THEN svc \ {s} ELSE svc
  /\ UNCHANGED <<flow, rowVars>>

\* The token endpoint answers: the flow is consumed
Exchanged(s) ==
  /\ save[s] = "exchange"
  /\ \/ /\ save' = [save EXCEPT ![s] = "read"]
        /\ flow' = [flow EXCEPT ![s] = DeleteFlow(@)]
        /\ disturbed' = (disturbed \/ \E t \in Sessions : Writing(t))
        /\ UNCHANGED <<panelVars, previous>>
     \/ SaveThrows(s) /\ UNCHANGED <<flow, disturbed>>
  /\ UNCHANGED <<svc, rows, failures, wanted>>

\* What was consumed is validated and the old rows are read, before the try: a check
\* or a read that fails ends the call with nothing to undo
ReadPrevious(s) ==
  /\ save[s] = "read"
  /\ \/ /\ previous' = [previous EXCEPT ![s] = rows]
        /\ save' = [save EXCEPT ![s] = "cred"]
        /\ UNCHANGED panelVars
     \/ SaveThrows(s)
  /\ UNCHANGED <<flow, svc, rows, failures, wanted, disturbed>>

NextSave == [cred |-> "prov", prov |-> "delete", delete |-> "models",
             models |-> "lastModel", lastModel |-> "status",
             undoModels |-> "undoProv", undoProv |-> "undoCred"]

\* The row a step of the save writes
Written(s, at) ==
  CASE at = "cred" -> [rows EXCEPT !.cred = s]
    [] at = "prov" -> [rows EXCEPT !.prov = s]
    [] at = "delete" -> [rows EXCEPT !.models = NoRow]
    [] at = "models" -> [rows EXCEPT !.models = Partial]
    [] at = "lastModel" -> [rows EXCEPT !.models = s]

\* After the last model the service forgets the session
WriteRow(s) ==
  /\ save[s] \in {"cred", "prov", "delete", "models", "lastModel"}
  /\ save[s] \in {"models", "lastModel"} => rows.prov # NoRow
  /\ rows' = Written(s, save[s])
  /\ save' = [save EXCEPT ![s] = NextSave[@]]
  /\ IF save[s] = "lastModel"
     THEN wanted' = s /\ svc' = svc \ {s} /\ previous' = Forgotten(s)
     ELSE UNCHANGED <<wanted, svc, previous>>
  /\ UNCHANGED <<flow, panelVars, failures, disturbed>>

\* withCredentialStatus has read the credential: the call succeeds, the panel closes
Saved(s) ==
  /\ save[s] = "status"
  /\ save' = [save EXCEPT ![s] = "done"]
  /\ current' = current \ {<<"save", s>>}
  /\ panel' = IF <<"save", s>> \in current THEN ResetPanel(FALSE)
              ELSE [panel EXCEPT !.ref = None]
  /\ UNCHANGED <<flow, svc, rowVars>>

\* That read rejects: the try returned it without await, so the catch misses it and
\* the call fails with nothing rolled back
StatusThrows(s) ==
  /\ save[s] = "status"
  /\ SaveThrows(s)
  /\ UNCHANGED <<flow, svc, rows, failures, wanted, disturbed>>

\* A persistence call rejects, or saveModelInternal finds the provider gone
WriteThrows(s) ==
  /\ save[s] \in {"cred", "prov", "delete", "models", "lastModel"}
  /\ \/ failures < MaxFailures /\ failures' = failures + 1
     \/ /\ save[s] \in {"models", "lastModel"} /\ rows.prov = NoRow
        /\ UNCHANGED failures
  /\ save' = [save EXCEPT ![s] = "undoModels"]
  /\ UNCHANGED <<flow, svc, panelVars, previous, rows, wanted, disturbed>>

\* Mutant: the rollback forgets the credential
RestoredWithoutCredential(s, at) ==
  CASE at = "undoModels" -> [rows EXCEPT !.models = previous[s].models]
    [] at = "undoProv" -> [rows EXCEPT !.prov = previous[s].prov]
    [] at = "undoCred" -> rows

\* What a step of rollbackCodexConnection restores
Restored(s, at) ==
  CASE at = "undoModels" -> [rows EXCEPT !.models = previous[s].models]
    [] at = "undoProv" -> [rows EXCEPT !.prov = previous[s].prov]
    [] at = "undoCred" -> [rows EXCEPT !.cred = previous[s].cred]

Rollback(s) ==
  /\ save[s] \in {"undoModels", "undoProv", "undoCred"}
  /\ \/ /\ rows' = Restored(s, save[s]) /\ UNCHANGED failures
        /\ IF save[s] = "undoCred" THEN SaveThrows(s)
           ELSE save' = [save EXCEPT ![s] = NextSave[@]] /\ UNCHANGED <<panelVars, previous>>
     \/ /\ failures < MaxFailures /\ failures' = failures + 1
        /\ SaveThrows(s) /\ UNCHANGED rows
  /\ UNCHANGED <<flow, svc, wanted, disturbed>>

SaveStep(s) ==
  /\ \/ SaveConnection(s) \/ Exchanged(s) \/ ReadPrevious(s) \/ WriteRow(s)
     \/ Saved(s) \/ StatusThrows(s) \/ WriteThrows(s) \/ Rollback(s)
  /\ UNCHANGED <<started, start, poll, overtaken>>

\* deleteProvider: one transaction
DeleteProvider ==
  /\ rows.prov # NoRow
  /\ rows' = Whole(NoRow) /\ wanted' = NoRow
  /\ disturbed' = (disturbed \/ \E s \in Sessions : Writing(s))
  /\ UNCHANGED <<started, gatewayVars, start, poll, save, panelVars, previous, failures,
                 overtaken>>

-----------------------------------------------------------------------------
Next ==
  \/ OpenDialog \/ CloseDialog \/ AutoStart \/ Retry \/ DeleteProvider
  \/ \E s \in Sessions :
       \/ StartStep(s) \/ Callback(s) \/ Answered(s) \/ Timeout(s) \/ Retention(s)
       \/ PollStep(s) \/ SaveStep(s)

Spec == Init /\ [][Next]_vars

\* The user owes nothing. Timers fire, the network and the database answer, and
\* the effects of the open dialog run.
FairSpec ==
  /\ Spec
  /\ WF_vars(AutoStart)
  /\ \A s \in Sessions :
       /\ WF_vars(StartStep(s)) /\ WF_vars(Answered(s))
       /\ WF_vars(Timeout(s)) /\ WF_vars(Retention(s))
       /\ WF_vars(PollStep(s)) /\ WF_vars(SaveStep(s))

-----------------------------------------------------------------------------
Flows ==
  [status : {"none", "pending", "authorized", "failed"}, mode : {"browser", "device"},
   code : BOOLEAN, inMap : BOOLEAN, timer : BOOLEAN, cleanup : BOOLEAN,
   server : {"none", "binding", "listening", "answering", "closed"}, owned : BOOLEAN]

\* The values the variables take; the start, poll and save steps are named after the code.
TypeOK ==
  /\ started \in 0 .. MaxStarts
  /\ flow \in [Sessions -> Flows]
  /\ start \in [Sessions -> {"idle", "cleaning", "listening", "device", "opening", "done"}]
  /\ svc \subseteq Sessions
  /\ poll \in [Sessions -> {"none", "fetching", "pending", "authorized", "failed", "rejected"}]
  /\ save \in [Sessions -> {"idle", "exchange", "read", "cred", "prov", "delete", "models",
                            "lastModel", "status", "undoModels", "undoProv", "undoCred",
                            "done"}]
  /\ current \subseteq ({"start", "poll", "save"} \X Sessions)
  /\ panel \in [open : BOOLEAN, status : {"idle", "pending", "authorized", "failed"},
                action : {"none", "starting", "saving"}, session : 0 .. MaxStarts,
                ref : 0 .. MaxStarts, autoSaved : 0 .. MaxStarts]
  /\ rows \in [cred : Owners, prov : Owners, models : Owners \cup {Partial}]
  /\ previous \in [Sessions -> [cred : Owners, prov : Owners,
                                models : Owners \cup {Partial}]]
  /\ failures \in 0 .. MaxFailures
  /\ wanted \in Owners /\ disturbed \in BOOLEAN /\ overtaken \subseteq Sessions

\* A server that waits for a browser belongs to a pending flow of the map: cancelling,
\* timing out or replacing an authorization gives the callback port back. The exception
\* is what the code cannot do: a flow replaced while its server is still binding.
PortReleased ==
  \A s \in Sessions \ overtaken :
    flow[s].server = "listening" => flow[s].inMap /\ flow[s].status = "pending"

\* The panel works for the authorization it asked for last: an answer to an earlier
\* start, poll or save never puts a dead session back into a newer dialog.
PanelFollowsLatest ==
  panel.session # None => panel.open /\ panel.session = started

\* When nobody is writing, the credential, the provider and the models are of one
\* origin, the last call that got to write all its rows: a save that failed at any of
\* them has been undone whole, provided no other save and no deletion of the provider
\* overlapped it, and the rollback itself did not fail. A save that has written its
\* last row stands, even if it then fails to report it (StatusThrows).
SaveAllOrNothing ==
  ~disturbed /\ failures < 2 /\ (\A s \in Sessions : ~Writing(s)) => rows = Whole(wanted)

\* No flow stays in the gateway's map for ever, whatever the user does with the
\* dialog and the browser: every path arms the timeout or the retention timer.
FlowsReaped == \A s \in Sessions : flow[s].inMap ~> ~flow[s].inMap

\* An open dialog ends: the connection is saved and it closes, it shows an error, or
\* the user closes it. It never waits for ever on a session that no longer exists.
PanelSettles == panel.open ~> ~panel.open \/ panel.status = "failed"
=============================================================================
