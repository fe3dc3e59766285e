----------------------------- MODULE MainWindow -----------------------------
(***************************************************************************)
(* The local part of the main window (src/src/ui/main_window.cpp): the     *)
(* topic echo, the parameter editor and the service form on one serialized *)
(* backend.  A handler runs to its end before the GUI thread takes the     *)
(* next event; "todo" is what is left of it after the backend call it is   *)
(* in.  Only a service call runs on a thread of its own, and the window    *)
(* then refuses whatever would use the backend.                            *)
(*                                                                         *)
(* Lists show the backend's records, so a row is a name that has one.      *)
(* Labels and the application and element pages are left out; the measured *)
(* echo rate is in RateTracker, the graph in LocalGraph.  The remote       *)
(* workspace is asked only whether it lets the window close.               *)
(***************************************************************************)
EXTENDS LocalBackend

VARIABLES
  todo,             \* what the running handler does next, in order
  row,              \* row[k]: the selected name of kind k, or None
  kept,             \* identities Refresh selects again, or None
  refreshed,        \* discovery_refreshed_
  startEnabled,     \* start_echo_ is enabled
  echoing,          \* echo_timer_ runs and stop_echo_ is enabled
  requiresRefresh,  \* echo_requires_refresh_
  echoed,           \* identity the sample on display is from, or None
  form,             \* the parameter form: value last read, text, enabled, from
  dirty, invalid,   \* parameter_dirty_, parameter_invalid_
  buttons,          \* enabled ones of "refresh" and "revert"
  callEnabled,      \* service_call_ is enabled
  busy,             \* service_busy_: the tabs are disabled
  answered,         \* identity the response on display is from, or None
  closed            \* the window is closed

echoVars == <<startEnabled, echoing, requiresRefresh, echoed>>
parameterVars == <<form, dirty, invalid, buttons>>
serviceVars == <<callEnabled, busy, answered>>
listVars == <<row, kept, refreshed>>
panelVars == <<echoVars, parameterVars, serviceVars>>
windowVars == <<todo, listVars, panelVars, closed>>
vars == <<backendVars, windowVars>>

NoForm == [value |-> Blank, text |-> Blank, enabled |-> FALSE, from |-> None]
Kinds == {"topic", "parameter", "service"}
Selected(k) == IF row[k] = None THEN None ELSE records[row[k]]

\* As the constructor leaves it just before its first Refresh.
Init ==
  /\ BackendInit
  /\ todo = <<>>
  /\ row = [k \in Kinds |-> None] /\ kept = row /\ refreshed = FALSE
  /\ startEnabled = FALSE /\ echoing = FALSE /\ requiresRefresh = FALSE /\ echoed = None
  /\ form = NoForm /\ dirty = FALSE /\ invalid = TRUE /\ buttons = {}
  /\ callEnabled = FALSE /\ busy = FALSE /\ answered = None
  /\ closed = FALSE

\* The event loop can take an event; the window takes one from the user.
Waiting == todo = <<>> /\ ~closed
UserActs == Waiting /\ refreshed /\ ~busy

\* The handler is at "what", with its backend call over.
Resume(what) == todo # <<>> /\ Head(todo) = what /\ ~Running("gui")
Result == calls["gui"].result

\* Into the next backend call, after which the handler goes on with "what".
Enter(plan, n, value, what) ==
  /\ calls' = [calls EXCEPT !["gui"] = Called(plan, n, value)]
  /\ todo' = what
NoMoreCalls == calls' = [calls EXCEPT !["gui"] = NoCall]
Return == todo' = Tail(todo) /\ NoMoreCalls

\* StopEcho, but for the start button, which it enables if an echo ran.
StopEcho == echoing' = FALSE /\ prepared' = None
StartEnabledAfterStop == startEnabled \/ echoing

-----------------------------------------------------------------------------
(* Refresh. *)

Refresh ==
  /\ Waiting /\ ~busy /\ ~dirty
  /\ kept' = [k \in Kinds |-> Selected(k)]
  /\ row' = [row EXCEPT !["parameter"] = None]
  /\ StopEcho
  /\ startEnabled' = StartEnabledAfterStop
  /\ requiresRefresh' = FALSE
  /\ calls' = [calls EXCEPT !["gui"] = [NoCall EXCEPT !.plan = RefreshPlan]]
  /\ todo' = <<"listed">>
  /\ UNCHANGED <<worldVars, records, writable, connection, refreshed, echoed,
                 parameterVars, serviceVars, closed>>

\* A selection survives in the record of the same identity; without one, the
\* first Refresh selects the first row and later ones none.
Reselected(k, n) ==
  IF kept[k] # None THEN n # None /\ Kind[n] = k /\ records[n] = kept[k]
  ELSE ~refreshed /\ n # None /\ Kind[n] = k /\ records[n] # None

Rows == {new \in [Kinds -> Names \cup {None}] :
          \A k \in Kinds : \/ Reselected(k, new[k])
                           \/ new[k] = None /\ \A n \in Names : ~Reselected(k, n)}

Listed ==
  /\ Resume("listed")
  /\ IF Result = "ok" /\ connection = "CONNECTED"
     THEN row' \in Rows
     ELSE row' = [k \in Kinds |-> None]
  /\ todo' = <<"topic", "parameter", "service">>
  /\ NoMoreCalls
  /\ kept' = [k \in Kinds |-> None] /\ refreshed' = TRUE
  /\ UNCHANGED <<worldVars, implVars, panelVars, closed>>

-----------------------------------------------------------------------------
(* The topic page. *)

\* ShowTopic: an echo of the selected publisher is tried and given up.
ShowTopic ==
  /\ Resume("topic")
  /\ StopEcho /\ startEnabled' = FALSE /\ echoed' = None
  /\ IF row["topic"] = None \/ requiresRefresh THEN Return
     ELSE Enter(EchoPlan, row["topic"], Blank, <<"tried">> \o Tail(todo))
  /\ UNCHANGED <<worldVars, records, writable, connection, listVars, requiresRefresh,
                 parameterVars, serviceVars, closed>>

TriedLeftOpen ==
  /\ Resume("tried")
  /\ startEnabled' = (Result = "ok")
  /\ Return
  /\ UNCHANGED <<worldVars, implVars, listVars, echoing, requiresRefresh, echoed,
                 parameterVars, serviceVars, closed>>

Tried ==
  /\ Resume("tried")
  /\ prepared' = None
  /\ startEnabled' = (Result = "ok")
  /\ Return
  /\ UNCHANGED <<worldVars, records, writable, connection, listVars, echoing,
                 requiresRefresh, echoed, parameterVars, serviceVars, closed>>

SelectTopic(n) ==
  /\ UserActs /\ Kind[n] = "topic" /\ records[n] # None /\ n # row["topic"]
  /\ row' = [row EXCEPT !["topic"] = n]
  /\ todo' = <<"topic">>
  /\ UNCHANGED <<backendVars, kept, refreshed, panelVars, closed>>

StartEcho ==
  /\ UserActs /\ startEnabled /\ row["topic"] # None
  /\ prepared' = None
  /\ Enter(EchoPlan, row["topic"], Blank, <<"opened">>)
  /\ UNCHANGED <<worldVars, records, writable, connection, listVars, panelVars, closed>>

\* An error ends the echo until the next Refresh.
EndEcho ==
  /\ StopEcho /\ requiresRefresh' = TRUE /\ startEnabled' = FALSE
  /\ UNCHANGED echoed

ReadEchoAnyway ==
  /\ \E result \in EchoResults :
       IF result = "ok"
       THEN /\ echoed' = prepared.identity
            /\ UNCHANGED <<startEnabled, echoing, requiresRefresh, prepared>>
       ELSE UNCHANGED <<echoVars, prepared>>
  /\ UNCHANGED <<worldVars, records, writable, connection, listVars, parameterVars,
                 serviceVars, closed>>

\* PollEcho with an echo running.
ReadEcho ==
  /\ \E result \in EchoResults :
       CASE result = "error"  -> EndEcho
         [] result = "EAGAIN" -> UNCHANGED <<echoVars, prepared>>
         [] result = "ok"     -> /\ echoed' = prepared.identity
                                 /\ UNCHANGED <<startEnabled, echoing, requiresRefresh, prepared>>
  /\ UNCHANGED <<worldVars, records, writable, connection, listVars, parameterVars,
                 serviceVars, closed>>

Opened ==
  /\ Resume("opened")
  /\ NoMoreCalls
  /\ \/ Result # "ok" /\ EndEcho /\ todo' = <<>>
     \/ /\ Result = "ok"
        /\ startEnabled' = FALSE /\ echoing' = TRUE /\ todo' = <<"poll">>
        /\ UNCHANGED <<requiresRefresh, echoed, prepared>>
  /\ UNCHANGED <<worldVars, records, writable, connection, listVars, parameterVars,
                 serviceVars, closed>>

FirstPoll == Resume("poll") /\ ReadEcho /\ Return

\* The timer.
PollEcho == Waiting /\ ~busy /\ echoing /\ ReadEcho /\ UNCHANGED <<todo, calls>>

StopEchoClicked ==
  /\ UserActs /\ echoing
  /\ StopEcho /\ startEnabled' = StartEnabledAfterStop
  /\ UNCHANGED <<worldVars, records, writable, connection, calls, todo, listVars,
                 requiresRefresh, echoed, parameterVars, serviceVars, closed>>

-----------------------------------------------------------------------------
(* The parameter page. *)

parameterFrame == <<worldVars, implVars, echoVars, serviceVars, closed>>

\* RenderParameter
Render(value, from, stale) ==
  /\ form' = [value |-> value, text |-> value, from |-> from,
              enabled |-> ~stale /\ row["parameter"] \in writable]
  /\ dirty' = FALSE /\ buttons' = {"refresh"}
RenderResult == Render(calls["gui"].value, calls["gui"].target, FALSE)

\* ParameterError
ParameterError == invalid' = TRUE /\ UNCHANGED <<form, dirty, buttons>>

ShowParameter ==
  /\ Resume("parameter")
  /\ form' = NoForm /\ invalid' = TRUE
  /\ IF row["parameter"] = None THEN Return /\ buttons' = {}
     ELSE /\ Enter(GetPlan, row["parameter"], Blank, <<"read">> \o Tail(todo))
          /\ buttons' = {"refresh"}
  /\ UNCHANGED <<parameterFrame, listVars, dirty>>

ReadDone ==
  /\ Resume("read")
  /\ IF Result = "ok" THEN invalid' = FALSE /\ RenderResult
     ELSE ParameterError
  /\ Return
  /\ UNCHANGED <<parameterFrame, listVars>>

\* Selecting a row with edits pending sets the old row again.
SelectUnguarded(n) ==
  /\ UserActs /\ Kind[n] = "parameter" /\ records[n] # None /\ n # row["parameter"]
  /\ row' = [row EXCEPT !["parameter"] = n]
  /\ todo' = <<"parameter">>
  /\ UNCHANGED <<backendVars, kept, refreshed, panelVars, closed>>

SelectParameter(n) ==
  /\ UserActs /\ Kind[n] = "parameter" /\ records[n] # None /\ n # row["parameter"]
  /\ ~dirty
  /\ row' = [row EXCEPT !["parameter"] = n]
  /\ todo' = <<"parameter">>
  /\ UNCHANGED <<backendVars, kept, refreshed, panelVars, closed>>

RefreshParameterValue ==
  /\ UserActs /\ "refresh" \in buttons /\ ~dirty /\ row["parameter"] # None
  /\ Enter(GetPlan, row["parameter"], Blank, <<"read">>)
  /\ UNCHANGED <<parameterFrame, listVars, parameterVars>>

\* ParameterEdited
Edit(f, v) ==
  /\ UserActs /\ form.enabled /\ form.text[f] # v
  /\ form' = [form EXCEPT !.text[f] = v]
  /\ dirty' = (form'.text # form.value)
  /\ buttons' = IF dirty' THEN {"revert"} ELSE {"refresh"}
  /\ UNCHANGED <<parameterFrame, calls, todo, listVars, invalid>>

RevertParameter ==
  /\ UserActs /\ "revert" \in buttons /\ row["parameter"] # None
  /\ Render(form.value, form.from, invalid)
  /\ UNCHANGED <<parameterFrame, calls, todo, listVars, invalid>>

ApplyParameter ==
  /\ UserActs /\ dirty /\ ~invalid /\ row["parameter"] # None
  /\ Enter(CheckPlan(row["parameter"]), row["parameter"], Blank, <<"checked">>)
  /\ UNCHANGED <<parameterFrame, listVars, parameterVars>>

Checked ==
  /\ Resume("checked")
  /\ IF Result = "ok"
     THEN /\ calls' = [calls EXCEPT !["gui"] =
                        [Called(GetPlan, row["parameter"], Blank) EXCEPT !.since = changes]]
          /\ todo' = <<"fresh">>
          /\ UNCHANGED parameterVars
     ELSE /\ Return
          /\ IF Result = "invalid" THEN UNCHANGED parameterVars ELSE ParameterError
  /\ UNCHANGED <<parameterFrame, listVars>>

OverlayAll(fresh) == form.text

\* What was edited over what is there now.
Overlay(fresh) ==
  [f \in Fields |-> IF form.text[f] # form.value[f] THEN form.text[f] ELSE fresh[f]]

\* The type may have changed since the form was filled.
Fresh ==
  /\ Resume("fresh")
  /\ \/ /\ Result = "ok"
        /\ calls' = [calls EXCEPT !["gui"] =
             [Called(SetPlan, row["parameter"], Overlay(@.value)) EXCEPT !.since = calls["gui"].since]]
        /\ todo' = <<"written">>
        /\ UNCHANGED parameterVars
     \/ Return /\ ParameterError
  /\ UNCHANGED <<parameterFrame, listVars>>

Written ==
  /\ Resume("written")
  /\ IF Result = "ok"
     THEN /\ Enter(GetPlan, row["parameter"], Blank, <<"readBack">>)
          /\ dirty' = FALSE
          /\ UNCHANGED <<form, invalid, buttons>>
     ELSE Return /\ ParameterError
  /\ UNCHANGED <<parameterFrame, listVars>>

ReadBack ==
  /\ Resume("readBack")
  /\ IF Result = "ok" THEN invalid' = FALSE /\ RenderResult
     ELSE invalid' = TRUE /\ buttons' = buttons \cup {"refresh"} /\ UNCHANGED <<form, dirty>>
  /\ Return
  /\ UNCHANGED <<parameterFrame, listVars>>

-----------------------------------------------------------------------------
(* The service page. *)

serviceFrame == <<worldVars, parameterVars, requiresRefresh, echoed, closed>>

ShowService ==
  /\ Resume("service")
  /\ callEnabled' = FALSE /\ answered' = None
  /\ IF row["service"] = None THEN Return
     ELSE Enter(TemplatePlan, row["service"], Blank, <<"template">> \o Tail(todo))
  /\ UNCHANGED <<serviceFrame, implVars, echoing, startEnabled, listVars, busy>>

ShowTemplate ==
  /\ Resume("template")
  /\ callEnabled' = (Result = "ok")
  /\ Return
  /\ UNCHANGED <<serviceFrame, implVars, echoing, startEnabled, listVars, busy, answered>>

SelectService(n) ==
  /\ UserActs /\ Kind[n] = "service" /\ records[n] # None /\ n # row["service"]
  /\ row' = [row EXCEPT !["service"] = n]
  /\ todo' = <<"service">>
  /\ UNCHANGED <<backendVars, kept, refreshed, panelVars, closed>>

CallService ==
  /\ UserActs /\ callEnabled /\ row["service"] # None
  /\ answered' = None
  /\ Enter(CheckPlan(row["service"]), row["service"], Blank, <<"call">>)
  /\ UNCHANGED <<serviceFrame, implVars, echoing, startEnabled, listVars, callEnabled, busy>>

\* The worker is given the call, the window stops using the backend.
StartWorker ==
  calls' = [calls EXCEPT !["gui"] = NoCall, !["worker"] = Called(CallPlan, row["service"], Blank)]

StartCallUnmarked ==
  /\ Resume("call")
  /\ todo' = Tail(todo)
  /\ IF Result = "ok"
     THEN /\ StopEcho /\ startEnabled' = StartEnabledAfterStop
          /\ StartWorker
          /\ callEnabled' = FALSE /\ UNCHANGED busy
     ELSE NoMoreCalls /\ UNCHANGED <<echoing, startEnabled, prepared, callEnabled, busy>>
  /\ UNCHANGED <<serviceFrame, records, writable, connection, listVars, answered>>

StartCall ==
  /\ Resume("call")
  /\ todo' = Tail(todo)
  /\ IF Result = "ok"
     THEN /\ StopEcho /\ startEnabled' = StartEnabledAfterStop
          /\ StartWorker
          /\ busy' = TRUE /\ callEnabled' = FALSE
     ELSE NoMoreCalls /\ UNCHANGED <<echoing, startEnabled, prepared, callEnabled, busy>>
  /\ UNCHANGED <<serviceFrame, records, writable, connection, listVars, answered>>

\* QThread::finished, delivered to the GUI thread.
Finished ==
  /\ Waiting /\ busy /\ ~Running("worker")
  /\ busy' = FALSE /\ callEnabled' = TRUE
  /\ answered' = IF calls["worker"].result = "ok" THEN calls["worker"].target ELSE None
  /\ calls' = [calls EXCEPT !["worker"] = NoCall]
  /\ UNCHANGED <<serviceFrame, implVars, echoing, startEnabled, todo, listVars>>

-----------------------------------------------------------------------------
\* closeEvent; RemoteWorkspace::BeginClose may need more time and close again.
Close ==
  /\ Waiting /\ refreshed /\ ~busy /\ ~dirty
  /\ StopEcho /\ startEnabled' = StartEnabledAfterStop
  /\ closed' \in BOOLEAN
  /\ UNCHANGED <<worldVars, records, writable, connection, calls, todo, listVars,
                 requiresRefresh, echoed, parameterVars, serviceVars>>

(* Navigation from the element page and from the graph, whose menus know    *)
(* what the last Refresh listed.  Edits pending keep the user where he is,  *)
(* also where a row could be selected without harm.                         *)

\* OpenElementEndpoint
OpenElementEndpoint(n) ==
  ~dirty /\ (SelectTopic(n) \/ SelectParameter(n) \/ SelectService(n))

\* GraphWidget's open_topic
OpenTopic(identity) == ~dirty /\ \E n \in Names : records[n] = identity /\ SelectTopic(n)

-----------------------------------------------------------------------------
\* The handlers after a backend call.
Continue ==
  \/ Listed \/ ShowTopic \/ Tried \/ Opened \/ FirstPoll
  \/ ShowParameter \/ ReadDone \/ Checked \/ Fresh \/ Written \/ ReadBack
  \/ ShowService \/ ShowTemplate \/ StartCall

UserStep ==
  \/ Refresh \/ StartEcho \/ StopEchoClicked
  \/ \E n \in Names : SelectTopic(n) \/ SelectParameter(n) \/ SelectService(n)
  \/ RefreshParameterValue \/ RevertParameter \/ ApplyParameter
  \/ \E f \in Fields, v \in Values : Edit(f, v)
  \/ CallService \/ Close
  \/ \E n \in Names : OpenElementEndpoint(n) \/ OpenTopic(records[n])

BackendStep(t) == CallStep(t) /\ UNCHANGED windowVars

Next ==
  \/ Continue \/ UserStep \/ PollEcho \/ Finished
  \/ \E t \in Threads : BackendStep(t)
  \/ ~closed /\ WorldStep /\ UNCHANGED windowVars

(***************************************************************************)
(* Handlers and calls run to their end: every call into the framework      *)
(* returns, the service call by its timeout.  The event loop delivers the  *)
(* timer and the finished signal however many events the user makes, in    *)
(* between its other handlers, so both are strongly fair.  Nothing is      *)
(* assumed of the user and the runtimes.                                   *)
(***************************************************************************)
Fairness ==
  /\ WF_vars(Continue)
  /\ \A t \in Threads : WF_vars(BackendStep(t))
  /\ SF_vars(PollEcho) /\ SF_vars(Finished)

Spec == Init /\ [][Next]_vars /\ Fairness

-----------------------------------------------------------------------------
(***************************************************************************)
(* What an operation reads, writes or keeps open belongs to the            *)
(* registration it was asked for, though Open goes by name: a              *)
(* registration that took the name in between is never used as the old one *)
(* ("-ESTALE", docs/KT7_1_PRE_V01_HARDENING.md).                           *)
(***************************************************************************)
OpenedIsTarget ==
  /\ \A t \in Threads : At(t, "get") \/ At(t, "set") \/ At(t, "keep") =>
       calls[t].handle = calls[t].target
  /\ prepared # None => prepared.handle = prepared.identity

(***************************************************************************)
(* Apply changes what was edited and nothing else: a field that somebody   *)
(* else wrote since the form was filled keeps that value, unless it is     *)
(* written while Apply itself runs.                                        *)
(***************************************************************************)
UneditedFieldsKept ==
  [][At("gui", "set") /\ changes' = changes /\ calls["gui"].since = changes /\ contents' # contents =>
       \A f \in Fields : form.text[f] = form.value[f] =>
         contents'[row["parameter"]][f] = contents[row["parameter"]][f]]_vars

(***************************************************************************)
(* What the parameter form shows was read from the endpoint selected, and  *)
(* unsaved edits stay with the endpoint they were made for, whatever is    *)
(* selected, refreshed or registered again meanwhile.                      *)
(***************************************************************************)
FormOfSelection ==
  /\ Waiting => form.from \in {None, Selected("parameter")}
  /\ dirty => form.from # None /\ form.from = Selected("parameter")

(***************************************************************************)
(* "ToolBackend is serialized; no GUI operation races the worker"          *)
(* (main_window.cpp:753) and the echo session is the window's: the window  *)
(* uses the backend as its header demands.  One thread at a time is in an  *)
(* operation, the worker of a service call finds no session, between two   *)
(* events a session is open exactly while the window polls it (none is     *)
(* left by a trial, an error or a Refresh), and no sample on display is    *)
(* from an endpoint whose session was not open.                            *)
(***************************************************************************)
Contract == INSTANCE ToolBackend WITH
  users <- {t \in Threads : Running(t) \/ (t = "gui" /\ todo # <<>>)},
  session <- IF prepared = None THEN None ELSE prepared.identity,
  polling <- echoing,
  sample <- echoed

EchoContract == Contract!Spec

(***************************************************************************)
(* An echo whose publisher is gone stops by itself, however busy the user  *)
(* keeps the window and although the name or the pid may be in use again.  *)
(***************************************************************************)
PublisherGone ==
  /\ prepared # None
  /\ memory[prepared.name] # prepared.handle \/ ~alive \/ life # prepared.watched

EchoEndsWithPublisher == echoing /\ PublisherGone ~> ~echoing

=============================================================================
