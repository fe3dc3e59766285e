--------------------------- MODULE RemoteWorkspace ---------------------------
(***************************************************************************)
(* RemoteWorkspace (src/ui/remote_workspace.cpp), the GUI side of remote   *)
(* control, composed with RemoteRuntime and with the network lifecycle its *)
(* Configure drives.  The GUI is one thread: a handler runs to its end,    *)
(* except that a confirmation dialog runs a nested event loop in which     *)
(* Tick goes on.  Tick reads futures one after the other while the control *)
(* worker sets them, so each read is a step of its own.                    *)
(*                                                                         *)
(* revision and epoch appear as what they are compared for: whether the    *)
(* panel (the workspace) has been cleared since the command was submitted. *)
(* Endpoints all have scope REMOTE and the role their page works on, and   *)
(* the tool has the Host ID that makes it an explicit control client.      *)
(***************************************************************************)
EXTENDS RemoteRuntime

CONSTANTS
  Place,          \* Place[e]: where its host lists an endpoint
  Hosts,          \* the remote hosts
  HostOf,         \* HostOf[e]: the host of an endpoint
  Local,          \* no remote host is selected
  NoQuestion,     \* no dialog is open
  Capacity,       \* limit of the executor's queue, 32 in the code
  MaxActivities,  \* limit of the activity history, 128 in the code
  MaxClicks       \* bound: how often the user acts

ASSUME WorkspaceAssumption ==
  /\ Place \in [Endpoints -> Nat]
  /\ \A e, f \in Endpoints : Place[e] = Place[f] => e = f
  /\ HostOf \in [Endpoints -> Hosts]
  /\ Local \notin Hosts
  /\ Capacity \in Nat /\ Capacity > Cardinality(Waiters)
  /\ MaxActivities \in Nat /\ MaxClicks \in Nat

VARIABLES
  net,            \* "up", "stopping", "off" or "starting"
  floor,          \* nextHandle when the settings were last changed
  configuration,  \* the future of ConfigureNetwork and what was asked of it
  seen,           \* the endpoints current in the GUI's snapshot
  status,         \* net, as the GUI's snapshot has it
  gui,            \* where Tick is: at, the next request, Populate due
  panels,         \* the Panel of each page
  buttons,        \* which of a page's two buttons are enabled
  choices,        \* the endpoints each page lists
  host,           \* host_selected
  combo,          \* what the host selector shows
  pending,        \* the requests in flight, in order of submission
  polling,        \* whether a poll is in flight, and of this epoch
  activities,     \* the history of goals shown on the action page
  chosen,         \* handle of the current item of activity_list, or 0
  cancelable,     \* the Cancel button is enabled
  asking,         \* the dialog that is open
  closing,        \* "no", "closing" or "closed"
  clicks          \* how often the user has acted

netVars  == <<net, floor>>
snapVars == <<seen, status>>
formVars == <<panels, buttons, choices>>
hostVars == <<host, combo>>
listVars == <<activities, chosen, cancelable>>
userVars == <<asking, closing, clicks>>
worldVars == <<live, churn, subscriptions, actions, finished, acked, nextHandle>>
workspaceVars == <<netVars, configuration, snapVars, gui, formVars, hostVars, pending,
                   polling, listVars, userVars>>
vars == <<runtimeVars, workspaceVars>>

EmptyPanel == [selected |-> Nothing, subscription |-> 0, dirty |-> FALSE,
               shown |-> Nothing, output |-> 0]
Idle    == [state |-> "none", shutdown |-> FALSE, start |-> FALSE]
NoPoll  == [valid |-> FALSE, same |-> FALSE]
Resting == [at |-> "idle", next |-> 1, due |-> FALSE]

Init ==
  /\ RuntimeInit
  /\ net = "up"
  /\ floor = 1
  /\ configuration = Idle
  /\ seen = {} /\ status = "starting"
  /\ gui = Resting
  /\ panels = [i \in Pages |-> EmptyPanel]
  /\ buttons = [i \in Pages |-> {}]
  /\ choices = [i \in Pages |-> {}]
  /\ host = Local /\ combo = Local
  /\ pending = <<>>
  /\ polling = NoPoll
  /\ activities = {} /\ chosen = 0 /\ cancelable = FALSE
  /\ asking = NoQuestion
  /\ closing = "no"
  /\ clicks = 0

-----------------------------------------------------------------------------
Busy(i) == \E k \in DOMAIN pending : pending[k].page = i
Dirty == \E i \in Pages : panels[i].dirty
Configuring == configuration.state # "none"

\* What a page lists: what host h offers of the page's kind.
Rows(i, h, endpoints) == {e \in endpoints : Kind[e] = i /\ HostOf[e] = h}

\* The row of e in a list, and what a row shows.
Row(list, e) == Cardinality({f \in list : Place[f] <= Place[e]})
InRow(list, row) == {e \in list : Row(list, e) = row}

\* SubmitRemote: into the executor's queue, or refused on the spot.
Accepts == net = "up" /\ Len(inbox) < Capacity

Send(c) ==
  IF Accepts
  THEN inbox' = Append(inbox, c) /\ UNCHANGED futures
  ELSE UNCHANGED inbox /\ Answer(c, Failed)

\* Clear, which leaves the subscription alone.
Cleared(p) == [EmptyPanel EXCEPT !.subscription = p.subscription]

\* A variant of Clear that forgets ++p.revision.
Unrevised(requests, pages) == requests

\* ++p.revision, as the requests in flight feel it.
Revised(requests, pages) ==
  [k \in DOMAIN requests |->
     [requests[k] EXCEPT !.unrevised = @ /\ requests[k].page \notin pages]]

\* ShowActivity: the chosen activity is marked lost when its endpoint is not
\* current, and may be cancelled when nothing speaks against it.  It stands
\* after what determines the primed variables it reads.
ShowActivity(list, handle) ==
  /\ chosen' = handle
  /\ activities' = {[a EXCEPT !.lost = @ \/ (a.handle = handle /\ a.endpoint \notin seen')] :
                      a \in list}
  /\ cancelable' = /\ status' = "up" /\ ~Busy("action")
                   /\ configuration'.state = "none" /\ closing = "no"
                   /\ \E a \in activities' : a.handle = handle /\ ~a.terminal /\ ~a.lost

-----------------------------------------------------------------------------
\* Configure after its checks: every request, panel and activity is detached
\* from the observer that is going away.
StartConfiguration(shutdown, start) ==
  /\ configuration' = [state |-> "requested", shutdown |-> shutdown, start |-> start]
  /\ pending' = [k \in DOMAIN pending |->
                   [pending[k] EXCEPT !.same = FALSE, !.unrevised = FALSE]]
  /\ polling' = [polling EXCEPT !.same = FALSE]
  /\ panels' = [i \in Pages |-> EmptyPanel]
  /\ activities' = {[a EXCEPT !.lost = TRUE, !.unknown = ~a.terminal] : a \in activities}
  /\ floor' = nextHandle

\* KcfBackend::ConfigureNetwork on its own thread: network_ is taken away
\* first, so that new commands are refused ...
TakeNetwork ==
  /\ configuration.state = "requested"
  /\ configuration' = [configuration EXCEPT !.state = "stopping"]
  /\ net' = IF net = "off" THEN "off" ELSE "stopping"
  /\ UNCHANGED <<runtimeVars, floor, snapVars, gui, formVars, hostVars, pending,
                 polling, listVars, userVars>>

\* A variant that drops what is queued without cancelling it.
AbandonQueue ==
  /\ configuration.state = "stopping"
  /\ configuration' = [configuration EXCEPT !.state = "done"]
  /\ UNCHANGED futures
  /\ inbox' = <<>>
  /\ subscriptions' = {} /\ actions' = {}
  /\ net' \in IF configuration.start THEN {"starting", "off"} ELSE {"off"}
  /\ UNCHANGED <<live, churn, finished, acked, nextHandle, floor, snapVars, gui, formVars,
                 hostVars, pending, polling, listVars, userVars>>

\* ... then ~NetworkObserver ends the worker, which cancels what is queued,
\* subscriptions and handles go with the runtime, and StartNetwork makes a
\* new observer, or fails to.
ReplaceNetwork ==
  /\ configuration.state = "stopping"
  /\ configuration' = [configuration EXCEPT !.state = "done"]
  /\ futures' = [w \in Waiters |->
                   IF \E k \in DOMAIN inbox : inbox[k].from = w THEN Failed ELSE futures[w]]
  /\ inbox' = <<>>
  /\ subscriptions' = {} /\ actions' = {}
  /\ net' \in IF configuration.start THEN {"starting", "off"} ELSE {"off"}
  /\ UNCHANGED <<live, churn, finished, acked, nextHandle, floor, snapVars, gui, formVars,
                 hostVars, pending, polling, listVars, userVars>>

\* The new observer has its executor and its first snapshot.
ObserverUp ==
  /\ net = "starting"
  /\ net' = "up"
  /\ UNCHANGED <<runtimeVars, floor, configuration, snapVars, gui, formVars, hostVars,
                 pending, polling, listVars, userVars>>

NetworkStep == TakeNetwork \/ ReplaceNetwork \/ ObserverUp

-----------------------------------------------------------------------------
\* Tick, first part.  While the window is closing, a finished configuration
\* ends the Tick: it was the shutdown, or the shutdown starts now.
\* A variant that takes any configuration for the shutdown's turn.
CollectAndWait ==
  /\ closing = "closing" /\ configuration.state = "done"
  /\ configuration' = Idle
  /\ closing' = IF configuration.shutdown THEN "closed" ELSE closing
  /\ UNCHANGED <<runtimeVars, netVars, snapVars, gui, formVars, hostVars, pending,
                 polling, listVars, asking, clicks>>

CollectWhileClosing ==
  /\ closing = "closing" /\ configuration.state = "done"
  /\ \/ /\ configuration.shutdown
        /\ closing' = "closed"
        /\ configuration' = Idle
        /\ UNCHANGED <<pending, polling, panels, activities, floor>>
     \/ /\ ~configuration.shutdown
        /\ StartConfiguration(TRUE, FALSE)
        /\ UNCHANGED closing
  /\ UNCHANGED <<runtimeVars, net, snapVars, gui, buttons, choices, hostVars, chosen,
                 cancelable, asking, clicks>>

\* Otherwise the snapshot is read, the chosen activity shown and, every
\* fifth time (here: when due), Populate fills the lists again and clears a
\* selection that is gone.  The snapshot is one cycle of the observer old;
\* that delay counts as the time a Tick takes to come.
ReadSnapshot ==
  /\ ~(closing = "closing" /\ configuration.state = "done")
  /\ configuration' = IF configuration.state = "done" THEN Idle ELSE configuration
  /\ seen' = IF net = "up" THEN live ELSE {}
  /\ status' = net
  /\ \E due \in BOOLEAN :
       LET rows == [i \in Pages |-> Rows(i, host, seen')]
           gone == {i \in Pages : /\ due
                                  /\ panels[i].selected # Nothing
                                  /\ panels[i].selected \notin rows[i]}
       IN /\ gui' = [at |-> "replies", next |-> 1, due |-> due]
          /\ choices' = IF due THEN rows ELSE choices
          /\ combo' = IF due THEN host ELSE combo
          /\ panels' = [i \in Pages |-> IF i \in gone THEN Cleared(panels[i]) ELSE panels[i]]
          /\ pending' = Revised(pending, gone)
  /\ ShowActivity(activities, chosen)
  /\ UNCHANGED <<runtimeVars, netVars, buttons, host, polling, userVars>>

TickBegins ==
  /\ gui.at = "idle" /\ closing # "closed"
  /\ CollectWhileClosing \/ ReadSnapshot

-----------------------------------------------------------------------------
\* Tick, second part: the requests in flight, one after the other.
Forget(k) == SubSeq(pending, 1, k - 1) \o SubSeq(pending, k + 1, Len(pending))

\* A variant that records a goal although it got no handle.
HistoryOfAll(q, r) ==
  IF q.same /\ q.op = "Goal"
  THEN {a \in activities : a.handle # r.handle}
         \cup {[handle |-> r.handle, endpoint |-> q.endpoint, terminal |-> FALSE,
                lost |-> FALSE, unknown |-> r.error]}
  ELSE activities

\* A goal that has a handle enters the history, acknowledged or not.
History(q, r) ==
  IF q.same /\ q.op = "Goal" /\ r.handle # 0
  THEN {a \in activities : a.handle # r.handle}
         \cup {[handle |-> r.handle, endpoint |-> q.endpoint, terminal |-> FALSE,
                lost |-> FALSE, unknown |-> r.error]}
  ELSE activities

\* A variant that forgets the subscription of a panel that has moved on.
KeepOrphan(q, r) == UNCHANGED inbox

\* A subscription that arrives after its panel was cleared is given up.
GiveUpOrphan(q, r) ==
  IF q.same /\ ~q.unrevised /\ q.op = "Subscribe" /\ r.handle # 0 /\ Accepts
  THEN inbox' = Append(inbox, Command("cleanup", "Unsubscribe", Nothing, r.handle))
  ELSE UNCHANGED inbox

Applicable(q) ==
  /\ q.same /\ q.unrevised
  /\ q.op = "Unsubscribe" \/ q.endpoint \in seen

\* What a successful reply does to its panel.
Applied(p, q, r) ==
  CASE q.op \in {"Get", "Prepare"} -> [p EXCEPT !.dirty = FALSE, !.shown = q.endpoint]
    [] q.op = "Set" -> [p EXCEPT !.dirty = FALSE,
                                 !.shown = IF r.readback THEN q.endpoint ELSE Nothing]
    [] q.op \in {"Call", "Goal"} -> [p EXCEPT !.dirty = FALSE]
    [] q.op = "Subscribe" -> [p EXCEPT !.subscription = r.handle]
    [] q.op = "Unsubscribe" -> [p EXCEPT !.subscription = 0, !.output = 0]
    [] q.op = "Cancel" -> p

VisitReply ==
  /\ gui.at = "replies" /\ gui.next \in DOMAIN pending
  /\ LET q == pending[gui.next]
         r == futures[q.page]
     IN \/ /\ r = Unready
           /\ gui' = [gui EXCEPT !.next = @ + 1]
           /\ UNCHANGED <<inbox, futures, panels, pending, activities>>
        \/ /\ r # Unready
           /\ futures' = [futures EXCEPT ![q.page] = Unready]
           /\ pending' = Forget(gui.next)
           /\ activities' = History(q, r)
           /\ GiveUpOrphan(q, r)
           /\ panels' = IF Applicable(q) /\ ~r.error
                        THEN [panels EXCEPT ![q.page] = Applied(@, q, r)] ELSE panels
           /\ UNCHANGED gui
  /\ UNCHANGED <<worldVars, netVars, configuration, snapVars, buttons, choices, hostVars,
                 polling, chosen, cancelable, userVars>>

RepliesVisited ==
  /\ gui.at = "replies" /\ gui.next \notin DOMAIN pending
  /\ gui' = [gui EXCEPT !.at = "poll"]
  /\ UNCHANGED <<runtimeVars, netVars, configuration, snapVars, formVars, hostVars,
                 pending, polling, listVars, userVars>>

-----------------------------------------------------------------------------
\* Tick, third part: the poll and the buttons.
\* A variant that does not look at the epoch.
PollCountsAlways == ~Configuring /\ closing = "no"

PollCounts == polling.same /\ ~Configuring /\ closing = "no"

\* What the poll says of a goal replaces what the history says of it; the
\* framework itself knows how the goal stands.
Merged(reported) ==
  LET news == {[handle |-> v.handle, endpoint |-> v.endpoint, terminal |-> v.terminal,
                lost |-> v.lost, unknown |-> FALSE] : v \in {x \in reported : ~x.topic}}
  IN {a \in activities : a.handle \notin Handles(news)} \cup news

\* Beyond the limit, the oldest that are over or lost are dropped.
Evicted(list) ==
  LET old == {a \in list : a.terminal \/ a.lost}
      older(a) == Cardinality({b \in old : b.handle < a.handle})
  IN {a \in list : ~(a \in old /\ older(a) + MaxActivities < Cardinality(list))}

\* A variant that shows the value of any subscription.
OfAnySubscription(p, reported) == {v \in reported : v.topic}

\* The report on the subscription the panel holds.
OfHeldSubscription(p, reported) ==
  {v \in reported : v.topic /\ v.handle = p.subscription}

\* The topic panel after the report: its value, nothing, or as before.
TopicOutputs(p, reported) ==
  LET held == OfHeldSubscription(p, reported)
  IN IF held = {} THEN {p.output}
     ELSE UNION {IF v.lost THEN {0} ELSE {p.output, 0, v.handle} : v \in held}

CollectPoll ==
  /\ polling.valid /\ futures["poll"] # Unready
  /\ LET reported == IF PollCounts THEN futures["poll"].activities ELSE {}
         list == Evicted(Merged(reported))
     IN /\ \E output \in IF "topic" \in Pages
                         THEN TopicOutputs(panels["topic"], reported) ELSE {0} :
             panels' = [i \in Pages |-> IF i = "topic"
                                        THEN [panels[i] EXCEPT !.output = output]
                                        ELSE panels[i]]
        /\ ShowActivity(list, IF chosen \in Handles(list) THEN chosen ELSE 0)

NoPollToCollect ==
  /\ ~(polling.valid /\ futures["poll"] # Unready)
  /\ UNCHANGED <<panels, listVars>>

\* The next poll is submitted when one is due and none is in flight.
SubmitPoll ==
  LET ready == polling.valid /\ futures["poll"] # Unready
      asks == /\ gui.due /\ (ready \/ ~polling.valid) /\ status = "up"
              /\ ~Configuring /\ closing = "no"
      left == IF ready THEN [futures EXCEPT !["poll"] = Unready] ELSE futures
  IN /\ polling' = IF asks THEN [valid |-> TRUE, same |-> TRUE]
                   ELSE IF ready THEN NoPoll ELSE polling
     /\ inbox' = IF asks /\ Accepts
                 THEN Append(inbox, Command("poll", "Poll", Nothing, 0)) ELSE inbox
     /\ futures' = IF asks /\ ~Accepts THEN [left EXCEPT !["poll"] = Failed] ELSE left

Enabled(i) ==
  LET p == panels[i]
      able == /\ p.selected \in seen /\ status = "up" /\ ~Busy(i)
              /\ ~Configuring /\ closing = "no"
      first == able /\ (i = "topic" => p.subscription = 0)
      second == IF i = "topic" THEN p.subscription # 0 /\ ~Busy(i) /\ ~Configuring
                ELSE able /\ p.shown # Nothing
  IN {b \in {"first", "second"} : IF b = "first" THEN first ELSE second}

TickEnds ==
  /\ gui.at = "poll"
  /\ gui' = Resting
  /\ UNCHANGED <<snapVars, configuration>>
  /\ CollectPoll \/ NoPollToCollect
  /\ SubmitPoll
  /\ buttons' = [i \in Pages |-> Enabled(i)]
  /\ UNCHANGED <<worldVars, netVars, choices, hostVars, pending, userVars>>

TickStep == TickBegins \/ VisitReply \/ RepliesVisited \/ TickEnds

-----------------------------------------------------------------------------
\* What the user does, between two events of the loop and with no dialog open.
UserActs ==
  /\ gui.at = "idle" /\ closing # "closed" /\ asking = NoQuestion
  /\ clicks < MaxClicks
  /\ clicks' = clicks + 1

Ask(question) ==
  /\ asking' = question
  /\ UNCHANGED <<runtimeVars, netVars, configuration, snapVars, gui, formVars, host,
                 pending, polling, listVars, closing>>

\* Submit: the panel is busy until its reply is visited.
Submitted(requests, i, c) ==
  Append(requests, [page |-> i, op |-> c.op, endpoint |-> c.endpoint,
                    same |-> TRUE, unrevised |-> TRUE])

\* The command a selection sends by itself.
Fetch(i) == IF i = "parameter" THEN "Get" ELSE "Prepare"

\* Select from where its dialog, if any, has been answered: the retained
\* subscription is given up, the panel cleared, the value or form fetched.
SelectEndpoint(i, e) ==
  LET fetches == i # "topic" /\ e \in seen /\ status = "up" /\ ~Busy(i)
      fetch == Command(i, Fetch(i), e, 0)
      cleanup == Command("cleanup", "Unsubscribe", Nothing, panels[i].subscription)
      revised == Revised(pending, {i})
  IN /\ panels' = [panels EXCEPT ![i] = [EmptyPanel EXCEPT !.selected = e]]
     /\ \/ fetches /\ Send(fetch) /\ pending' = Submitted(revised, i, fetch)
        \/ /\ ~fetches
           /\ pending' = revised
           /\ IF panels[i].subscription # 0 THEN Send(cleanup)
              ELSE UNCHANGED <<inbox, futures>>
     /\ UNCHANGED <<worldVars, netVars, configuration, snapVars, gui, buttons, choices,
                    host, polling, listVars, closing>>

\* The question's endpoint is what the user clicked; only the row survives the
\* question, as in the code, and the endpoint serves the property alone.
Select(i, e) ==
  /\ UserActs
  /\ e # panels[i].selected
  /\ UNCHANGED combo
  /\ IF panels[i].dirty
     THEN Ask([what |-> "select", page |-> i, row |-> Row(choices[i], e), endpoint |-> e])
     ELSE SelectEndpoint(i, e) /\ UNCHANGED asking

\* The buttons of a page and what they send.
Operation(i, button) ==
  CASE i = "topic"     -> IF button = "first" THEN "Subscribe" ELSE "Unsubscribe"
    [] i = "parameter" -> IF button = "first" THEN "Get" ELSE "Set"
    [] i = "service"   -> IF button = "first" THEN "Prepare" ELSE "Call"
    [] i = "action"    -> IF button = "first" THEN "Prepare" ELSE "Goal"

\* Request from where its dialog has been answered.
SendRequest(i, op) ==
  LET c == Command(i, op, panels[i].selected, panels[i].subscription)
  IN /\ Send(c)
     /\ pending' = Submitted(pending, i, c)
     /\ UNCHANGED <<worldVars, netVars, configuration, snapVars, gui, formVars, host,
                    polling, listVars, closing>>

Request(i, button) ==
  LET op == Operation(i, button) IN
  /\ UserActs
  /\ button \in buttons[i] /\ ~Busy(i)
  /\ op = "Subscribe" => panels[i].subscription = 0
  /\ UNCHANGED combo
  /\ IF op \in {"Get", "Prepare"} /\ panels[i].dirty
     THEN Ask([what |-> "request", page |-> i, op |-> op])
     ELSE SendRequest(i, op) /\ UNCHANGED asking

\* Typing into the input form, which has fields once something was fetched.
Edit(i) ==
  /\ UserActs
  /\ panels[i].shown # Nothing
  /\ panels' = [panels EXCEPT ![i].dirty = TRUE]
  /\ UNCHANGED <<runtimeVars, netVars, configuration, snapVars, gui, buttons, choices,
                 hostVars, pending, polling, listVars, asking, closing>>

ChooseActivity(a) ==
  /\ UserActs
  /\ UNCHANGED <<snapVars, configuration>>
  /\ ShowActivity(activities, a.handle)
  /\ UNCHANGED <<runtimeVars, netVars, gui, formVars, hostVars, pending, polling,
                 asking, closing>>

CancelGoal(a) ==
  LET c == Command("action", "Cancel", a.endpoint, a.handle) IN
  /\ UserActs
  /\ cancelable /\ ~Busy("action")
  /\ a.handle = chosen /\ ~a.lost /\ ~a.terminal
  /\ Send(c)
  /\ pending' = Submitted(pending, "action", c)
  /\ UNCHANGED <<worldVars, netVars, configuration, snapVars, gui, formVars, hostVars,
                 polling, listVars, asking, closing>>

\* The host selector, from where its dialog has been answered.
ShowHost(h) ==
  LET held == IF "topic" \in Pages THEN panels["topic"].subscription ELSE 0
  IN /\ host' = h
     /\ panels' = [i \in Pages |-> EmptyPanel]
     /\ pending' = Revised(pending, Pages)
     /\ choices' = [i \in Pages |-> Rows(i, h, seen)]
     /\ IF held # 0 THEN Send(Command("cleanup", "Unsubscribe", Nothing, held))
        ELSE UNCHANGED <<inbox, futures>>
     /\ UNCHANGED <<worldVars, netVars, configuration, snapVars, gui, buttons, polling,
                    listVars, closing>>

ChangeHost(h) ==
  /\ UserActs
  /\ h # host
  /\ combo' = h
  /\ IF Dirty THEN Ask([what |-> "host"])
     ELSE ShowHost(h) /\ UNCHANGED asking

Configure(start) ==
  /\ UserActs
  /\ ~Configuring
  /\ UNCHANGED combo
  /\ \/ Dirty /\ Ask([what |-> "configure", start |-> start])
     \/ /\ ~Dirty
        /\ StartConfiguration(FALSE, start)
        /\ UNCHANGED <<runtimeVars, net, snapVars, gui, buttons, choices, host,
                       chosen, cancelable, asking, closing>>

\* Closing from where its dialog has been answered: the shutdown starts, or
\* waits for Tick when another configuration is under way.
Close ==
  /\ closing' = "closing"
  /\ IF Configuring
     THEN UNCHANGED <<configuration, pending, polling, panels, activities, floor>>
     ELSE StartConfiguration(TRUE, FALSE)
  /\ UNCHANGED <<runtimeVars, net, snapVars, gui, buttons, choices, host, chosen,
                 cancelable>>

BeginClose ==
  /\ UserActs
  /\ UNCHANGED combo
  /\ LET nothingRuns == ~Configuring /\ pending = <<>> /\ status \in {"off", "stopping"}
     IN \/ /\ nothingRuns
           /\ closing' = "closed"
           /\ UNCHANGED <<runtimeVars, netVars, configuration, snapVars, gui, formVars,
                          host, pending, polling, listVars, asking>>
        \/ ~nothingRuns /\ Dirty /\ Ask([what |-> "close"])
        \/ ~nothingRuns /\ ~Dirty /\ Close /\ UNCHANGED asking

-----------------------------------------------------------------------------
\* The answer to a dialog.  Ticks have gone on meanwhile.
AnswerNo ==
  /\ asking # NoQuestion
  /\ combo' = IF asking.what = "host" THEN host ELSE combo
  /\ UNCHANGED <<runtimeVars, netVars, configuration, snapVars, gui, formVars, host,
                 pending, polling, listVars, closing>>

\* choices[i][row] is read after the dialog; a row that is gone is read
\* beyond the vector's end, where any endpoint may still lie.
AnswerYes ==
  /\ asking # NoQuestion
  /\ UNCHANGED combo
  /\ CASE asking.what = "select" ->
            LET there == InRow(choices[asking.page], asking.row)
            IN \E e \in IF there # {} THEN there ELSE Endpoints :
                 SelectEndpoint(asking.page, e)
       [] asking.what = "request" -> SendRequest(asking.page, asking.op)
       [] asking.what = "host" -> ShowHost(combo)
       [] asking.what = "configure" ->
            /\ StartConfiguration(FALSE, asking.start)
            /\ UNCHANGED <<runtimeVars, net, snapVars, gui, buttons, choices, host,
                           chosen, cancelable, closing>>
       [] asking.what = "close" -> Close

AnswerDialog ==
  /\ gui.at = "idle" /\ closing # "closed"
  /\ asking' = NoQuestion
  /\ UNCHANGED clicks
  /\ AnswerNo \/ AnswerYes

UserStep ==
  \/ \E i \in Pages : Edit(i) \/ \E e \in choices[i] : Select(i, e)
  \/ \E i \in Pages, button \in {"first", "second"} : Request(i, button)
  \/ "action" \in Pages /\ \E a \in activities : ChooseActivity(a) \/ CancelGoal(a)
  \/ \E h \in Hosts \cup {Local} : ChangeHost(h)
  \/ \E start \in BOOLEAN : Configure(start)
  \/ BeginClose
  \/ AnswerDialog

RuntimeStep == Execute \/ DiscoveryChanges \/ ActionFinishes

Next ==
  \/ TickStep \/ NetworkStep \/ UserStep
  \/ RuntimeStep /\ UNCHANGED workspaceVars

(***************************************************************************)
(* The 100 ms timer keeps firing and each thread keeps running; a dialog   *)
(* need never be answered, and nobody has to click.                        *)
(***************************************************************************)
Spec ==
  /\ Init /\ [][Next]_vars
  /\ WF_vars(TickStep)
  /\ WF_vars(NetworkStep)
  /\ WF_vars(Execute /\ UNCHANGED workspaceVars)

-----------------------------------------------------------------------------
EndpointOrNone == Endpoints \cup {Nothing}

(***************************************************************************)
(* The fields, rows, replies and handles of the workspace have their types;*)
(* a handle the workspace keeps was given out by the runtime, and an       *)
(* activity always has one.                                                *)
(***************************************************************************)
TypeOK ==
  /\ live \subseteq Endpoints /\ seen \subseteq Endpoints
  /\ net \in {"up", "stopping", "off", "starting"} /\ status \in {"up", "stopping", "off", "starting"}
  /\ floor \in Nat /\ nextHandle \in Nat /\ floor <= nextHandle
  /\ Handles(subscriptions) \cup Handles(actions) \cup finished \cup acked \subseteq 1..(nextHandle - 1)
  /\ configuration \in [state : {"none", "requested", "stopping", "done"},
                        shutdown : BOOLEAN, start : BOOLEAN]
  /\ gui \in [at : {"idle", "replies", "poll"}, next : Nat, due : BOOLEAN]
  /\ panels \in [Pages -> [selected : EndpointOrNone, subscription : 0..(nextHandle - 1),
                           dirty : BOOLEAN, shown : EndpointOrNone,
                           output : 0..(nextHandle - 1)]]
  /\ buttons \in [Pages -> SUBSET {"first", "second"}]
  /\ choices \in [Pages -> SUBSET Endpoints]
  /\ host \in Hosts \cup {Local} /\ combo \in Hosts \cup {Local}
  /\ \A k \in DOMAIN pending : pending[k].page \in Pages /\ pending[k].endpoint \in EndpointOrNone
  /\ polling \in [valid : BOOLEAN, same : BOOLEAN]
  /\ activities \subseteq [handle : 1..(nextHandle - 1), endpoint : Endpoints,
                           terminal : BOOLEAN, lost : BOOLEAN, unknown : BOOLEAN]
  /\ chosen \in 0..(nextHandle - 1)
  /\ closing \in {"no", "closing", "closed"}

(***************************************************************************)
(* What a form shows was fetched from the endpoint that is selected now,   *)
(* however late the reply came and whatever was selected in between: else  *)
(* Set would write one endpoint's value to another.                        *)
(***************************************************************************)
ShownBelongsToSelection ==
  \A i \in Pages : panels[i].shown \in {Nothing, panels[i].selected}

(***************************************************************************)
(* The topic value on display is one of the subscription the panel holds,  *)
(* never of an earlier one whose report was still under way.               *)
(***************************************************************************)
ValueOfHeldSubscription ==
  \A i \in Pages : panels[i].output \in {0, panels[i].subscription}

\* The panel, an unread reply or a queued Unsubscribe will see to handle h.
Owned(h) ==
  \/ \E i \in Pages : panels[i].subscription = h
  \/ \E w \in Waiters : futures[w] # Unready /\ futures[w].handle = h
  \/ \E k \in DOMAIN inbox : inbox[k].op = "Unsubscribe" /\ inbox[k].handle = h

(***************************************************************************)
(* Every subscription of the current runtime has an owner: the panel, a    *)
(* reply the panel has not read, or a queued Unsubscribe.  One without an  *)
(* owner receives until the network is reconfigured.  However the user     *)
(* clicks, this holds until discovery's view changes: a reply that is read *)
(* while its endpoint is away is neither applied nor cleaned up.           *)
(***************************************************************************)
NoOrphanSubscription ==
  churn = 0 /\ net = "up" /\ configuration.state # "requested" =>
    \A h \in Handles(subscriptions) : Owned(h)

(***************************************************************************)
(* A goal is shown as ended only when the framework reported it terminal:  *)
(* the acknowledgement of a Cancel is not the end.                         *)
(***************************************************************************)
NoFalseCompletion == \A a \in activities : a.terminal => a.handle \in finished

(***************************************************************************)
(* A goal that was started before the network settings were last changed   *)
(* is shown as ended, or as lost with its execution unknown: no report     *)
(* that was under way at that time may revive it.                          *)
(***************************************************************************)
UnknownAfterDetach ==
  \A a \in activities : a.handle < floor => a.terminal \/ (a.lost /\ a.unknown)

(***************************************************************************)
(* A busy panel becomes free again, also when its request was cancelled    *)
(* because the network was reconfigured or the window is closing.          *)
(***************************************************************************)
BusyPanelIsFreed ==
  \A i \in Pages : Busy(i) ~> ~Busy(i) \/ closing = "closed"

(***************************************************************************)
(* A window that began to close closes, also when another configuration    *)
(* was under way and although its event loop only polls.                   *)
(***************************************************************************)
ClosingCloses == closing = "closing" ~> closing = "closed"

-----------------------------------------------------------------------------
(***************************************************************************)
(* "Discard unsent edits and select another endpoint?" (remote_workspace.  *)
(* cpp:139): an answer selects the endpoint that was clicked or none.      *)
(***************************************************************************)
SelectsWhatWasClicked ==
  [][asking # NoQuestion /\ asking.what = "select" /\ asking' = NoQuestion =>
       panels'[asking.page].selected \in {panels[asking.page].selected, asking.endpoint}]_vars

=============================================================================
