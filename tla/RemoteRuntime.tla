---------------------------- MODULE RemoteRuntime ----------------------------
(***************************************************************************)
(* RemoteRuntime::Execute (src/backend/remote_runtime.cpp): what a command *)
(* does to the subscriptions and actions the tool tracks on remote hosts.  *)
(* The executor around it appears as what RemoteExecutor is shown to       *)
(* implement: commands wait in one FIFO, inbox, and are executed one at a  *)
(* time.  The framework (discovery, control and topic clients) is external *)
(* and modelled from its use: discovery adds and removes endpoints at any  *)
(* time, every framework call may fail, and a running action may become    *)
(* terminal whenever the hardware completes it.                            *)
(***************************************************************************)
EXTENDS Naturals, Sequences, FiniteSets

CONSTANTS
  Pages,       \* the panels of the workspace: subset of PageNames
  Endpoints,   \* endpoint identities: host, boot, registration and session
  Kind,        \* Kind[e]: the page whose list shows e
  Nothing,     \* no endpoint, the default-constructed RemoteEndpoint
  MaxChurn     \* bound: how often discovery's view changes

PageNames == {"topic", "parameter", "service", "action"}

ASSUME RuntimeAssumption ==
  /\ Pages \subseteq PageNames
  /\ Kind \in [Endpoints -> PageNames]
  /\ Nothing \notin Endpoints
  /\ MaxChurn \in Nat

VARIABLES
  live,           \* the endpoints for which Current holds
  churn,          \* how often live has changed
  inbox,          \* commands accepted and not yet executed, in order
  futures,        \* the reply waiting in each future, or Unready
  subscriptions,  \* subscriptions_: [handle, endpoint]
  actions,        \* actions_: [handle, endpoint]
  finished,       \* handles of actions whose framework snapshot is terminal
  acked,          \* handles whose Cancel was acknowledged
  nextHandle      \* next_handle, shared by every RemoteRuntime

runtimeVars == <<live, churn, inbox, futures, subscriptions, actions, finished,
                 acked, nextHandle>>

\* Who waits for a command: a panel, the poll, or nobody (cleanup).
Waiters == Pages \cup {"poll"}

Command(from, op, e, h) == [from |-> from, op |-> op, endpoint |-> e, handle |-> h]

\* The RemoteReply fields the workspace decides on; readback: the value came
\* back after a Set.
Reply(error, handle, readback, activities) ==
  [ready |-> TRUE, error |-> error, handle |-> handle, readback |-> readback,
   activities |-> activities]
Failed  == Reply(TRUE, 0, FALSE, {})
Done    == Reply(FALSE, 0, FALSE, {})
Unready == [Done EXCEPT !.ready = FALSE]

RuntimeInit ==
  /\ live \in SUBSET Endpoints
  /\ churn = 0
  /\ inbox = <<>>
  /\ futures = [w \in Waiters |-> Unready]
  /\ subscriptions = {}
  /\ actions = {}
  /\ finished = {}
  /\ acked = {}
  /\ nextHandle = 1

Handles(table) == {entry.handle : entry \in table}

\* The promise is set; a cleanup's future was dropped by its caller.
Answer(c, r) ==
  futures' = IF c.from \in Waiters THEN [futures EXCEPT ![c.from] = r] ELSE futures

Unsubscribed(h) == {s \in subscriptions : s.handle # h}

-----------------------------------------------------------------------------
\* Poll: a snapshot of every action and subscription.
\* A variant that takes the acknowledgement of Cancel for the end.
ActivitiesAcked ==
  {[topic |-> FALSE, handle |-> a.handle, endpoint |-> a.endpoint,
    terminal |-> a.handle \in finished \cup acked,
    lost |-> a.endpoint \notin live] : a \in actions}
  \cup
  {[topic |-> TRUE, handle |-> s.handle, endpoint |-> s.endpoint,
    terminal |-> FALSE, lost |-> s.endpoint \notin live] : s \in subscriptions}

Activities ==
  {[topic |-> FALSE, handle |-> a.handle, endpoint |-> a.endpoint,
    terminal |-> a.handle \in finished,
    lost |-> a.endpoint \notin live] : a \in actions}
  \cup
  {[topic |-> TRUE, handle |-> s.handle, endpoint |-> s.endpoint,
    terminal |-> FALSE, lost |-> s.endpoint \notin live] : s \in subscriptions}

ExecutePoll(c) ==
  /\ c.op = "Poll"
  /\ Answer(c, Reply(FALSE, 0, FALSE, Activities))
  /\ UNCHANGED <<subscriptions, actions, acked, nextHandle>>

\* -ENOENT for an unknown handle; a known one is forgotten even when the
\* framework's Unsubscribe fails.
ExecuteUnsubscribe(c) ==
  /\ c.op = "Unsubscribe"
  /\ subscriptions' = Unsubscribed(c.handle)
  /\ \E r \in IF c.handle \in Handles(subscriptions) THEN {Done, Failed} ELSE {Failed} :
       Answer(c, r)
  /\ UNCHANGED <<actions, acked, nextHandle>>

\* Everything else is refused with -ESTALE unless the endpoint is current.
ExecuteStale(c) ==
  /\ c.op \notin {"Poll", "Unsubscribe"}
  /\ c.endpoint \notin live
  /\ Answer(c, Failed)
  /\ UNCHANGED <<subscriptions, actions, acked, nextHandle>>

Usable(c, op) == c.op = op /\ c.endpoint \in live

\* The framework call failed before it had any effect the tool records.
ExecuteFailed(c) ==
  /\ c.op \in {"Subscribe", "Get", "Prepare", "Set", "Call", "Cancel", "Goal"}
  /\ c.endpoint \in live
  /\ Answer(c, Failed)
  /\ UNCHANGED <<subscriptions, actions, acked, nextHandle>>

ExecuteSubscribe(c) ==
  /\ Usable(c, "Subscribe")
  /\ subscriptions' = subscriptions \cup {[handle |-> nextHandle, endpoint |-> c.endpoint]}
  /\ nextHandle' = nextHandle + 1
  /\ Answer(c, Reply(FALSE, nextHandle, FALSE, {}))
  /\ UNCHANGED <<actions, acked>>

\* Get, Prepare and Call: a value comes back and no handle is created.
ExecuteRead(c) ==
  /\ \E op \in {"Get", "Prepare", "Call"} : Usable(c, op)
  /\ Answer(c, Done)
  /\ UNCHANGED <<subscriptions, actions, acked, nextHandle>>

\* Set, then the readback, which may fail on its own.
ExecuteSet(c) ==
  /\ Usable(c, "Set")
  /\ \E readback \in BOOLEAN : Answer(c, Reply(FALSE, 0, readback, {}))
  /\ UNCHANGED <<subscriptions, actions, acked, nextHandle>>

ExecuteCancel(c) ==
  /\ Usable(c, "Cancel")
  /\ [handle |-> c.handle, endpoint |-> c.endpoint] \in actions
  /\ acked' = acked \cup {c.handle}
  /\ Answer(c, Done)
  /\ UNCHANGED <<subscriptions, actions, nextHandle>>

\* Terminal handles are erased, then StartAction; it may create a handle
\* although its acknowledgement failed.
ExecuteGoal(c) ==
  /\ Usable(c, "Goal")
  /\ \/ /\ actions' = {a \in actions : a.handle \notin finished}
        /\ Answer(c, Failed)
        /\ UNCHANGED nextHandle
     \/ /\ actions' = {a \in actions : a.handle \notin finished}
                        \cup {[handle |-> nextHandle, endpoint |-> c.endpoint]}
        /\ nextHandle' = nextHandle + 1
        /\ \E error \in BOOLEAN : Answer(c, Reply(error, nextHandle, FALSE, {}))
  /\ UNCHANGED <<subscriptions, acked>>

Execute ==
  /\ inbox # <<>>
  /\ inbox' = Tail(inbox)
  /\ LET c == Head(inbox) IN
       \/ ExecutePoll(c)
       \/ ExecuteUnsubscribe(c)
       \/ ExecuteStale(c)
       \/ ExecuteFailed(c)
       \/ ExecuteSubscribe(c)
       \/ ExecuteRead(c)
       \/ ExecuteSet(c)
       \/ ExecuteCancel(c)
       \/ ExecuteGoal(c)
  /\ UNCHANGED <<live, churn, finished>>

-----------------------------------------------------------------------------
\* External: a peer is lost, restarts with a new session, or comes back.
DiscoveryChanges ==
  /\ churn < MaxChurn
  /\ churn' = churn + 1
  /\ \E e \in Endpoints :
       live' = IF e \in live THEN live \ {e} ELSE live \cup {e}
  /\ UNCHANGED <<inbox, futures, subscriptions, actions, finished, acked, nextHandle>>

\* External: the hardware completes a goal and the action worker notices.
ActionFinishes ==
  /\ \E h \in Handles(actions) \ finished : finished' = finished \cup {h}
  /\ UNCHANGED <<live, churn, inbox, futures, subscriptions, actions, acked, nextHandle>>

=============================================================================
