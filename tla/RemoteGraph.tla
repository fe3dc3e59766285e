----------------------------- MODULE RemoteGraph -----------------------------
(***************************************************************************)
(* The graph of remote hosts with its verified routes (src/src/ui/         *)
(* network_graph_model.cpp), drawn from what NetworkObserver has published *)
(* (src/src/backend/network_backend.cpp), on top of Gateways whose halves  *)
(* of a route come and go independently.  The graph is a function of the   *)
(* snapshot, of the options and of the time of drawing; the properties     *)
(* speak of a graph drawn in any state.  A window that has not refreshed   *)
(* for a while draws what it would draw of an observer that has heard      *)
(* nothing for as long, so the window's copy is not a variable.            *)
(*                                                                         *)
(* A cycle of the observer is one step here, DiagnosticsWorker has its     *)
(* interleavings.  A boot is a host of its own; clocks are assumed not to  *)
(* be set back.                                                            *)
(***************************************************************************)
EXTENDS LocalGraph, Naturals

CONSTANTS
  Hosts,         \* hosts with a Gateway
  Endpoints,     \* registrations of remote endpoints
  Host, App, Role, Runtime, \* of each of them; all are topics
  RouteIds,
  LocalElements, LocalEndpoints, \* what the local lists may hold
  Filters,       \* the options to draw with
  Fresh,         \* how long an observation counts: 10 s in the code
  MaxSession, MaxTime, MaxChanges \* bounds

ASSUME GraphAssumption ==
  /\ Fresh \in Nat /\ MaxSession \in Nat
  /\ \A options \in Filters : /\ options.kinds \subseteq {"T", "P", "S", "A"}
                             /\ options.local \in BOOLEAN /\ options.remote \in BOOLEAN

VARIABLES
  session,     \* external: session[h] of h's Gateway
  registered,  \* external: the endpoints that exist
  halves,      \* external: halves[h]: the routes h's Gateway knows of
  discovered,  \* external: what PeerDiscovery says of each host
  cache,       \* the observer's last diagnostics of each host
  now, changes,
  lastActive   \* for the properties: half -> when it was last active

world == <<session, registered, halves>>
vars == <<world, discovered, cache, now, changes, lastActive>>

EndpointsOf(h) == {e \in Endpoints : Host[e] = h}

\* A peer's state stands for its compatibility too; without metadata it has
\* no endpoints.
Unseen == [state |-> "LOST", session |-> 0, endpoints |-> {}]

\* "NONE" stands for the states without data; had is for the properties.
NoData(s) == [status |-> "NONE", session |-> s, at |-> 0, routes |-> {}, had |-> {}]

Init ==
  /\ session = [h \in Hosts |-> 1]
  /\ registered = Endpoints
  /\ halves = [h \in Hosts |-> {}]
  /\ discovered = [h \in Hosts |-> Unseen]
  /\ cache = [h \in Hosts |-> NoData(0)]
  /\ now = 1 /\ changes = 0
  /\ lastActive = <<>>

-----------------------------------------------------------------------------
(* The Gateways, the discovery of their peers, and time. *)

\* Which halves were active lately; called with what a step makes of them.
Remember(halvesThen, then) ==
  LET active == {r \in UNION {halvesThen[h] : h \in Hosts} : r.active}
      recent == {r \in DOMAIN lastActive : then - lastActive[r] <= Fresh}
  IN [r \in active \cup recent |-> IF r \in active THEN then ELSE lastActive[r]]

WorldChanges ==
  /\ changes < MaxChanges /\ changes' = changes + 1
  /\ UNCHANGED <<discovered, cache, now>>

\* A Gateway opens its half of a route, perhaps with the other Gateway's
\* session of some time ago.
OpenHalf(h) ==
  /\ \E p \in registered, s \in Endpoints, id \in RouteIds, active \in BOOLEAN,
        other \in 1..MaxSession :
       LET sending == Host[p] = h
           far == IF sending THEN Host[s] ELSE Host[p]
       IN /\ Role[p] = "PUBLISHER" /\ Role[s] = "SUBSCRIBER" /\ Host[p] # Host[s]
          /\ h \in {Host[p], Host[s]} /\ other <= session[far]
          /\ halves' = [halves EXCEPT ![h] = @ \cup
               {[source |-> p, destination |-> s, id |-> id, sending |-> sending,
                 sourceSession |-> IF sending THEN session[h] ELSE other,
                 destinationSession |-> IF sending THEN other ELSE session[h],
                 active |-> active]}]
          /\ halves' # halves
  /\ lastActive' = Remember(halves', now)
  /\ WorldChanges /\ UNCHANGED <<session, registered>>

CloseHalf(h) ==
  /\ \E r \in halves[h] : halves' = [halves EXCEPT ![h] = @ \ {r}]
  /\ WorldChanges /\ UNCHANGED <<session, registered, lastActive>>

GatewayRestarts(h) ==
  /\ session[h] < MaxSession
  /\ session' = [session EXCEPT ![h] = @ + 1]
  /\ halves' = [halves EXCEPT ![h] = {}]
  /\ WorldChanges /\ UNCHANGED <<registered, lastActive>>

EndpointChanges(e) ==
  /\ registered' = (registered \ {e}) \cup ({e} \ registered)
  /\ WorldChanges /\ UNCHANGED <<session, halves, lastActive>>

\* Discovery hears from a host, or takes it for lost; it is late or early.
PeerHeard(h) ==
  /\ discovered' = [discovered EXCEPT ![h] =
       [state |-> "ONLINE", session |-> session[h], endpoints |-> EndpointsOf(h) \cap registered]]
  /\ discovered' # discovered
  /\ UNCHANGED <<world, cache, now, changes, lastActive>>

PeerLost(h) ==
  /\ discovered[h].state = "ONLINE"
  /\ discovered' = [discovered EXCEPT ![h].state = "LOST"]
  /\ UNCHANGED <<world, cache, now, changes, lastActive>>

ClockTick ==
  /\ now < MaxTime /\ now' = now + 1
  /\ lastActive' = Remember(halves, now')
  /\ UNCHANGED <<world, discovered, cache, changes>>

-----------------------------------------------------------------------------
(* The observer. *)

Reconciled ==
  [h \in Hosts |->
     IF cache[h].session = discovered[h].session /\ discovered[h].state = "ONLINE"
     THEN cache[h] ELSE NoData(discovered[h].session)]

\* ConvertDiagnostics: the Gateway answers for the session it is in now, and
\* leaves out what does not fit.
Answers(h) ==
  {[status |-> IF routes = halves[h] THEN "VALID" ELSE "TRUNCATED",
    session |-> session[h], at |-> now, routes |-> routes, had |-> halves[h]] :
     routes \in SUBSET halves[h]}

\* A cycle with a query to h.
Query(h) ==
  /\ discovered[h].state = "ONLINE"
  /\ \E answer \in Answers(h) \cup {NoData(discovered[h].session)} :
       cache' = [Reconciled EXCEPT ![h] = answer]
  /\ UNCHANGED <<world, discovered, now, changes, lastActive>>

\* Convert, and the copy of the cache: what Refresh takes.
shown ==
  [h \in Hosts |-> [state |-> discovered[h].state, session |-> discovered[h].session,
                    endpoints |-> discovered[h].endpoints, diagnostics |-> Reconciled[h]]]

Next ==
  \/ \E h \in Hosts : OpenHalf(h) \/ CloseHalf(h) \/ GatewayRestarts(h)
                      \/ PeerHeard(h) \/ PeerLost(h) \/ Query(h)
  \/ \E e \in Endpoints : EndpointChanges(e)
  \/ ClockTick

Spec == Init /\ [][Next]_vars

-----------------------------------------------------------------------------
(* The graph. *)

RemoteNode(e) == <<"remote-endpoint", e>>

\* MatchesEndpoint
Matches(h, e, r) ==
  /\ Role[e] = IF r.sending THEN "PUBLISHER" ELSE "SUBSCRIBER"
  /\ e = IF r.sending THEN r.source ELSE r.destination
  /\ Host[e] = h
  /\ shown[h].session = IF r.sending THEN r.sourceSession ELSE r.destinationSession

\* A variant that trusts a success of any age.
FreshForever(h) ==
  LET d == shown[h].diagnostics
  IN /\ shown[h].state = "ONLINE"
     /\ d.status \in {"VALID", "TRUNCATED"} /\ d.session = shown[h].session

FreshDiagnostics(h) ==
  LET d == shown[h].diagnostics
  IN /\ shown[h].state = "ONLINE"
     /\ d.status \in {"VALID", "TRUNCATED"} /\ d.session = shown[h].session
     /\ d.at # 0 /\ d.at <= now /\ now - d.at <= Fresh

Evidence(nodes) ==
  UNION {{r \in shown[h].diagnostics.routes :
            /\ r.active
            /\ \E e \in shown[h].endpoints : Matches(h, e, r) /\ RemoteNode(e) \in nodes} :
         h \in {g \in Hosts : FreshDiagnostics(g)}}

\* A variant that tells routes by endpoints and number.
KeyWithoutSessions(r) == <<r.source, r.destination, r.id>>

\* What both halves have to agree on.
Key(r) == <<r.source, r.destination, r.sourceSession, r.destinationSession, r.id>>

VerifiedRoutes(nodes) ==
  LET evidence == Evidence(nodes)
  IN {[from |-> RemoteNode(r.source), to |-> RemoteNode(r.destination), of |-> r, route |-> TRUE] :
        r \in {s \in evidence : s.sending /\ \E q \in evidence : ~q.sending /\ Key(q) = Key(s)}}

\* A host's part: its heading, the runtimes of the group, their endpoints.
HostGraph(h, options) ==
  LET endpoints == {e \in shown[h].endpoints : options.group \in {Any, App[e]}}
      drawn == {e \in endpoints : "T" \in options.kinds}
  IN [nodes |-> {<<"remote-host", h>> : g \in {f \in {h} : options.group = Any \/ endpoints # {}}}
                \cup {<<"remote-runtime", Runtime[e]>> : e \in endpoints}
                \cup {RemoteNode(e) : e \in drawn},
      edges |-> {Owned(<<"remote-runtime", Runtime[e]>>, RemoteNode(e), [role |-> Role[e]]) :
                   e \in drawn}]

AddRoutesAnyway(model, options) ==
  LET hosts == {h \in Hosts : options.remote /\ options.host \in {Any, h}}
      parts == {HostGraph(h, options) : h \in hosts}
      local == IF options.local /\ options.host \in {Any, "local"} THEN model
               ELSE [nodes |-> {}, edges |-> {}]
      nodes == local.nodes \cup (UNION {p.nodes : p \in parts})
  IN [nodes |-> nodes,
      edges |-> local.edges \cup (UNION {p.edges : p \in parts})
                \cup IF options.remote THEN VerifiedRoutes({RemoteNode(e) : e \in Endpoints}) ELSE {}]

AddRemoteGraph(model, options) ==
  LET hosts == {h \in Hosts : options.remote /\ options.host \in {Any, h}}
      parts == {HostGraph(h, options) : h \in hosts}
      local == IF options.local /\ options.host \in {Any, "local"} THEN model
               ELSE [nodes |-> {}, edges |-> {}]
      nodes == local.nodes \cup (UNION {p.nodes : p \in parts})
  IN [nodes |-> nodes,
      edges |-> local.edges \cup (UNION {p.edges : p \in parts}) \cup VerifiedRoutes(nodes)]

Graph(elements, options) ==
  AddRemoteGraph(BuildGraph(elements, LocalEndpoints, options), options)

DetailOfWhole(h, e) ==
  LET d == shown[h].diagnostics
  IN IF d.status \notin {"VALID", "TRUNCATED"} \/ d.session # shown[h].session THEN "Unavailable"
     ELSE IF \E r \in d.routes : Matches(h, e, r) THEN "Routes"
     ELSE "No matching route"

\* TopicDiagnostics: what the detail of an endpoint says of its routes.
Detail(h, e) ==
  LET d == shown[h].diagnostics
  IN IF shown[h].state # "ONLINE" \/ d.status \notin {"VALID", "TRUNCATED"}
        \/ d.session # shown[h].session THEN "Unavailable"
     ELSE IF \E r \in d.routes : Matches(h, e, r) THEN "Routes"
     ELSE IF d.status = "TRUNCATED" THEN "Unknown"
     ELSE "No matching route"

-----------------------------------------------------------------------------
Unfiltered == [kinds |-> {"T", "P", "S", "A"}, group |-> Any, host |-> Any,
               local |-> TRUE, remote |-> TRUE]

(***************************************************************************)
(* A route that is drawn was active in both of its Gateways, under the     *)
(* sessions it is drawn for, at most 10 s before the drawing, however the  *)
(* halves, sessions, registrations and observations have changed since     *)
(* (FreshDiagnostics and the key of AddVerifiedRoutes).                    *)
(***************************************************************************)
RouteWasActive ==
  \A e \in {f \in Graph({}, Unfiltered).edges : f.route} :
    \A side \in BOOLEAN :
      \E r \in DOMAIN lastActive :
        /\ r = [e.of EXCEPT !.sending = side]
        /\ now - lastActive[r] <= Fresh

(***************************************************************************)
(* Filters only hide: with any options the graph has, of the relations of  *)
(* the whole graph, those between the nodes it shows, all of them, and no  *)
(* relation to a node that is not shown, whatever listing was incomplete.  *)
(***************************************************************************)
FiltersOnlyHide ==
  \A elements \in SUBSET LocalElements :
    LET whole == Graph(elements, Unfiltered)
    IN \A options \in Filters :
         LET part == Graph(elements, options)
         IN /\ part.nodes \subseteq whole.nodes
            /\ part.edges = {e \in whole.edges : e.from \in part.nodes /\ e.to \in part.nodes}

(***************************************************************************)
(* "Truncated snapshot: omitted routes are unknown, not absent": the       *)
(* detail of an endpoint says there is no route only if its Gateway had    *)
(* none when it was asked.                                                 *)
(***************************************************************************)
AbsentWasAbsent ==
  \A h \in Hosts : \A e \in shown[h].endpoints :
    Detail(h, e) = "No matching route" =>
      ~ \E r \in shown[h].diagnostics.had : Matches(h, e, r)

=============================================================================
