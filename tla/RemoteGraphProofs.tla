-------------------------- MODULE RemoteGraphProofs --------------------------
(***************************************************************************)
(* Proofs about the graph of remote hosts, for any hosts, endpoints,       *)
(* listings, filters, and any span an observation counts for.              *)
(***************************************************************************)
EXTENDS RemoteGraph, TLAPS

Half == [source : Endpoints, destination : Endpoints, id : RouteIds, sending : BOOLEAN,
         sourceSession : Nat, destinationSession : Nat, active : BOOLEAN]

(* A half that is active is remembered as of now, and what was remembered  *)
(* is forgotten only when it no longer counts.                             *)
MemoryInv ==
  /\ now \in Nat
  /\ halves \in [Hosts -> SUBSET Half] /\ session \in [Hosts -> Nat]
  /\ registered \subseteq Endpoints
  /\ lastActive = [r \in DOMAIN lastActive |-> lastActive[r]]
  /\ \A r \in DOMAIN lastActive : lastActive[r] \in Nat /\ lastActive[r] <= now
  /\ \A h \in Hosts : \A r \in halves[h] :
       r.active => r \in DOMAIN lastActive /\ lastActive[r] = now

(* An answer that counts was given after, or when, its routes were last    *)
(* known to be active; one that is complete has left none out.             *)
AnswerInv(d) ==
  /\ d.at \in Nat /\ d.at <= now /\ d.routes \subseteq Half
  /\ \A r \in d.routes : r.active /\ now - d.at <= Fresh =>
       r \in DOMAIN lastActive /\ d.at <= lastActive[r]
  /\ d.status = "VALID" => d.routes = d.had

CacheInv == cache = [h \in Hosts |-> cache[h]] /\ \A h \in Hosts : AnswerInv(cache[h])

Inv == MemoryInv /\ CacheInv

-----------------------------------------------------------------------------
LEMMA RememberFacts ==
  ASSUME MemoryInv, NEW halvesThen, halvesThen \in [Hosts -> SUBSET Half],
         NEW then \in Nat, now <= then,
         lastActive' = Remember(halvesThen, then)
  PROVE  /\ lastActive' = [r \in DOMAIN lastActive' |-> lastActive'[r]]
         /\ \A r \in DOMAIN lastActive' : lastActive'[r] \in Nat /\ lastActive'[r] <= then
         /\ \A h \in Hosts : \A r \in halvesThen[h] :
              r.active => r \in DOMAIN lastActive' /\ lastActive'[r] = then
         /\ \A r \in DOMAIN lastActive : then - lastActive[r] <= Fresh =>
              r \in DOMAIN lastActive' /\ lastActive[r] <= lastActive'[r]
<1> DEFINE active == {r \in UNION {halvesThen[h] : h \in Hosts} : r.active}
           recent == {r \in DOMAIN lastActive : then - lastActive[r] <= Fresh}
<1>1. lastActive' = [r \in active \cup recent |-> IF r \in active THEN then ELSE lastActive[r]]
  BY DEF Remember
<1>2. \A h \in Hosts : \A r \in halvesThen[h] : r.active => r \in active
  OBVIOUS
<1>3. \A r \in recent : r \in DOMAIN lastActive /\ lastActive[r] \in Nat /\ lastActive[r] <= now
  BY DEF MemoryInv
<1>4. \A r \in DOMAIN lastActive : then - lastActive[r] <= Fresh => r \in recent
  OBVIOUS
<1> HIDE DEF active, recent
<1>5. /\ DOMAIN lastActive' = active \cup recent
      /\ \A r \in active \cup recent :
           lastActive'[r] = IF r \in active THEN then ELSE lastActive[r]
  BY <1>1
<1>6. \A r \in recent : lastActive[r] <= then
  BY <1>3 DEF MemoryInv
<1> QED
  BY <1>1, <1>2, <1>3, <1>4, <1>5, <1>6

(* An answer keeps counting for what is remembered, or does not count.     *)
LEMMA AnswersStay ==
  ASSUME Inv, now' \in Nat, now <= now', NEW d, AnswerInv(d),
         \/ lastActive' = lastActive /\ now' = now
         \/ \A r \in DOMAIN lastActive : now' - lastActive[r] <= Fresh =>
              /\ r \in DOMAIN lastActive' /\ lastActive[r] <= lastActive'[r]
              /\ lastActive'[r] \in Nat
  PROVE  /\ d.at <= now'
         /\ \A r \in d.routes : r.active /\ now' - d.at <= Fresh =>
              r \in DOMAIN lastActive' /\ d.at <= lastActive'[r]
<1>1. d.at \in Nat /\ d.at <= now' /\ now \in Nat /\ Fresh \in Nat
  BY GraphAssumption DEF AnswerInv, Inv, MemoryInv
<1>2. ASSUME NEW r \in d.routes, r.active, now' - d.at <= Fresh
      PROVE  r \in DOMAIN lastActive' /\ d.at <= lastActive'[r]
  <2>1. now - d.at <= Fresh
    BY <1>1, <1>2
  <2>2. r \in DOMAIN lastActive /\ d.at <= lastActive[r] /\ lastActive[r] \in Nat
    BY <1>2, <2>1 DEF AnswerInv, Inv, MemoryInv
  <2>3. now' - lastActive[r] <= Fresh
    BY <1>1, <1>2, <2>2
  <2> QED
    BY <1>1, <2>2, <2>3
<1> QED
  BY <1>1, <1>2

LEMMA NoDataFacts ==
  ASSUME Inv, NEW s
  PROVE  AnswerInv(NoData(s))
  BY DEF AnswerInv, NoData, Inv, MemoryInv

LEMMA ReconciledFacts ==
  ASSUME Inv, NEW h \in Hosts
  PROVE  AnswerInv(Reconciled[h])
  BY NoDataFacts DEF Reconciled, Inv, CacheInv

(* What a Gateway answers is what it has then, or a part of it.            *)
LEMMA AnswersFacts ==
  ASSUME Inv, NEW h \in Hosts, NEW d \in Answers(h)
  PROVE  AnswerInv(d)
<1>1. PICK routes \in SUBSET halves[h] :
        d = [status |-> IF routes = halves[h] THEN "VALID" ELSE "TRUNCATED",
             session |-> session[h], at |-> now, routes |-> routes, had |-> halves[h]]
  BY DEF Answers
<1>2. d.at = now /\ d.routes = routes /\ d.had = halves[h]
      /\ (d.status = "VALID" => routes = halves[h])
  BY <1>1
<1> QED
  BY <1>2 DEF AnswerInv, Inv, MemoryInv

-----------------------------------------------------------------------------
LEMMA InitInv == Init => Inv
<1> SUFFICES ASSUME Init PROVE Inv
  OBVIOUS
<1>1. MemoryInv
  BY DEF Init, MemoryInv
<1>2. ASSUME NEW h \in Hosts PROVE AnswerInv(NoData(0))
  BY DEF Init, AnswerInv, NoData
<1>3. CacheInv
  BY <1>2 DEF Init, CacheInv
<1> QED
  BY <1>1, <1>3 DEF Inv

LEMMA OpenKeeps ==
  ASSUME Inv, NEW h \in Hosts, OpenHalf(h)
  PROVE  Inv'
<1>1. PICK r \in Half : halves' = [halves EXCEPT ![h] = @ \cup {r}]
  <2>1. PICK p \in registered, s \in Endpoints, id \in RouteIds, active \in BOOLEAN,
            other \in 1..MaxSession :
          LET sending == Host[p] = h
              far == IF sending THEN Host[s] ELSE Host[p]
          IN /\ Role[p] = "PUBLISHER" /\ Role[s] = "SUBSCRIBER" /\ Host[p] # Host[s]
             /\ h \in {Host[p], Host[s]} /\ other <= session[far]
             /\ halves' = [halves EXCEPT ![h] = @ \cup
                  {[source |-> p, destination |-> s, id |-> id, sending |-> sending,
                    sourceSession |-> IF sending THEN session[h] ELSE other,
                    destinationSession |-> IF sending THEN other ELSE session[h],
                    active |-> active]}]
             /\ halves' # halves
    BY Zenon DEF OpenHalf
  <2>2. other \in Nat /\ session[h] \in Nat /\ p \in Endpoints
    BY GraphAssumption DEF Inv, MemoryInv
  <2> DEFINE r == [source |-> p, destination |-> s, id |-> id, sending |-> (Host[p] = h),
                   sourceSession |-> IF Host[p] = h THEN session[h] ELSE other,
                   destinationSession |-> IF Host[p] = h THEN other ELSE session[h],
                   active |-> active]
  <2>3. r \in Half
    BY <2>2 DEF Half
  <2> QED
    BY <2>1, <2>3
<1>2. /\ halves' \in [Hosts -> SUBSET Half]
      /\ UNCHANGED <<session, registered, now, cache>>
      /\ lastActive' = Remember(halves', now)
  BY <1>1 DEF OpenHalf, WorldChanges, Inv, MemoryInv
<1>3. /\ MemoryInv'
      /\ \A s \in DOMAIN lastActive : now - lastActive[s] <= Fresh =>
           s \in DOMAIN lastActive' /\ lastActive[s] <= lastActive'[s] /\ lastActive'[s] \in Nat
  BY <1>2, RememberFacts DEF Inv, MemoryInv
<1>4. \A d : AnswerInv(d) => AnswerInv(d)'
  BY <1>2, <1>3, AnswersStay DEF Inv, MemoryInv, AnswerInv
<1> QED
  BY <1>2, <1>3, <1>4 DEF Inv, CacheInv

LEMMA TickKeeps ==
  ASSUME Inv, ClockTick
  PROVE  Inv'
<1>1. /\ now \in Nat /\ now' = now + 1
      /\ UNCHANGED <<session, registered, halves, cache>>
      /\ lastActive' = Remember(halves, now')
  BY DEF ClockTick, world, Inv, MemoryInv
<1>2. /\ MemoryInv'
      /\ \A s \in DOMAIN lastActive : now' - lastActive[s] <= Fresh =>
           s \in DOMAIN lastActive' /\ lastActive[s] <= lastActive'[s] /\ lastActive'[s] \in Nat
  <2>1. /\ now' \in Nat /\ now <= now'
    BY <1>1
  <2> QED
    BY <1>1, <2>1, RememberFacts DEF Inv, MemoryInv
<1>3. \A d : AnswerInv(d) => AnswerInv(d)'
  BY <1>1, <1>2, AnswersStay DEF AnswerInv
<1> QED
  BY <1>1, <1>2, <1>3 DEF Inv, CacheInv

(* What changes neither the time nor what is remembered.                   *)
LEMMA OthersKeep ==
  ASSUME Inv, UNCHANGED <<now, lastActive>>,
         registered' \subseteq Endpoints, session' \in [Hosts -> Nat],
         halves' \in [Hosts -> SUBSET Half], \A h \in Hosts : halves'[h] \subseteq halves[h],
         cache' = [h \in Hosts |-> cache'[h]], \A h \in Hosts : AnswerInv(cache'[h])
  PROVE  Inv'
<1>1. MemoryInv'
  BY DEF Inv, MemoryInv
<1>2. \A d : AnswerInv(d) => AnswerInv(d)'
  BY DEF AnswerInv
<1> QED
  BY <1>1, <1>2 DEF Inv, CacheInv

LEMMA NextInv == Inv /\ [Next]_vars => Inv'
<1> SUFFICES ASSUME Inv, [Next]_vars PROVE Inv'
  OBVIOUS
<1>1. ASSUME NEW h \in Hosts, OpenHalf(h) PROVE Inv'
  BY <1>1, OpenKeeps
<1>2. ASSUME NEW h \in Hosts, CloseHalf(h) PROVE Inv'
  BY <1>2, OthersKeep DEF CloseHalf, WorldChanges, Inv, MemoryInv, CacheInv
<1>3. ASSUME NEW h \in Hosts, GatewayRestarts(h) PROVE Inv'
  BY <1>3, OthersKeep DEF GatewayRestarts, WorldChanges, Inv, MemoryInv, CacheInv
<1>4. ASSUME NEW h \in Hosts, PeerHeard(h) \/ PeerLost(h) PROVE Inv'
  BY <1>4, OthersKeep DEF PeerHeard, PeerLost, world, Inv, MemoryInv, CacheInv
<1>5. ASSUME NEW h \in Hosts, Query(h) PROVE Inv'
  <2>1. PICK answer \in Answers(h) \cup {NoData(discovered[h].session)} :
          cache' = [Reconciled EXCEPT ![h] = answer]
    BY <1>5 DEF Query
  <2>2. AnswerInv(answer)
    BY AnswersFacts, NoDataFacts
  <2>3. cache' = [g \in Hosts |-> IF g = h THEN answer ELSE Reconciled[g]]
    BY <2>1 DEF Reconciled
  <2>4. \A g \in Hosts : AnswerInv(cache'[g])
    BY <2>2, <2>3, ReconciledFacts
  <2> QED
    BY <1>5, <2>3, <2>4, OthersKeep DEF Query, world, Inv, MemoryInv
<1>6. ASSUME NEW e \in Endpoints, EndpointChanges(e) PROVE Inv'
  BY <1>6, OthersKeep DEF EndpointChanges, WorldChanges, Inv, MemoryInv, CacheInv
<1>7. CASE ClockTick
  BY <1>7, TickKeeps
<1>8. CASE UNCHANGED vars
  BY <1>8, OthersKeep DEF vars, world, Inv, MemoryInv, CacheInv
<1> QED
  BY <1>1, <1>2, <1>3, <1>4, <1>5, <1>6, <1>7, <1>8 DEF Next

(* What the observer has is remembered for as long as it counts.           *)
THEOREM Invariance == Spec => []Inv
  BY InitInv, NextInv, PTL DEF Spec

-----------------------------------------------------------------------------
(* The edges of a graph are owned ones of the local lists, owned ones of a *)
(* host's part, or routes.                                                 *)
LEMMA EvidenceFacts ==
  ASSUME Inv, NEW nodes, NEW r \in Evidence(nodes)
  PROVE  /\ r \in Half /\ r.active
         /\ r \in DOMAIN lastActive /\ now - lastActive[r] <= Fresh
         /\ RemoteNode(IF r.sending THEN r.source ELSE r.destination) \in nodes
<1>1. PICK h \in Hosts :
        /\ FreshDiagnostics(h) /\ r \in shown[h].diagnostics.routes /\ r.active
        /\ \E e \in shown[h].endpoints : Matches(h, e, r) /\ RemoteNode(e) \in nodes
  BY DEF Evidence
<1> DEFINE d == shown[h].diagnostics
<1>2. d = Reconciled[h]
  BY DEF shown
<1>3. AnswerInv(d)
  BY <1>2, ReconciledFacts
<1>4. d.at <= now /\ now - d.at <= Fresh
  BY <1>1 DEF FreshDiagnostics
<1>5. r \in Half /\ r \in DOMAIN lastActive /\ d.at <= lastActive[r]
  BY <1>1, <1>3, <1>4 DEF AnswerInv
<1>6. now - lastActive[r] <= Fresh
  <2>1. now \in Nat /\ lastActive[r] \in Nat /\ d.at \in Nat /\ Fresh \in Nat
    BY <1>3, <1>5, GraphAssumption DEF Inv, MemoryInv, AnswerInv
  <2> HIDE DEF d
  <2> QED
    BY <1>4, <1>5, <2>1
<1>7. RemoteNode(IF r.sending THEN r.source ELSE r.destination) \in nodes
  BY <1>1 DEF Matches
<1> QED
  BY <1>1, <1>5, <1>6, <1>7

LocalPart(model, options) ==
  IF options.local /\ options.host \in {Any, "local"} THEN model
  ELSE [nodes |-> {}, edges |-> {}]
HostsShown(options) == {h \in Hosts : options.remote /\ options.host \in {Any, h}}
HostedNodes(options) == UNION {HostGraph(h, options).nodes : h \in HostsShown(options)}
HostedEdges(options) == UNION {HostGraph(h, options).edges : h \in HostsShown(options)}
NodesShown(model, options) == LocalPart(model, options).nodes \cup HostedNodes(options)

LEMMA PartsOfGraph ==
  ASSUME NEW model, NEW options
  PROVE  /\ AddRemoteGraph(model, options).nodes = NodesShown(model, options)
         /\ AddRemoteGraph(model, options).edges =
              LocalPart(model, options).edges \cup HostedEdges(options)
              \cup VerifiedRoutes(NodesShown(model, options))
<1> DEFINE hosts == {h \in Hosts : options.remote /\ options.host \in {Any, h}}
           parts == {HostGraph(h, options) : h \in hosts}
           local == IF options.local /\ options.host \in {Any, "local"} THEN model
                    ELSE [nodes |-> {}, edges |-> {}]
           partNodes == UNION {p.nodes : p \in parts}
           partEdges == UNION {p.edges : p \in parts}
           nodes == local.nodes \cup partNodes
           edges == local.edges \cup partEdges \cup VerifiedRoutes(nodes)
<1>1. AddRemoteGraph(model, options) = [nodes |-> nodes, edges |-> edges]
  BY DEF AddRemoteGraph
<1>2. local = LocalPart(model, options) /\ hosts = HostsShown(options)
  BY DEF LocalPart, HostsShown
<1>3. partNodes = HostedNodes(options) /\ partEdges = HostedEdges(options)
  BY <1>2 DEF HostedNodes, HostedEdges
<1> HIDE DEF hosts, parts, local, partNodes, partEdges
<1>4. nodes = NodesShown(model, options)
  BY <1>2, <1>3 DEF NodesShown
<1> HIDE DEF nodes
<1>5. edges = LocalPart(model, options).edges \cup HostedEdges(options)
              \cup VerifiedRoutes(NodesShown(model, options))
  BY <1>2, <1>3, <1>4
<1> HIDE DEF edges
<1> QED
  BY <1>1, <1>4, <1>5

LEMMA RouteEdges ==
  ASSUME NEW elements, NEW endpoints, NEW options,
         NEW e \in AddRemoteGraph(BuildGraph(elements, endpoints, options), options).edges, e.route
  PROVE  \E nodes : e \in VerifiedRoutes(nodes)
<1>1. \A owner, endpoint, p : Owned(owner, endpoint, p).route = FALSE
  BY DEF Owned
<1>2. \A f \in LocalPart(BuildGraph(elements, endpoints, options), options).edges : f.route = FALSE
  BY <1>1 DEF BuildGraph, LocalPart
<1>3. \A h \in Hosts : \A f \in HostGraph(h, options).edges : f.route = FALSE
  BY <1>1 DEF HostGraph
<1>4. \A f \in HostedEdges(options) : f.route = FALSE
  BY <1>3 DEF HostsShown, HostedEdges
<1> QED
  BY <1>2, <1>4, PartsOfGraph

(***************************************************************************)
(* RouteWasActive for any hosts, endpoints and spans: evidence that counts *)
(* when the graph is drawn was given when the half was active, and the     *)
(* halves of a route differ in the direction only.                         *)
(***************************************************************************)
THEOREM RoutesWereActive == Spec => []RouteWasActive
<1>1. Inv => RouteWasActive
  <2> SUFFICES ASSUME Inv, NEW e \in Graph({}, Unfiltered).edges, e.route, NEW side \in BOOLEAN
               PROVE  \E r \in DOMAIN lastActive :
                        /\ r = [e.of EXCEPT !.sending = side]
                        /\ now - lastActive[r] <= Fresh
    BY DEF RouteWasActive
  <2>1. PICK nodes : e \in VerifiedRoutes(nodes)
    BY RouteEdges DEF Graph
  <2>2. PICK s \in Evidence(nodes), q \in Evidence(nodes) :
          e.of = s /\ s.sending /\ ~q.sending /\ Key(q) = Key(s)
    BY <2>1 DEF VerifiedRoutes
  <2>3. /\ s \in Half /\ s.active /\ s \in DOMAIN lastActive /\ now - lastActive[s] <= Fresh
        /\ q \in Half /\ q.active /\ q \in DOMAIN lastActive /\ now - lastActive[q] <= Fresh
    BY EvidenceFacts
  <2>4. s = [s EXCEPT !.sending = TRUE]
    BY <2>2, <2>3 DEF Half
  <2>5. q = [s EXCEPT !.sending = FALSE]
    <3>1. /\ q.source = s.source /\ q.destination = s.destination /\ q.id = s.id
          /\ q.sourceSession = s.sourceSession /\ q.destinationSession = s.destinationSession
      BY <2>2 DEF Key
    <3>2. q.sending = FALSE /\ q.active = TRUE /\ s.active = TRUE
      BY <2>2, <2>3 DEF Half
    <3> QED
      BY <2>3, <3>1, <3>2 DEF Half
  <2> QED
    BY <2>2, <2>3, <2>4, <2>5
<1> QED
  BY <1>1, Invariance, PTL

(***************************************************************************)
(* AbsentWasAbsent for any hosts and endpoints: only a complete answer     *)
(* makes the detail say that there is no route.                            *)
(***************************************************************************)
THEOREM AbsenceIsKnown == Spec => []AbsentWasAbsent
<1>1. Inv => AbsentWasAbsent
  <2> SUFFICES ASSUME Inv, NEW h \in Hosts, NEW e \in shown[h].endpoints,
                      Detail(h, e) = "No matching route"
               PROVE  ~ \E r \in shown[h].diagnostics.had : Matches(h, e, r)
    BY DEF AbsentWasAbsent
  <2> DEFINE d == shown[h].diagnostics
  <2>1. d.status = "VALID" /\ ~ \E r \in d.routes : Matches(h, e, r)
    BY DEF Detail
  <2>2. AnswerInv(d)
    BY ReconciledFacts DEF shown
  <2> QED
    BY <2>1, <2>2 DEF AnswerInv
<1> QED
  BY <1>1, Invariance, PTL

-----------------------------------------------------------------------------
(* The first component of a node says what it stands for, and local and    *)
(* remote nodes differ in it.                                              *)
RuntimesIn(elements, options) ==
  {e.runtime : e \in {f \in elements : options.group \in {Any, f.group}}}
DrawnOf(elements, endpoints, options) ==
  {p \in endpoints :
     /\ p.kind \in options.kinds /\ (Provides(p) \/ Uses(p))
     /\ options.group = Any \/ p.runtime \in RuntimesIn(elements, options)}

Usual(options) ==
  /\ options.kinds \subseteq {"T", "P", "S", "A"}
  /\ options.local \in BOOLEAN /\ options.remote \in BOOLEAN

IsLocal(n) == n[1] \in {"element", "T", "P", "S", "A"}
IsRemote(n) == n[1] \in {"remote-host", "remote-runtime", "remote-endpoint"}

LEMMA NodeFacts ==
  /\ \A r : ElementNode(r)[1] = "element" /\ ElementNode(r)[2] = r
  /\ \A p : EndpointNode(p)[1] = p.kind
  /\ \A e : RemoteNode(e)[1] = "remote-endpoint" /\ RemoteNode(e)[2] = e
  /\ \A h : <<"remote-host", h>>[1] = "remote-host"
  /\ \A r : <<"remote-runtime", r>>[1] = "remote-runtime"
<1>1. \A r : ElementNode(r)[1] = "element" /\ ElementNode(r)[2] = r
  BY DEF ElementNode
<1>2. \A p : EndpointNode(p)[1] = p.kind
  BY DEF EndpointNode
<1>3. \A e : RemoteNode(e)[1] = "remote-endpoint" /\ RemoteNode(e)[2] = e
  BY DEF RemoteNode
<1> QED
  BY <1>1, <1>2, <1>3

(* What is drawn of an owner and its endpoint lies between their nodes.    *)
LEMMA OwnedEnds ==
  ASSUME NEW owner, NEW endpoint, NEW p
  PROVE  LET e == Owned(owner, endpoint, p)
         IN e.from \in {owner, endpoint} /\ e.to \in {owner, endpoint}
            /\ (owner \in {e.from, e.to}) /\ (endpoint \in {e.from, e.to})
  BY DEF Owned

LEMMA ListsDrawn ==
  ASSUME NEW elements, NEW endpoints, NEW options
  PROVE  LET graph == BuildGraph(elements, endpoints, options)
             runtimes == RuntimesIn(elements, options)
             drawn == DrawnOf(elements, endpoints, options)
         IN /\ graph.nodes = {ElementNode(r) : r \in runtimes} \cup {EndpointNode(p) : p \in drawn}
            /\ graph.edges = {Owned(ElementNode(p.runtime), EndpointNode(p), p) :
                                p \in {q \in drawn : q.runtime \in runtimes}}
  BY DEF BuildGraph, RuntimesIn, DrawnOf

LEMMA LocalHides ==
  ASSUME NEW elements, NEW endpoints, NEW options, Usual(options)
  PROVE  LET whole == BuildGraph(elements, endpoints, Unfiltered)
             part == BuildGraph(elements, endpoints, options)
         IN /\ part.nodes \subseteq whole.nodes
            /\ \A n \in whole.nodes : IsLocal(n)
            /\ \A e \in whole.edges : e.from \in whole.nodes /\ e.to \in whole.nodes
            /\ \A e \in part.edges : e \in whole.edges /\ e.from \in part.nodes /\ e.to \in part.nodes
            /\ \A e \in whole.edges : e.from \in part.nodes /\ e.to \in part.nodes => e \in part.edges
<1> DEFINE whole == BuildGraph(elements, endpoints, Unfiltered)
           part == BuildGraph(elements, endpoints, options)
           all == RuntimesIn(elements, Unfiltered)
           some == RuntimesIn(elements, options)
           every == DrawnOf(elements, endpoints, Unfiltered)
           drawn == DrawnOf(elements, endpoints, options)
<1>1. some \subseteq all
  BY DEF RuntimesIn, Unfiltered
<1>2. drawn \subseteq every /\ \A p \in every : p.kind \in {"T", "P", "S", "A"}
  BY DEF DrawnOf, Unfiltered, Usual
<1>3. \A p \in every : p.kind \in options.kinds /\ p.runtime \in some => p \in drawn
  BY DEF DrawnOf
<1>4. \A p \in drawn : p.kind \in options.kinds
  BY DEF DrawnOf
<1>5. /\ whole.nodes = {ElementNode(r) : r \in all} \cup {EndpointNode(p) : p \in every}
      /\ whole.edges = {Owned(ElementNode(p.runtime), EndpointNode(p), p) :
                          p \in {q \in every : q.runtime \in all}}
      /\ part.nodes = {ElementNode(r) : r \in some} \cup {EndpointNode(p) : p \in drawn}
      /\ part.edges = {Owned(ElementNode(p.runtime), EndpointNode(p), p) :
                         p \in {q \in drawn : q.runtime \in some}}
  BY ListsDrawn
<1> HIDE DEF whole, part, all, some, every, drawn
<1>6. part.nodes \subseteq whole.nodes
  BY <1>1, <1>2, <1>5
<1>7. \A n \in whole.nodes : IsLocal(n)
  BY <1>2, <1>5, NodeFacts DEF IsLocal
<1>8. \A e \in whole.edges : e.from \in whole.nodes /\ e.to \in whole.nodes
  BY <1>5, OwnedEnds
<1>9. \A e \in part.edges : e \in whole.edges /\ e.from \in part.nodes /\ e.to \in part.nodes
  BY <1>1, <1>2, <1>5, OwnedEnds
<1>10. ASSUME NEW e \in whole.edges, e.from \in part.nodes, e.to \in part.nodes
       PROVE  e \in part.edges
  <2>1. PICK p \in every : e = Owned(ElementNode(p.runtime), EndpointNode(p), p)
    BY <1>5
  <2>2. ElementNode(p.runtime) \in part.nodes /\ EndpointNode(p) \in part.nodes
    BY <1>10, <2>1, OwnedEnds
  <2>3. p.runtime \in some
    <3>1. \A q \in drawn : EndpointNode(q) # ElementNode(p.runtime)
      BY <1>2, NodeFacts
    <3>2. PICK r \in some : ElementNode(r) = ElementNode(p.runtime)
      BY <1>5, <2>2, <3>1
    <3> QED
      BY <3>2, NodeFacts
  <2>4. p.kind \in options.kinds
    <3>1. \A r \in some : ElementNode(r) # EndpointNode(p)
      BY <1>2, NodeFacts
    <3>2. PICK q \in drawn : EndpointNode(q) = EndpointNode(p)
      BY <1>5, <2>2, <3>1
    <3> QED
      BY <1>4, <3>2, NodeFacts
  <2> QED
    BY <1>3, <1>5, <2>1, <2>3, <2>4
<1> QED
  BY <1>6, <1>7, <1>8, <1>9, <1>10 DEF whole, part

(* A remote endpoint is drawn with its edge, whatever else is.             *)
RemoteOwned(e) == Owned(<<"remote-runtime", Runtime[e]>>, RemoteNode(e), [role |-> Role[e]])
ShownOf(h, options) == {e \in shown[h].endpoints : options.group \in {Any, App[e]}}

LEMMA HostFacts ==
  ASSUME NEW h, NEW options
  PROVE  LET graph == HostGraph(h, options)
         IN /\ graph.nodes =
                 {<<"remote-host", h>> : g \in {f \in {h} : options.group = Any \/ ShownOf(h, options) # {}}}
                 \cup {<<"remote-runtime", Runtime[e]>> : e \in ShownOf(h, options)}
                 \cup {RemoteNode(e) : e \in {f \in ShownOf(h, options) : "T" \in options.kinds}}
            /\ graph.edges =
                 {RemoteOwned(e) : e \in {f \in ShownOf(h, options) : "T" \in options.kinds}}
  BY DEF HostGraph, ShownOf, RemoteOwned

LEMMA HostedHide ==
  ASSUME NEW options, Usual(options)
  PROVE  /\ HostedNodes(options) \subseteq HostedNodes(Unfiltered)
         /\ \A n \in HostedNodes(Unfiltered) : IsRemote(n)
         /\ \A e \in HostedEdges(Unfiltered) :
              e.from \in HostedNodes(Unfiltered) /\ e.to \in HostedNodes(Unfiltered)
         /\ \A e \in HostedEdges(options) :
              /\ e \in HostedEdges(Unfiltered)
              /\ e.from \in HostedNodes(options) /\ e.to \in HostedNodes(options)
         /\ \A e \in HostedEdges(Unfiltered) :
              e.from \in HostedNodes(options) /\ e.to \in HostedNodes(options) =>
                e \in HostedEdges(options)
<1>1. HostsShown(options) \subseteq Hosts /\ HostsShown(Unfiltered) = Hosts
  BY DEF HostsShown, Unfiltered
<1>2. \A h : ShownOf(h, options) \subseteq ShownOf(h, Unfiltered)
  BY DEF ShownOf, Unfiltered
<1>3. "T" \in Unfiltered.kinds /\ Unfiltered.group = Any
  BY DEF Unfiltered
<1>4. HostedNodes(options) \subseteq HostedNodes(Unfiltered)
  <2>1. ASSUME NEW h \in HostsShown(options)
        PROVE  HostGraph(h, options).nodes \subseteq HostGraph(h, Unfiltered).nodes
    BY <1>2, <1>3, HostFacts
  <2> QED
    BY <1>1, <2>1 DEF HostedNodes
<1>5. \A n \in HostedNodes(Unfiltered) : IsRemote(n)
  <2>1. ASSUME NEW h \in Hosts, NEW n \in HostGraph(h, Unfiltered).nodes PROVE IsRemote(n)
    BY HostFacts, NodeFacts DEF IsRemote
  <2> QED
    BY <1>1, <2>1 DEF HostedNodes
<1>6. \A anything : \A e \in HostedEdges(anything) :
        /\ e.from \in HostedNodes(anything) /\ e.to \in HostedNodes(anything)
        /\ \E h \in HostsShown(anything) : \E x \in ShownOf(h, anything) :
             "T" \in anything.kinds /\ e = RemoteOwned(x)
  <2> SUFFICES ASSUME NEW anything, NEW e \in HostedEdges(anything)
               PROVE  /\ e.from \in HostedNodes(anything) /\ e.to \in HostedNodes(anything)
                      /\ \E h \in HostsShown(anything) : \E x \in ShownOf(h, anything) :
                           "T" \in anything.kinds /\ e = RemoteOwned(x)
    OBVIOUS
  <2>1. PICK h \in HostsShown(anything) : e \in HostGraph(h, anything).edges
    BY DEF HostedEdges
  <2>2. PICK x \in ShownOf(h, anything) : "T" \in anything.kinds /\ e = RemoteOwned(x)
    BY <2>1, HostFacts
  <2>3. /\ <<"remote-runtime", Runtime[x]>> \in HostGraph(h, anything).nodes
        /\ RemoteNode(x) \in HostGraph(h, anything).nodes
    BY <2>2, HostFacts
  <2>4. e.from \in HostGraph(h, anything).nodes /\ e.to \in HostGraph(h, anything).nodes
    BY <2>2, <2>3, OwnedEnds DEF RemoteOwned
  <2> QED
    BY <2>1, <2>2, <2>4 DEF HostedNodes
<1>7. ASSUME NEW anything, NEW h \in HostsShown(anything), NEW x \in ShownOf(h, anything),
             "T" \in anything.kinds
      PROVE  RemoteOwned(x) \in HostedEdges(anything)
  <2>1. RemoteOwned(x) \in HostGraph(h, anything).edges
    BY <1>7, HostFacts
  <2> QED
    BY <2>1 DEF HostedEdges
<1>8. ASSUME NEW e \in HostedEdges(options) PROVE e \in HostedEdges(Unfiltered)
  BY <1>1, <1>2, <1>3, <1>6, <1>7
<1>9. ASSUME NEW e \in HostedEdges(Unfiltered),
             e.from \in HostedNodes(options), e.to \in HostedNodes(options)
      PROVE  e \in HostedEdges(options)
  <2>1. PICK x : e = RemoteOwned(x)
    BY <1>6
  <2>2. RemoteNode(x) \in HostedNodes(options)
    BY <1>9, <2>1, OwnedEnds DEF RemoteOwned
  <2>3. PICK h \in HostsShown(options) : RemoteNode(x) \in HostGraph(h, options).nodes
    BY <2>2 DEF HostedNodes
  <2>4. PICK y \in ShownOf(h, options) : "T" \in options.kinds /\ RemoteNode(y) = RemoteNode(x)
    <3>1. RemoteNode(x) # <<"remote-host", h>>
      BY NodeFacts
    <3>2. \A y : RemoteNode(x) # <<"remote-runtime", Runtime[y]>>
      BY NodeFacts
    <3> QED
      BY <2>3, <3>1, <3>2, HostFacts
  <2>5. x = y
    BY <2>4, NodeFacts
  <2> QED
    BY <1>7, <2>1, <2>4, <2>5
<1> QED
  BY <1>4, <1>5, <1>6, <1>8, <1>9

(* A route needs evidence about both ends, and each about a node shown.    *)
LEMMA RoutesHide ==
  ASSUME NEW whole, NEW part, part \subseteq whole
  PROVE  /\ \A e \in VerifiedRoutes(part) :
              e \in VerifiedRoutes(whole) /\ e.from \in part /\ e.to \in part
         /\ \A e \in VerifiedRoutes(whole) :
              e.from \in part /\ e.to \in part => e \in VerifiedRoutes(part)
<1> DEFINE End(r) == IF r.sending THEN r.source ELSE r.destination
           Edge(r) == [from |-> RemoteNode(r.source), to |-> RemoteNode(r.destination),
                       of |-> r, route |-> TRUE]
<1>1. \A nodes : \A r : r \in Evidence(nodes) <=>
        \E h \in Hosts : /\ FreshDiagnostics(h) /\ r \in shown[h].diagnostics.routes /\ r.active
                         /\ \E e \in shown[h].endpoints : Matches(h, e, r) /\ RemoteNode(e) \in nodes
  BY DEF Evidence
<1>2. \A r \in Evidence(part) : r \in Evidence(whole) /\ RemoteNode(End(r)) \in part
  BY <1>1 DEF Matches
<1>3. \A r \in Evidence(whole) : RemoteNode(End(r)) \in part => r \in Evidence(part)
  BY <1>1 DEF Matches
<1>4. \A nodes : \A e : e \in VerifiedRoutes(nodes) <=>
        \E s \in Evidence(nodes) : /\ s.sending /\ e = Edge(s)
                                   /\ \E q \in Evidence(nodes) : ~q.sending /\ Key(q) = Key(s)
  BY DEF VerifiedRoutes
<1>5. \A q, s : Key(q) = Key(s) => q.destination = s.destination
  BY DEF Key
<1>6. ASSUME NEW e \in VerifiedRoutes(part)
      PROVE  e \in VerifiedRoutes(whole) /\ e.from \in part /\ e.to \in part
  <2>1. PICK s \in Evidence(part), q \in Evidence(part) :
          s.sending /\ e = Edge(s) /\ ~q.sending /\ Key(q) = Key(s)
    BY <1>4
  <2>2. s \in Evidence(whole) /\ q \in Evidence(whole)
    BY <1>2
  <2>3. RemoteNode(s.source) \in part /\ RemoteNode(s.destination) \in part
    BY <1>2, <1>5, <2>1
  <2> QED
    BY <1>4, <2>1, <2>2, <2>3
<1>7. ASSUME NEW e \in VerifiedRoutes(whole), e.from \in part, e.to \in part
      PROVE  e \in VerifiedRoutes(part)
  <2>1. PICK s \in Evidence(whole), q \in Evidence(whole) :
          s.sending /\ e = Edge(s) /\ ~q.sending /\ Key(q) = Key(s)
    BY <1>4
  <2>2. RemoteNode(End(s)) \in part /\ RemoteNode(End(q)) \in part
    BY <1>5, <1>7, <2>1
  <2>3. s \in Evidence(part) /\ q \in Evidence(part)
    BY <1>3, <2>2
  <2> QED
    BY <1>4, <2>1, <2>3
<1> QED
  BY <1>6, <1>7

(***************************************************************************)
(* FiltersOnlyHide for any listings, filters, hosts and snapshots: local   *)
(* and remote nodes are told apart, and in each part an edge is drawn if   *)
(* and only if its two nodes are.                                          *)
(***************************************************************************)
THEOREM FiltersHide == Spec => []FiltersOnlyHide
<1>1. FiltersOnlyHide
  <2> SUFFICES ASSUME NEW elements \in SUBSET LocalElements, NEW options \in Filters
               PROVE  LET whole == Graph(elements, Unfiltered)
                          part == Graph(elements, options)
                      IN /\ part.nodes \subseteq whole.nodes
                         /\ part.edges = {e \in whole.edges : e.from \in part.nodes /\ e.to \in part.nodes}
    BY DEF FiltersOnlyHide
  <2> DEFINE all == BuildGraph(elements, LocalEndpoints, Unfiltered)
             some == BuildGraph(elements, LocalEndpoints, options)
             whole == Graph(elements, Unfiltered)
             part == Graph(elements, options)
             local == LocalPart(some, options)
  <2>1. Usual(options)
    BY GraphAssumption DEF Usual
  <2>2. /\ part.nodes = local.nodes \cup HostedNodes(options)
        /\ part.edges = local.edges \cup HostedEdges(options) \cup VerifiedRoutes(part.nodes)
        /\ whole.nodes = all.nodes \cup HostedNodes(Unfiltered)
        /\ whole.edges = all.edges \cup HostedEdges(Unfiltered) \cup VerifiedRoutes(whole.nodes)
    <3>1. LocalPart(all, Unfiltered) = all
      BY DEF LocalPart, Unfiltered
    <3> HIDE DEF all, some
    <3>2. /\ part = AddRemoteGraph(some, options)
          /\ whole = AddRemoteGraph(all, Unfiltered)
      BY DEF Graph, all, some
    <3> QED
      BY <3>1, <3>2, PartsOfGraph DEF NodesShown
  <2>3. local = some \/ local = [nodes |-> {}, edges |-> {}]
    BY DEF LocalPart
  <2>4. /\ some.nodes \subseteq all.nodes /\ \A n \in all.nodes : IsLocal(n)
        /\ \A e \in all.edges : e.from \in all.nodes /\ e.to \in all.nodes
        /\ \A e \in some.edges : e \in all.edges /\ e.from \in some.nodes /\ e.to \in some.nodes
        /\ \A e \in all.edges : e.from \in some.nodes /\ e.to \in some.nodes => e \in some.edges
    BY <2>1, LocalHides
  <2> HIDE DEF all, some, local, whole, part
  <2>5. /\ local.nodes \subseteq all.nodes
        /\ \A e \in local.edges : e \in all.edges /\ e.from \in local.nodes /\ e.to \in local.nodes
        /\ \A e \in all.edges : e.from \in local.nodes /\ e.to \in local.nodes => e \in local.edges
    <3>1. CASE local = some
      BY <2>4, <3>1
    <3>2. CASE local = [nodes |-> {}, edges |-> {}]
      <4>1. local.nodes = {} /\ local.edges = {}
        BY <3>2
      <4> QED
        BY <4>1
    <3> QED
      BY <2>3, <3>1, <3>2
  <2>6. part.nodes \subseteq whole.nodes
    BY <2>1, <2>2, <2>5, HostedHide
  <2>7. ASSUME NEW e \in part.edges
        PROVE  e \in whole.edges /\ e.from \in part.nodes /\ e.to \in part.nodes
    BY <2>1, <2>2, <2>5, <2>6, HostedHide, RoutesHide
  <2>8. \A n : ~(IsLocal(n) /\ IsRemote(n))
    BY DEF IsLocal, IsRemote
  <2>9. ASSUME NEW e \in whole.edges, e.from \in part.nodes, e.to \in part.nodes
        PROVE  e \in part.edges
    <3>1. CASE e \in all.edges
      <4>1. IsLocal(e.from) /\ IsLocal(e.to)
        BY <2>4, <3>1
      <4>2. e.from \in local.nodes /\ e.to \in local.nodes
        BY <2>1, <2>2, <2>8, <2>9, <4>1, HostedHide
      <4> QED
        BY <2>2, <2>5, <3>1, <4>2
    <3>2. CASE e \in HostedEdges(Unfiltered)
      <4>1. IsRemote(e.from) /\ IsRemote(e.to)
        BY <2>1, <3>2, HostedHide
      <4>2. e.from \in HostedNodes(options) /\ e.to \in HostedNodes(options)
        BY <2>2, <2>4, <2>5, <2>8, <2>9, <4>1
      <4> QED
        BY <2>1, <2>2, <3>2, <4>2, HostedHide
    <3>3. CASE e \in VerifiedRoutes(whole.nodes)
      BY <2>2, <2>6, <2>9, <3>3, RoutesHide
    <3> QED
      BY <2>2, <3>1, <3>2, <3>3
  <2>10. part.edges = {e \in whole.edges : e.from \in part.nodes /\ e.to \in part.nodes}
    BY <2>7, <2>9
  <2> QED
    BY <2>6, <2>10 DEF whole, part
<1> QED
  BY <1>1, PTL

=============================================================================
