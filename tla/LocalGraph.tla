------------------------------ MODULE LocalGraph ------------------------------
(***************************************************************************)
(* BuildGraph (src/src/ui/graph_model.cpp): the graph of the local         *)
(* elements and endpoints that Refresh has listed.  The lists are not      *)
(* read at one moment: an endpoint may be listed whose runtime is not.     *)
(* Labels and the order of nodes and edges are left out, so lists are sets *)
(* and a registration listed twice is one.                                 *)
(***************************************************************************)

\* A filter that is not set: options.group or options.host is empty.  The
\* options are a record of kinds, group, host, local and remote.
Any == "any"

Provides(p) == p.role \in {"PUBLISHER", "OWNER", "SERVER"}
Uses(p) == p.role \in {"SUBSCRIBER", "CLIENT"}

ElementNode(runtime) == <<"element", runtime>>

\* Topics and parameters are channels, known by their names; a server is one
\* registration.
EndpointNode(p) ==
  IF p.kind = "S" THEN <<p.kind, p.name, p.runtime, p.registration>> ELSE <<p.kind, p.name>>

Owned(owner, endpoint, p) ==
  [from |-> IF Provides(p) THEN owner ELSE endpoint,
   to   |-> IF Provides(p) THEN endpoint ELSE owner,
   of   |-> p, route |-> FALSE]

\* A variant that draws an edge for every endpoint.
BuildWithoutOwners(elements, endpoints, options) ==
  LET runtimes == {e.runtime : e \in {f \in elements : options.group \in {Any, f.group}}}
      drawn == {p \in endpoints :
                  /\ p.kind \in options.kinds /\ (Provides(p) \/ Uses(p))
                  /\ options.group = Any \/ p.runtime \in runtimes}
  IN [nodes |-> {ElementNode(r) : r \in runtimes} \cup {EndpointNode(p) : p \in drawn},
      edges |-> {Owned(ElementNode(p.runtime), EndpointNode(p), p) : p \in drawn}]

\* Under a group filter an endpoint needs its owner; without one it is drawn
\* alone.  Relations go by the runtime's identity, never by a name.
BuildGraph(elements, endpoints, options) ==
  LET runtimes == {e.runtime : e \in {f \in elements : options.group \in {Any, f.group}}}
      drawn == {p \in endpoints :
                  /\ p.kind \in options.kinds /\ (Provides(p) \/ Uses(p))
                  /\ options.group = Any \/ p.runtime \in runtimes}
  IN [nodes |-> {ElementNode(r) : r \in runtimes} \cup {EndpointNode(p) : p \in drawn},
      edges |-> {Owned(ElementNode(p.runtime), EndpointNode(p), p) :
                   p \in {q \in drawn : q.runtime \in runtimes}}]

=============================================================================
