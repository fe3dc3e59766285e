-------------------------- MODULE MCRemoteWorkspace --------------------------
(* Instances of the workspace: the pages that matter to the question asked,  *)
(* and the endpoints they can list.                                          *)
EXTENDS RemoteWorkspace

CONSTANTS e1, e2, h1, none, local, noQuestion

MCHandlePages    == {"topic", "action"}
MCParameterPages == {"parameter"}

\* A topic and an action; or two parameters.
MCTwo == {e1, e2}
MCTwoPlace == [e \in Endpoints |-> IF e = e1 THEN 1 ELSE 2]
MCHandleKind == [e \in Endpoints |-> IF e = e1 THEN "topic" ELSE "action"]
MCParameterKind == [e \in Endpoints |-> "parameter"]

MCHosts == {h1}
MCHostOf == [e \in Endpoints |-> h1]

=============================================================================
