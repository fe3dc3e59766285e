---------------------------- MODULE MCRemoteGraph ----------------------------
(* A publisher on one host and a subscriber on the other; one local element *)
(* with a topic and a server, that may or may not have been listed.         *)
EXTENDS RemoteGraph

CONSTANTS a, b, pub, sub

MCHosts == {a, b}
MCEndpoints == {pub, sub}
MCHost == [e \in MCEndpoints |-> IF e = sub THEN b ELSE a]
MCApp == [e \in MCEndpoints |-> IF e = sub THEN "listeners" ELSE "talkers"]
MCRole == [e \in MCEndpoints |-> IF e = sub THEN "SUBSCRIBER" ELSE "PUBLISHER"]
MCRuntime == [e \in MCEndpoints |-> e]

MCLocalElements == {[runtime |-> "r1", group |-> "app"]}
MCLocalEndpoints ==
  {[kind |-> "T", name |-> "chatter", runtime |-> "r1", registration |-> 1, role |-> "PUBLISHER"],
   [kind |-> "S", name |-> "reset", runtime |-> "r1", registration |-> 2, role |-> "SERVER"]}

MCFilters ==
  {[Unfiltered EXCEPT !.host = "local"], [Unfiltered EXCEPT !.host = a],
   [Unfiltered EXCEPT !.group = "talkers"], [Unfiltered EXCEPT !.group = "app"],
   [Unfiltered EXCEPT !.kinds = {"P", "S"}], [Unfiltered EXCEPT !.kinds = {"T"}, !.local = FALSE],
   [Unfiltered EXCEPT !.remote = FALSE]}

=============================================================================
