-------------------------- MODULE MCRemoteExecutor --------------------------
(* Four commands and two stopping threads on a queue of two. *)
EXTENDS RemoteExecutor

CONSTANTS c1, c2, c3, c4, destructor, run

MCRequests == {c1, c2, c3, c4}
MCStoppers == {destructor, run}

=============================================================================
