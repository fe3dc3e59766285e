-------------------------- MODULE MCNetworkObserver --------------------------
(* Two commands, one of them only for explicit control clients. *)
EXTENDS NetworkObserver

CONSTANTS poll, goal

MCRequests == {poll, goal}
MCPrivileged == {goal}
MCStoppers == {"destructor", "run", "release"}

=============================================================================
