------------------------ MODULE MCDiagnosticsWorker ------------------------
(* Two hosts, numbered in the order of their keys. *)
EXTENDS DiagnosticsWorker

MCTwo == {1, 2}

=============================================================================
