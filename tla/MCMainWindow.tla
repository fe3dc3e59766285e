---------------------------- MODULE MCMainWindow ----------------------------
(* The echo with the service page, and the parameter page by itself. *)
EXTENDS MainWindow

CONSTANTS sensor, gain, other, reset

MCEchoNames == {sensor, reset}
MCEchoKind == [n \in MCEchoNames |-> IF n = sensor THEN "topic" ELSE "service"]
MCNoFields == {}

MCParameterNames == {gain, other}
MCParameterKind == [n \in MCParameterNames |-> "parameter"]
MCFields == {1, 2}

=============================================================================
