--------------------------- MODULE MCLocalGateway ---------------------------
(* A Gateway that restarts or rebinds up to three times in four cycles. *)
EXTENDS LocalGateway

MCStates == {"RUNNING", "REBINDING"}

=============================================================================
