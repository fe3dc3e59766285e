---------------------------- MODULE MCRateTracker ----------------------------
(* Two counters of a route, for one that went back spoils the other; one of  *)
(* a topic or an echo, whose samples are few enough for old ones to go.      *)
EXTENDS RateTracker

MCCounters == [m \in Meters |-> IF m = "route" THEN {"packets", "dropped"} ELSE {"packets"}]

=============================================================================
