----------------------------- MODULE RateTracker -----------------------------
(***************************************************************************)
(* The three places where the tool turns counters into rates:              *)
(*   "route"  NetworkRateTracker (src/backend/network_rates.hpp), for each *)
(*            route that successive diagnostics queries list               *)
(*   "topic"  a remote subscription (src/ui/remote_workspace.cpp)          *)
(*   "echo"   the topic echo (src/ui/main_window.cpp)                      *)
(* Each keeps samples of one source: a route's whole key, a subscription,  *)
(* an echo session.  Sources do not interact, so there is one here.  Its   *)
(* counters grow and may start again from zero; what names it (the route   *)
(* id) may stay the same or not.                                           *)
(***************************************************************************)
EXTENDS Naturals, SequencesExt

CONSTANTS
  Counters,  \* Counters[m]: what meter m counts, nine for a route
  Window,    \* the shortest interval measured, 500 ms in the code
  Horizon,   \* the longest an echo looks back, 1 s in the code
  Depth,     \* the most samples an echo keeps, 16 in the code
  Width,     \* counters are unsigned with Width bits, 64 in the code
  MaxCount,  \* bound on a counter
  MaxTotal,  \* bound on its growth over all its restarts
  MaxTime    \* bound on the clock

Meters == {"route", "topic", "echo"}

ASSUME RateAssumption ==
  /\ Window \in Nat \ {0} /\ Horizon \in Nat /\ Depth \in Nat \ {0}
  /\ 2^Width \in Nat /\ MaxCount \in Nat /\ MaxCount < 2^Width
  /\ MaxTotal \in Nat /\ MaxTime \in Nat

VARIABLES
  meter,     \* which of them this is
  now,       \* the steady clock
  counter,   \* external: the counters of the source
  name,      \* external: its route id
  history,   \* the samples kept, the oldest first
  rate,      \* what was last made of them, see Rate
  total,     \* ghost: how far each counter really grew
  restarts,  \* ghost: how often the counters started again
  gap        \* ghost: when the source last went unobserved

vars == <<meter, now, counter, name, history, rate, total, restarts, gap>>

Zero == [c \in Counters[meter] |-> 0]
Sample == [at |-> now, name |-> name, count |-> counter, total |-> total, restarts |-> restarts]

\* status, the deltas of a VALID rate, and what the ghosts say of them.
Rate(status, delta, truth, whole) ==
  [status |-> status, delta |-> delta, truth |-> truth, whole |-> whole]
Invalid   == Rate("INVALID", Zero, Zero, TRUE)
Measuring == Rate("MEASURING", Zero, Zero, TRUE)

\* Unsigned subtraction.
Difference(a, b) == (a + 2^Width - b) % 2^Width

Since(base) ==
  Rate("VALID", [c \in Counters[meter] |-> Difference(counter[c], base.count[c])],
       [c \in Counters[meter] |-> total[c] - base.total[c]], restarts = base.restarts)

Init ==
  /\ meter \in Meters
  /\ now = 1 /\ counter = Zero /\ name = 0
  /\ history = <<>> /\ rate = Invalid
  /\ total = Zero /\ restarts = 0 /\ gap = 0

-----------------------------------------------------------------------------
\* A sample can follow another when no counter is below what it was.
FollowsAnyway(sample) == TRUE

Follows(sample) == \A c \in Counters[meter] : counter[c] >= sample.count[c]

\* Observe of a route that is listed as ACTIVE: its baseline and the latest
\* sample.  A measurement under way is continued, otherwise one begins.
Comparable ==
  history # <<>> /\ history[1].name = name /\ now > history[2].at /\ Follows(history[2])
Complete == Comparable /\ now - history[1].at >= Window

\* A variant that moves the baseline with every observation.
AdvancedFromLatest ==
  IF Comparable /\ ~Complete THEN <<[history[1] EXCEPT !.count = counter], Sample>> ELSE <<Sample, Sample>>

Advanced == IF Comparable /\ ~Complete THEN <<history[1], Sample>> ELSE <<Sample, Sample>>

ObserveRoute ==
  /\ rate' = IF Complete THEN Since(history[1]) ELSE Measuring
  /\ history' = Advanced

\* A poll of a subscription that is ACTIVE: one sample, and the last rate
\* stays on display until there is another.
Base ==
  IF history = <<>> \/ history[1].name # name \/ ~Follows(history[1]) THEN Sample ELSE history[1]

ObserveTopic ==
  IF now - Base.at >= Window
  THEN rate' = Since(Base) /\ history' = <<Sample>>
  ELSE /\ rate' = IF history = <<Base>> THEN rate ELSE Measuring
       /\ history' = <<Base>>

\* A sample read by the echo: the oldest go while they are too many or too old.
Extended ==
  Append(IF history # <<>> /\ ~Follows(Last(history)) THEN <<>> ELSE history, Sample)

Stays(i) == Len(Extended) - i < Depth /\ now - Extended[i].at <= Horizon

Oldest == CHOOSE i \in DOMAIN Extended :
            Stays(i) /\ \A j \in DOMAIN Extended : Stays(j) => i <= j

Recent == SubSeq(Extended, Oldest, Len(Extended))

ObserveEcho ==
  /\ history' = Recent
  /\ rate' = IF Len(Recent) >= 2 /\ now - Head(Recent).at >= Window THEN Since(Head(Recent))
             ELSE Measuring

Observe ==
  /\ CASE meter = "route" -> ObserveRoute
       [] meter = "topic" -> ObserveTopic
       [] meter = "echo"  -> ObserveEcho
  /\ UNCHANGED <<meter, now, counter, name, total, restarts, gap>>

\* A variant that keeps the history of what was not observed.
MissKeeping ==
  /\ rate' = Invalid
  /\ gap' = now
  /\ UNCHANGED <<meter, now, counter, name, history, total, restarts>>

\* The query failed, or did not list the route as ACTIVE (omitted, truncated,
\* waiting, closed); the subscription is not ACTIVE; the echo is stopped.
Miss ==
  /\ history' = <<>> /\ rate' = Invalid
  /\ gap' = now
  /\ UNCHANGED <<meter, now, counter, name, total, restarts>>

\* External: traffic, a restart of the counters, and time.
Count(c) ==
  /\ counter[c] < MaxCount /\ total[c] < MaxTotal
  /\ counter' = [counter EXCEPT ![c] = @ + 1]
  /\ total' = [total EXCEPT ![c] = @ + 1]
  /\ UNCHANGED <<meter, now, name, history, rate, restarts, gap>>

Restart ==
  /\ counter # Zero
  /\ counter' = Zero /\ restarts' = restarts + 1
  /\ name' \in {name, 1 - name}
  /\ UNCHANGED <<meter, now, history, rate, total, gap>>

ClockTick ==
  /\ now < MaxTime
  /\ now' = now + 1
  /\ UNCHANGED <<meter, counter, name, history, rate, total, restarts, gap>>

Next ==
  \/ Observe \/ Miss
  \/ Restart \/ ClockTick
  \/ \E c \in Counters[meter] : Count(c)

Spec == Init /\ [][Next]_vars

-----------------------------------------------------------------------------
(***************************************************************************)
(* A rate never counts more than really happened in its interval, whether  *)
(* or not a counter started again in it: a counter that went back is seen, *)
(* or has been overtaken.                                                  *)
(***************************************************************************)
NeverOverstated ==
  rate.status = "VALID" => \A c \in Counters[meter] : rate.delta[c] <= rate.truth[c]

(***************************************************************************)
(* "Missing routes ... break continuity" (network_rates.hpp:52), and so    *)
(* does a subscription that is not ACTIVE or an echo that was stopped:     *)
(* what is measured began no earlier than the last of those.               *)
(***************************************************************************)
NoMeasurementAcrossGap == \A i \in DOMAIN history : history[i].at >= gap

(***************************************************************************)
(* Unless the counters started again, a rate counts everything that        *)
(* happened in its interval, over however many observations it was         *)
(* measured.                                                               *)
(***************************************************************************)
ExactWithoutRestart ==
  rate.status = "VALID" /\ rate.whole => rate.delta = rate.truth

=============================================================================
