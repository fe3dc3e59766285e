------------------------------ MODULE RateProofs ------------------------------
(***************************************************************************)
(* Proofs about RateTracker for any counters, any window, horizon, depth   *)
(* and width, and for each of the three meters.                            *)
(***************************************************************************)
EXTENDS RateTracker, SequenceTheorems, WellFoundedInduction, TLAPS

Counts  == [Counters[meter] -> Nat]
Samples == [at : Nat, name : Nat, count : Counts, total : Counts, restarts : Nat]

Typed ==
  /\ meter \in Meters
  /\ now \in Nat /\ name \in {0, 1} /\ restarts \in Nat /\ gap \in Nat /\ gap <= now
  /\ counter \in Counts /\ total \in Counts
  /\ \A c \in Counters[meter] : counter[c] <= MaxCount
  /\ meter = "route" => Len(history) \in {0, 2}

(* What a kept sample tells of the present: a counter has advanced by no   *)
(* more than what really happened since, and by just that when it has not  *)
(* started again.                                                          *)
Sound(s) ==
  /\ gap <= s.at /\ s.at <= now
  /\ s.restarts <= restarts
  /\ \A c \in Counters[meter] :
       /\ s.total[c] <= total[c]
       /\ counter[c] + s.total[c] <= total[c] + s.count[c]
       /\ s.restarts = restarts => counter[c] + s.total[c] = total[c] + s.count[c]

(* Within a history no counter goes back: the latest sample a new one can  *)
(* follow stands for all of them.                                          *)
Good(h) ==
  /\ h \in Seq(Samples)
  /\ \A i \in DOMAIN h : Sound(h[i])
  /\ \A i, j \in DOMAIN h :
       i <= j => \A c \in Counters[meter] : h[i].count[c] <= h[j].count[c]

IInv == Typed /\ Good(history) /\ NeverOverstated /\ ExactWithoutRestart

-----------------------------------------------------------------------------
LEMMA Modulo ==
  ASSUME NEW m \in Nat, NEW x \in Nat, x < m PROVE (x + m) % m = x
  OBVIOUS

(* The unsigned difference is the difference when the counter has grown.   *)
LEMMA DifferenceExact ==
  ASSUME NEW a \in Nat, NEW b \in Nat, a <= MaxCount, b <= a
  PROVE  Difference(a, b) = a - b
<1> DEFINE m == 2^Width
           rise == a + m - b
<1>1. m \in Nat /\ MaxCount \in Nat /\ MaxCount < m
  BY RateAssumption
<1>2. Difference(a, b) = rise % m
  BY DEF Difference
<1> HIDE DEF m
<1>3. a - b \in Nat /\ a - b < m /\ rise = (a - b) + m
  BY <1>1
<1> HIDE DEF rise
<1>4. rise % m = a - b
  BY <1>1, <1>3, Modulo
<1> QED
  BY <1>2, <1>4

(* What is measured since a sample that the counters have not fallen       *)
(* below.                                                                  *)
LEMMA SinceSound ==
  ASSUME IInv, NEW s \in Samples, Sound(s), Follows(s)
  PROVE  /\ \A c \in Counters[meter] : Since(s).delta[c] <= Since(s).truth[c]
         /\ Since(s).whole => Since(s).delta = Since(s).truth
<1>1. ASSUME NEW c \in Counters[meter]
      PROVE  /\ Since(s).delta[c] = counter[c] - s.count[c]
             /\ Since(s).truth[c] = total[c] - s.total[c]
             /\ counter[c] \in Nat /\ total[c] \in Nat
             /\ s.count[c] \in Nat /\ s.total[c] \in Nat
  <2>1. /\ counter[c] \in Nat /\ total[c] \in Nat /\ s.count[c] \in Nat /\ s.total[c] \in Nat
        /\ s.count[c] <= counter[c] /\ counter[c] <= MaxCount
    BY DEF IInv, Typed, Counts, Samples, Follows
  <2>2. Difference(counter[c], s.count[c]) = counter[c] - s.count[c]
    BY <2>1, DifferenceExact
  <2> QED
    BY <2>1, <2>2 DEF Since, Rate
<1>2. \A c \in Counters[meter] : Since(s).delta[c] <= Since(s).truth[c]
  BY <1>1 DEF Sound
<1>3. ASSUME Since(s).whole PROVE Since(s).delta = Since(s).truth
  <2>1. s.restarts = restarts
    BY <1>3 DEF Since, Rate
  <2>2. \A c \in Counters[meter] : Since(s).delta[c] = Since(s).truth[c]
    <3> SUFFICES ASSUME NEW c \in Counters[meter]
                 PROVE  Since(s).delta[c] = Since(s).truth[c]
      OBVIOUS
    <3>1. counter[c] + s.total[c] = total[c] + s.count[c]
      BY <2>1 DEF Sound
    <3> QED
      BY <1>1, <3>1
  <2> QED
    BY <2>2 DEF Since, Rate
<1> QED
  BY <1>2, <1>3

-----------------------------------------------------------------------------
(* The histories the meters make of a good one. *)
LEMMA SampleSound ==
  ASSUME IInv
  PROVE  Sample \in Samples /\ Sound(Sample) /\ Sample.count = counter
  BY DEF IInv, Typed, Sample, Samples, Counts, Sound

LEMMA EmptyGood == Good(<<>>)
  BY DEF Good

LEMMA AppendGood ==
  ASSUME IInv, NEW h, Good(h), h # <<>> => Follows(h[Len(h)])
  PROVE  Good(Append(h, Sample))
<1> DEFINE n == Len(h)
<1>1. /\ h \in Seq(Samples) /\ n \in Nat /\ DOMAIN h = 1 .. n
      /\ Append(h, Sample) \in Seq(Samples)
      /\ DOMAIN Append(h, Sample) = 1 .. n + 1
      /\ \A i \in 1 .. n : Append(h, Sample)[i] = h[i]
      /\ Append(h, Sample)[n + 1] = Sample
  BY SampleSound DEF Good
<1>2. \A i \in 1 .. n + 1 : Sound(Append(h, Sample)[i])
  BY <1>1, SampleSound DEF Good
<1>3. \A i \in 1 .. n : \A c \in Counters[meter] : h[i].count[c] <= counter[c]
  <2> SUFFICES ASSUME NEW i \in 1 .. n, NEW c \in Counters[meter]
               PROVE  h[i].count[c] <= counter[c]
    OBVIOUS
  <2>1. h # <<>> /\ n \in 1 .. n /\ i <= n
    BY <1>1
  <2>2. h[i].count[c] <= h[n].count[c] /\ h[n].count[c] <= counter[c]
    BY <1>1, <2>1 DEF Good, Follows
  <2>3. h[i] \in Samples /\ h[n] \in Samples
    BY <1>1, <2>1
  <2>4. h[i].count[c] \in Nat /\ h[n].count[c] \in Nat /\ counter[c] \in Nat
    BY <2>3 DEF Samples, Counts, IInv, Typed
  <2> QED
    BY <2>2, <2>4
<1>4. \A c \in Counters[meter] : counter[c] \in Nat
  BY DEF IInv, Typed, Counts
<1>5. ASSUME NEW i \in 1 .. n + 1, NEW j \in 1 .. n + 1, i <= j, NEW c \in Counters[meter]
      PROVE  Append(h, Sample)[i].count[c] <= Append(h, Sample)[j].count[c]
  <2>1. CASE j = n + 1 /\ i = n + 1
    BY <1>1, <1>4, <2>1, SampleSound
  <2>2. CASE j = n + 1 /\ i # n + 1
    BY <1>1, <1>3, <2>2, SampleSound
  <2>3. CASE j # n + 1
    BY <1>1, <1>5, <2>3 DEF Good
  <2> QED
    BY <2>1, <2>2, <2>3
<1> QED
  BY <1>1, <1>2, <1>5 DEF Good

LEMMA SuffixGood ==
  ASSUME NEW h, Good(h), NEW k \in DOMAIN h
  PROVE  /\ Good(SubSeq(h, k, Len(h)))
         /\ SubSeq(h, k, Len(h)) # <<>>
         /\ SubSeq(h, k, Len(h))[1] = h[k]
<1> DEFINE n == Len(h)
           g == SubSeq(h, k, n)
<1>1. h \in Seq(Samples) /\ n \in Nat /\ DOMAIN h = 1 .. n /\ k \in 1 .. n
  BY DEF Good
<1>2. /\ g \in Seq(Samples) /\ Len(g) = n - k + 1 /\ DOMAIN g = 1 .. n - k + 1
      /\ \A i \in 1 .. n - k + 1 : g[i] = h[i + k - 1] /\ i + k - 1 \in 1 .. n
  BY <1>1
<1> HIDE DEF g, n
<1>3. \A i \in DOMAIN g : Sound(g[i])
  BY <1>1, <1>2 DEF Good
<1>4. ASSUME NEW i \in DOMAIN g, NEW j \in DOMAIN g, i <= j, NEW c \in Counters[meter]
      PROVE  g[i].count[c] <= g[j].count[c]
  <2>1. /\ i + k - 1 \in DOMAIN h /\ j + k - 1 \in DOMAIN h /\ i + k - 1 <= j + k - 1
        /\ g[i] = h[i + k - 1] /\ g[j] = h[j + k - 1]
    BY <1>1, <1>2, <1>4
  <2> QED
    BY <2>1 DEF Good
<1>5. Good(g)
  BY <1>2, <1>3, <1>4 DEF Good
<1>6. g # <<>> /\ g[1] = h[k]
  BY <1>1, <1>2
<1> QED
  BY <1>5, <1>6 DEF g, n

-----------------------------------------------------------------------------
(* Observe leaves a good history, and a rate made since a sample of it.    *)
RateSound(r) ==
  r.status = "VALID" =>
    /\ \A c \in Counters[meter] : r.delta[c] <= r.truth[c]
    /\ r.whole => r.delta = r.truth

LEMMA RateKinds ==
  ASSUME IInv
  PROVE  /\ RateSound(Measuring) /\ RateSound(Invalid) /\ RateSound(rate)
         /\ \A s \in Samples : Sound(s) /\ Follows(s) => RateSound(Since(s))
  BY SinceSound
     DEF RateSound, Measuring, Invalid, Rate, IInv, NeverOverstated, ExactWithoutRestart

LEMMA PairGood ==
  ASSUME IInv, NEW s \in Samples, Sound(s), Follows(s)
  PROVE  Good(<<s>>) /\ Good(<<s, Sample>>)
<1>1. Good(<<s>>)
  <2>1. <<s>> \in Seq(Samples) /\ DOMAIN <<s>> = {1} /\ <<s>>[1] = s
    OBVIOUS
  <2>2. \A c \in Counters[meter] : s.count[c] \in Nat
    BY DEF Samples, Counts
  <2> QED
    BY <2>1, <2>2 DEF Good
<1>2. <<s>> # <<>> /\ Len(<<s>>) = 1 /\ <<s>>[1] = s /\ Append(<<s>>, Sample) = <<s, Sample>>
  <2>1. <<s>> \in Seq(Samples) /\ Len(<<s>>) = 1 /\ <<s>>[1] = s
    OBVIOUS
  <2>2. /\ Append(<<s>>, Sample) \in Seq(Samples) /\ Len(Append(<<s>>, Sample)) = 2
        /\ Append(<<s>>, Sample)[1] = s /\ Append(<<s>>, Sample)[2] = Sample
    BY <2>1, SampleSound
  <2>3. /\ <<s, Sample>> \in Seq(Samples) /\ Len(<<s, Sample>>) = 2
        /\ <<s, Sample>>[1] = s /\ <<s, Sample>>[2] = Sample
    BY SampleSound
  <2>4. <<s>> # <<>>
    OBVIOUS
  <2>5. Append(<<s>>, Sample) = <<s, Sample>>
    <3> DEFINE p == Append(<<s>>, Sample)
               q == <<s, Sample>>
    <3> HIDE DEF p, q
    <3>1. p \in Seq(Samples) /\ q \in Seq(Samples) /\ Len(p) = Len(q)
      BY <2>2, <2>3 DEF p, q
    <3>2. \A i \in 1 .. Len(p) : p[i] = q[i]
      BY <2>2, <2>3 DEF p, q
    <3>3. p = q
      BY <3>1, <3>2, SeqEqual
    <3> QED
      BY <3>3 DEF p, q
  <2> QED
    BY <2>1, <2>4, <2>5
<1>3. Good(Append(<<s>>, Sample))
  BY <1>1, <1>2, AppendGood
<1> QED
  BY <1>1, <1>2, <1>3

LEMMA SampleFollows == ASSUME IInv PROVE Follows(Sample)
<1>1. \A c \in Counters[meter] : counter[c] \in Nat
  BY DEF IInv, Typed, Counts
<1> QED
  BY <1>1, SampleSound DEF Follows

(* A route: the counters have not fallen below the latest sample, and so   *)
(* not below the baseline.                                                 *)
LEMMA RouteObserves ==
  ASSUME IInv, meter = "route", ObserveRoute
  PROVE  Good(history') /\ RateSound(rate') /\ Len(history') = 2
<1>1. ASSUME Comparable
      PROVE  history[1] \in Samples /\ Sound(history[1]) /\ Follows(history[1])
  <2>1. /\ history \in Seq(Samples) /\ Len(history) = 2 /\ DOMAIN history = {1, 2}
        /\ history[1] \in Samples /\ history[2] \in Samples
    BY <1>1 DEF Comparable, IInv, Typed, Good
  <2>2. \A c \in Counters[meter] :
          history[1].count[c] <= history[2].count[c] /\ history[2].count[c] <= counter[c]
    BY <1>1, <2>1 DEF Comparable, Follows, IInv, Good
  <2>3. \A c \in Counters[meter] :
          counter[c] \in Nat /\ history[1].count[c] \in Nat /\ history[2].count[c] \in Nat
    BY <2>1 DEF Samples, Counts, IInv, Typed
  <2>4. Sound(history[1])
    BY <2>1 DEF IInv, Good
  <2> QED
    BY <2>1, <2>2, <2>3, <2>4 DEF Follows
<1>2. RateSound(rate')
  BY <1>1, RateKinds DEF ObserveRoute, Complete
<1>3. Good(<<Sample, Sample>>)
  BY SampleSound, SampleFollows, PairGood
<1>4. Comparable => Good(<<history[1], Sample>>)
  BY <1>1, PairGood
<1>5. \/ history' = <<Sample, Sample>>
      \/ Comparable /\ history' = <<history[1], Sample>>
  BY DEF ObserveRoute, Advanced
<1> QED
  BY <1>2, <1>3, <1>4, <1>5

(* A subscription: its one sample. *)
LEMMA TopicObserves ==
  ASSUME IInv, ObserveTopic PROVE Good(history') /\ RateSound(rate')
<1>1. Base \in Samples /\ Sound(Base) /\ Follows(Base)
  <2>1. CASE history # <<>> /\ Follows(history[1]) /\ Base = history[1]
    <3>1. history \in Seq(Samples) /\ 1 \in DOMAIN history
      BY <2>1 DEF IInv, Good
    <3> QED
      BY <2>1, <3>1 DEF IInv, Good
  <2>2. CASE Base = Sample
    BY <2>2, SampleSound, SampleFollows
  <2> QED
    BY <2>1, <2>2 DEF Base
<1>2. Good(<<Base>>) /\ Good(<<Sample>>)
  BY <1>1, SampleSound, SampleFollows, PairGood
<1>3. RateSound(Since(Base)) /\ RateSound(rate) /\ RateSound(Measuring)
  BY <1>1, RateKinds
<1> QED
  BY <1>2, <1>3 DEF ObserveTopic

-----------------------------------------------------------------------------
(* Every set of numbers has a least one: the loop that drops samples stops *)
(* at the new one at the latest.                                           *)
LEMMA LeastNumber ==
  ASSUME NEW T, T \subseteq Nat, T # {}
  PROVE  \E x \in T : \A y \in T : x <= y
<1> DEFINE R == {p \in Nat \X Nat : p[1] < p[2]}
<1>1. R = OpToRel(<, Nat)
  BY DEF OpToRel
<1>2. IsWellFoundedOn(R, Nat)
  BY <1>1, NatLessThanWellFounded
<1> HIDE DEF R
<1>3. \E x \in T : \A y \in T : ~ (<<y, x>> \in R)
  BY <1>2, WFMin
<1>4. \A x, y \in Nat : ~ (<<y, x>> \in R) => x <= y
  BY DEF R
<1> QED
  BY <1>3, <1>4

LEMMA EchoObserves ==
  ASSUME IInv, ObserveEcho PROVE Good(history') /\ RateSound(rate')
<1> DEFINE kept == IF history # <<>> /\ ~Follows(Last(history)) THEN <<>> ELSE history
<1>1. Good(kept) /\ (kept # <<>> => Follows(kept[Len(kept)]))
  BY EmptyGood DEF Last, IInv
<1>2. kept \in Seq(Samples)
  BY <1>1 DEF Good
<1>3. Extended = Append(kept, Sample)
  BY DEF Extended
<1> HIDE DEF kept
<1>4. Good(Extended)
  BY <1>1, <1>3, AppendGood
<1>5. /\ Extended \in Seq(Samples) /\ Len(Extended) \in Nat \ {0}
      /\ DOMAIN Extended = 1 .. Len(Extended) /\ Extended[Len(Extended)] = Sample
  BY <1>2, <1>3, SampleSound
<1>6. Stays(Len(Extended))
  BY <1>5, RateAssumption DEF Stays, Sample, IInv, Typed
<1>7. Oldest \in DOMAIN Extended
  <2> DEFINE T == {i \in DOMAIN Extended : Stays(i)}
  <2>1. T \subseteq Nat /\ T # {}
    BY <1>5, <1>6
  <2>2. \E i \in T : \A j \in T : i <= j
    BY <2>1, LeastNumber
  <2>3. \E i \in DOMAIN Extended :
          Stays(i) /\ \A j \in DOMAIN Extended : Stays(j) => i <= j
    BY <2>2
  <2> QED
    BY <2>3 DEF Oldest
<1>8. Good(Recent) /\ Recent # <<>>
  BY <1>4, <1>7, SuffixGood DEF Recent
<1>9. ASSUME Len(Recent) >= 2 PROVE RateSound(Since(Head(Recent)))
  <2>1. Recent \in Seq(Samples) /\ Head(Recent) = Recent[1] /\ 1 \in DOMAIN Recent
    BY <1>8 DEF Good
  <2>2. Head(Recent) \in Samples /\ Sound(Head(Recent))
    BY <1>8, <2>1 DEF Good
  <2>3. Follows(Head(Recent))
    <3> DEFINE n == Len(Recent)
    <3>1. n \in DOMAIN Recent /\ 1 <= n
      BY <1>8 DEF Good
    <3>2. Recent[n] = Sample
      BY <1>5, <1>7 DEF Recent
    <3>3. \A c \in Counters[meter] : Recent[1].count[c] <= counter[c]
      BY <1>8, <2>1, <3>1, <3>2, SampleSound DEF Good
    <3> QED
      BY <2>1, <3>3, <2>2 DEF Follows, Samples, Counts, IInv, Typed
  <2> QED
    BY <2>2, <2>3, RateKinds
<1> QED
  BY <1>8, <1>9, RateKinds DEF ObserveEcho

-----------------------------------------------------------------------------
LEMMA InitIInv == Init => IInv
<1> SUFFICES ASSUME Init PROVE IInv
  OBVIOUS
<1>1. Zero \in Counts /\ \A c \in Counters[meter] : Zero[c] = 0
  BY DEF Zero, Counts
<1>2. Typed
  <2>1. Len(<<>>) = 0 /\ MaxCount >= 0
    BY RateAssumption
  <2> QED
    BY <1>1, <2>1 DEF Init, Typed
<1>3. NeverOverstated /\ ExactWithoutRestart
  BY DEF Init, Invalid, Rate, NeverOverstated, ExactWithoutRestart
<1> QED
  BY <1>2, <1>3, EmptyGood DEF Init, IInv

LEMMA ObserveKeeps ==
  ASSUME IInv, Observe PROVE IInv'
<1>1. /\ Good(history') /\ RateSound(rate')
      /\ meter = "route" => Len(history') = 2
  BY RouteObserves, TopicObserves, EchoObserves DEF Observe, IInv, Typed, Meters
<1>2. UNCHANGED <<meter, now, counter, name, total, restarts, gap>>
  BY DEF Observe
<1>3. Good(history)'
  BY <1>1, <1>2 DEF Good, Sound, Samples, Counts
<1> QED
  BY <1>1, <1>2, <1>3
     DEF IInv, Typed, Counts, RateSound, NeverOverstated, ExactWithoutRestart

LEMMA MissKeeps ==
  ASSUME IInv, Miss PROVE IInv'
<1>1. history' = <<>> /\ Len(<<>>) = 0
  BY DEF Miss
<1>2. Good(history)'
  BY <1>1 DEF Good
<1>3. rate'.status # "VALID"
  BY DEF Miss, Invalid, Rate
<1> QED
  BY <1>1, <1>2, <1>3 DEF Miss, IInv, Typed, Counts, NeverOverstated, ExactWithoutRestart

(* What happens to the source between two observations keeps the samples   *)
(* sound.                                                                  *)
LEMMA SourceKeeps ==
  ASSUME IInv, UNCHANGED <<meter, history, rate, gap>>, Typed',
         \A s \in Samples : Sound(s) => Sound(s)'
  PROVE  IInv'
<1>1. Samples' = Samples /\ Counters[meter]' = Counters[meter]
  BY DEF Samples, Counts
<1>2. Good(history)'
  BY <1>1 DEF IInv, Good
<1> QED
  BY <1>1, <1>2 DEF IInv, NeverOverstated, ExactWithoutRestart

LEMMA CountKeeps ==
  ASSUME IInv, NEW d \in Counters[meter], Count(d) PROVE IInv'
<1>1. /\ \A c \in Counters[meter] :
           /\ counter[c] \in Nat /\ total[c] \in Nat
           /\ counter'[c] = IF c = d THEN counter[c] + 1 ELSE counter[c]
           /\ total'[c] = IF c = d THEN total[c] + 1 ELSE total[c]
      /\ counter' \in Counts /\ total' \in Counts
      /\ counter[d] < MaxCount
  BY DEF Count, IInv, Typed, Counts
<1>2. Typed'
  BY <1>1, RateAssumption DEF Count, IInv, Typed, Counts
<1>3. ASSUME NEW s \in Samples, Sound(s) PROVE Sound(s)'
  <2>1. \A c \in Counters[meter] : s.total[c] \in Nat /\ s.count[c] \in Nat
    BY DEF Samples, Counts
  <2> QED
    BY <1>1, <1>3, <2>1 DEF Count, Sound
<1> QED
  BY <1>2, <1>3, SourceKeeps DEF Count

LEMMA RestartKeeps ==
  ASSUME IInv, Restart PROVE IInv'
<1>1. Zero \in Counts /\ \A c \in Counters[meter] : Zero[c] = 0
  BY DEF Zero, Counts
<1>2. name' \in {0, 1}
  <2>1. name' \in {name, 1 - name}
    BY DEF Restart
  <2> QED
    BY <2>1 DEF IInv, Typed
<1>3. Typed'
  BY <1>1, <1>2, RateAssumption DEF Restart, IInv, Typed, Counts
<1>4. ASSUME NEW s \in Samples, Sound(s) PROVE Sound(s)'
  <2>1. \A c \in Counters[meter] :
          s.total[c] \in Nat /\ s.count[c] \in Nat /\ total[c] \in Nat
    BY DEF Samples, Counts, IInv, Typed
  <2>2. s.restarts \in Nat /\ restarts \in Nat
    BY DEF Samples, IInv, Typed
  <2> QED
    BY <1>1, <1>4, <2>1, <2>2 DEF Restart, Sound
<1> QED
  BY <1>3, <1>4, SourceKeeps DEF Restart

LEMMA TickKeeps ==
  ASSUME IInv, ClockTick PROVE IInv'
<1>1. Typed'
  BY DEF ClockTick, IInv, Typed, Counts
<1>2. ASSUME NEW s \in Samples, Sound(s) PROVE Sound(s)'
  BY <1>2 DEF ClockTick, Sound, Samples, IInv, Typed
<1> QED
  BY <1>1, <1>2, SourceKeeps DEF ClockTick

-----------------------------------------------------------------------------
THEOREM Invariance == Spec => []IInv
<1>1. IInv /\ UNCHANGED vars => IInv'
  BY DEF vars, IInv, Typed, Good, Sound, Samples, Counts, NeverOverstated, ExactWithoutRestart
<1>2. IInv /\ [Next]_vars => IInv'
  BY <1>1, ObserveKeeps, MissKeeps, CountKeeps, RestartKeeps, TickKeeps DEF Next
<1> QED
  BY InitIInv, <1>2, PTL DEF Spec

(* The unsigned subtractions of the code never wrap into a rate above what *)
(* really happened, however the counters restart.                          *)
THEOREM RatesAreModest == Spec => []NeverOverstated
<1>1. IInv => NeverOverstated
  BY DEF IInv
<1> QED
  BY Invariance, <1>1, PTL

(* A measurement that spans many observations loses nothing on the way.    *)
THEOREM RatesAreExact == Spec => []ExactWithoutRestart
<1>1. IInv => ExactWithoutRestart
  BY DEF IInv
<1> QED
  BY Invariance, <1>1, PTL

(* No sample outlives a time in which its source was not observed.         *)
THEOREM GapsEndMeasurements == Spec => []NoMeasurementAcrossGap
<1>1. IInv => NoMeasurementAcrossGap
  BY DEF IInv, Good, Sound, NoMeasurementAcrossGap, Samples, Typed
<1> QED
  BY Invariance, <1>1, PTL

=============================================================================
