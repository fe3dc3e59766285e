-------------------------- MODULE DiagnosticsProofs --------------------------
(***************************************************************************)
(* Proofs about DiagnosticsWorker for any set of hosts and any number of   *)
(* restarts.                                                               *)
(***************************************************************************)
EXTENDS DiagnosticsWorker, TLAPS

Peer  == [generation : Nat, eligibility : Eligibilities]
Entry == [generation : Nat, status : Eligibilities \cup Results, due : BOOLEAN]

(* The maps are functions of hosts to peers and entries. *)
Typed ==
  /\ discovered \in [DOMAIN discovered -> Peer] /\ DOMAIN discovered \subseteq Hosts
  /\ peers \in [DOMAIN peers -> Peer] /\ DOMAIN peers \subseteq Hosts
  /\ cache \in [DOMAIN cache -> Entry]
  /\ gone \in [Hosts -> Nat]
  /\ target \in [host : Hosts \cup {0}, generation : Nat]
  /\ cursor \in Hosts \cup {0}
  /\ at \in {"begin", "query", "publish"}

(* What the worker is about to publish has its entry, of its generation:   *)
(* nothing but the worker touches its copy of the peers, and both of its   *)
(* ways to "publish" reconcile the cache with that copy.                   *)
Reconciling ==
  at = "publish" =>
    /\ DOMAIN cache = DOMAIN peers
    /\ \A h \in DOMAIN peers : cache[h].generation = peers[h].generation

IInv == Typed /\ Reconciling /\ DiagnosticsOfGeneration

-----------------------------------------------------------------------------
(* Reconcile leaves one entry per peer, of the peer's generation, whatever *)
(* the cache held before.                                                  *)
LEMMA ReconciledProperties ==
  ASSUME NEW entries, entries \in [DOMAIN entries -> Entry],
         NEW current, current \in [DOMAIN current -> Peer]
  PROVE  /\ DOMAIN Reconciled(entries, current) = DOMAIN current
         /\ Reconciled(entries, current) \in [DOMAIN current -> Entry]
         /\ \A h \in DOMAIN current :
              Reconciled(entries, current)[h].generation = current[h].generation
<1>1. ASSUME NEW h \in DOMAIN current
      PROVE  /\ Fresh(current[h]) \in Entry
             /\ Fresh(current[h]).generation = current[h].generation
  BY DEF Fresh, Peer, Entry
<1>2. ASSUME NEW h \in DOMAIN current, h \in DOMAIN entries, Kept(entries[h], current[h])
      PROVE  entries[h] \in Entry /\ entries[h].generation = current[h].generation
  BY <1>2 DEF Kept
<1> QED
  BY <1>1, <1>2 DEF Reconciled

(* The empty map. *)
LEMMA EmptyMap == \A S : <<>> \in [DOMAIN <<>> -> S] /\ DOMAIN <<>> = {}
  OBVIOUS

LEMMA InitIInv == Init => IInv
<1> SUFFICES ASSUME Init PROVE IInv
  OBVIOUS
<1>1. Typed
  BY EmptyMap, DiagnosticsAssumption DEF Init, Typed, NoTarget
<1> QED
  BY <1>1, EmptyMap DEF Init, IInv, Reconciling, DiagnosticsOfGeneration

-----------------------------------------------------------------------------
(* The start of a cycle. *)
LEMMA BeginKeeps ==
  ASSUME IInv, BeginCycle PROVE IInv'
<1>1. /\ DOMAIN cache' = DOMAIN discovered
      /\ cache' \in [DOMAIN discovered -> Entry]
      /\ \A h \in DOMAIN discovered : cache'[h].generation = discovered[h].generation
  BY ReconciledProperties DEF BeginCycle, IInv, Typed
<1>2. \/ target' = target /\ cursor' = cursor
      \/ \E h \in DOMAIN discovered :
           target' = [host |-> h, generation |-> discovered[h].generation] /\ cursor' = h
  BY DEF BeginCycle, Select, Candidates
<1>3. Typed'
  BY <1>1, <1>2 DEF BeginCycle, IInv, Typed, Peer
<1> QED
  BY <1>1, <1>3 DEF BeginCycle, IInv, Reconciling, DiagnosticsOfGeneration

(* The answer is filed for the peer that was asked, or not at all. *)
LEMMA EndKeeps ==
  ASSUME IInv, EndQuery PROVE IInv'
<1> DEFINE kept == Reconciled(cache, discovered)
           Filed(result) == [generation |-> target.generation, status |-> result, due |-> FALSE]
<1>1. /\ DOMAIN kept = DOMAIN discovered
      /\ kept \in [DOMAIN discovered -> Entry]
      /\ \A h \in DOMAIN discovered : kept[h].generation = discovered[h].generation
  BY ReconciledProperties DEF IInv, Typed
<1>2. PICK result \in Results :
        cache' = IF SamePeer(discovered) THEN [kept EXCEPT ![target.host] = Filed(result)]
                 ELSE kept
  BY DEF EndQuery
<1>3. Filed(result) \in Entry
  BY DEF IInv, Typed, Entry
<1>4. SamePeer(discovered) => Filed(result).generation = discovered[target.host].generation
  BY DEF SamePeer
<1> HIDE DEF kept, Filed
<1>5. /\ DOMAIN cache' = DOMAIN discovered
      /\ cache' \in [DOMAIN discovered -> Entry]
      /\ \A h \in DOMAIN discovered : cache'[h].generation = discovered[h].generation
  <2>1. CASE SamePeer(discovered)
    BY <1>1, <1>2, <1>3, <1>4, <2>1
  <2>2. CASE ~SamePeer(discovered)
    BY <1>1, <1>2, <2>2
  <2> QED
    BY <2>1, <2>2
<1>6. Typed'
  BY <1>5 DEF EndQuery, NoTarget, IInv, Typed
<1> QED
  BY <1>5, <1>6 DEF EndQuery, IInv, Reconciling, DiagnosticsOfGeneration

LEMMA PublishKeeps ==
  ASSUME IInv, Publish PROVE IInv'
<1>1. Typed'
  BY EmptyMap DEF Publish, IInv, Typed
<1>2. DiagnosticsOfGeneration'
  BY DEF Publish, IInv, Reconciling, DiagnosticsOfGeneration
<1> QED
  BY <1>1, <1>2 DEF Publish, IInv, Reconciling

(* Time and discovery touch no generation in the worker's hands. *)
LEMMA DueKeeps ==
  ASSUME IInv, NEW h \in Hosts, BecomesDue(h) PROVE IInv'
<1>1. cache' \in [DOMAIN cache -> Entry] /\ DOMAIN cache' = DOMAIN cache
  BY DEF BecomesDue, IInv, Typed, Entry
<1>2. \A g \in DOMAIN cache : cache'[g].generation = cache[g].generation
  BY DEF BecomesDue, IInv, Typed, Entry
<1> QED
  BY <1>1, <1>2 DEF BecomesDue, IInv, Typed, Reconciling, DiagnosticsOfGeneration

LEMMA PeerChangesKeeps ==
  ASSUME IInv, NEW h \in Hosts, PeerChanges(h) PROVE IInv'
<1>1. UNCHANGED <<peers, cache, cursor, target, published, at>>
  BY DEF PeerChanges
<1>2. /\ discovered' \in [DOMAIN discovered' -> Peer] /\ DOMAIN discovered' \subseteq Hosts
      /\ gone' \in [Hosts -> Nat]
  <2>1. CASE /\ \E e \in Eligibilities :
                  discovered' = [g \in DOMAIN discovered \cup {h} |->
                                   IF g = h THEN [generation |-> gone[h], eligibility |-> e]
                                   ELSE discovered[g]]
             /\ UNCHANGED gone
    BY <2>1 DEF IInv, Typed, Peer
  <2>2. CASE /\ h \in DOMAIN discovered
             /\ gone' = [gone EXCEPT ![h] = @ + 1]
             /\ discovered' = [discovered EXCEPT ![h].generation = @ + 1]
    <3>1. gone' \in [Hosts -> Nat]
      BY <2>2 DEF IInv, Typed
    <3>2. discovered[h] \in Peer
      BY <2>2 DEF IInv, Typed
    <3>3. [discovered[h] EXCEPT !.generation = @ + 1] \in Peer
      BY <3>2 DEF Peer
    <3> QED
      BY <2>2, <3>1, <3>3 DEF IInv, Typed
  <2>3. CASE /\ discovered' = Restrict(discovered, DOMAIN discovered \ {h})
             /\ UNCHANGED gone
    BY <2>3 DEF Restrict, IInv, Typed
  <2> QED
    BY <2>1, <2>2, <2>3 DEF PeerChanges
<1> QED
  BY <1>1, <1>2 DEF IInv, Typed, Reconciling, DiagnosticsOfGeneration

-----------------------------------------------------------------------------
THEOREM Invariance == Spec => []IInv
<1>1. IInv /\ [Next]_vars => IInv'
  <2>1. IInv /\ UNCHANGED vars => IInv'
    BY DEF vars, IInv, Typed, Reconciling, DiagnosticsOfGeneration
  <2> QED
    BY <2>1, BeginKeeps, EndKeeps, PublishKeeps, DueKeeps, PeerChangesKeeps DEF Next, Cycle
<1> QED
  BY InitIInv, <1>1, PTL DEF Spec

(* cache.at(host.id) finds an entry for every host of the snapshot, so     *)
(* that Run is not left by its exception, however the hosts come and go.   *)
THEOREM EveryPeerHasAnEntry == Spec => []TypeOK
<1>1. IInv => TypeOK
  BY DEF IInv, Typed, Reconciling, TypeOK, Entry
<1> QED
  BY Invariance, <1>1, PTL

(* The snapshot never shows a host with the diagnostics of an earlier      *)
(* generation of it.                                                       *)
THEOREM DiagnosticsAreCurrent == Spec => []DiagnosticsOfGeneration
<1>1. IInv => DiagnosticsOfGeneration
  BY DEF IInv
<1> QED
  BY Invariance, <1>1, PTL

=============================================================================
