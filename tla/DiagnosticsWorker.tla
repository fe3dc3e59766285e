-------------------------- MODULE DiagnosticsWorker --------------------------
(***************************************************************************)
(* The diagnostics cycle of NetworkObserver::Run (src/backend/             *)
(* network_backend.cpp): one query in a cycle, to the Gateway of a host    *)
(* chosen by a rotating cursor, and a cache of the last result per host.   *)
(* Peers come, go, restart and change compatibility at any time, also      *)
(* while a query is out; the worker reads them only where the code calls   *)
(* GetPeers.                                                               *)
(***************************************************************************)
EXTENDS Naturals, FiniteSets, Functions

CONSTANTS
  Hosts,           \* host identities, which the code orders by their key
  MaxGeneration    \* bound: how often a host restarts

ASSUME DiagnosticsAssumption ==
  /\ Hosts \subseteq Nat \ {0}
  /\ MaxGeneration \in Nat \ {0}

VARIABLES
  discovered,  \* external: host -> what discovery says of its peer
  gone,        \* how often each host has restarted
  peers,       \* the worker's copy from GetPeers
  cache,       \* host -> CachedDiagnostics
  cursor,      \* the host queried last, 0 at first
  target,      \* the peer a query is out to
  published,   \* snapshot_: host -> [generation, of]: the peer's
               \* generation and that of its diagnostics
  at           \* where the worker is in its cycle

vars == <<discovered, gone, peers, cache, cursor, target, published, at>>

\* Eligibility of a peer: "LOST" stands for INCOMPATIBLE and UNSUPPORTED too,
\* between which the worker makes no difference.  A query leads to "VALID",
\* for TRUNCATED too, or to "ERROR", for TIMEOUT too.
Eligibilities == {"PENDING", "LOST"}
Results == {"VALID", "ERROR"}

NoTarget == [host |-> 0, generation |-> 0]

Fresh(p) == [generation |-> p.generation, status |-> p.eligibility, due |-> TRUE]

Init ==
  /\ discovered = <<>>
  /\ gone = [h \in Hosts |-> 0]
  /\ peers = <<>>
  /\ cache = <<>>
  /\ cursor = 0
  /\ target = NoTarget
  /\ published = <<>>
  /\ at = "begin"

-----------------------------------------------------------------------------
\* Reconcile: entries of hosts that are gone are dropped, and an entry is
\* reset when its generation changed or it is, or was, not eligible.
Kept(entry, p) ==
  /\ entry.generation = p.generation
  /\ p.eligibility = "PENDING"
  /\ entry.status # "LOST"

Reconciled(entries, current) ==
  [h \in DOMAIN current |->
     IF h \in DOMAIN entries /\ Kept(entries[h], current[h])
     THEN entries[h] ELSE Fresh(current[h])]

Candidates(current, entries) ==
  {h \in DOMAIN current : current[h].eligibility = "PENDING" /\ entries[h].due}

\* A variant without the cursor: the first host that is due.
SelectFirst(candidates) ==
  {h \in candidates : \A g \in candidates : h <= g}

\* The next candidate after the cursor, or the first of all.
Select(candidates) ==
  LET later == {h \in candidates : h > cursor}
  IN {h \in candidates : /\ h \in later \/ later = {}
                         /\ \A g \in IF later = {} THEN candidates ELSE later : h <= g}

\* GetPeers, Reconcile, and the query is sent unless nobody is due or
\* discovery has an error.
BeginCycle ==
  /\ at = "begin"
  /\ peers' = discovered
  /\ cache' = Reconciled(cache, discovered)
  /\ \/ /\ \E h \in Select(Candidates(peers', cache')) :
             /\ target' = [host |-> h, generation |-> discovered[h].generation]
             /\ cursor' = h
        /\ at' = "query"
     \/ /\ at' = "publish"
        /\ UNCHANGED <<cursor, target>>
  /\ UNCHANGED <<discovered, gone, published>>

\* A variant that files the answer without looking at the generation.
SameHost(current) == target.host \in DOMAIN current

\* The peer is still the one that was asked.
SamePeer(current) ==
  /\ target.host \in DOMAIN current
  /\ current[target.host].generation = target.generation
  /\ current[target.host].eligibility = "PENDING"

\* A variant that keeps the cache as it was before the query.
EndQueryUnreconciled ==
  /\ at = "query"
  /\ peers' = discovered
  /\ \E result \in Results :
       cache' = IF SamePeer(discovered)
                THEN [h \in DOMAIN cache |->
                        IF h = target.host
                        THEN [generation |-> target.generation, status |-> result, due |-> FALSE]
                        ELSE cache[h]]
                ELSE cache
  /\ at' = "publish"
  /\ target' = NoTarget
  /\ UNCHANGED <<discovered, gone, cursor, published>>

\* The answer, an error or a timeout after 80 ms; peers are read and
\* reconciled again before the result is filed.
EndQuery ==
  /\ at = "query"
  /\ peers' = discovered
  /\ LET kept == Reconciled(cache, discovered) IN
       \E result \in Results :
         cache' = IF SamePeer(discovered)
                  THEN [kept EXCEPT ![target.host] =
                          [generation |-> target.generation, status |-> result, due |-> FALSE]]
                  ELSE kept
  /\ at' = "publish"
  /\ target' = NoTarget
  /\ UNCHANGED <<discovered, gone, cursor, published>>

\* Convert(peers), then cache.at(host.id) for each host; peers is a local of
\* the cycle.
Publish ==
  /\ at = "publish"
  /\ DOMAIN peers \subseteq DOMAIN cache
  /\ published' = [h \in DOMAIN peers |->
                     [generation |-> peers[h].generation, of |-> cache[h].generation]]
  /\ at' = "begin"
  /\ peers' = <<>>
  /\ UNCHANGED <<discovered, gone, cache, cursor, target>>

\* The time since a host's last query passes one second.
BecomesDue(h) ==
  /\ h \in DOMAIN cache /\ ~cache[h].due
  /\ cache' = [cache EXCEPT ![h].due = TRUE]
  /\ UNCHANGED <<discovered, gone, peers, cursor, target, published, at>>

\* External: discovery learns of a peer, of a change of it, or forgets it.
PeerChanges(h) ==
  /\ \/ \E e \in Eligibilities :
          /\ h \in DOMAIN discovered => discovered[h].eligibility # e
          /\ discovered' = [g \in DOMAIN discovered \cup {h} |->
                              IF g = h THEN [generation |-> gone[h], eligibility |-> e]
                              ELSE discovered[g]]
          /\ UNCHANGED gone
     \/ /\ h \in DOMAIN discovered
        /\ gone[h] < MaxGeneration
        /\ gone' = [gone EXCEPT ![h] = @ + 1]
        /\ discovered' = [discovered EXCEPT ![h].generation = @ + 1]
     \/ /\ h \in DOMAIN discovered
        /\ discovered' = Restrict(discovered, DOMAIN discovered \ {h})
        /\ UNCHANGED gone
  /\ UNCHANGED <<peers, cache, cursor, target, published, at>>

Cycle == BeginCycle \/ EndQuery \/ Publish

Next ==
  \/ Cycle
  \/ \E h \in Hosts : BecomesDue(h) \/ PeerChanges(h)

(***************************************************************************)
(* The worker runs on, time passes for every host, and discovery is not in *)
(* error for ever: a cycle that finds somebody due again and again, sends  *)
(* its query.                                                              *)
(***************************************************************************)
Spec ==
  /\ Init /\ [][Next]_vars
  /\ WF_vars(Cycle)
  /\ SF_vars(BeginCycle /\ at' = "query")
  /\ \A h \in Hosts : WF_vars(BecomesDue(h))

-----------------------------------------------------------------------------
(***************************************************************************)
(* The peers, the cache and the published snapshot are functions of hosts; *)
(* before a snapshot is made every peer has its cache entry: cache.at does *)
(* not throw.                                                              *)
(***************************************************************************)
TypeOK ==
  /\ DOMAIN discovered \subseteq Hosts /\ DOMAIN peers \subseteq Hosts
  /\ \A h \in DOMAIN cache :
       cache[h].status \in Eligibilities \cup Results /\ cache[h].due \in BOOLEAN
  /\ cursor \in Hosts \cup {0}
  /\ at \in {"begin", "query", "publish"}
  /\ at = "publish" => DOMAIN cache = DOMAIN peers

(***************************************************************************)
(* What is published of a host is a result of the generation that is       *)
(* published with it, although the host may have restarted while the query *)
(* was out.                                                                *)
(***************************************************************************)
DiagnosticsOfGeneration ==
  \A h \in DOMAIN published :
    published[h].of = published[h].generation

Eligible(h) == h \in DOMAIN discovered /\ discovered[h].eligibility = "PENDING"

(***************************************************************************)
(* A host that stays eligible is asked again and again, although others    *)
(* are due all the time and come, go and restart.                          *)
(***************************************************************************)
NoStarvation ==
  \A h \in Hosts : <>[]Eligible(h) => []<>(target.host = h)

=============================================================================
