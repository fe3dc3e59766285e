-------------------------- MODULE LocalGatewayProofs --------------------------
(***************************************************************************)
(* Proofs about LocalGateway for any set of states of the Gateway and any  *)
(* number of its restarts and of the client's cycles.                      *)
(***************************************************************************)
EXTENDS LocalGateway, TLAPS

Names == States \cup {""}
Connections == {"CONNECTING", "READY", "ERROR", "DISABLED"}

Typed ==
  /\ gateway \in [session : Nat, state : States]
  /\ worker \in {"loop", "status", "peers", "again", "ready", "error", "deciding",
                 "blocking", "waiting", "exited"}
  /\ next \in [session : Nat, state : Names, peers : Nat]
  /\ snapshot \in [connection : Connections, session : Nat, state : Names, peers : Nat,
                   observed : Nat]
  /\ cycles \in Nat
  /\ table \in [observed : Nat, peers : Nat]

(* Sessions only grow.  What the first status said and what the peers were *)
(* read in lies between, so that a second status equal to the first leaves *)
(* room for one session only.                                              *)
SessionsInOrder ==
  /\ worker \in {"peers", "again"} => next.session <= gateway.session
  /\ worker = "again" => next.session <= next.peers /\ next.peers <= gateway.session
  /\ worker = "ready" => next.peers = next.session

(* Stamps tell snapshots apart: every new one with peers has a stamp that  *)
(* no table has seen, and all without peers have the stamp zero.           *)
StampsTell ==
  /\ table.observed <= cycles
  /\ table.observed = 0 => table.peers = 0
  /\ snapshot.connection = "READY" => snapshot.observed # 0
  /\ snapshot.connection # "READY" => snapshot.observed = 0 /\ snapshot.peers = 0
  /\ snapshot.observed <= cycles

StopperInv ==
  /\ stopper \in {"joined", "returned"} => worker = "exited"
  /\ stopper = "returned" => snapshot = Snapshot("DISABLED", Unread, 0)

IInv == Typed /\ SessionsInOrder /\ StampsTell /\ StopperInv /\ PeersOfTheirSession

-----------------------------------------------------------------------------
(* A snapshot of a given connection without contents. *)
LEMMA EmptySnapshot ==
  ASSUME NEW c \in Connections
  PROVE  /\ Snapshot(c, Unread, 0)
              \in [connection : Connections, session : Nat, state : Names, peers : Nat,
                   observed : Nat]
         /\ Snapshot(c, Unread, 0).connection = c
         /\ Snapshot(c, Unread, 0).observed = 0
         /\ Snapshot(c, Unread, 0).peers = 0
<1>1. Unread \in [session : Nat, state : Names, peers : Nat]
  BY DEF Unread, Names
<1>2. Unread.peers = 0
  BY DEF Unread
<1> QED
  BY <1>1, <1>2 DEF Snapshot

LEMMA InitIInv == Init => IInv
<1> SUFFICES ASSUME Init PROVE IInv
  OBVIOUS
<1>1. Typed
  <2>1. Unread \in [session : Nat, state : Names, peers : Nat]
    BY DEF Unread, Names
  <2>2. "CONNECTING" \in Connections
    BY DEF Connections
  <2>3. gateway \in [session : Nat, state : States]
    BY DEF Init
  <2> QED
    BY <2>1, <2>2, <2>3, EmptySnapshot DEF Init, Typed
<1>2. StampsTell /\ PeersOfTheirSession
  <2>1. snapshot.connection = "CONNECTING" /\ snapshot.observed = 0 /\ snapshot.peers = 0
    BY EmptySnapshot DEF Init, Connections
  <2> QED
    BY <2>1 DEF Init, StampsTell, PeersOfTheirSession
<1> QED
  BY <1>1, <1>2 DEF Init, IInv, SessionsInOrder, StopperInv

(* The three queries: only the status and the peers are recorded. *)
LEMMA QueryKeeps ==
  ASSUME IInv, BeginCycle \/ ReadStatus \/ ReadPeers \/ CompareStatus \/ FailQuery
  PROVE  IInv'
<1> USE DEF IInv, Typed, SessionsInOrder, StampsTell, StopperInv, PeersOfTheirSession
<1>1. CASE BeginCycle
  BY <1>1 DEF BeginCycle, Unread, Names
<1>2. CASE ReadStatus
  <2>1. /\ next' \in [session : Nat, state : Names, peers : Nat]
        /\ next'.session = gateway.session
    BY <1>2 DEF ReadStatus, Names
  <2> QED
    BY <1>2, <2>1 DEF ReadStatus
<1>3. CASE ReadPeers
  <2>1. /\ next' \in [session : Nat, state : Names, peers : Nat]
        /\ next'.session = next.session /\ next'.peers = gateway.session
    BY <1>3 DEF ReadPeers
  <2> QED
    BY <1>3, <2>1 DEF ReadPeers
<1>4. CASE CompareStatus
  BY <1>4 DEF CompareStatus
<1>5. CASE FailQuery
  BY <1>5 DEF FailQuery
<1> QED
  BY <1>1, <1>2, <1>3, <1>4, <1>5

LEMMA PublishKeeps ==
  ASSUME IInv, Publish PROVE IInv'
<1> USE DEF IInv, Typed, SessionsInOrder, StampsTell, StopperInv, PeersOfTheirSession
<1>1. CASE stop
  BY <1>1 DEF Publish
<1>2. CASE ~stop /\ worker = "ready"
  <2>1. snapshot' = Snapshot("READY", next, cycles + 1)
    BY <1>2 DEF Publish
  <2> QED
    BY <1>2, <2>1 DEF Publish, Snapshot, Connections
<1>3. CASE ~stop /\ worker = "error"
  <2>1. snapshot' = Snapshot("ERROR", Unread, 0) /\ "ERROR" \in Connections
    BY <1>3 DEF Publish, Connections
  <2> QED
    BY <1>3, <2>1, EmptySnapshot DEF Publish
<1> QED
  BY <1>1, <1>2, <1>3 DEF Publish

(* The wait between two cycles, Stop up to the join, and the clearing of   *)
(* the snapshot after it.                                                  *)
LEMMA WaitAndStopKeep ==
  ASSUME IInv, Decide \/ Block \/ WaitEnds \/ SetStop \/ StopStep PROVE IInv'
<1> USE DEF IInv, Typed, SessionsInOrder, StampsTell, StopperInv, PeersOfTheirSession
<1>1. CASE Decide \/ Block \/ WaitEnds
  BY <1>1 DEF Decide, Block, WaitEnds
<1>2. CASE SetStop
  BY <1>2 DEF SetStop, clientVars
<1>3. CASE NotifyAll
  BY <1>3 DEF NotifyAll
<1>4. CASE JoinWorker
  BY <1>4 DEF JoinWorker, clientVars
<1>5. CASE ClearSnapshot
  <2>1. snapshot' = Snapshot("DISABLED", Unread, 0) /\ "DISABLED" \in Connections
    BY <1>5 DEF ClearSnapshot, Connections
  <2> QED
    BY <1>5, <2>1, EmptySnapshot DEF ClearSnapshot
<1> QED
  BY <1>1, <1>2, <1>3, <1>4, <1>5 DEF StopStep

(* The table, and the Gateway on its own. *)
LEMMA OthersKeep ==
  ASSUME IInv, LocalTick \/ GatewayChanges PROVE IInv'
<1> USE DEF IInv, Typed, SessionsInOrder, StampsTell, StopperInv, PeersOfTheirSession
<1>1. CASE LocalTick
  BY <1>1 DEF LocalTick, clientVars
<1>2. CASE GatewayChanges
  <2>1. /\ gateway' \in [session : Nat, state : States]
        /\ gateway'.session >= gateway.session
    BY <1>2 DEF GatewayChanges
  <2> QED
    BY <1>2, <2>1 DEF GatewayChanges, clientVars
<1> QED
  BY <1>1, <1>2

-----------------------------------------------------------------------------
THEOREM Invariance == Spec => []IInv
<1>1. IInv /\ UNCHANGED vars => IInv'
  BY DEF vars, clientVars, IInv, Typed, SessionsInOrder, StampsTell, StopperInv,
         PeersOfTheirSession
<1>2. IInv /\ [Next]_vars => IInv'
  BY <1>1, QueryKeeps, PublishKeeps, WaitAndStopKeep, OthersKeep DEF Next, WorkerStep
<1> QED
  BY InitIInv, <1>2, PTL DEF Spec

(* The second status query is enough: peers are never published with the   *)
(* identity of another session, however often the Gateway restarts between *)
(* the queries, and the GUI's table never keeps those of another snapshot. *)
THEOREM PeersMatchSession == Spec => []PeersOfTheirSession
<1>1. IInv => PeersOfTheirSession
  BY DEF IInv
<1> QED
  BY Invariance, <1>1, PTL

(* No cycle publishes after Stop has cleared the snapshot.                 *)
THEOREM ClearedForGood == Spec => []StoppedStaysClear
<1>1. IInv => StoppedStaysClear
  BY DEF IInv, StopperInv, StoppedStaysClear
<1> QED
  BY Invariance, <1>1, PTL

=============================================================================
