---------------------------- MODULE LocalGateway ----------------------------
(***************************************************************************)
(* LocalGatewayClient (src/backend/local_gateway.cpp): a worker that reads *)
(* the host-local Gateway over a socket, three queries to a cycle, and     *)
(* publishes a snapshot; Stop; and the table the GUI fills from it         *)
(* (RemoteWorkspace::LocalTick).  The Gateway is external: it may restart  *)
(* or change its state between any two queries, and any query may fail.    *)
(* A response is identified by the session and state it was given in.      *)
(***************************************************************************)
EXTENDS Naturals

CONSTANTS
  States,      \* the states a Gateway reports
  MaxChanges,  \* bound: how often the Gateway changes
  MaxCycles    \* bound: how many snapshots the worker publishes

ASSUME GatewayAssumption ==
  /\ States # {} /\ MaxChanges \in Nat /\ MaxCycles \in Nat

VARIABLES
  gateway,   \* session and state of the Gateway
  changes,   \* how often gateway has changed
  worker,    \* where the thread running Run is
  next,      \* the snapshot under construction
  snapshot,  \* the published snapshot
  cycles,    \* how many were published; stands for observed_at_unix_ms
  stop,      \* the atomic stop
  stopper,   \* where the thread calling Stop is
  table      \* what the GUI shows: the snapshot's stamp and its peers

clientVars == <<worker, next, snapshot, cycles>>
vars == <<gateway, changes, clientVars, stop, stopper, table>>

Unread == [session |-> 0, state |-> "", peers |-> 0]

\* connection, the status read first, the session the peers were read in and
\* observed_at_unix_ms, which is zero unless the cycle succeeded.
Snapshot(connection, status, stamp) ==
  [connection |-> connection, session |-> status.session, state |-> status.state,
   peers |-> status.peers, observed |-> stamp]

Init ==
  /\ gateway \in [session : {1}, state : States]
  /\ changes = 0
  /\ worker = "loop"
  /\ next = Unread
  /\ snapshot = Snapshot("CONNECTING", Unread, 0)
  /\ cycles = 0
  /\ stop = FALSE
  /\ stopper = "idle"
  /\ table = [observed |-> 0, peers |-> 0]

-----------------------------------------------------------------------------
\* while(!stop)
BeginCycle ==
  /\ worker = "loop"
  /\ worker' = IF stop THEN "exited" ELSE "status"
  /\ next' = Unread
  /\ UNCHANGED <<gateway, changes, snapshot, cycles, stop, stopper, table>>

ReadStatus ==
  /\ worker = "status"
  /\ worker' = "peers"
  /\ next' = [next EXCEPT !.session = gateway.session, !.state = gateway.state]
  /\ UNCHANGED <<gateway, changes, snapshot, cycles, stop, stopper, table>>

ReadPeers ==
  /\ worker = "peers"
  /\ worker' = "again"
  /\ next' = [next EXCEPT !.peers = gateway.session]
  /\ UNCHANGED <<gateway, changes, snapshot, cycles, stop, stopper, table>>

\* A variant that trusts the first status.
TrustFirstStatus ==
  /\ worker = "again"
  /\ worker' = "ready"
  /\ next' = [next EXCEPT !.session = gateway.session, !.state = gateway.state]
  /\ UNCHANGED <<gateway, changes, snapshot, cycles, stop, stopper, table>>

\* The status again: -ESTALE unless session and state are the same.
CompareStatus ==
  /\ worker = "again"
  /\ worker' = IF next.session = gateway.session /\ next.state = gateway.state
               THEN "ready" ELSE "error"
  /\ UNCHANGED <<gateway, changes, next, snapshot, cycles, stop, stopper, table>>

\* A query fails, or Wait and Transfer see stop: -ECANCELED.
FailQuery ==
  /\ worker \in {"status", "peers", "again"}
  /\ worker' = "error"
  /\ UNCHANGED <<gateway, changes, next, snapshot, cycles, stop, stopper, table>>

\* Under the mutex: nothing is published once stop is seen.  A failed cycle
\* publishes an empty snapshot.
Publish ==
  /\ worker \in {"ready", "error"}
  /\ stop \/ cycles < MaxCycles
  /\ IF stop
     THEN worker' = "exited" /\ UNCHANGED <<snapshot, cycles>>
     ELSE /\ worker' = "deciding"
          /\ cycles' = cycles + 1
          /\ snapshot' = IF worker = "ready" THEN Snapshot("READY", next, cycles + 1)
                         ELSE Snapshot("ERROR", Unread, 0)
  /\ UNCHANGED <<gateway, changes, next, stop, stopper, table>>

\* cv.wait_for: the predicate is evaluated, then the thread blocks.  stop is
\* not written under the mutex, so it may be set in between.
Decide ==
  /\ worker = "deciding"
  /\ worker' = IF stop THEN "loop" ELSE "blocking"
  /\ UNCHANGED <<gateway, changes, next, snapshot, cycles, stop, stopper, table>>

Block ==
  /\ worker = "blocking"
  /\ worker' = "waiting"
  /\ UNCHANGED <<gateway, changes, next, snapshot, cycles, stop, stopper, table>>

\* A variant that waits without a time limit.
WaitOn == worker = "waiting" /\ FALSE /\ UNCHANGED vars

\* The second has passed.
WaitEnds ==
  /\ worker = "waiting"
  /\ worker' = "loop"
  /\ UNCHANGED <<gateway, changes, next, snapshot, cycles, stop, stopper, table>>

WorkerStep ==
  \/ BeginCycle \/ ReadStatus \/ ReadPeers \/ CompareStatus \/ FailQuery
  \/ Publish \/ Decide \/ Block \/ WaitEnds

-----------------------------------------------------------------------------
\* Stop, one line of it at a time.
SetStop ==
  /\ stopper = "idle"
  /\ stopper' = "set"
  /\ stop' = TRUE
  /\ UNCHANGED <<gateway, changes, clientVars, table>>

NotifyAll ==
  /\ stopper = "set"
  /\ stopper' = "notified"
  /\ worker' = IF worker = "waiting" THEN "loop" ELSE worker
  /\ UNCHANGED <<gateway, changes, next, snapshot, cycles, stop, table>>

\* A variant that detaches the worker.
DetachWorker ==
  /\ stopper = "notified"
  /\ stopper' = "joined"
  /\ UNCHANGED <<gateway, changes, clientVars, stop, table>>

JoinWorker ==
  /\ stopper = "notified" /\ worker = "exited"
  /\ stopper' = "joined"
  /\ UNCHANGED <<gateway, changes, clientVars, stop, table>>

ClearSnapshot ==
  /\ stopper = "joined"
  /\ stopper' = "returned"
  /\ snapshot' = Snapshot("DISABLED", Unread, 0)
  /\ UNCHANGED <<gateway, changes, worker, next, cycles, stop, table>>

StopStep == NotifyAll \/ JoinWorker \/ ClearSnapshot

-----------------------------------------------------------------------------
\* LocalTick: the table is filled anew when the stamp has changed.
LocalTick ==
  /\ snapshot.observed # table.observed
  /\ table' = [observed |-> snapshot.observed,
               peers |-> IF snapshot.connection = "READY" THEN snapshot.peers ELSE 0]
  /\ UNCHANGED <<gateway, changes, clientVars, stop, stopper>>

\* External: the Gateway restarts, or moves to another state.
GatewayChanges ==
  /\ changes < MaxChanges
  /\ changes' = changes + 1
  /\ \/ \E s \in States : gateway' = [session |-> gateway.session + 1, state |-> s]
     \/ \E s \in States \ {gateway.state} : gateway' = [gateway EXCEPT !.state = s]
  /\ UNCHANGED <<clientVars, stop, stopper, table>>

Next == WorkerStep \/ SetStop \/ StopStep \/ LocalTick \/ GatewayChanges

(***************************************************************************)
(* The worker runs on, as its queries and its wait are bounded in time,    *)
(* and so does a thread that has entered Stop.                             *)
(***************************************************************************)
Spec ==
  /\ Init /\ [][Next]_vars
  /\ WF_vars(WorkerStep) /\ WF_vars(StopStep) /\ WF_vars(LocalTick)

-----------------------------------------------------------------------------
(***************************************************************************)
(* Peers are published only with the session they were read in, although   *)
(* status and peers come from separate queries between which the Gateway   *)
(* may restart; and a table that has caught up shows just those, none when *)
(* there is no current snapshot.                                           *)
(***************************************************************************)
PeersOfTheirSession ==
  /\ snapshot.connection = "READY" => snapshot.peers = snapshot.session
  /\ table.observed = snapshot.observed => table.peers = snapshot.peers

(***************************************************************************)
(* After Stop the worker is gone and the snapshot stays cleared.           *)
(***************************************************************************)
StoppedStaysClear ==
  stopper = "returned" => worker = "exited" /\ snapshot = Snapshot("DISABLED", Unread, 0)

(***************************************************************************)
(* Stop returns, whatever the worker was doing.                            *)
(***************************************************************************)
StopReturns == stopper = "set" ~> stopper = "returned"

=============================================================================
