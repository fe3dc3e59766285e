--------------------------- MODULE NetworkObserver ---------------------------
(***************************************************************************)
(* One NetworkObserver (src/backend/network_backend.cpp) from its          *)
(* construction to its destruction, composed with its RemoteExecutor: the  *)
(* thread of Run, which owns Discovery and builds the executor; the thread *)
(* that takes network_ away and destroys the observer; and the GUI thread  *)
(* submitting commands.  Each of the three holds the shared executor for a *)
(* while, and whichever releases it last stops and destroys it.            *)
(***************************************************************************)
EXTENDS RemoteExecutor

CONSTANTS
  Privileged,  \* the requests other than Subscribe, Unsubscribe and Poll
  Explicit     \* options.host_id was given

ASSUME ObserverAssumption ==
  /\ Privileged \subseteq Requests
  /\ Stoppers = {"destructor", "run", "release"}
  /\ Explicit \in BOOLEAN

VARIABLES
  run,        \* where Run is
  owner,      \* where StopNetwork and ~NetworkObserver are
  stop,       \* stop_
  discovery,  \* the life of Run's PeerDiscovery
  runtime,    \* the life of the executor and its RemoteRuntime
  holders,    \* the threads that hold the executor's shared_ptr
  gui,        \* where Submit is; past "idle" it holds network_mutex_ and mutex_
  published,  \* remote_ refers to the executor
  explicit,   \* snapshot_.explicit_control_identity
  refused,    \* requests answered with -EACCES or -ENOTCONN
  thrown      \* ghost: an exception has left an iteration of Run

marks == <<explicit, refused, thrown>>
observerVars == <<run, owner, stop, discovery, runtime, holders, gui, published, marks>>
allVars == <<vars, observerVars>>

RunAt   == {"starting", "building", "publishing", "loop", "query", "waiting",
            "stopping", "ending", "unwinding", "destroying", "failed", "ended"}
GuiAt   == {"idle", "holding", "destroying"}
OwnerAt == {"using", "taken", "signalled", "holding", "stopping",
            "destroying", "joining", "done"}

ObserverInit ==
  /\ Init
  /\ run = "starting" /\ owner = "using"
  /\ stop = FALSE
  /\ discovery = "none" /\ runtime = "none"
  /\ holders = {}
  /\ gui = "idle"
  /\ published = FALSE /\ explicit = FALSE
  /\ refused = {}
  /\ thrown = FALSE

-----------------------------------------------------------------------------
\* KcfBackend::SubmitRemote and NetworkObserver::Submit.
Fresh(r) == gui = "idle" /\ reply[r] = "none" /\ r \notin refused

Reachable == published /\ holders # {}

Refuse(r) ==
  /\ Fresh(r)
  /\ \/ owner # "using"
     \/ r \in Privileged /\ ~explicit
     \/ ~Reachable
  /\ refused' = refused \cup {r}
  /\ UNCHANGED <<vars, run, owner, stop, discovery, runtime, holders, gui, published,
                 explicit, thrown>>

\* The executor is locked and asked.  Its reference is released, as the last
\* one perhaps, before mutex_ is.
Forward(r) ==
  /\ Fresh(r)
  /\ owner = "using"
  /\ r \in Privileged => explicit
  /\ Reachable
  /\ Submit(r)
  /\ gui' = "holding"
  /\ holders' = holders \cup {"gui"}
  /\ UNCHANGED <<run, owner, stop, discovery, runtime, published, marks>>

\* A reference is released; the last holder runs ~RemoteExecutor, which calls
\* Stop once more.
Release(t) ==
  /\ holders' = holders \ {t}
  /\ IF holders = {t} THEN CallStop("release") ELSE UNCHANGED vars

GuiReleases ==
  /\ gui = "holding"
  /\ Release("gui")
  /\ gui' = IF holders = {"gui"} THEN "destroying" ELSE "idle"
  /\ UNCHANGED <<run, owner, stop, discovery, runtime, published, marks>>

GuiDestroysExecutor ==
  /\ gui = "destroying" /\ gui' = "idle"
  /\ stopper["release"] = "returned"
  /\ runtime' = "destroyed"
  /\ UNCHANGED <<vars, run, owner, stop, discovery, holders, published, marks>>

GuiStep == GuiReleases \/ GuiDestroysExecutor

-----------------------------------------------------------------------------
\* Run.  A failure of the identity, the host ID or discovery.Start ends it.
MoveRun(from, to) == run = from /\ run' = to

StartDiscovery ==
  /\ run = "starting"
  /\ \/ run' = "building" /\ discovery' = "running"
     \/ run' = "ended" /\ discovery' = "destroyed"
  /\ UNCHANGED <<vars, owner, stop, runtime, holders, gui, published, marks>>

\* make_shared<RemoteExecutor>: the control worker starts here.
BuildExecutor ==
  /\ MoveRun("building", "publishing")
  /\ runtime' = "alive"
  /\ holders' = {"run"}
  /\ UNCHANGED <<vars, owner, stop, discovery, gui, published, marks>>

PublishExecutor ==
  /\ MoveRun("publishing", "loop")
  /\ published' = TRUE
  /\ UNCHANGED <<vars, owner, stop, discovery, runtime, holders, gui, marks>>

CheckStop ==
  /\ run = "loop" /\ gui = "idle"
  /\ run' = IF stop THEN "stopping" ELSE "query"
  /\ UNCHANGED <<vars, owner, stop, discovery, runtime, holders, gui, published, marks>>

\* One cycle: discovery and the diagnostics query without the lock, then the
\* snapshot under it.
PublishSnapshot ==
  /\ MoveRun("query", "waiting") /\ gui = "idle"
  /\ explicit' = Explicit
  /\ UNCHANGED <<vars, owner, stop, discovery, runtime, holders, gui, published, refused,
                 thrown>>

\* wake_.wait_until returns at the next 100 ms, or earlier when stop_ is set.
EndWait ==
  /\ run = "waiting" /\ gui = "idle"
  /\ run' = IF stop THEN "stopping" ELSE "loop"
  /\ UNCHANGED <<vars, owner, stop, discovery, runtime, holders, gui, published, marks>>

\* A variant that stops discovery before the executor.
RunStopsDiscoveryFirst ==
  /\ run = "stopping"
  /\ CallStop("run")
  /\ discovery' = "stopped"
  /\ UNCHANGED <<run, owner, stop, runtime, holders, gui, published, marks>>

RunStops ==
  /\ run = "stopping"
  /\ CallStop("run")
  /\ UNCHANGED observerVars

StopDiscovery ==
  /\ MoveRun("stopping", "unwinding")
  /\ stopper["run"] = "returned"
  /\ discovery' = "stopped"
  /\ UNCHANGED <<vars, owner, stop, runtime, holders, gui, published, marks>>

\* An exception out of an iteration goes straight to the unwinding.
Throw ==
  /\ MoveRun("query", "unwinding")
  /\ thrown' = TRUE
  /\ UNCHANGED <<vars, owner, stop, discovery, runtime, holders, gui, published, explicit,
                 refused>>

\* executor, declared after discovery, is released first.
RunReleases ==
  /\ run = "unwinding"
  /\ Release("run")
  /\ run' = IF holders = {"run"} THEN "destroying" ELSE "ending"
  /\ UNCHANGED <<owner, stop, discovery, runtime, gui, published, marks>>

RunDestroysExecutor ==
  /\ MoveRun("destroying", "ending")
  /\ stopper["release"] = "returned"
  /\ runtime' = "destroyed"
  /\ UNCHANGED <<vars, owner, stop, discovery, holders, gui, published, marks>>

DestroyDiscovery ==
  /\ run = "ending"
  /\ run' = IF thrown THEN "failed" ELSE "ended"
  /\ discovery' = "destroyed"
  /\ UNCHANGED <<vars, owner, stop, runtime, holders, gui, published, marks>>

\* The handler says under mutex_ that discovery has failed.
ReportFailure ==
  /\ MoveRun("failed", "ended") /\ gui = "idle"
  /\ UNCHANGED <<vars, owner, stop, discovery, runtime, holders, gui, published, marks>>

RunStep ==
  \/ StartDiscovery \/ BuildExecutor \/ PublishExecutor
  \/ CheckStop \/ PublishSnapshot \/ EndWait
  \/ RunStops \/ StopDiscovery
  \/ RunReleases \/ RunDestroysExecutor \/ DestroyDiscovery \/ ReportFailure

-----------------------------------------------------------------------------
\* StopNetwork takes network_ under network_mutex_ and drops it outside.  No
\* Submit is under way from then on, so the destructor finds mutex_ free.
MoveOwner(from, to) == owner = from /\ owner' = to

TakeNetwork ==
  /\ MoveOwner("using", "taken") /\ gui = "idle"
  /\ UNCHANGED <<vars, run, stop, discovery, runtime, holders, gui, published, marks>>

\* A variant of the destructor that wakes Run without setting stop_.
SignalNothing ==
  /\ MoveOwner("taken", "signalled")
  /\ UNCHANGED <<vars, run, stop, discovery, runtime, holders, gui, published, marks>>

\* ~NetworkObserver: stop_ is set under mutex_ and Run notified.
SignalStop ==
  /\ MoveOwner("taken", "signalled")
  /\ stop' = TRUE
  /\ UNCHANGED <<vars, run, discovery, runtime, holders, gui, published, marks>>

\* A variant with a plain pointer in place of the weak_ptr.
LockPointer ==
  /\ owner = "signalled"
  /\ IF published
     THEN owner' = "holding" /\ holders' = holders \cup {"destructor"}
     ELSE owner' = "joining" /\ UNCHANGED holders
  /\ UNCHANGED <<vars, run, stop, discovery, runtime, gui, published, marks>>

\* remote_.lock(): there may be no executor yet, or no longer.
LockExecutor ==
  /\ owner = "signalled"
  /\ IF Reachable
     THEN owner' = "holding" /\ holders' = holders \cup {"destructor"}
     ELSE owner' = "joining" /\ UNCHANGED holders
  /\ UNCHANGED <<vars, run, stop, discovery, runtime, gui, published, marks>>

DestructorStops ==
  /\ MoveOwner("holding", "stopping")
  /\ CallStop("destructor")
  /\ UNCHANGED <<run, stop, discovery, runtime, holders, gui, published, marks>>

DestructorReleases ==
  /\ owner = "stopping" /\ stopper["destructor"] = "returned"
  /\ Release("destructor")
  /\ owner' = IF holders = {"destructor"} THEN "destroying" ELSE "joining"
  /\ UNCHANGED <<run, stop, discovery, runtime, gui, published, marks>>

DestructorDestroysExecutor ==
  /\ MoveOwner("destroying", "joining")
  /\ stopper["release"] = "returned"
  /\ runtime' = "destroyed"
  /\ UNCHANGED <<vars, run, stop, discovery, holders, gui, published, marks>>

\* A variant that detaches Run's thread.
DetachRun ==
  /\ MoveOwner("joining", "done")
  /\ UNCHANGED <<vars, run, stop, discovery, runtime, holders, gui, published, marks>>

JoinRun ==
  /\ MoveOwner("joining", "done")
  /\ run = "ended"
  /\ UNCHANGED <<vars, run, stop, discovery, runtime, holders, gui, published, marks>>

OwnerStep ==
  \/ SignalStop \/ LockExecutor \/ DestructorStops
  \/ DestructorReleases \/ DestructorDestroysExecutor \/ JoinRun

-----------------------------------------------------------------------------
ExecutorStep ==
  /\ runtime = "alive"
  /\ WorkerStep \/ \E s \in Stoppers : StopStep(s)
  /\ UNCHANGED observerVars

ObserverNext ==
  \/ (\E r \in Requests : Refuse(r) \/ Forward(r)) \/ GuiStep
  \/ RunStep \/ Throw
  \/ TakeNetwork \/ OwnerStep
  \/ ExecutorStep
  \/ runtime = "alive" /\ SpuriousWakeup /\ UNCHANGED observerVars

(***************************************************************************)
(* Every thread keeps running: Run because its query, its wait and its     *)
(* Stop are bounded, the destroying thread once it has begun, the GUI      *)
(* thread inside Submit, the control worker and the threads inside         *)
(* RemoteExecutor::Stop.                                                   *)
(***************************************************************************)
ObserverSpec ==
  /\ ObserverInit /\ [][ObserverNext]_allVars
  /\ WF_allVars(RunStep)
  /\ WF_allVars(OwnerStep)
  /\ WF_allVars(GuiStep)
  /\ WF_allVars(runtime = "alive" /\ WorkerStep /\ UNCHANGED observerVars)
  /\ \A s \in Stoppers :
       WF_allVars(runtime = "alive" /\ StopStep(s) /\ UNCHANGED observerVars)

-----------------------------------------------------------------------------
(***************************************************************************)
(* The places of the threads and the lives of the objects; nobody holds an *)
(* executor that is not there, although the destructor asks for it at any  *)
(* time.                                                                   *)
(***************************************************************************)
ObserverTypeOK ==
  /\ run \in RunAt /\ owner \in OwnerAt
  /\ stop \in BOOLEAN /\ published \in BOOLEAN /\ explicit \in BOOLEAN
  /\ discovery \in {"none", "running", "stopped", "destroyed"}
  /\ runtime \in {"none", "alive", "destroyed"}
  /\ holders \subseteq {"run", "destructor", "gui"}
  /\ gui \in GuiAt
  /\ holders # {} => runtime = "alive"
  /\ refused \subseteq Requests
  /\ thrown \in BOOLEAN

(***************************************************************************)
(* Inside the observer, the executor behaves as RemoteExecutor specifies:  *)
(* each of the three callers of Stop calls it at most once, and everything *)
(* proved of the executor holds here.                                      *)
(***************************************************************************)
ExecutorSafety == Init /\ [][Next]_vars

(***************************************************************************)
(* When StopNetwork returns, nothing of the observer is left: Run and the  *)
(* control worker have ended, runtime and discovery are destroyed, and     *)
(* every command ever submitted has its answer.  This holds although the   *)
(* destructor may find no executor that Run is just about to publish.      *)
(***************************************************************************)
StopLeavesNothing ==
  owner = "done" =>
    /\ run = "ended" /\ discovery = "destroyed" /\ runtime # "alive"
    /\ holders = {}
    /\ runtime = "destroyed" => worker = "exited"
    /\ \A r \in Requests : reply[r] \notin Pending

(***************************************************************************)
(* Control I/O, queue and topics are stopped before discovery: no command  *)
(* is executed on a discovery that is stopped or gone, unless Run was left *)
(* by an exception, which skips executor->Stop() while the destructor may  *)
(* hold the executor.                                                      *)
(***************************************************************************)
DiscoveryStopsLast == worker = "executing" => discovery = "running" \/ thrown

(***************************************************************************)
(* StopNetwork returns, whatever Run was doing when it was called.         *)
(***************************************************************************)
StopNetworkReturns == owner = "taken" ~> owner = "done"

=============================================================================
