# KCF Tools: verification development

TLA+ models of the concurrent and distributed parts of KCF Tools, the Qt desktop
tool that observes and operates the runtimes of the KCF framework, on this machine
and on other hosts, and of the conversions they rest on. The models are checked with TLC
on small instances; the safety properties of every run, among them two refinements, are
also proved with TLAPS for every value of their constants.

All paths below are relative to the repository. `tlc -config X.cfg M` runs a
check, `tlapm XProofs.tla` the proofs of `X`.

## 1. The system

### Components, their state and their operations

| Component | Source | State | Operations |
|---|---|---|---|
| Remote command executor | `backend/remote_runtime.hpp` | queue of at most 32 jobs, their promises, `stopping_`, worker thread, two mutexes | `Submit`, `Run` (worker), `Stop` |
| Remote runtime | `backend/remote_runtime.cpp` | subscriptions and actions by handle, clients of the framework | `Execute`: Read, Set, Call, Goal, Cancel, Subscribe, Unsubscribe, Poll |
| Network observer | `backend/network_backend.cpp` | discovery, weak and strong references to the executor, published snapshot, `stop_` | construction, `Run`, `Submit`, destruction |
| Network diagnostics | `backend/network_backend.cpp` | a cached result per host, a rotating cursor | `Reconcile`, one query per cycle, publication |
| Rates | `backend/network_rates.hpp`, `ui/remote_workspace.cpp`, `ui/main_window.cpp` | samples per route, per subscription, of the echo | `Observe`, the poll, `PollEcho` |
| Local gateway client | `backend/local_gateway.cpp` | worker, published snapshot, atomic `stop` | three queries per cycle, publish, `Stop` |
| Local backend | `backend/kcf_backend.cpp` | records of what Refresh listed, the open echo session | `Refresh`, topic echo, parameter Get/Set, service Call, validation |
| Remote workspace | `ui/remote_workspace.cpp` | a panel per page, futures in flight, poll, history of goals, dialogs, configuration | `Tick`, `Select`, `Request`, `Configure`, `Cancel`, `BeginClose`, `LocalTick` |
| Main window | `ui/main_window.cpp` | selections, parameter form and its edits, echo timer, service thread | `Refresh`, echo, Get/Edit/Apply/Revert, Call, close |
| Graphs | `ui/graph_model.cpp`, `ui/network_graph_model.cpp`, `ui/graph_widget.cpp` | none: functions of snapshots, options and time | `BuildGraph`, `AddRemoteGraph`, `AddVerifiedRoutes`, `TopicDiagnostics` |
| Value codec | `backend/value_codec.cpp` | none | text to bytes and back |
| Mock backend | `backend/mock_backend.cpp` | texts of parameters, sample counts, echo session | the operations of `ToolBackend`, with checks of its own |
| Stub backend, entry point | `backend/kcf_backend_stub.cpp`, `main.cpp` | none | |

### How they interact

    GUI thread                      threads                          elsewhere
    ----------                      -------                          ---------
    MainWindow --calls--> KcfBackend (local) ----framework IPC----> runtimes on this host
        |  \--service call--> QThread --^
        |
    RemoteWorkspace --SubmitRemote--> NetworkObserver::Submit --> RemoteExecutor queue
        ^   futures of RemoteReply                                     |
        |                                                  control worker: RemoteRuntime::Execute
        |                                                              |  framework, UDP
        +--GetNetworkSnapshot-- snapshot_ <-- NetworkObserver::Run     v
                                               |   |              Gateways of other hosts
                                               |   +- diagnostics query, RateTracker
                                               +----- PeerDiscovery
    RemoteWorkspace::LocalTick <-- snapshot <-- LocalGatewayClient worker --> Gateway socket

The GUI thread never waits for the network: commands go into the executor's queue
and come back as futures that a 100 ms timer (`Tick`) reads. Configuration of the
network runs in a `std::async` of its own and replaces the observer. Local calls
are made on the GUI thread, except a service call.

### What is hard here

* Three threads stop the executor: the observer's destructor, the end of `Run`, and
  the destructor of the executor itself, run by whoever drops the last reference.
* A reply is read up to a tick after it was set, by a panel that may have moved to
  another endpoint, another peer generation or another observer.
* Replies and poll results are read one after the other while the worker is setting
  more of them.
* Modal dialogs run a nested event loop: `Tick` goes on inside `Select`.
* Local endpoints are opened by name, while identities are process start ticks and
  registration numbers: the name may have changed hands between two calls.
* Bytes are shown as text and typed text is written as bytes, over what was there.
* Each Gateway query and each listing of runtimes is a snapshot at a time of its own.
* Everything on the other side may restart, be lost or answer late.

`PROJECT.json` lists each hazard at its line with the properties that cover it, or
why none does.

## 2. Modules

| Module | Models | Extends |
|---|---|---|
| `RemoteRequests` | the abstract service: accepted requests are answered in order, each once; closing is final | |
| `RemoteExecutor` | `RemoteExecutor`, critical section by critical section | |
| `NetworkObserver` | the observer's life and its executor's | `RemoteExecutor` |
| `RemoteRuntime` | `Execute`, every branch; the peers as external | |
| `RemoteWorkspace` | the GUI side, composed with the runtime | `RemoteRuntime` |
| `DiagnosticsWorker` | the diagnostics cycle | |
| `RateTracker` | the three rate meters, on counters of fixed width | |
| `LocalGateway` | client, Gateway and the GUI's table | |
| `ToolBackend` | the abstract contract between a user and a backend: one operation at a time, one echo session that somebody reads | |
| `LocalBackend` | the local operations, call by call, and the runtime under them | |
| `MainWindow` | the GUI handlers on the local backend | `LocalBackend` |
| `ValueCodec` | `Decode` and `Encode`, down to bytes | |
| `ParameterValue` | a caller's snapshot against a stored parameter, through the codec | `ValueCodec` |
| `MockBackend` | the mock's operations | `ParameterValue` |
| `LocalGraph` | `BuildGraph` | |
| `RemoteGraph` | graph, verified routes, route detail; Gateways, discovery and time | `LocalGraph` |
| `DiagnosticsProofs`, `LocalGatewayProofs`, `RateProofs`, `RemoteWorkspaceProofs`, `RemoteGraphProofs` | theorems and proofs | the module named |
| `RemoteExecutorProofs` | theorems and proofs about the executor, alone and inside the observer | `NetworkObserver` |
| `BackendProofs` | theorems and proofs about the codec, the parameter and the mock | `MockBackend` |
| `MainWindowProofs` | theorems and proofs about the window on the local backend, and its refinement of `ToolBackend` | `MainWindow` |

Each `MC...` module gives the constants small values. `PROJECT.json` maps every
definition to its lines.

### Executor and observer

`Submit`, the predicate of the worker's wait, the taking of a job, the drain and
each step of `Stop` are single actions because each is one critical section, or one
step between two. The worker's sleep is separate from the test of its predicate and
there are spurious wakeups. A promise's state is `reply`; a thread's place is
`worker` or `stopper[s]`; `stop_mutex_` has a holder, `mutex_` needs none as it is
never held across two actions.

The observer adds the place of `Run` and of the destroying thread, who holds the
executor's `shared_ptr`, and the life of discovery and runtime; exceptions may leave
any iteration of `Run`. The executor's third caller of `Stop` is whoever destroys it.
That can be the GUI thread: `Submit` takes a reference of its own out of the weak
pointer, under `mutex_`, and if Run and the destructor let go meanwhile it is the last
(`gui`). As `mutex_` is then held across several steps, the actions that lock it wait
for `gui = "idle"`.

### Runtime and workspace

The executor is reduced to its queue here: `inbox`, emptied by `Execute` in order, or
by taking the observer down. A panel is a record of the endpoint selected, the
subscription held, whether edits are pending, the endpoint whose value is shown, and
the subscription whose output is shown. `revision` and `epoch` occur only in
comparisons "unchanged since submission"; the model keeps the outcome of the
comparison in the request (`Revised` marks those in flight when a panel is cleared).
`Tick` is split where it reads shared state: the snapshot, each future, the poll. A
dialog is a state (`asking`) in which only Tick and the answer can happen. A list shows
the endpoints seen in a fixed order, `Place`, of which those in the list take the first
rows. `floor` is a ghost: the first handle that can be given out after the settings were
last changed.

### Diagnostics, rates, local gateway

Peers are read only where the code calls `GetPeers`, so a host can restart while its
query is out. A meter is one of three ways to turn samples of a counter into a rate:
`meter` says which, its state is the samples kept, and one source stands for all, as
no meter mixes two. Rates use the code's unsigned difference modulo `2^Width`; ghosts
remember how far counters really grew. The local gateway is read by three queries
between which it may restart or change.

### Local backend and main window

Every backend operation is a plan: the sequence of its framework calls (`EchoPlan`,
`GetPlan`, `SetPlan`, `CallPlan`, ...). Between two calls the runtime may exit, crash and
leave its memory, be restarted under the same pid, or create an endpoint again. An
identity is the life of the process and the registration number; `Open` attaches to
whatever memory has the name. A GUI handler that makes several calls continues from
`todo`; no other handler of the GUI thread runs before it has ended. The service call
is a second thread. Navigation from the graph and from the element page is a guarded
selection.

`MainWindow!Contract` is `ToolBackend` with the threads in a handler or an operation as
`users`, the session the backend has open, the echo timer as `polling` and the sample on
display: every step of the window is a step of it or a stutter. It is what the header
asks of a user ("operations are serialized", one persistent session) and promises in
return, and the window meets it only because every handler stops the echo before any
other operation and refuses to act while a service call is out.

### Values

A byte is a cell of `ByteValues` values, 256 in the code, and a text is what the parsers
tell apart: a number, a number with a rest, a floating-point value as its bytes, a boolean,
nothing, something else. Memory, offsets, arrays, ranges and two's complement are as in the
code, so the order of the two range checks (against the 64-bit type, then the field's) and
the bytes between fields are there. Descriptors are those the framework's
`ValidateTypeDescriptor` accepts, which the codec asks first: fields with names of their
own, in the bounds of the payload and beside each other, as the members of a structure are
(`DescriptorAssumption`). The caller
reads, changes a text, hands over its snapshot or a misshapen one; another client
writes bytes meanwhile. The same caller drives the mock, whose parameters hold texts.

### Graphs

The graph is an operator of the snapshot, the options and the time, and the
properties speak of a graph drawn in any state. Gateways hold their halves of a
route independently; discovery, queries and time proceed in any order. The window's
copy of the snapshot needs no variable: a window that has not refreshed draws what it
would draw of an observer that has heard nothing for as long.

## 3. Checks

Every run takes less than two minutes on two cores.

| Run | Instance | Shows |
|---|---|---|
| `executor` | 4 commands, 2 stopping threads, queue of 2 | no command lost, doubled or out of order; Stop leaves quiet and returns; refinement of `RemoteRequests`; every accepted command is answered |
| `observer` | 2 commands, one privileged; the three callers of Stop; queue of 1 | nothing is left after `StopNetwork`, which returns; discovery stops last unless an iteration threw |
| `workspace_handles` | a topic and an action, 5 clicks, 1 change of the peers, history of 2 | outputs are of the subscription held; no subscription without owner while discovery is quiet; no goal is shown as ended too early or brought back after its observer went |
| `workspace_parameter` | 2 endpoints, 4 clicks, 1 change | a value is shown under the endpoint it is of; busy panels are freed; closing closes |
| `local_gateway` | 2 states, 3 changes, 4 cycles | peers are published and shown with the session they are of; nothing is published after Stop, which returns |
| `diagnostics` | 2 hosts, one restart each | diagnostics belong to the generation published; no host starves |
| `rates` | each meter; two counters of 2 bits, window 2, horizon 3, depth 3, time to 6 | rates never overstate, never span a gap, are exact without a restart |
| `window_echo` | a topic and a service, 4 changes | an echo is of the registration asked for and ends with its publisher; refinement of `ToolBackend` |
| `window_parameter` | 2 parameters of 2 fields, 3 changes | Apply keeps what was not edited; the form belongs to the selection |
| `graphs` | 2 hosts, 2 sessions each, a route, 3 changes, freshness of 1 in a time of 3 | a drawn route was active on both sides; filters only hide; "no route" is never said of a truncated answer |
| `backends` | bytes of 4 values; fields of 1 and 2 bytes of each sort, an array, padding; 6 texts, 7 distortions | what is stored reads back as what was typed; unedited values write back their bytes; failures change nothing; the mock accepts what the codec accepts |
| `selects_what_was_clicked` | 2 endpoints, 4 clicks, 1 change | expected to fail, see section 6 |

**Why these bounds are enough.** The interesting executions need a few actors, not
many: two stopping threads are the least that can meet in `join`, and two commands
beyond the queue's capacity the least that fill it while one is executed. Two
endpoints let a late reply meet another selection; three clicks select, request and
select again, the rest leave room for a reconfiguration or a closing between. Each
model's mutants (`PROJECT.json`) show that the bounds reach the states in question:
every property is violated within the same bounds once one plausible error is put
into the code's definition. `Capacity` is 2 or 1 where fullness matters and 6 in
the workspace, whose panels have at most a request each and one poll. The history has a
limit of 2, so that eviction happens. Counters are of 2 bits, so that they wrap, and the
echo's depth is reached before its horizon on some paths and after it on others. Bytes
have 4 values, so that numbers outside a type's range, in the wide type's and outside
that as well are all among the texts.

`CHECK_DEADLOCK FALSE` is set in every run but `backends`: those systems really stop (its window
is closed, its threads have exited, a bounded world has no changes left).

**Fairness.** Assumed are: a started thread goes on (`WorkerStep`, `StopStep`, `Run`,
`GuiStep`, `NetworkStep`), every framework call returns (each has a timeout, and CancelIO ends
waits early), the GUI's timers fire while its event loop runs (`TickStep`, strongly
fair `PollEcho` and `Finished`, because the event loop takes them in turn with user
events), and in `DiagnosticsWorker` discovery is not in error for ever (strong
fairness of the cycle that sends a query). Nothing is assumed of users, peers,
Gateways, spurious wakeups or exceptions.

## 4. Proofs

Every theorem holds for all values of the constants that satisfy the module's named
assumption (`ExecutorAssumption`, `ObserverAssumption`, ...), which say little: sizes are
numbers, marks such as `NoJob` are no members of the sets they are told from. In
particular no bound of section 3 is used.

| Module | Theorem | Says |
|---|---|---|
| `RemoteExecutorProofs` | `TypeCorrect` | `Spec => []TypeOK`, with the queue's limit |
| | `AnsweredFromOnePlace` | `Spec => []ExactlyOnePlace` |
| | `StopIsFinal` | `Spec => [](QuietAfterStop /\ TopicsOutliveWorker)`; the second conjunct, no command on a stopped topic client, is stated only here |
| | `JoinIsExclusive` | `Spec => []OneJoiner`, stated only here |
| | `RefinesService` | `Spec => ImplementsService`: every step maps to a step of `RemoteRequests` or a stutter |
| | `ExecutorInside` | `ObserverSpec => ExecutorSafety`: what was proved of the executor holds inside the observer |
| | `HoldersHoldLiving` | `ObserverSpec => []ObserverTypeOK` |
| | `NothingLeft` | `ObserverSpec => []StopLeavesNothing` |
| | `DiscoveryOutlivesCommands` | `ObserverSpec => []DiscoveryStopsLast` |
| `DiagnosticsProofs` | `EveryPeerHasAnEntry` | `Spec => []TypeOK`: `cache.at` does not throw |
| | `DiagnosticsAreCurrent` | `Spec => []DiagnosticsOfGeneration` |
| `LocalGatewayProofs` | `PeersMatchSession` | `Spec => []PeersOfTheirSession` |
| | `ClearedForGood` | `Spec => []StoppedStaysClear` |
| `RateProofs` | `RatesAreModest`, `RatesAreExact`, `GapsEndMeasurements` | the three properties of the run, for each meter |
| `MainWindowProofs` | `Invariance` | `Spec => []Inv`: the rows of the lists are of records, and each operation has established what its place in its plan says |
| | `OpensTheTarget` | `Spec => []OpenedIsTarget` |
| | `FormIsOfSelection` | `Spec => []FormOfSelection` |
| | `ApplyKeepsUnedited` | `Spec => UneditedFieldsKept` |
| | `KeepsContract` | `Spec => EchoContract`: every step of the window maps to a step of `ToolBackend` or a stutter |
| `RemoteWorkspaceProofs` | `TypeCorrect` | `Spec => []TypeOK` |
| | `ShownIsSelected` | `Spec => []ShownBelongsToSelection` |
| | `ValueIsHeld` | `Spec => []ValueOfHeldSubscription` |
| | `EndedHasFinished` | `Spec => []NoFalseCompletion` |
| | `DetachedStaysUnknown` | `Spec => []UnknownAfterDetach` |
| | `SubscriptionsHaveOwners` | `Spec => []NoOrphanSubscription` |
| | `QueueStaysShort` | `Spec => []QueueIsShort`, stated only here: the workspace never has more commands queued than panels, poll and one cleanup |
| `RemoteGraphProofs` | `RoutesWereActive` | `Spec => []RouteWasActive` |
| | `AbsenceIsKnown` | `Spec => []AbsentWasAbsent` |
| | `FiltersHide` | `Spec => []FiltersOnlyHide` |
| `BackendProofs` | `UnchangedByRoundTrip` | `ParameterSpec => []UneditedWritesBack` |
| | `WritesShow` | `ParameterSpec => SetsWhatItShows` |
| | `FailedCallsKeepOutput` | `ParameterSpec => FailureKeepsOutput` |
| | `MockIsATrueDouble` | `MockSpec => []MockAgrees` |
| | `MockFailuresKeepOutput` | `MockSpec => FailureKeepsOutput` |

No property is inductive; each module has a stronger invariant (`IInv`), a lemma or
step per action that keeps it, and `Invariance` from these.

**Executor.** `IInv == TypeOK /\ ExactlyOnePlace /\ WorkerInv /\ StopperInv`.
`QuietAfterStop` does not say why a worker that has exited left no promise open.
`WorkerInv` does: the worker has a job exactly while executing, and once it has exited
the queue is empty and stays so because `stopping` refuses submissions. `StopperInv` ties
the place of every stopping thread to `stop_mutex_`, `stopping`, `joinable` and the worker:
only its holder is inside, whoever passed the raise has set `stopping`, and `joinable`
goes only with an exited worker. The refinement mapping is: the outstanding requests are
the job in the worker's hands followed by the queue, the answer is `reply` with "pending"
read as none yet, the service is closed when `stopping` is.

**Observer.** Every step of the observer is a step of the executor or leaves it alone
(`ObserverStepsExecutor`), so `IInv` holds in it. `ObserverInv` adds who holds a reference,
read off the places of the three threads (`HoldersInv`); that the executor lives until the
one thread that released it last has destroyed it, which the count of references alone
does not say (`RuntimeInv`); and that discovery stops only after Run's own `Stop` has
returned or an exception was thrown (`DiscoveryInv`).

**Diagnostics.** The entry published with a peer is of its generation because both ways
to the publication reconcile the cache with the worker's copy of the peers
(`Reconciling`); `ReconciledProperties` says what Reconcile leaves, whatever the cache
held before.

**Local gateway.** Sessions only grow; what the first status said, the session of the
peers and what the Gateway has now lie in that order (`SessionsInOrder`), so a second
status equal to the first leaves room for one session only. Stamps are unique among
snapshots with peers (`StampsTell`), so the table, which compares stamps, is never kept
for a snapshot it does not show.

**Rates.** `Sound(s)` relates a kept sample to the present: counters have advanced by no
more than what really happened since, and by just that without a restart. A measurement
is taken from a sample the counters are not below; that its difference does not wrap is
`DifferenceExact`. That no kept sample is above a later one makes the check against the
latest enough for the echo, which measures from the oldest (`Good`).

**Main window.** `Open` goes by name, so after it the handle may be of a registration
made since. What saves the operation is an order: registrations of a name are made one
after the other, memory under a name is never of one later than the newest
(`WorldInv`), and what is opened after a successful check is the target or a later one
(`NotBefore`). The second check finds the target registered, hence newest, so the
handle can be no later either. `CallInv` says this by the part of the plan that is left:
`Begun`, `Validated`, `Attaching`, `Confirmed`. `RowsInv` says what a handler in the
middle of its operations (`todo`) has left to do, and that the rows it goes on with are
of records; without it the operations would have no target. For the form, `FormInv` adds
that it may show another row's value only while a handler is about to fill it (`ToShow`),
when there are no edits pending, and that a value under way is of the row selected, as
only a listing replaces the records (`CallsKeepTarget`). For Apply, `FieldsInv` follows the
value from the form to the write: a read that is under way was read from the row selected
(`ReadInv`), and as long as nobody else has written since, what is about to be written
agrees with the memory it goes to in every field that was not edited (`WriteInv`).

**Contract.** The mapping takes whether the timer runs, the session of the backend and
the threads inside. Between the backend's keeping of a session and the start of the timer
the window has a session it does not poll: `EchoInv` allows that only in a `Trial`, the
handler of the echo button, whose last call alone keeps one; and it ties `busy`, the
flag that closes the other handlers, to the service thread, with no session and no handler
under way. That only the echo's plan keeps a session is `EchoPlansNext` and
`OtherPlansNext`.

**Workspace.** `WorkspaceInv` has a part for each property, on top of `TypeInv`: types; a
panel or the poll has at most one command, in the queue or answered in its future
(`OneCommandEach`); a handle is given out once (`GivenOut`).
* A form that was cleared or left forgets the replies under way (`same`, `unrevised`), so a
  value on its way to one that was not comes from the endpoint still selected
  (`ShownInv`). This is where the comparison with `revision` is needed.
* Outputs are of the subscription held, because a panel that has a Subscribe out holds none
  (`HeldInv`).
* What a poll reports as terminal has finished (`EndedInv`): the runtime sets it from the
  framework, never from an acknowledged Cancel.
* After a configuration, replies and poll results that still count, and the actions of the
  new runtime, have handles of at least `floor` (`DetachedInv`). A poll counts only while no
  configuration is under way, as `Configure` drops it.
* `OrphanInv` follows a subscription from the Subscribe to its end. Its handle is in a
  future only as the reply to a Subscribe, whose endpoint was current when it succeeded
  (`RepliesInv`) and, while discovery is quiet, is still in the snapshot the tick applies it
  with (`SeenInv`): so the reply is applied or cleaned up. A cleanup is queued before any
  new Subscribe, when no panel holds anything (`CleanupInv`), so it ends the subscription
  given up and no other. An Unsubscribe the panel waits for concerns what the panel
  holds (`UnsubscribeInv`); requests of an observer that was replaced have no
  subscription in the new one (`DetachedRequests`, `NetworkInv`).

**Graph.** `MemoryInv`: a half that is active is remembered as of now, and what was
remembered is forgotten only when it no longer counts. `CacheInv`: an answer was given no
later than its routes were last known to be active, and one marked complete left none
out. A graph drawn in any state then has only routes with evidence from both sides
(`EvidenceFacts`). That filters only hide is a fact of the operators, proved part by part:
an edge of ownership is drawn together with its ends, a route only between nodes that are
drawn.

**Backends.** The run `backends` puts one caller in front of either backend; the theorems
are about each of them, `ParameterSpec` and `MockSpec`. The invariants say what the shapes are:
the memory is as long as the descriptor says and the caller has a snapshot
(`ParameterTyped`), the mock's texts are texts (`MockTyped`). The rest is about the operators.
* Memory as a number is a sum of powers over the length of a field, defined by a recursive
  function. The library's induction takes an operator, so the proofs make theirs of sets: a
  set of numbers with 0 that has the next of each is all of `Nat`, because what it lacks
  would have a least member (`Induction`).
* The digits of a number and the number of the digits are inverse (`Unsigned...`,
  `CellsOf...`), so one scalar that is read can be written and gives its bytes again
  (`ReadThenWrite`), and one that is written reads back as what the text meant
  (`WriteThenRead`). Only the latter depends on the second range check, against the field's
  own type: without it the digits of a larger number would be cut.
* `Encode` accepts a snapshot in any order of its fields. As many fields as the descriptor
  has, each found and none used twice, are all of them (a pigeonhole on names), and as fields
  lie beside each other the last writer of a byte is the field it belongs to.
* The mock checks the narrow range only, the codec the wide one first. They agree because
  the range of a kind lies in the wide range of its sort (`InWide`).

`WritesShow`, `UnchangedByRoundTrip` and `MockIsATrueDouble` have one hypothesis, `Caller`:
what is typed is a text, and what a caller hands over is a snapshot, of whatever fields, names,
kinds and shapes. It is about the type of the argument, which the C++ signature fixes. It
ranges over all snapshots, an infinite set, so that it cannot be an assumption that TLC
evaluates.

**Only model-checked:** every liveness property (`AcceptedIsAnswered`, `StopReturns`,
`StopNetworkReturns`, `BusyPanelIsFreed`, `ClosingCloses`, `NoStarvation`,
`EchoEndsWithPublisher`), as fairness and ENABLED are out of the prover's reach.

## 5. What is not modelled

* Data outside the codec: payloads, types, descriptors, names and texts appear as
  success or failure, or as values that can be told apart. How a number is printed and
  parsed digit by digit, and the rounding of floating-point texts, are left to the
  library; which descriptors are valid is the framework's.
* Trees, labels, colours, layout and search; the application and element pages, which
  only display; `GraphWidget`, which only draws and filters. `Convert`, which copies
  what discovery found into the snapshot.
* The local backend's operations by name and `ReadTopicLatest`, which no part of the
  window uses; its topic monitors are unimplemented.
* `ConfigureLocalGateway` on a client that runs: the program calls it once, at
  `main.cpp:25`, before the window exists.
* Remote endpoints other than topics in `RemoteGraph`; a boot of a host is a host of
  its own there. The system clock is not set back.
* The framework itself: it appears as external actions or results, as the code in
  `src/` uses it.
* The stub backend and `main.cpp`, which have no behaviour of their own.

## 6. Where the code differs from what it says

Checked by a run that is expected to fail:

* `ui/remote_workspace.cpp:141` reads the clicked row after the dialog, during which
  `Tick` may have filled the list again: another endpoint than the one clicked is
  selected, or the vector is read beyond its end (`SelectsWhatWasClicked`).

Met while modelling. The models contain these steps as the code has them and state no
property they contradict:

* `backend/remote_runtime.cpp:66`: starting a goal erases every terminal action, also
  one whose end no poll has reported; the history shows it as running for good. The
  comment at line 65 says that the UI retains the completed history.
* `backend/remote_runtime.cpp:45`: Unsubscribe erases the runtime's handle also if the
  framework call fails, while the panel then keeps it.
* `backend/network_backend.cpp:149`: the destructor's reference to the executor can be
  the last one, so that the runtime is destroyed after the discovery it refers to;
  `remote_runtime.hpp:2` says it is owned within discovery's lifetime.
* `backend/network_backend.cpp:241`: an exception skips the orderly stop of executor and
  discovery. `DiscoveryStopsLast` is therefore stated for runs without one.
* `backend/local_gateway.cpp:58`: `stop` is set without the mutex of the wait, so the
  notification can be lost and `Stop` takes up to a second.
* `ui/remote_workspace.cpp:111`: the host selected is read after a dialog during which
  the selector may have been reset; the change is then lost.
* `ui/remote_workspace.cpp:193`: a Subscribe reply that arrives while its endpoint is
  out of the snapshot is neither applied nor undone. `NoOrphanSubscription` is stated
  while discovery does not change.
* `ui/remote_workspace.cpp:194`: a reply overwrites, or marks as sent, what was typed
  while the request was out.
* `ui/remote_workspace.cpp:157`: between Configure and the next Tick the buttons are
  still enabled; a command sent then goes to the observer that is being replaced. A goal
  sent so can be executed by that observer; its reply is read after the history was marked
  as lost, and shows the goal as running for good. The dialog says that a new
  configuration "cancels requests and detaches Actions". `UnknownAfterDetach` speaks of
  goals started before the settings were changed, which is when the observer has gone.

## 7. Plan

Done: every component with state of its own, and a theorem for every safety property of
the runs.

Next, in this order:

1. An abstract specification of a subscription (at most one owner, values only of the
   owner's) that the workspace implements, stated for a discovery that does not change.
2. The remaining kinds of endpoints in `RemoteGraph`.
