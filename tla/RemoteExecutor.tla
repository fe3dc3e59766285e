--------------------------- MODULE RemoteExecutor ---------------------------
(***************************************************************************)
(* RemoteExecutor (src/backend/remote_runtime.hpp): the bounded queue of   *)
(* remote commands, the one control worker that executes them, and Stop,   *)
(* which several threads may call at once.  What Execute does to a command *)
(* is the subject of RemoteRuntime; here it only ends, with a reply or an  *)
(* exception.  Each action is one critical section of the code, so that    *)
(* the worker, the submitting thread and the stopping threads interleave   *)
(* wherever the mutexes let them.                                          *)
(***************************************************************************)
EXTENDS Naturals, Sequences

CONSTANTS
  Requests,   \* the commands the callers submit, each once
  Stoppers,   \* the threads that may call Stop, each once
  Capacity,   \* queue_.size() limit, 32 in the code
  NoJob,      \* no command is being executed
  Nobody      \* nobody holds stop_mutex_

ASSUME ExecutorAssumption ==
  /\ Capacity \in Nat \ {0}
  /\ NoJob \notin Requests
  /\ Nobody \notin Stoppers

VARIABLES
  queue,         \* queue_
  job,           \* the Job moved out of the queue by Run
  reply,         \* state of each request's promise
  stopping,      \* stopping_
  worker,        \* where the thread running Run is
  stopper,       \* where each thread calling Stop is
  stopMutex,     \* holder of stop_mutex_
  joinable,      \* worker_.joinable()
  topicsStopped  \* runtime_.StopTopics() has been called

vars == <<queue, job, reply, stopping, worker, stopper, stopMutex, joinable,
          topicsStopped>>

Pending == {"pending"}
Final   == {"done", "EIO", "EAGAIN", "ECANCELED"}

WorkerAt  == {"evaluate", "asleep", "executing", "exited"}
StopperAt == {"idle", "calling", "raised", "cancelled", "joining", "joined",
              "returned"}

\* The places of Stop at which the caller holds stop_mutex_.
Holding == {"raised", "cancelled", "joining", "joined"}

Queued(r) == \E i \in DOMAIN queue : queue[i] = r

Init ==
  /\ queue = <<>>
  /\ job = NoJob
  /\ reply = [r \in Requests |-> "none"]
  /\ stopping = FALSE
  /\ worker = "evaluate"
  /\ stopper = [s \in Stoppers |-> "idle"]
  /\ stopMutex = Nobody
  /\ joinable = TRUE
  /\ topicsStopped = FALSE

-----------------------------------------------------------------------------
\* A variant that forgets wake_.notify_one().
NotifyNobody == worker' = worker

\* wake_.notify_one() and notify_all(): the worker is the only waiter.
Notify == worker' = IF worker = "asleep" THEN "evaluate" ELSE worker

\* Submit, the three outcomes of its critical section.
SubmitRefused(r) ==
  /\ reply[r] = "none"
  /\ \/ stopping /\ reply' = [reply EXCEPT ![r] = "ECANCELED"]
     \/ /\ ~stopping
        /\ Len(queue) >= Capacity
        /\ reply' = [reply EXCEPT ![r] = "EAGAIN"]
  /\ UNCHANGED <<queue, job, stopping, worker, stopper, stopMutex, joinable,
                 topicsStopped>>

\* A variant with the limit off by one.
SubmitOneTooMany(r) ==
  /\ reply[r] = "none"
  /\ ~stopping
  /\ Len(queue) <= Capacity
  /\ queue' = Append(queue, r)
  /\ reply' = [reply EXCEPT ![r] = "pending"]
  /\ Notify
  /\ UNCHANGED <<job, stopping, stopper, stopMutex, joinable, topicsStopped>>

SubmitAccepted(r) ==
  /\ reply[r] = "none"
  /\ ~stopping
  /\ Len(queue) < Capacity
  /\ queue' = Append(queue, r)
  /\ reply' = [reply EXCEPT ![r] = "pending"]
  /\ Notify
  /\ UNCHANGED <<job, stopping, stopper, stopMutex, joinable, topicsStopped>>

Submit(r) == SubmitRefused(r) \/ SubmitAccepted(r)

-----------------------------------------------------------------------------
\* Run: the worker evaluates the predicate of wake_.wait under mutex_.
Sleep ==
  /\ worker = "evaluate"
  /\ ~stopping
  /\ queue = <<>>
  /\ worker' = "asleep"
  /\ UNCHANGED <<queue, job, reply, stopping, stopper, stopMutex, joinable,
                 topicsStopped>>

\* A condition variable may wake its waiter for no reason.
SpuriousWakeup ==
  /\ worker = "asleep"
  /\ worker' = "evaluate"
  /\ UNCHANGED <<queue, job, reply, stopping, stopper, stopMutex, joinable,
                 topicsStopped>>

\* A variant that serves the newest command first.
TakeNewest ==
  /\ worker = "evaluate"
  /\ ~stopping
  /\ queue # <<>>
  /\ job' = queue[Len(queue)]
  /\ queue' = SubSeq(queue, 1, Len(queue) - 1)
  /\ worker' = "executing"
  /\ UNCHANGED <<reply, stopping, stopper, stopMutex, joinable, topicsStopped>>

TakeJob ==
  /\ worker = "evaluate"
  /\ ~stopping
  /\ queue # <<>>
  /\ job' = Head(queue)
  /\ queue' = Tail(queue)
  /\ worker' = "executing"
  /\ UNCHANGED <<reply, stopping, stopper, stopMutex, joinable, topicsStopped>>

\* Execute returned ("done") or threw ("EIO"); the promise is set outside
\* the lock, and the loop goes back to the wait.
FinishJob ==
  /\ worker = "executing"
  /\ \E how \in {"done", "EIO"} : reply' = [reply EXCEPT ![job] = how]
  /\ job' = NoJob
  /\ worker' = "evaluate"
  /\ UNCHANGED <<queue, stopping, stopper, stopMutex, joinable, topicsStopped>>

\* A variant that clears the queue without setting the promises.
DrainForgetful ==
  /\ worker = "evaluate"
  /\ stopping
  /\ queue' = <<>>
  /\ worker' = "exited"
  /\ UNCHANGED <<job, reply, stopping, stopper, stopMutex, joinable,
                 topicsStopped>>

\* The worker sees stopping_: every queued promise is cancelled, the queue
\* is cleared and Run returns, all in one hold of mutex_.
Drain ==
  /\ worker = "evaluate"
  /\ stopping
  /\ reply' = [r \in Requests |-> IF Queued(r) THEN "ECANCELED" ELSE reply[r]]
  /\ queue' = <<>>
  /\ worker' = "exited"
  /\ UNCHANGED <<job, stopping, stopper, stopMutex, joinable, topicsStopped>>

-----------------------------------------------------------------------------
\* Stop, called by ~NetworkObserver, by the end of NetworkObserver::Run and
\* by ~RemoteExecutor.
MoveStopper(s, from, to) ==
  /\ stopper[s] = from
  /\ stopper' = [stopper EXCEPT ![s] = to]

CallStop(s) ==
  /\ MoveStopper(s, "idle", "calling")
  /\ UNCHANGED <<queue, job, reply, stopping, worker, stopMutex, joinable,
                 topicsStopped>>

\* A variant of Stop without stop_mutex_.
RaiseUnguarded(s) ==
  /\ MoveStopper(s, "calling", "raised")
  /\ stopMutex' = s
  /\ stopping' = TRUE
  /\ Notify
  /\ UNCHANGED <<queue, job, reply, joinable, topicsStopped>>

RaiseStopping(s) ==
  /\ MoveStopper(s, "calling", "raised")
  /\ stopMutex = Nobody
  /\ stopMutex' = s
  /\ stopping' = TRUE
  /\ Notify
  /\ UNCHANGED <<queue, job, reply, joinable, topicsStopped>>

\* control_.Stop(): a blocked framework call returns early.  Its effect on
\* the model is none, for FinishJob is never blocked.
CancelIO(s) ==
  /\ MoveStopper(s, "raised", "cancelled")
  /\ UNCHANGED <<queue, job, reply, stopping, worker, stopMutex, joinable,
                 topicsStopped>>

\* worker_.joinable() is read, and join() entered when it holds.
TestJoinable(s) ==
  /\ MoveStopper(s, "cancelled", IF joinable THEN "joining" ELSE "joined")
  /\ UNCHANGED <<queue, job, reply, stopping, worker, stopMutex, joinable,
                 topicsStopped>>

\* A variant that detaches the worker instead of joining it.
Detach(s) ==
  /\ MoveStopper(s, "joining", "joined")
  /\ joinable' = FALSE
  /\ UNCHANGED <<queue, job, reply, stopping, worker, stopMutex, topicsStopped>>

Join(s) ==
  /\ MoveStopper(s, "joining", "joined")
  /\ worker = "exited"
  /\ joinable' = FALSE
  /\ UNCHANGED <<queue, job, reply, stopping, worker, stopMutex, topicsStopped>>

\* A variant that leaves stop_mutex_ locked.
StopTopicsLocked(s) ==
  /\ MoveStopper(s, "joined", "returned")
  /\ topicsStopped' = TRUE
  /\ UNCHANGED <<queue, job, reply, stopping, worker, stopMutex, joinable>>

StopTopics(s) ==
  /\ MoveStopper(s, "joined", "returned")
  /\ topicsStopped' = TRUE
  /\ stopMutex' = Nobody
  /\ UNCHANGED <<queue, job, reply, stopping, worker, joinable>>

StopStep(s) ==
  \/ RaiseStopping(s)
  \/ CancelIO(s)
  \/ TestJoinable(s)
  \/ Join(s)
  \/ StopTopics(s)

-----------------------------------------------------------------------------
WorkerStep == Sleep \/ TakeJob \/ FinishJob \/ Drain

Next ==
  \/ \E r \in Requests : Submit(r)
  \/ WorkerStep
  \/ SpuriousWakeup
  \/ \E s \in Stoppers : CallStop(s) \/ StopStep(s)

(***************************************************************************)
(* The worker thread and every thread that entered Stop keep running; that *)
(* FinishJob is among the fair steps says that Execute returns, which the  *)
(* timeout of every framework call bounds.  Nobody has to submit or stop,  *)
(* and a spurious wakeup need never come.                                  *)
(***************************************************************************)
Fairness ==
  /\ WF_vars(WorkerStep)
  /\ \A s \in Stoppers : WF_vars(StopStep(s))

Spec == Init /\ [][Next]_vars /\ Fairness

-----------------------------------------------------------------------------
(***************************************************************************)
(* Types, and the bound Submit keeps the queue within.                     *)
(***************************************************************************)
TypeOK ==
  /\ queue \in Seq(Requests) /\ Len(queue) <= Capacity
  /\ job \in Requests \cup {NoJob}
  /\ reply \in [Requests -> {"none"} \cup Pending \cup Final]
  /\ stopping \in BOOLEAN
  /\ worker \in WorkerAt
  /\ stopper \in [Stoppers -> StopperAt]
  /\ stopMutex \in Stoppers \cup {Nobody}
  /\ joinable \in BOOLEAN
  /\ topicsStopped \in BOOLEAN

(***************************************************************************)
(* A promise is outstanding exactly as long as its command is in the queue *)
(* or in the worker's hands, and in one place only: no future is forgotten *)
(* (it would never become ready and its panel would stay busy) and no      *)
(* promise is set twice (set_value would throw on the worker).             *)
(***************************************************************************)
ExactlyOnePlace ==
  /\ \A r \in Requests : reply[r] \in Pending <=> (job = r \/ Queued(r))
  /\ \A i, j \in DOMAIN queue : queue[i] = queue[j] => i = j
  /\ \A i \in DOMAIN queue : queue[i] # job

(***************************************************************************)
(* Once any call of Stop has returned, the worker is gone and every future *)
(* handed out is ready: the discovery the runtime refers to may go away.   *)
(***************************************************************************)
QuietAfterStop ==
  \A s \in Stoppers :
    stopper[s] = "returned" =>
      /\ worker = "exited"
      /\ \A r \in Requests : reply[r] \notin Pending

(***************************************************************************)
(* The topic client is stopped only when no Execute can be using it.       *)
(***************************************************************************)
TopicsOutliveWorker == topicsStopped => worker = "exited" /\ job = NoJob

(***************************************************************************)
(* Two threads never wait in worker_.join() at once, which would be        *)
(* undefined: this is what stop_mutex_ is for.                             *)
(***************************************************************************)
OneJoiner ==
  \A s, t \in Stoppers :
    stopper[s] = "joining" /\ stopper[t] = "joining" => s = t

(***************************************************************************)
(* Every accepted command is eventually answered, stopped or not.          *)
(***************************************************************************)
AcceptedIsAnswered ==
  \A r \in Requests : reply[r] \in Pending ~> reply[r] \in Final

(***************************************************************************)
(* Every call of Stop returns, whatever the other threads are doing.       *)
(***************************************************************************)
StopReturns ==
  \A s \in Stoppers : stopper[s] = "calling" ~> stopper[s] = "returned"

(***************************************************************************)
(* The executor implements the abstract request service: the outstanding   *)
(* requests are the one in the worker's hands followed by the queue.       *)
(***************************************************************************)
Outstanding == IF job = NoJob THEN queue ELSE <<job>> \o queue

Answer == [r \in Requests |-> IF reply[r] \in Pending THEN "none" ELSE reply[r]]

Service == INSTANCE RemoteRequests
             WITH outstanding <- Outstanding, answer <- Answer, closed <- stopping

ImplementsService == Service!AbsSafety

=============================================================================
