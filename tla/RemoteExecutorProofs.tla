------------------------ MODULE RemoteExecutorProofs ------------------------
(***************************************************************************)
(* Proofs about RemoteExecutor for any set of commands, any set of         *)
(* stopping threads and any queue limit, which cite its assumption alone;  *)
(* and, from them, about NetworkObserver around it.                        *)
(***************************************************************************)
EXTENDS NetworkObserver, SequenceTheorems, TLAPS

-----------------------------------------------------------------------------
(* What the safety properties need of the worker: it holds a command       *)
(* exactly while it executes, and it leaves Run only when stopping, with   *)
(* an empty queue.                                                         *)
WorkerInv ==
  /\ job # NoJob <=> worker = "executing"
  /\ worker = "exited" => stopping /\ queue = <<>>

(* What they need of the stopping threads: stop_mutex_ is exclusive, and   *)
(* past the join the worker has exited.                                    *)
StopperInv ==
  /\ \A s \in Stoppers : stopper[s] \in Holding <=> stopMutex = s
  /\ \A s \in Stoppers : stopper[s] \in Holding \cup {"returned"} => stopping
  /\ \A s \in Stoppers : stopper[s] \in {"joined", "returned"} => worker = "exited"
  /\ topicsStopped => worker = "exited"
  /\ ~joinable => worker = "exited"

IInv == TypeOK /\ ExactlyOnePlace /\ WorkerInv /\ StopperInv

-----------------------------------------------------------------------------
(* The queue operations, in the terms of Queued. *)
LEMMA AppendQueued ==
  ASSUME NEW S, NEW q \in Seq(S), NEW e \in S
  PROVE  /\ Append(q, e) \in Seq(S)
         /\ Len(Append(q, e)) = Len(q) + 1
         /\ DOMAIN q = 1 .. Len(q)
         /\ DOMAIN Append(q, e) = 1 .. Len(q) + 1
         /\ \A i \in 1 .. Len(q) : Append(q, e)[i] = q[i]
         /\ Append(q, e)[Len(q) + 1] = e
  OBVIOUS

LEMMA TailQueued ==
  ASSUME NEW S, NEW q \in Seq(S), q # <<>>
  PROVE  /\ Head(q) \in S
         /\ Head(q) = q[1]
         /\ Tail(q) \in Seq(S)
         /\ Len(q) \in Nat \ {0}
         /\ Len(Tail(q)) = Len(q) - 1
         /\ DOMAIN q = 1 .. Len(q)
         /\ DOMAIN Tail(q) = 1 .. Len(q) - 1
         /\ \A i \in 1 .. Len(q) - 1 : Tail(q)[i] = q[i + 1]
  OBVIOUS

-----------------------------------------------------------------------------
(* The executor starts, as its constructor leaves it, in the invariant.    *)
LEMMA InitIInv == Init => IInv
<1> SUFFICES ASSUME Init PROVE IInv
  OBVIOUS
<1> USE ExecutorAssumption DEF Init
<1>1. TypeOK
  <2>1. queue \in Seq(Requests) /\ Len(queue) <= Capacity
    OBVIOUS
  <2>2. job \in Requests \cup {NoJob} /\ stopMutex \in Stoppers \cup {Nobody}
    OBVIOUS
  <2>3. reply \in [Requests -> {"none"} \cup Pending \cup Final]
    BY Zenon
  <2>4. stopper \in [Stoppers -> StopperAt]
    BY DEF StopperAt
  <2>5. worker \in WorkerAt
    BY DEF WorkerAt
  <2> QED
    BY <2>1, <2>2, <2>3, <2>4, <2>5, Zenon DEF TypeOK
<1>2. ExactlyOnePlace
  BY DEF ExactlyOnePlace, Queued, Pending
<1>3. WorkerInv
  BY DEF WorkerInv
<1>4. StopperInv
  BY DEF StopperInv, Holding
<1> QED
  BY <1>1, <1>2, <1>3, <1>4 DEF IInv

-----------------------------------------------------------------------------
(* The operators that only name sets of values. *)
USE DEF Pending, Final, WorkerAt, StopperAt, Holding

(* Every critical section keeps the types and the limit Submit checks.     *)
LEMMA StepTypeOK == TypeOK /\ [Next]_vars => TypeOK'
<1> SUFFICES ASSUME TypeOK, [Next]_vars PROVE TypeOK'
  OBVIOUS
<1> USE ExecutorAssumption DEF TypeOK
<1>1. ASSUME NEW r \in Requests, SubmitRefused(r) PROVE TypeOK'
  BY <1>1 DEF SubmitRefused
<1>2. ASSUME NEW r \in Requests, SubmitAccepted(r) PROVE TypeOK'
  BY <1>2, AppendQueued DEF SubmitAccepted, Notify
<1>3. ASSUME Sleep PROVE TypeOK'
  BY <1>3 DEF Sleep
<1>4. ASSUME SpuriousWakeup PROVE TypeOK'
  BY <1>4 DEF SpuriousWakeup
<1>5. ASSUME TakeJob PROVE TypeOK'
  BY <1>5, TailQueued DEF TakeJob
<1>6. ASSUME FinishJob PROVE TypeOK'
  BY <1>6 DEF FinishJob
<1>7. ASSUME Drain PROVE TypeOK'
  BY <1>7 DEF Drain
<1>8. ASSUME NEW s \in Stoppers, CallStop(s) PROVE TypeOK'
  BY <1>8 DEF CallStop, MoveStopper
<1>9. ASSUME NEW s \in Stoppers, RaiseStopping(s) PROVE TypeOK'
  BY <1>9 DEF RaiseStopping, Notify, MoveStopper
<1>10. ASSUME NEW s \in Stoppers, CancelIO(s) PROVE TypeOK'
  BY <1>10 DEF CancelIO, MoveStopper
<1>11. ASSUME NEW s \in Stoppers, TestJoinable(s) PROVE TypeOK'
  BY <1>11 DEF TestJoinable, MoveStopper
<1>12. ASSUME NEW s \in Stoppers, Join(s) PROVE TypeOK'
  BY <1>12 DEF Join, MoveStopper
<1>13. ASSUME NEW s \in Stoppers, StopTopics(s) PROVE TypeOK'
  BY <1>13 DEF StopTopics, MoveStopper
<1>14. CASE UNCHANGED vars
  BY <1>14 DEF vars
<1> QED
  BY <1>1, <1>2, <1>3, <1>4, <1>5, <1>6, <1>7, <1>8, <1>9, <1>10, <1>11, <1>12, <1>13, <1>14 DEF Next, Submit, WorkerStep, StopStep

(* Every step keeps the worker in the one place its job and the stop flag  *)
(* allow.                                                                  *)
LEMMA StepWorkerInv == TypeOK /\ WorkerInv /\ [Next]_vars => WorkerInv'
<1> SUFFICES ASSUME TypeOK, WorkerInv, [Next]_vars PROVE WorkerInv'
  OBVIOUS
<1> USE ExecutorAssumption DEF TypeOK, WorkerInv
<1>1. ASSUME NEW r \in Requests, Submit(r) PROVE WorkerInv'
  BY <1>1 DEF Submit, SubmitRefused, SubmitAccepted, Notify
<1>2. ASSUME Sleep \/ SpuriousWakeup \/ FinishJob \/ Drain PROVE WorkerInv'
  BY <1>2 DEF Sleep, SpuriousWakeup, FinishJob, Drain
<1>3. ASSUME TakeJob PROVE WorkerInv'
  BY <1>3, TailQueued DEF TakeJob
<1>4. ASSUME NEW s \in Stoppers, CallStop(s) \/ StopStep(s) PROVE WorkerInv'
  BY <1>4 DEF CallStop, StopStep, RaiseStopping, CancelIO, TestJoinable, Join,
              StopTopics, MoveStopper, Notify
<1>5. CASE UNCHANGED vars
  BY <1>5 DEF vars
<1> QED
  BY <1>1, <1>2, <1>3, <1>4, <1>5 DEF Next, WorkerStep

(* Every step keeps each caller of Stop where stop_mutex_, joinable() and  *)
(* the worker allow.                                                       *)
LEMMA StepStopperInv ==
  TypeOK /\ WorkerInv /\ StopperInv /\ [Next]_vars => StopperInv'
<1> SUFFICES ASSUME TypeOK, WorkerInv, StopperInv, [Next]_vars PROVE StopperInv'
  OBVIOUS
<1> USE ExecutorAssumption DEF TypeOK, WorkerInv, StopperInv
<1>1. ASSUME NEW r \in Requests, Submit(r) PROVE StopperInv'
  BY <1>1 DEF Submit, SubmitRefused, SubmitAccepted, Notify
<1>2. ASSUME WorkerStep \/ SpuriousWakeup PROVE StopperInv'
  BY <1>2 DEF WorkerStep, Sleep, SpuriousWakeup, TakeJob, FinishJob, Drain
<1>3. ASSUME NEW s \in Stoppers, CallStop(s) PROVE StopperInv'
  BY <1>3 DEF CallStop, MoveStopper
<1>4. ASSUME NEW s \in Stoppers, RaiseStopping(s) PROVE StopperInv'
  BY <1>4 DEF RaiseStopping, MoveStopper, Notify
<1>5. ASSUME NEW s \in Stoppers, CancelIO(s) \/ TestJoinable(s) \/ Join(s)
      PROVE  StopperInv'
  BY <1>5 DEF CancelIO, TestJoinable, Join, MoveStopper
<1>6. ASSUME NEW s \in Stoppers, StopTopics(s) PROVE StopperInv'
  BY <1>6 DEF StopTopics, MoveStopper
<1>7. CASE UNCHANGED vars
  BY <1>7 DEF vars
<1> QED
  BY <1>1, <1>2, <1>3, <1>4, <1>5, <1>6, <1>7 DEF Next, StopStep

(* No step loses a promise or leaves a command in two places.             *)
LEMMA StepExactlyOnePlace ==
  TypeOK /\ WorkerInv /\ ExactlyOnePlace /\ [Next]_vars => ExactlyOnePlace'
<1> SUFFICES ASSUME TypeOK, WorkerInv, ExactlyOnePlace, [Next]_vars
             PROVE  ExactlyOnePlace'
  OBVIOUS
<1> USE ExecutorAssumption DEF TypeOK, ExactlyOnePlace, Queued
<1>1. ASSUME NEW r \in Requests, SubmitRefused(r) PROVE ExactlyOnePlace'
  BY <1>1 DEF SubmitRefused
<1>2. ASSUME NEW r \in Requests, SubmitAccepted(r) PROVE ExactlyOnePlace'
  <2>1. /\ DOMAIN queue = 1 .. Len(queue) /\ Len(queue) \in Nat
        /\ DOMAIN queue' = 1 .. Len(queue) + 1
        /\ \A i \in 1 .. Len(queue) : queue'[i] = queue[i]
        /\ queue'[Len(queue) + 1] = r
    BY <1>2, AppendQueued DEF SubmitAccepted
  <2>2. /\ job' = job /\ r # job /\ reply[r] \notin Pending
        /\ reply' = [reply EXCEPT ![r] = "pending"]
        /\ \A i \in DOMAIN queue : queue[i] # r
    BY <1>2 DEF SubmitAccepted
  <2>3. \A x \in Requests : Queued(x)' <=> Queued(x) \/ x = r
    BY <2>1, <2>2
  <2>4. \A x \in Requests : reply'[x] \in Pending <=> (job' = x \/ Queued(x)')
    BY <2>2, <2>3
  <2>5. \A i, j \in DOMAIN queue' : queue'[i] = queue'[j] => i = j
    BY <2>1, <2>2
  <2>6. \A i \in DOMAIN queue' : queue'[i] # job'
    BY <2>1, <2>2
  <2> QED
    BY <2>4, <2>5, <2>6
<1>3. ASSUME TakeJob PROVE ExactlyOnePlace'
  <2>1. /\ Head(queue) \in Requests /\ Head(queue) = queue[1]
        /\ Len(queue) \in Nat \ {0} /\ DOMAIN queue = 1 .. Len(queue)
        /\ DOMAIN queue' = 1 .. Len(queue) - 1
        /\ \A i \in 1 .. Len(queue) - 1 : queue'[i] = queue[i + 1]
    BY <1>3, TailQueued DEF TakeJob
  <2>2. job = NoJob /\ job' = queue[1] /\ reply' = reply
    BY <1>3, <2>1 DEF TakeJob, WorkerInv
  <2>3. \A x \in Requests : Queued(x) <=> Queued(x)' \/ x = queue[1]
    <3> SUFFICES ASSUME NEW x \in Requests
                 PROVE  Queued(x) <=> Queued(x)' \/ x = queue[1]
      OBVIOUS
    <3>1. ASSUME NEW i \in 1 .. Len(queue), i # 1
          PROVE  i - 1 \in 1 .. Len(queue) - 1 /\ queue'[i - 1] = queue[i]
      BY <2>1, <3>1
    <3>2. Queued(x) => Queued(x)' \/ x = queue[1]
      BY <2>1, <3>1
    <3>3. ASSUME Queued(x)' PROVE Queued(x)
      <4>1. PICK i \in 1 .. Len(queue) - 1 : queue'[i] = x
        BY <2>1, <3>3
      <4>2. i + 1 \in DOMAIN queue /\ queue[i + 1] = x
        BY <2>1, <4>1
      <4> QED
        BY <4>2
    <3>4. ASSUME x = queue[1] PROVE Queued(x)
      BY <2>1, <3>4
    <3> QED
      BY <3>2, <3>3, <3>4
  <2>4. \A x \in Requests : reply'[x] \in Pending <=> (job' = x \/ Queued(x)')
    BY <2>2, <2>3
  <2>5. ASSUME NEW i \in DOMAIN queue', NEW j \in DOMAIN queue',
               queue'[i] = queue'[j]
        PROVE  i = j
    <3>1. i + 1 \in DOMAIN queue /\ j + 1 \in DOMAIN queue
      BY <2>1
    <3>2. queue[i + 1] = queue[j + 1]
      BY <2>1, <2>5
    <3>3. i + 1 = j + 1
      BY <3>1, <3>2
    <3> QED
      BY <2>1, <3>3
  <2>6. \A i \in DOMAIN queue' : queue'[i] # job'
    BY <2>1, <2>2
  <2> QED
    BY <2>4, <2>5, <2>6
<1>4. ASSUME FinishJob PROVE ExactlyOnePlace'
  BY <1>4 DEF FinishJob, WorkerInv
<1>5. ASSUME Drain PROVE ExactlyOnePlace'
  BY <1>5 DEF Drain, WorkerInv
<1>6. ASSUME UNCHANGED <<queue, job, reply>> PROVE ExactlyOnePlace'
  BY <1>6
<1>7. ASSUME Sleep \/ SpuriousWakeup \/ (\E s \in Stoppers : CallStop(s) \/ StopStep(s))
      PROVE  ExactlyOnePlace'
  BY <1>6, <1>7 DEF Sleep, SpuriousWakeup, CallStop, StopStep, RaiseStopping,
                    CancelIO, TestJoinable, Join, StopTopics
<1>8. CASE UNCHANGED vars
  BY <1>6, <1>8 DEF vars
<1> QED
  BY <1>1, <1>2, <1>3, <1>4, <1>5, <1>7, <1>8 DEF Next, Submit, WorkerStep

-----------------------------------------------------------------------------
(* The inductive invariant, and with it the executor's types and the bound *)
(* on its queue, for every set of commands and of stopping threads.        *)
LEMMA StepIInv == IInv /\ [Next]_vars => IInv'
  BY StepTypeOK, StepExactlyOnePlace, StepWorkerInv, StepStopperInv DEF IInv

THEOREM Invariance == Spec => []IInv
  BY InitIInv, StepIInv, PTL DEF Spec

(* The queue never exceeds the limit Submit compares it with.              *)
THEOREM TypeCorrect == Spec => []TypeOK
<1>1. IInv => TypeOK
  BY DEF IInv
<1> QED
  BY Invariance, <1>1, PTL

(* Every accepted command is in exactly one of the queue and the worker's  *)
(* hands until its promise is set: Submit, Run and its drain at Stop lose  *)
(* and answer twice no command.                                            *)
THEOREM AnsweredFromOnePlace == Spec => []ExactlyOnePlace
<1>1. IInv => ExactlyOnePlace
  BY DEF IInv
<1> QED
  BY Invariance, <1>1, PTL

LEMMA QuietInIInv == IInv => QuietAfterStop
  BY ExecutorAssumption
     DEF IInv, TypeOK, QuietAfterStop, ExactlyOnePlace, Queued, WorkerInv, StopperInv

(* When a call of Stop returns the worker has exited, every future is      *)
(* ready, and the topic client was stopped after the last Execute.         *)
THEOREM StopIsFinal == Spec => [](QuietAfterStop /\ TopicsOutliveWorker)
<1>1. IInv => QuietAfterStop
  BY QuietInIInv
<1>2. IInv => TopicsOutliveWorker
  BY DEF IInv, TypeOK, TopicsOutliveWorker, WorkerInv, StopperInv
<1> QED
  BY Invariance, <1>1, <1>2, PTL

(* stop_mutex_ keeps all but one caller of Stop out of worker_.join().     *)
THEOREM JoinIsExclusive == Spec => []OneJoiner
<1>1. IInv => OneJoiner
  BY DEF IInv, OneJoiner, StopperInv
<1> QED
  BY Invariance, <1>1, PTL

-----------------------------------------------------------------------------
(* The refinement of the abstract service puts the command in the worker's *)
(* hands in front of the queue.                                            *)
LEMMA ConsProperties ==
  ASSUME NEW S, NEW q \in Seq(S), NEW j \in S
  PROVE  /\ <<j>> \o q \in Seq(S)
         /\ <<j>> \o q # <<>>
         /\ Head(<<j>> \o q) = j
         /\ Tail(<<j>> \o q) = q
         /\ \A e \in S : Append(<<j>> \o q, e) = <<j>> \o Append(q, e)
<1> DEFINE c == <<j>> \o q
<1>1. /\ c \in Seq(S) /\ Len(c) = Len(q) + 1 /\ c[1] = j
      /\ \A i \in 1 .. Len(q) : c[i + 1] = q[i]
  OBVIOUS
<1>2. c # <<>> /\ Head(c) = j
  BY <1>1
<1>3. Tail(c) = q
  <2>1. Tail(c) \in Seq(S) /\ Len(Tail(c)) = Len(q)
    BY <1>1, <1>2
  <2>2. \A i \in 1 .. Len(q) : Tail(c)[i] = q[i]
    BY <1>1, <1>2
  <2> QED
    BY <2>1, <2>2, SeqEqual
<1>4. ASSUME NEW e \in S PROVE Append(c, e) = <<j>> \o Append(q, e)
  BY <<j>> \in Seq(S), <<e>> \in Seq(S), AppendIsConcat, ConcatAssociative,
     c \in Seq(S)
<1> QED
  BY <1>1, <1>2, <1>3, <1>4

(* A queue is its front followed by the rest.                              *)
LEMMA HeadTailCons ==
  ASSUME NEW S, NEW q \in Seq(S), q # <<>>
  PROVE  <<Head(q)>> \o Tail(q) = q
  BY HeadTailProperties, SeqEqual

(* The new executor is a service that has been asked for nothing.          *)
LEMMA InitRefines == Init => Service!AbsInit
<1> SUFFICES ASSUME Init PROVE Service!AbsInit
  OBVIOUS
<1>1. Outstanding = <<>>
  BY DEF Init, Outstanding
<1>2. Answer = [r \in Requests |-> "none"]
  BY DEF Init, Answer
<1>3. stopping = FALSE
  BY DEF Init
<1> QED
  BY <1>1, <1>2, <1>3 DEF Service!AbsInit

(* Every step of the executor is a step of the service, or none.           *)
LEMMA StepRefines ==
  IInv /\ IInv' /\ [Next]_vars => [Service!AbsNext]_(Service!absvars)
<1> SUFFICES ASSUME IInv, IInv', [Next]_vars
             PROVE  [Service!AbsNext]_(Service!absvars)
  OBVIOUS
<1> USE ExecutorAssumption
<1>a. /\ TypeOK /\ WorkerInv /\ ExactlyOnePlace
      /\ TypeOK' /\ WorkerInv'
  BY DEF IInv
<1> DEFINE Waiting(r) == \E i \in DOMAIN Outstanding : Outstanding[i] = r
<1>b. /\ queue \in Seq(Requests) /\ job \in Requests \cup {NoJob}
      /\ Outstanding \in Seq(Requests)
  BY <1>a, ConsProperties DEF TypeOK, Outstanding
<1>c. ASSUME NEW r \in Requests, reply[r] = "none"
      PROVE  Service!Fresh(r)
  <2>1. job # r /\ ~Queued(r)
    BY <1>a, <1>c DEF ExactlyOnePlace
  <2>2. CASE job = NoJob
    BY <1>c, <2>1, <2>2 DEF Service!Fresh, Answer, Outstanding, Queued
  <2>3. CASE job # NoJob
    <3>1. job \in Requests
      BY <1>b, <2>3
    <3>2. \A i \in DOMAIN (<<job>> \o queue) : (<<job>> \o queue)[i] # r
      <4>1. <<job>> \in Seq(Requests) /\ Len(<<job>>) = 1 /\ <<job>>[1] = job
        BY <3>1
      <4>2. /\ DOMAIN (<<job>> \o queue) = 1 .. 1 + Len(queue)
            /\ \A i \in 1 .. 1 + Len(queue) : (<<job>> \o queue)[i] =
                   IF i <= 1 THEN job ELSE queue[i - 1]
        BY <1>b, <4>1, ConcatProperties
      <4>3. \A i \in 1 .. Len(queue) : queue[i] # r
        BY <1>b, <2>1 DEF Queued
      <4> QED
        BY <1>b, <2>1, <4>2, <4>3
    <3> QED
      BY <1>c, <2>3, <3>2 DEF Service!Fresh, Answer, Outstanding
  <2> QED
    BY <2>2, <2>3
<1>1. ASSUME NEW r \in Requests, SubmitRefused(r) PROVE Service!Refuse(r)
  <2>1. Service!Fresh(r)
    BY <1>1, <1>c DEF SubmitRefused
  <2>2. PICK why \in {"EAGAIN", "ECANCELED"} :
          (why = "ECANCELED" <=> stopping) /\ reply' = [reply EXCEPT ![r] = why]
    BY <1>1, <1>a DEF SubmitRefused, TypeOK
  <2>3. Answer' = [Answer EXCEPT ![r] = why]
    BY <1>a, <2>2 DEF Answer, TypeOK
  <2>4. Outstanding' = Outstanding /\ stopping' = stopping
    BY <1>1 DEF SubmitRefused, Outstanding
  <2> QED
    BY <2>1, <2>2, <2>3, <2>4 DEF Service!Refuse
<1>2. ASSUME NEW r \in Requests, SubmitAccepted(r) PROVE Service!Accept(r)
  <2>1. Service!Fresh(r) /\ ~stopping /\ stopping' = stopping
    BY <1>2, <1>c DEF SubmitAccepted
  <2>2. Answer' = Answer
    BY <1>2, <1>a DEF SubmitAccepted, Answer, TypeOK
  <2>3. Outstanding' = Append(Outstanding, r)
    BY <1>2, <1>b, ConsProperties DEF SubmitAccepted, Outstanding
  <2> QED
    BY <2>1, <2>2, <2>3 DEF Service!Accept
<1>3. ASSUME TakeJob PROVE UNCHANGED Service!absvars
  <2>1. job = NoJob /\ job' # NoJob /\ queue # <<>>
    BY <1>3, <1>a DEF TakeJob, WorkerInv
  <2>2. Outstanding' = Outstanding
    BY <1>3, <1>b, <2>1, HeadTailCons DEF TakeJob, Outstanding
  <2> QED
    BY <1>3, <2>2 DEF TakeJob, Answer, Service!absvars
<1>4. ASSUME FinishJob PROVE Service!Serve
  <2>1. job # NoJob /\ job' = NoJob /\ job \in Requests
    BY <1>4, <1>a DEF FinishJob, WorkerInv, TypeOK
  <2>2. /\ Outstanding # <<>> /\ Head(Outstanding) = job
        /\ Outstanding' = Tail(Outstanding)
    BY <1>4, <1>b, <2>1, ConsProperties DEF FinishJob, Outstanding
  <2>3. PICK how \in {"done", "EIO"} : reply' = [reply EXCEPT ![job] = how]
    BY <1>4 DEF FinishJob
  <2>4. Answer' = [Answer EXCEPT ![job] = how]
    BY <1>a, <2>1, <2>3 DEF Answer, TypeOK
  <2> QED
    BY <1>4, <2>2, <2>3, <2>4 DEF FinishJob, Service!Serve
<1>5. ASSUME Drain PROVE Service!CancelOutstanding
  <2>1. Outstanding = queue /\ Outstanding' = <<>>
    BY <1>5, <1>a DEF Drain, WorkerInv, Outstanding
  <2>2. Answer' = [r \in Requests |-> IF Waiting(r) THEN "ECANCELED" ELSE Answer[r]]
    BY <1>5, <1>a, <2>1 DEF Drain, Answer, Queued, TypeOK
  <2> QED
    BY <1>5, <2>1, <2>2 DEF Drain, Service!CancelOutstanding
<1>6. ASSUME NEW s \in Stoppers, RaiseStopping(s) PROVE Service!Close
  BY <1>6 DEF RaiseStopping, Service!Close, Outstanding, Answer
<1>7. ASSUME UNCHANGED <<queue, job, reply, stopping>> PROVE UNCHANGED Service!absvars
  BY <1>7 DEF Service!absvars, Outstanding, Answer
<1>8. ASSUME NEW s \in Stoppers,
             CallStop(s) \/ CancelIO(s) \/ TestJoinable(s) \/ Join(s) \/ StopTopics(s)
      PROVE  UNCHANGED Service!absvars
  BY <1>7, <1>8 DEF CallStop, CancelIO, TestJoinable, Join, StopTopics
<1>9. ASSUME Sleep \/ SpuriousWakeup \/ UNCHANGED vars
      PROVE  UNCHANGED Service!absvars
  BY <1>7, <1>9 DEF Sleep, SpuriousWakeup, vars
<1> QED
  BY <1>1, <1>2, <1>3, <1>4, <1>5, <1>6, <1>8, <1>9
     DEF Next, Submit, WorkerStep, StopStep, Service!AbsNext

(* The queue, its worker and Stop implement the abstract service of        *)
(* RemoteRequests: commands are executed in the order Submit accepted      *)
(* them, answered once each, and refused or cancelled only as Stop or the  *)
(* queue limit demands.                                                    *)
THEOREM RefinesService == Spec => ImplementsService
  BY Invariance, InitRefines, StepRefines, PTL
     DEF Spec, ImplementsService, Service!AbsSafety

-----------------------------------------------------------------------------
(* The observer.                                                           *)

RunHolds == {"publishing", "loop", "query", "waiting", "stopping", "unwinding"}

(* Who holds the executor, read off the places of the threads. *)
HoldersInv ==
  /\ "run" \in holders <=> run \in RunHolds
  /\ "destructor" \in holders <=> owner \in {"holding", "stopping"}
  /\ "gui" \in holders <=> gui = "holding"
  /\ gui # "idle" => owner = "using"

Destroying == run = "destroying" \/ owner = "destroying" \/ gui = "destroying"

(* The executor lives from BuildExecutor until the one thread that         *)
(* released it last has destroyed it.                                      *)
RuntimeInv ==
  /\ run = "destroying" => owner # "destroying" /\ gui # "destroying"
  /\ Destroying => runtime = "alive" /\ holders = {}
  /\ runtime = "alive" => holders # {} \/ Destroying
  /\ runtime = "destroyed" => stopper["release"] = "returned"
  /\ run \in {"starting", "building"} => runtime = "none"
  /\ runtime = "none" => job = NoJob /\ worker # "executing" /\ \A r \in Requests : reply[r] = "none"

(* Discovery stops only after Run's Stop has returned, or Run was thrown   *)
(* out of its loop.                                                        *)
DiscoveryInv ==
  /\ discovery = "none" <=> run = "starting"
  /\ run = "building" => discovery = "running"
  /\ run \in {"failed", "ended"} => discovery = "destroyed"
  /\ run \in {"unwinding", "destroying", "ending"} /\ ~thrown => stopper["run"] = "returned"
  /\ discovery \in {"stopped", "destroyed"} /\ ~thrown =>
       runtime = "none" \/ stopper["run"] = "returned"

OwnerInv == owner = "done" => run = "ended"

ObserverInv ==
  IInv /\ ObserverTypeOK /\ HoldersInv /\ RuntimeInv /\ DiscoveryInv /\ OwnerInv

-----------------------------------------------------------------------------
(* Whatever the observer does to its executor is a step of the executor or *)
(* leaves it alone.                                                        *)
LEMMA ObserverStepsExecutor == ObserverNext => [Next]_vars
<1> SUFFICES ASSUME ObserverNext PROVE [Next]_vars
  OBVIOUS
<1>1. {"run", "destructor", "release"} \subseteq Stoppers
  BY ObserverAssumption
<1>2. ASSUME NEW t, Release(t) PROVE [Next]_vars
  BY <1>1, <1>2 DEF Release, Next
<1>3. CASE \E r \in Requests : Refuse(r) \/ Forward(r)
  BY <1>3 DEF Refuse, Forward, Next
<1>4. CASE GuiStep
  BY <1>2, <1>4 DEF GuiStep, GuiReleases, GuiDestroysExecutor
<1>5. CASE RunStep \/ Throw
  BY <1>1, <1>2, <1>5
     DEF RunStep, Throw, StartDiscovery, BuildExecutor, PublishExecutor, CheckStop,
         PublishSnapshot, EndWait, RunStops, StopDiscovery, RunReleases,
         RunDestroysExecutor, DestroyDiscovery, ReportFailure, Next
<1>6. CASE TakeNetwork \/ OwnerStep
  BY <1>1, <1>2, <1>6
     DEF TakeNetwork, OwnerStep, SignalStop, LockExecutor, DestructorStops,
         DestructorReleases, DestructorDestroysExecutor, JoinRun, Next
<1>7. CASE ExecutorStep \/ (runtime = "alive" /\ SpuriousWakeup /\ UNCHANGED observerVars)
  BY <1>7 DEF ExecutorStep, Next
<1> QED
  BY <1>3, <1>4, <1>5, <1>6, <1>7 DEF ObserverNext

(* A call of Stop that has returned stays so.                              *)
LEMMA ReturnedStays ==
  ASSUME TypeOK, [Next]_vars, NEW s \in Stoppers, stopper[s] = "returned"
  PROVE  stopper'[s] = "returned"
<1>1. CASE UNCHANGED stopper
  BY <1>1
<1>2. CASE \E t \in Stoppers : CallStop(t) \/ StopStep(t)
  BY <1>2 DEF TypeOK, CallStop, StopStep, RaiseStopping, CancelIO, TestJoinable, Join,
              StopTopics, MoveStopper
<1> QED
  BY <1>1, <1>2
     DEF Next, Submit, SubmitRefused, SubmitAccepted, WorkerStep, Sleep, TakeJob, FinishJob,
         Drain, SpuriousWakeup, vars

LEMMA ObserverInitInv == ObserverInit => ObserverInv
<1> SUFFICES ASSUME ObserverInit PROVE ObserverInv
  OBVIOUS
<1>1. IInv
  BY InitIInv DEF ObserverInit
<1> QED
  BY <1>1 DEF ObserverInit, Init, ObserverInv, ObserverTypeOK, HoldersInv, RuntimeInv,
              DiscoveryInv, OwnerInv, RunAt, OwnerAt, GuiAt, RunHolds, Destroying

-----------------------------------------------------------------------------
(* The step of each thread keeps the invariant; what it does to the        *)
(* executor is covered by the two facts assumed.                           *)
LEMMA GuiKeeps ==
  ASSUME ObserverInv, IInv',
         stopper["run"] = "returned" => stopper'["run"] = "returned",
         stopper["release"] = "returned" => stopper'["release"] = "returned",
         (\E r \in Requests : Refuse(r) \/ Forward(r)) \/ GuiStep
  PROVE  ObserverInv'
<1> USE DEF ObserverInv, ObserverTypeOK, HoldersInv, RuntimeInv, DiscoveryInv, OwnerInv,
            RunAt, OwnerAt, GuiAt, RunHolds, Destroying, marks, Reachable, Fresh
<1>1. CASE \E r \in Requests : Refuse(r)
  BY <1>1 DEF Refuse, vars
<1>2. CASE \E r \in Requests : Forward(r)
  <2>1. /\ runtime = "alive" /\ runtime' = "alive" /\ ~Destroying
        /\ gui = "idle" /\ gui' = "holding" /\ owner = "using" /\ owner' = "using"
        /\ holders' = holders \cup {"gui"}
        /\ UNCHANGED <<run, stop, discovery, published, explicit, refused, thrown>>
    BY <1>2 DEF Forward
  <2>2. ObserverTypeOK'
    BY <2>1
  <2>3. HoldersInv'
    BY <2>1
  <2>4. RuntimeInv'
    BY <2>1
  <2>5. DiscoveryInv' /\ OwnerInv'
    BY <2>1
  <2> QED
    BY <2>2, <2>3, <2>4, <2>5
<1>3. CASE GuiReleases
  BY <1>3, SMTT(30) DEF GuiReleases, Release, vars
<1>4. CASE GuiDestroysExecutor
  BY <1>4 DEF GuiDestroysExecutor, vars
<1> QED
  BY <1>1, <1>2, <1>3, <1>4 DEF GuiStep

LEMMA RunKeeps ==
  ASSUME ObserverInv, IInv',
         stopper["run"] = "returned" => stopper'["run"] = "returned",
         stopper["release"] = "returned" => stopper'["release"] = "returned",
         RunStep \/ Throw
  PROVE  ObserverInv'
<1> USE ObserverAssumption
    DEF ObserverInv, ObserverTypeOK, HoldersInv, RuntimeInv, DiscoveryInv, OwnerInv,
        RunAt, OwnerAt, GuiAt, RunHolds, Destroying, marks, MoveRun
<1>1. CASE StartDiscovery
  BY <1>1 DEF StartDiscovery, vars
<1>2. CASE BuildExecutor
  BY <1>2 DEF BuildExecutor, vars
<1>3. CASE PublishExecutor
  BY <1>3 DEF PublishExecutor, vars
<1>4. CASE CheckStop \/ PublishSnapshot \/ EndWait
  <2>1. /\ run \in {"loop", "query", "waiting"}
        /\ run' \in {"stopping", "query", "waiting", "loop"}
        /\ UNCHANGED <<stopper, job, worker, reply>>
        /\ UNCHANGED <<owner, stop, discovery, runtime, holders, gui, published, refused, thrown>>
    BY <1>4 DEF CheckStop, PublishSnapshot, EndWait, vars
  <2>2. explicit' \in BOOLEAN
    BY <1>4 DEF CheckStop, PublishSnapshot, EndWait
  <2>3. ObserverTypeOK'
    BY <2>1, <2>2
  <2>4. HoldersInv' /\ RuntimeInv'
    BY <2>1
  <2>5. DiscoveryInv' /\ OwnerInv'
    BY <2>1
  <2> QED
    BY <2>3, <2>4, <2>5
<1>5. CASE RunStops
  BY <1>5 DEF RunStops, observerVars
<1>6. CASE StopDiscovery
  BY <1>6 DEF StopDiscovery, vars
<1>7. CASE Throw
  BY <1>7 DEF Throw, vars
<1>8. CASE RunReleases
  BY <1>8, SMTT(30) DEF RunReleases, Release, vars
<1>9. CASE RunDestroysExecutor
  BY <1>9 DEF RunDestroysExecutor, vars
<1>10. CASE DestroyDiscovery
  BY <1>10 DEF DestroyDiscovery, vars
<1>11. CASE ReportFailure
  BY <1>11 DEF ReportFailure, vars
<1> QED
  BY <1>1, <1>2, <1>3, <1>4, <1>5, <1>6, <1>7, <1>8, <1>9, <1>10, <1>11 DEF RunStep

LEMMA OwnerKeeps ==
  ASSUME ObserverInv, IInv',
         stopper["run"] = "returned" => stopper'["run"] = "returned",
         stopper["release"] = "returned" => stopper'["release"] = "returned",
         TakeNetwork \/ OwnerStep
  PROVE  ObserverInv'
<1> USE DEF ObserverInv, ObserverTypeOK, HoldersInv, RuntimeInv, DiscoveryInv, OwnerInv,
            RunAt, OwnerAt, GuiAt, RunHolds, Destroying, marks, Reachable, MoveOwner
<1>1. CASE TakeNetwork
  BY <1>1 DEF TakeNetwork, vars
<1>2. CASE SignalStop
  BY <1>2 DEF SignalStop, vars
<1>3. CASE LockExecutor
  <2>1. CASE Reachable
    <3>1. /\ runtime = "alive" /\ ~Destroying
          /\ owner = "signalled" /\ owner' = "holding"
          /\ holders' = holders \cup {"destructor"}
          /\ UNCHANGED <<stopper, job, worker, reply>>
          /\ UNCHANGED <<run, stop, discovery, runtime, gui, published, explicit, refused, thrown>>
      BY <1>3, <2>1 DEF LockExecutor, vars
    <3>2. ObserverTypeOK'
      BY <3>1
    <3>3. HoldersInv'
      BY <3>1
    <3>4. RuntimeInv' /\ DiscoveryInv' /\ OwnerInv'
      BY <3>1
    <3> QED
      BY <3>2, <3>3, <3>4
  <2>2. CASE ~Reachable
    <3>1. /\ owner = "signalled" /\ owner' = "joining"
          /\ UNCHANGED <<stopper, job, worker, reply>>
          /\ UNCHANGED <<run, stop, discovery, runtime, holders, gui, published, explicit,
                         refused, thrown>>
      BY <1>3, <2>2 DEF LockExecutor, vars
    <3> QED
      BY <3>1
  <2> QED
    BY <2>1, <2>2
<1>4. CASE DestructorStops
  BY <1>4 DEF DestructorStops
<1>5. CASE DestructorReleases
  BY <1>5, SMTT(30) DEF DestructorReleases, Release, vars
<1>6. CASE DestructorDestroysExecutor
  BY <1>6 DEF DestructorDestroysExecutor, vars
<1>7. CASE JoinRun
  BY <1>7 DEF JoinRun, vars
<1> QED
  BY <1>1, <1>2, <1>3, <1>4, <1>5, <1>6, <1>7 DEF OwnerStep

LEMMA ExecutorKeeps ==
  ASSUME ObserverInv, IInv',
         stopper["run"] = "returned" => stopper'["run"] = "returned",
         stopper["release"] = "returned" => stopper'["release"] = "returned",
         runtime = "alive", UNCHANGED observerVars
  PROVE  ObserverInv'
  BY DEF ObserverInv, ObserverTypeOK, HoldersInv, RuntimeInv, DiscoveryInv, OwnerInv,
         RunAt, OwnerAt, GuiAt, RunHolds, Destroying, observerVars, marks

-----------------------------------------------------------------------------
THEOREM ObserverInvariance == ObserverSpec => []ObserverInv
<1>1. ObserverInv /\ [ObserverNext]_allVars => ObserverInv'
  <2> SUFFICES ASSUME ObserverInv, [ObserverNext]_allVars PROVE ObserverInv'
    OBVIOUS
  <2>1. [Next]_vars
    BY ObserverStepsExecutor DEF allVars, vars
  <2>2. IInv'
    BY <2>1, StepIInv DEF ObserverInv
  <2>3. /\ stopper["run"] = "returned" => stopper'["run"] = "returned"
        /\ stopper["release"] = "returned" => stopper'["release"] = "returned"
    BY <2>1, ReturnedStays, ObserverAssumption DEF ObserverInv, IInv
  <2>4. CASE (\E r \in Requests : Refuse(r) \/ Forward(r)) \/ GuiStep
    BY <2>2, <2>3, <2>4, GuiKeeps
  <2>5. CASE RunStep \/ Throw
    BY <2>2, <2>3, <2>5, RunKeeps
  <2>6. CASE TakeNetwork \/ OwnerStep
    BY <2>2, <2>3, <2>6, OwnerKeeps
  <2>7. CASE ExecutorStep \/ (runtime = "alive" /\ SpuriousWakeup /\ UNCHANGED observerVars)
    BY <2>2, <2>3, <2>7, ExecutorKeeps DEF ExecutorStep
  <2>8. CASE UNCHANGED allVars
    BY <2>2, <2>8
       DEF allVars, vars, observerVars, marks, ObserverInv, ObserverTypeOK, HoldersInv,
           RuntimeInv, DiscoveryInv, OwnerInv, Destroying
  <2> QED
    BY <2>4, <2>5, <2>6, <2>7, <2>8 DEF ObserverNext
<1> QED
  BY ObserverInitInv, <1>1, PTL DEF ObserverSpec

(* The executor inside the observer is the executor of RemoteExecutor:     *)
(* Stop is called by three threads at most, each once.                     *)
THEOREM ExecutorInside == ObserverSpec => ExecutorSafety
<1>1. ObserverInit => Init
  BY DEF ObserverInit
<1>2. [ObserverNext]_allVars => [Next]_vars
  BY ObserverStepsExecutor DEF allVars, vars
<1> QED
  BY <1>1, <1>2, PTL DEF ObserverSpec, ExecutorSafety

(* Nobody holds an executor that has been destroyed, whichever of the      *)
(* three threads locks or releases it when.                                *)
THEOREM HoldersHoldLiving == ObserverSpec => []ObserverTypeOK
<1>1. ObserverInv => ObserverTypeOK
  BY DEF ObserverInv
<1> QED
  BY ObserverInvariance, <1>1, PTL

(* When StopNetwork returns both threads have ended, both objects are gone *)
(* and every command has its answer.                                       *)
THEOREM NothingLeft == ObserverSpec => []StopLeavesNothing
<1>1. ObserverInv => StopLeavesNothing
  <2> SUFFICES ASSUME ObserverInv, owner = "done"
               PROVE  /\ run = "ended" /\ discovery = "destroyed" /\ runtime # "alive"
                      /\ holders = {}
                      /\ runtime = "destroyed" => worker = "exited"
                      /\ \A r \in Requests : reply[r] \notin Pending
    BY DEF StopLeavesNothing
  <2>1. run = "ended" /\ discovery = "destroyed" /\ holders = {} /\ runtime # "alive"
    BY DEF ObserverInv, OwnerInv, DiscoveryInv, HoldersInv, RuntimeInv, Destroying, RunHolds,
           ObserverTypeOK, GuiAt
  <2>2. runtime = "destroyed" =>
          worker = "exited" /\ \A r \in Requests : reply[r] \notin Pending
    BY QuietInIInv, ObserverAssumption DEF ObserverInv, RuntimeInv, QuietAfterStop
  <2>3. runtime = "none" => \A r \in Requests : reply[r] \notin Pending
    BY DEF ObserverInv, RuntimeInv, Pending
  <2> QED
    BY <2>1, <2>2, <2>3 DEF ObserverInv, ObserverTypeOK
<1> QED
  BY ObserverInvariance, <1>1, PTL

(* No command is executed on a discovery that is stopped or gone, unless   *)
(* an iteration of Run threw.                                              *)
THEOREM DiscoveryOutlivesCommands == ObserverSpec => []DiscoveryStopsLast
<1>1. ObserverInv => DiscoveryStopsLast
  BY QuietInIInv, ObserverAssumption
     DEF ObserverInv, DiscoveryInv, RuntimeInv, ObserverTypeOK, QuietAfterStop,
         DiscoveryStopsLast
<1> QED
  BY ObserverInvariance, <1>1, PTL

=============================================================================
