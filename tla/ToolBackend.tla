---------------------------- MODULE ToolBackend -----------------------------
(***************************************************************************)
(* What include/kcf_tool/backend/tool_backend.hpp asks of its user and     *)
(* promises in return, over any backend: operations are serialized, there  *)
(* is one persistent echo session, its read errors and Refresh end it, and *)
(* a sample is one of the endpoint the session is of.                      *)
(***************************************************************************)
CONSTANTS Threads, None

VARIABLES
  users,    \* the threads in a handler or an operation
  session,  \* the endpoint the session is of, or None
  polling,  \* whether the user reads the session from time to time
  sample    \* the endpoint of the sample on display, or None

vars == <<users, session, polling, sample>>

Init == users = {} /\ session = None /\ polling = FALSE /\ sample = None

\* A sample replaces another only while its session is open.
Sampled == sample' \in {sample, session, None}
Ended == session' = None /\ polling' = FALSE

\* Between operations: reading without waiting, and ending the session.
Poll == Sampled /\ (UNCHANGED <<session, polling>> \/ Ended)

\* One thread enters when there is no other, and may open any session.
Enter(t) == users = {} /\ users' = {t} /\ Poll
Operate(t) == users = {t} /\ users' = {t} /\ Sampled

\* It leaves no session behind that nobody reads, and no reader without one.
Leave(t) == users = {t} /\ users' = {} /\ Sampled /\ polling' = (session' # None)

\* A thread that is given the backend finds no session.
HandOver(t, u) == users = {t} /\ users' = {u} /\ Ended /\ UNCHANGED sample

Idle == users = {} /\ users' = {} /\ Poll

Next ==
  \/ \E t \in Threads : Enter(t) \/ Operate(t) \/ Leave(t)
  \/ \E t, u \in Threads : HandOver(t, u)
  \/ Idle

Spec == Init /\ [][Next]_vars
=============================================================================
