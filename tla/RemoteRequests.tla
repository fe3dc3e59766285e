--------------------------- MODULE RemoteRequests ---------------------------
(***************************************************************************)
(* What a caller of the remote-control worker may rely on, whatever the    *)
(* threads behind it do: a request is refused at once or accepted; the     *)
(* accepted requests are served one at a time in the order of acceptance,  *)
(* and each is answered exactly once; nothing is accepted or cancelled     *)
(* except around the one, final, closing of the service.                   *)
(***************************************************************************)
EXTENDS Sequences

CONSTANT Requests   \* the requests that callers may make, each once

VARIABLES
  outstanding,  \* accepted, not yet answered, in the order of acceptance
  answer,       \* answer[r]: "none" until r has an answer
  closed        \* the service accepts nothing any more

absvars == <<outstanding, answer, closed>>

Answered == {"done", "EIO", "EAGAIN", "ECANCELED"}

Fresh(r) ==
  /\ answer[r] = "none"
  /\ \A i \in DOMAIN outstanding : outstanding[i] # r

AbsInit ==
  /\ outstanding = <<>>
  /\ answer = [r \in Requests |-> "none"]
  /\ closed = FALSE

Accept(r) ==
  /\ Fresh(r)
  /\ ~closed
  /\ outstanding' = Append(outstanding, r)
  /\ UNCHANGED <<answer, closed>>

Refuse(r) ==
  /\ Fresh(r)
  /\ \E why \in {"EAGAIN", "ECANCELED"} :
       /\ why = "ECANCELED" <=> closed
       /\ answer' = [answer EXCEPT ![r] = why]
  /\ UNCHANGED <<outstanding, closed>>

Serve ==
  /\ outstanding # <<>>
  /\ \E how \in {"done", "EIO"} :
       answer' = [answer EXCEPT ![Head(outstanding)] = how]
  /\ outstanding' = Tail(outstanding)
  /\ UNCHANGED closed

Close ==
  /\ closed' = TRUE
  /\ UNCHANGED <<outstanding, answer>>

CancelOutstanding ==
  /\ closed
  /\ answer' = [r \in Requests |->
                  IF \E i \in DOMAIN outstanding : outstanding[i] = r
                  THEN "ECANCELED" ELSE answer[r]]
  /\ outstanding' = <<>>
  /\ UNCHANGED closed

AbsNext ==
  \/ \E r \in Requests : Accept(r) \/ Refuse(r)
  \/ Serve
  \/ Close
  \/ CancelOutstanding

AbsSafety == AbsInit /\ [][AbsNext]_absvars

=============================================================================
