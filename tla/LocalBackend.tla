---------------------------- MODULE LocalBackend ----------------------------
(***************************************************************************)
(* KcfBackend's access to the local runtimes (src/src/backend/             *)
(* kcf_backend.cpp): what Refresh has cached of one runtime, and the echo, *)
(* parameter and service operations on it.  Each operation is a plan, the  *)
(* sequence of its calls into the framework; between two of them the       *)
(* runtime may exit, be restarted under the same pid, or register an       *)
(* endpoint again, for none of these calls locks anything.                 *)
(*                                                                         *)
(* An identity is the life of the process (its start ticks) and the number *)
(* of the registration within that life; a new life counts from one again. *)
(* Types, sizes and roles are fixed per registration and left out.         *)
(***************************************************************************)
EXTENDS Integers, Sequences

CONSTANTS
  Names,        \* the names endpoints are registered under
  Kind,         \* Kind[n]: "topic", "parameter" or "service"
  Fields,       \* the fields of every parameter
  None,         \* no identity, no name
  MaxChanges    \* bound on what the runtime and other clients do

ASSUME BackendAssumption ==
  LET Identities == [life : Nat, reg : Nat]
  IN /\ Kind \in [Names -> {"topic", "parameter", "service"}]
     /\ None \notin Names /\ None \notin Identities
     /\ None \notin [name : Names, identity : Identities, handle : Identities, watched : Nat]

VARIABLES
  life, alive,       \* the process now behind the pid
  registered, last,  \* registered[n], 0 for not; the last number n was given
  memory,            \* memory[n]: identity that created what n opens, or None
  contents,          \* contents[n]: the fields of parameter n
  changes,           \* how much of MaxChanges has happened
  records,           \* impl_->topics, parameters, services: n's identity or None
  writable,          \* the parameters whose type Refresh could read
  connection,        \* impl_->state
  prepared,          \* impl_->prepared, or None
  calls              \* calls[t]: the backend call thread t is in

worldVars == <<life, alive, registered, last, memory, contents, changes>>
implVars == <<records, writable, connection, prepared>>
backendVars == <<worldVars, implVars, calls>>

Threads == {"gui", "worker"}
Values == {0, 1}
Parameters == {n \in Names : Kind[n] = "parameter"}
Identity(l, r) == [life |-> l, reg |-> r]
Blank == [f \in Fields |-> 0]

NoRecords == [n \in Names |-> None]

\* No call: its plan is empty.  A call that ended keeps result and value.
\* found and typed are what Refresh has listed; since is for the properties.
NoCall == [plan |-> <<>>, name |-> None, target |-> None, handle |-> None,
           watched |-> 0, value |-> Blank, result |-> "ok",
           found |-> NoRecords, typed |-> {}, since |-> 0]

BackendInit ==
  /\ life = 1 /\ alive = TRUE
  /\ registered = [n \in Names |-> 1] /\ last = registered
  /\ memory = [n \in Names |-> Identity(1, 1)]
  /\ contents = [n \in Names |-> Blank]
  /\ changes = 0
  /\ records = NoRecords /\ writable = {}
  /\ connection = "DISCONNECTED"
  /\ prepared = None
  /\ calls = [t \in Threads |-> NoCall]

-----------------------------------------------------------------------------
(* The runtime and other clients of its parameters. *)

Change == changes < MaxChanges /\ changes' = changes + 1 /\ UNCHANGED <<implVars, calls>>

\* The element closes and unlinks an endpoint.
Unregister(n) ==
  /\ Change /\ alive /\ registered[n] # 0
  /\ registered' = [registered EXCEPT ![n] = 0]
  /\ memory' = [memory EXCEPT ![n] = None]
  /\ UNCHANGED <<life, alive, last, contents>>

\* It creates one, under a new number and on new memory.
Register(n) ==
  /\ Change /\ alive /\ registered[n] = 0
  /\ last' = [last EXCEPT ![n] = @ + 1]
  /\ registered' = [registered EXCEPT ![n] = last'[n]]
  /\ memory' = [memory EXCEPT ![n] = Identity(life, last'[n])]
  /\ contents' = [contents EXCEPT ![n] = Blank]
  /\ UNCHANGED <<life, alive>>

\* The process ends; a crash leaves the memory behind.
Exit ==
  /\ Change /\ alive
  /\ alive' = FALSE
  /\ registered' = [n \in Names |-> 0]
  /\ memory' \in {memory, [n \in Names |-> None]}
  /\ UNCHANGED <<life, last, contents>>

\* It is started again, at worst under the same pid.
Restart ==
  /\ Change /\ ~alive
  /\ alive' = TRUE /\ life' = life + 1
  /\ registered' = [n \in Names |-> 1] /\ last' = registered'
  /\ memory' = [n \in Names |-> Identity(life', 1)]
  /\ contents' = [n \in Names |-> Blank]

\* The element or another client writes one field.
WriteElsewhere(n, f) ==
  /\ Change /\ n \in Parameters /\ memory[n] # None
  /\ contents' = [contents EXCEPT ![n][f] = 1 - @]
  /\ UNCHANGED <<life, alive, registered, last, memory>>

WorldStep ==
  \/ \E n \in Names : Unregister(n) \/ Register(n)
  \/ Exit \/ Restart
  \/ \E n \in Names, f \in Fields : WriteElsewhere(n, f)

-----------------------------------------------------------------------------
(* The operations, as the calls they make, in order. *)

EchoWithoutRecheck == <<"validate", "pidfd", "type", "open", "keep">>

\* StartTopicEcho: the pid's lifetime handle first, then what it must outlive.
EchoPlan == <<"validate", "pidfd", "type", "open", "validate", "keep">>

GetPlan == <<"validate", "type", "open", "validate", "get">>

SetWithoutRecheck == <<"type", "encode", "validate", "open", "seed", "set">>

\* SetParameter: the value is encoded over a seed, for bytes of no field.
SetPlan == <<"type", "encode", "validate", "open", "seed", "validate", "set">>

CallPlan == <<"type", "type", "encode", "validate", "open", "validate", "call">>

\* ValidateParameter and ValidateService look nothing up but types.
CheckPlan(n) == IF Kind[n] = "parameter" THEN <<"type", "encode">>
                ELSE <<"type", "type", "encode">>

\* GetTypeTemplate for the request and for the response.
TemplatePlan == <<"type", "type">>

RefreshPlan == <<"list", "endpoints", "recheck">>

Running(t) == calls[t].plan # <<>>
At(t, step) == Running(t) /\ Head(calls[t].plan) = step

\* The call proceeds, knowing more; or ends early.
Proceed(t, c) == calls' = [calls EXCEPT ![t] = [c EXCEPT !.plan = Tail(@)]]
Fail(t, why) == calls' = [calls EXCEPT ![t].plan = <<>>, ![t].result = why]

\* What a call begins with, after Find.
Called(plan, n, value) ==
  [NoCall EXCEPT !.plan = plan, !.name = n, !.target = records[n], !.value = value]

-----------------------------------------------------------------------------
(* The steps. *)

\* ValidateRegistration: the registry now, against the cached record.
Registered(n, id) == alive /\ life = id.life /\ registered[n] = id.reg

Validate(t) ==
  LET c == calls[t]
  IN /\ At(t, "validate")
     /\ IF Registered(c.name, c.target) THEN Proceed(t, c) ELSE Fail(t, "error")
     /\ UNCHANGED <<worldVars, implVars>>

\* pidfd_open takes whatever process has the pid.
OpenPidfd(t) ==
  /\ At(t, "pidfd")
  /\ IF alive THEN Proceed(t, [calls[t] EXCEPT !.watched = life]) ELSE Fail(t, "error")
  /\ UNCHANGED <<worldVars, implVars>>

\* GetType asks the process, and checks its start ticks.
ReadType(t) ==
  /\ At(t, "type")
  /\ IF alive /\ life = calls[t].target.life THEN Proceed(t, calls[t]) ELSE Fail(t, "error")
  /\ UNCHANGED <<worldVars, implVars>>

\* detail::Encode refuses what is not a value of the type.
Encode(t) ==
  /\ At(t, "encode")
  /\ Proceed(t, calls[t]) \/ Fail(t, "invalid")
  /\ UNCHANGED <<worldVars, implVars>>

\* Open goes by name: it attaches to the memory of whoever created it last.
Open(t) ==
  LET c == calls[t]
  IN /\ At(t, "open")
     /\ IF memory[c.name] # None THEN Proceed(t, [c EXCEPT !.handle = memory[c.name]])
        ELSE Fail(t, "error")
     /\ UNCHANGED <<worldVars, implVars>>

\* The framework refuses to use memory that was unlinked.
Attached(t) == calls[t].handle = memory[calls[t].name]

ReadParameter(t) ==
  LET c == calls[t]
  IN /\ At(t, "get") \/ At(t, "seed")
     /\ IF ~Attached(t) THEN Fail(t, "error")
        ELSE IF At(t, "seed") THEN Proceed(t, c)
        ELSE Proceed(t, [c EXCEPT !.value = contents[c.name]])
     /\ UNCHANGED <<worldVars, implVars>>

WriteParameter(t) ==
  LET c == calls[t]
  IN /\ At(t, "set")
     /\ \/ Attached(t) /\ Proceed(t, c) /\ contents' = [contents EXCEPT ![c.name] = c.value]
        \/ ~Attached(t) /\ Fail(t, "error") /\ UNCHANGED contents
     /\ UNCHANGED <<life, alive, registered, last, memory, changes, implVars>>

\* A service answers or the 200 ms and two retries run out.
Call(t) ==
  /\ At(t, "call")
  /\ Proceed(t, calls[t]) \/ Fail(t, "error")
  /\ UNCHANGED <<worldVars, implVars>>

KeepEcho(t) ==
  LET c == calls[t]
  IN /\ At(t, "keep")
     /\ prepared' = [name |-> c.name, identity |-> c.target,
                     handle |-> c.handle, watched |-> c.watched]
     /\ Proceed(t, c)
     /\ UNCHANGED <<worldVars, records, writable, connection>>

\* Any of them can fail for reasons of its own (memory, sockets).
CallFails(t) ==
  /\ Running(t) /\ ~At(t, "keep") /\ ~At(t, "list") /\ ~At(t, "endpoints") /\ ~At(t, "recheck")
  /\ Fail(t, "error")
  /\ UNCHANGED <<worldVars, implVars>>

-----------------------------------------------------------------------------
(* Refresh: a new Impl is filled while the runtime may change, and replaces *)
(* the old one; a listing that fails as a whole leaves nothing.             *)

\* ListRuntimes: the life that the later queries are about.
ListRuntimes(t) ==
  /\ At(t, "list")
  /\ Proceed(t, [calls[t] EXCEPT !.watched = IF alive THEN life ELSE 0])
  /\ UNCHANGED <<worldVars, implVars>>

\* ListEndpoints and ListServices of that life; their failures only leave
\* the records out, and an unreadable type makes a parameter read-only.
ListEndpoints(t) ==
  LET c == calls[t]
      there == {n \in Names : alive /\ life = c.watched /\ registered[n] # 0}
  IN /\ At(t, "endpoints")
     /\ \E kinds \in SUBSET {"endpoint", "service"}, types \in BOOLEAN :
          LET found == {n \in there : IF Kind[n] = "service" THEN "service" \in kinds
                                      ELSE "endpoint" \in kinds}
          IN Proceed(t, [c EXCEPT
               !.found = [n \in Names |-> IF n \in found THEN Identity(life, registered[n])
                                          ELSE None],
               !.typed = IF types THEN found \cap Parameters ELSE {}])
     /\ UNCHANGED <<worldVars, implVars>>

\* ListRuntimes again: what belongs to a process that is gone is dropped.
\* Without it there may still be a supervisor to be connected to.
Recheck(t) ==
  LET c == calls[t]
      stillThere == alive /\ life = c.watched
  IN /\ At(t, "recheck")
     /\ records' = IF stillThere THEN c.found ELSE NoRecords
     /\ writable' = IF stillThere THEN c.typed ELSE {}
     /\ connection' \in IF stillThere THEN {"CONNECTED"} ELSE {"CONNECTED", "DISCONNECTED"}
     /\ prepared' = None
     /\ calls' = [calls EXCEPT ![t] = NoCall]
     /\ UNCHANGED worldVars

RefreshFails(t) ==
  /\ At(t, "list") \/ At(t, "endpoints") \/ At(t, "recheck")
  /\ records' = NoRecords /\ writable' = {}
  /\ connection' = "ERROR"
  /\ calls' = [calls EXCEPT ![t] = [NoCall EXCEPT !.result = "error"]]
  /\ UNCHANGED <<worldVars, prepared>>

CallStep(t) ==
  \/ Validate(t) \/ OpenPidfd(t) \/ ReadType(t) \/ Encode(t) \/ Open(t)
  \/ ReadParameter(t) \/ WriteParameter(t) \/ Call(t) \/ KeepEcho(t) \/ CallFails(t)
  \/ ListRuntimes(t) \/ ListEndpoints(t) \/ Recheck(t) \/ RefreshFails(t)

-----------------------------------------------------------------------------
(* ReadTopicEcho: poll on the pidfd, then the reader; both are immediate.   *)
EchoResults ==
  IF prepared = None THEN {"error"}
  ELSE IF ~alive \/ life # prepared.watched THEN {"error"}
  ELSE IF memory[prepared.name] # prepared.handle THEN {"error"}
  ELSE {"ok", "EAGAIN", "error"}

=============================================================================
