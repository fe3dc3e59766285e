---------------------------- MODULE MockBackend -----------------------------
(***************************************************************************)
(* The backend the user-interface tests and the demonstration run on       *)
(* (src/src/backend/mock_backend.cpp): values in memory, an echo session   *)
(* of its own and the checks of the real backend done by hand.  The caller *)
(* and its snapshot are ParameterValue's; descriptor is the schema of what *)
(* the caller works on, a parameter or the request of the services.        *)
(* A name and an identity select the same parameter or topic.              *)
(***************************************************************************)
EXTENDS ParameterValue

CONSTANTS
  Parameters,    \* the parameters there are
  Kind,          \* Kind[p]: the kind of a parameter's value, or "none"
  Writable,      \* those that can be set
  Topics, None,  \* the topics, and no topic
  Operands,      \* the kind of the operands of the services
  MaxReads       \* bound on samples read and on refreshes

ASSUME MockAssumption ==
  /\ Parameters \subseteq STRING \ {"request"} /\ Writable \subseteq Parameters
  /\ Kind \in [Parameters -> Kinds \cup {"none"}] /\ "none" \notin Kinds
  /\ \A p \in Parameters : Kind[p] # "none" => Sort[Kind[p]] # "BOOLEAN" /\ p \in Writable
  /\ Topics \subseteq STRING
  /\ Operands \in Kinds /\ Sort[Operands] \in {"SIGNED_INTEGER", "UNSIGNED_INTEGER"}

VARIABLES
  texts,         \* parameters_: the text of each
  sequence,      \* topics_: the samples read of each
  echo,          \* echo_identity_ if echo_active_, else None
  heartbeat      \* elements_: of the running ones

mockVars == <<texts, sequence, echo, heartbeat, valueVars>>

Scalar(name, kind, offset) == [name |-> name, kind |-> kind, offset |-> offset, count |-> 1]

\* What GetTypeTemplate knows, and the schema of a parameter with a type.
Schema(type, kind, names) ==
  [type |-> type, size |-> Len(names) * Size[kind],
   fields |-> [n \in DOMAIN names |-> Scalar(names[n], kind, (n - 1) * Size[kind])]]
Request == Schema("request", Operands, <<"a", "b">>)
Response == Schema("response", Operands, <<"result">>)
SchemaOf(p) == Schema(p, Kind[p], <<"value">>)
HasType(p) == Kind[p] # "none"
Schemas == {Request} \cup {SchemaOf(p) : p \in {q \in Parameters : HasType(q)}}

Initial(kind) == IF kind = "none" THEN <<"other">>
                 ELSE IF Sort[kind] = "FLOATING_POINT" THEN <<"number", 0>> ELSE <<"number", 1>>

MockInit ==
  /\ descriptor \in Schemas
  /\ storage = <<>>
  /\ CallerInit
  /\ texts = [p \in Parameters |-> Initial(Kind[p])]
  /\ sequence = [t \in Topics |-> 0]
  /\ echo = None /\ heartbeat = 0

-----------------------------------------------------------------------------
\* A variant that leaves the range to the conversion.
CheckIntegerParsed(kind, text) == IF text[1] # "number" THEN "EINVAL" ELSE "ok"

\* The scalar checks, in the order the code makes them.
CheckInteger(kind, text) ==
  IF HasNumber(kind, text) /\ ~InRange(kind, Size[kind], text[2]) THEN "ERANGE"
  ELSE IF ~HasNumber(kind, text) \/ text[1] # "number" THEN "EINVAL"
  ELSE "ok"

CheckReal(kind, text) ==
  IF (text[1] = "real" /\ text[2] = kind) \/ text \in DOMAIN Nearest[kind] THEN "ok" ELSE "EINVAL"

CheckScalar(kind, text) ==
  IF Sort[kind] = "FLOATING_POINT" THEN CheckReal(kind, text) ELSE CheckInteger(kind, text)

\* A field of the caller against the one of the schema.
CheckField(f, field) ==
  IF field.kind # f.kind THEN "EPROTOTYPE"
  ELSE IF field.array # <<>> THEN "EMSGSIZE"
  ELSE CheckScalar(f.kind, field.value)

ValidateParameter(p, value) ==
  IF p \notin Parameters THEN "ENOENT"
  ELSE IF p \notin Writable THEN "EPERM"
  ELSE IF ~HasType(p) THEN "ENOTSUP"
  ELSE IF value.type # p THEN "EPROTOTYPE"
  ELSE IF Len(value.fields) # 1 \/ value.fields[1].name # "value" THEN "EINVAL"
  ELSE CheckField(SchemaOf(p).fields[1], value.fields[1])

\* Both services take two operands by name, in any order.
ValidateService(service, value) ==
  IF service \notin {"add", "subtract"} THEN "ENOENT"
  ELSE IF value.type # "request" THEN "EPROTOTYPE"
  ELSE IF Len(value.fields) # 2 THEN "EINVAL"
  ELSE FirstError([n \in 1..2 |->
         IF value.fields[n].name \notin {"a", "b"} \/ (n = 2 /\ value.fields[1].name = value.fields[2].name)
         THEN "EINVAL" ELSE CheckField(Request.fields[1], value.fields[n])])

Operand(value, name) ==
  value.fields[CHOOSE n \in 1..2 : value.fields[n].name = name].value[2]

-----------------------------------------------------------------------------
\* One text for each field of a schema.
Filled(schema, values) ==
  [type |-> schema.type, fields |-> [n \in DOMAIN values |-> Shown(schema.fields[n], <<values[n]>>)]]

Unread == UNCHANGED <<sequence, echo, heartbeat>>

MockGet(p) ==
  /\ IF p \notin Parameters THEN Answer(Result("ENOENT", form))
     ELSE IF ~HasType(p) THEN Answer(Result("ENOTSUP", form))
     ELSE Answer(Result("ok", Filled(SchemaOf(p), <<texts[p]>>)))
  /\ UNCHANGED <<descriptor, storage, texts>> /\ Unread

MockSet(p, input) ==
  LET why == ValidateParameter(p, input)
  IN /\ error' = why
     /\ texts' = IF why = "ok" THEN [texts EXCEPT ![p] = input.fields[1].value] ELSE texts
     /\ UNCHANGED <<descriptor, storage, form>> /\ Unread

\* SetParameter by name takes any text; one no type has stands for them.
MockSetNamed(p, text) ==
  /\ error' = IF p \notin Parameters THEN "ENOENT" ELSE IF p \notin Writable THEN "EPERM" ELSE "ok"
  /\ texts' = IF error' = "ok" THEN [texts EXCEPT ![p] = text] ELSE texts
  /\ UNCHANGED <<descriptor, storage, form>> /\ Unread

MockPrepare(type) ==
  /\ CASE type = "request" -> Answer(Result("ok", Filled(Request, <<<<"number", 0>>, <<"number", 0>>>>)))
       [] type = "response" -> Answer(Result("ok", Filled(Response, <<<<"number", 0>>>>)))
       [] OTHER -> Answer(Result("ENOENT", form))
  /\ UNCHANGED <<descriptor, storage, texts>> /\ Unread

\* The response replaces the caller's snapshot; the sum must fit as well.
MockCall(service, request) ==
  LET why == ValidateService(service, request)
      a == Operand(request, "a")
      b == Operand(request, "b")
      sum == IF service = "add" THEN a + b ELSE a - b
  IN /\ IF why # "ok" THEN Answer(Result(why, form))
        ELSE IF ~InRange(Operands, Size[Operands], sum) THEN Answer(Result("ERANGE", form))
        ELSE Answer(Result("ok", Filled(Response, <<<<"number", sum>>>>)))
     /\ UNCHANGED <<descriptor, storage, texts>> /\ Unread

-----------------------------------------------------------------------------
Untouched == UNCHANGED <<descriptor, storage, form, texts>>

\* StartTopicEcho ends the session there is, found or not.
StartTopicEcho(t) ==
  /\ echo' = IF t \in Topics THEN t ELSE None
  /\ error' = IF t \in Topics THEN "ok" ELSE "ENOENT"
  /\ UNCHANGED <<sequence, heartbeat>> /\ Untouched

StopTopicEcho ==
  /\ echo' = None
  /\ UNCHANGED <<sequence, heartbeat, error>> /\ Untouched

\* Every read is a new sample.
ReadTopicLatest(t) ==
  /\ IF t \in Topics
     THEN /\ sequence[t] < MaxReads
          /\ sequence' = [sequence EXCEPT ![t] = @ + 1]
          /\ Answer(Result("ok", Filled(Schema(t, Operands, <<"sequence">>), <<<<"number", sequence'[t]>>>>)))
     ELSE Answer(Result("ENOENT", form)) /\ UNCHANGED sequence
  /\ UNCHANGED <<echo, heartbeat, descriptor, storage, texts>>

ReadTopicEcho ==
  \/ echo # None /\ ReadTopicLatest(echo)
  \/ echo = None /\ error' = "EBADF" /\ UNCHANGED <<sequence, echo, heartbeat>> /\ Untouched

Refresh ==
  /\ heartbeat < MaxReads
  /\ echo' = None /\ heartbeat' = heartbeat + 1
  /\ error' = "ok"
  /\ UNCHANGED sequence /\ Untouched

MockNext ==
  \/ \E p \in Parameters \cup {"unknown"} :
       MockGet(p) \/ MockSetNamed(p, Empty) \/ \E input \in Inputs : MockSet(p, input)
  \/ \E type \in {"request", "response", "unknown"} : MockPrepare(type)
  \/ \E service \in {"add", "subtract", "unknown"}, request \in Inputs : MockCall(service, request)
  \/ Edit /\ Unread /\ UNCHANGED texts
  \/ \E t \in Topics \cup {"unknown"} : StartTopicEcho(t) \/ ReadTopicLatest(t)
  \/ StopTopicEcho \/ ReadTopicEcho \/ Refresh

MockSpec == MockInit /\ [][MockNext]_mockVars

-----------------------------------------------------------------------------
\* The mock is a true double of the codec: for every schema it has, it takes a
\* value exactly when the real backend's encoder would (ValidateParameter and
\* ValidateService of mock_backend.cpp against detail::Encode).
MockAgrees ==
  descriptor \in Schemas => \A input \in Inputs :
    LET why == IF descriptor.type = "request" THEN ValidateService("add", input)
               ELSE ValidateParameter(descriptor.type, input)
    IN why = "ok" <=> Encode(descriptor, input, Payload(<<>>), <<>>).error = "ok"
=============================================================================
