--------------------------- MODULE ParameterValue ---------------------------
(***************************************************************************)
(* A caller's DataSnapshot against a stored parameter: GetParameter,       *)
(* SetParameter and GetTypeTemplate of KcfBackend (src/src/backend/        *)
(* kcf_backend.cpp) down to the bytes, through the codec.  Which runtime   *)
(* is reached, and what happens between its calls, is LocalBackend's.      *)
(***************************************************************************)
EXTENDS ValueCodec

CONSTANTS
  Descriptors,   \* those ValidateTypeDescriptor accepts
  Typed,         \* what a caller may put into a text
  Distorted(_)   \* the misshapen variants of a snapshot

VARIABLES
  descriptor,    \* the parameter's type
  storage,       \* its bytes
  form,          \* the caller's snapshot
  error          \* of the last call, "ok" for none

\* What ValidateTypeDescriptor accepts of the members of a structure: fields
\* with names of their own, in the bounds of the payload and beside each other.
Beside(f, g) ==
  f.offset + Size[f.kind] * f.count <= g.offset \/ g.offset + Size[g.kind] * g.count <= f.offset
ASSUME DescriptorAssumption ==
  \A d \in Descriptors :
    /\ d \in [type : STRING, size : Nat,
             fields : Seq([name : STRING, kind : Kinds, offset : Nat, count : Nat \ {0}])]
    /\ \A i \in DOMAIN d.fields :
         /\ Bounds(d.fields[i], d.size)
         /\ \A j \in DOMAIN d.fields \ {i} : /\ d.fields[i].name # d.fields[j].name
                                             /\ Beside(d.fields[i], d.fields[j])

valueVars == <<descriptor, storage, form, error>>

NoSnapshot == [type |-> "none", fields |-> <<>>]
Payload(cells) == [type |-> descriptor.type, cells |-> cells]

CallerInit == form = NoSnapshot /\ error = "ok"

ParameterInit ==
  /\ descriptor \in Descriptors
  /\ storage = [i \in 1..descriptor.size |-> 0]
  /\ CallerInit

-----------------------------------------------------------------------------
Answer(result) == form' = result.output /\ error' = result.error

Get ==
  /\ Answer(Decode(descriptor, Payload(storage), form))
  /\ UNCHANGED <<descriptor, storage>>

\* GetTypeTemplate: a value of zeros.
Prepare ==
  /\ Answer(Decode(descriptor, Payload([i \in 1..descriptor.size |-> 0]), form))
  /\ UNCHANGED <<descriptor, storage>>

\* What the caller may hand over: its snapshot, or something misshapen.
Inputs == {form} \cup Distorted(form)

\* SetParameter encodes twice: to check, then over what is stored.
Set(input) ==
  LET checked == Encode(descriptor, input, Payload(<<>>), <<>>)
      encoded == Encode(descriptor, input, Payload(<<>>), <<Payload(storage)>>)
  IN /\ error' = FirstError(<<checked.error, encoded.error>>)
     /\ storage' = IF error' = "ok" THEN encoded.output.cells ELSE storage
     /\ UNCHANGED <<descriptor, form>>

\* The caller replaces a text.
Edited(field, j, text) ==
  IF field.array = <<>> THEN [field EXCEPT !.value = text]
  ELSE [field EXCEPT !.array[j] = text]

Edit ==
  /\ \E n \in DOMAIN form.fields :
       \E j \in 1..Len(form.fields[n].array) \cup {1}, text \in Typed :
         form' = [form EXCEPT !.fields[n] = Edited(@, j, text)]
  /\ error' = "ok"
  /\ UNCHANGED <<descriptor, storage>>

\* The runtime or another client writes a byte.
WriteElsewhere ==
  /\ \E i \in DOMAIN storage, v \in Bytes : storage' = [storage EXCEPT ![i] = v]
  /\ error' = "ok"
  /\ UNCHANGED <<descriptor, form>>

ParameterNext ==
  \/ Get \/ Prepare \/ Edit \/ WriteElsewhere
  \/ \E input \in Inputs : Set(input)

ParameterSpec == ParameterInit /\ [][ParameterNext]_valueVars

-----------------------------------------------------------------------------
\* What a text stands for in a field.
Meaning(kind, text) ==
  IF kind \in Floating /\ text \in DOMAIN Nearest[kind]
  THEN <<"real", kind, Nearest[kind][text]>> ELSE text

\* The fields of a snapshot by name, as what their texts stand for.
Meanings(d, snapshot) ==
  {<<d.fields[p[1]].name,
     [j \in 1..d.fields[p[1]].count |->
        Meaning(d.fields[p[1]].kind, Texts(d.fields[p[1]], snapshot.fields[p[2]])[j])]>> :
     p \in {q \in (DOMAIN d.fields) \X (DOMAIN snapshot.fields) :
            d.fields[q[1]].name = snapshot.fields[q[2]].name}}

Covered(d) == UNION {(f.offset + 1)..(f.offset + Size[f.kind] * f.count) :
                       f \in {d.fields[i] : i \in DOMAIN d.fields}}

\* What a successful write stored reads back as what the caller's texts said,
\* and the bytes that belong to no field are as they were: no text that is out
\* of the range of its type or has a rest becomes another value (Write's checks
\* against the wide type and then the narrow one).
SetsWhatItShows ==
  [][error' = "ok" /\ form' = form => \A input \in Inputs : Set(input) =>
       LET read == Decode(descriptor, Payload(storage'), NoSnapshot)
       IN /\ read.error = "ok"
          /\ Meanings(descriptor, read.output) = Meanings(descriptor, input)
          /\ \A i \in DOMAIN storage \ Covered(descriptor) : storage'[i] = storage[i]]_valueVars

\* A value that was read and is written back unedited changes no byte, unless
\* it holds a floating-point value that is not finite, which is shown and then
\* refused (Decode, then Encode over the seed).
UneditedWritesBack ==
  LET read == Decode(descriptor, Payload(storage), NoSnapshot)
      written == Encode(descriptor, read.output, Payload(<<>>), <<Payload(storage)>>)
      finite == \A i \in DOMAIN read.output.fields :
                  LET field == read.output.fields[i]
                  IN /\ field.value # <<"nonfinite">>
                     /\ \A j \in DOMAIN field.array : field.array[j] # <<"nonfinite">>
  IN read.error = "ok" => IF finite THEN written = Result("ok", Payload(storage))
                        ELSE written.error = "ERANGE"

\* "Failed output-parameter operations leave the caller's output unchanged"
\* (src/include/kcf_tool/backend/tool_backend.hpp): a call that fails half way
\* through the fields leaves the caller's snapshot, and the parameter, alone.
FailureKeepsOutput == [][error' # "ok" => UNCHANGED <<form, storage>>]_valueVars
=============================================================================
