----------------------------- MODULE MCBackends -----------------------------
(* One caller in front of either backend; bytes of four values. *)
EXTENDS MockBackend, SequencesExt

MCSort == [bool |-> "BOOLEAN", int |-> "SIGNED_INTEGER", uint |-> "UNSIGNED_INTEGER",
           wide |-> "SIGNED_INTEGER", float |-> "FLOATING_POINT"]
MCKinds == DOMAIN MCSort
MCSize == [k \in MCKinds |-> IF k = "wide" THEN 2 ELSE 1]

\* Of a floating-point byte, 3 is not finite.
MCReals == [float |-> {<<v>> : v \in 0..2}]
MCNearest == [float |-> [t \in {<<"number", v>> : v \in 0..2} |-> <<t[2]>>]]

Field(name, kind, offset, count) == [name |-> name, kind |-> kind, offset |-> offset, count |-> count]

\* A byte of padding; an array; a float beside a wider integer.
MCDescriptors ==
  {[type |-> "padded", size |-> 3,
    fields |-> <<Field("on", "bool", 2, 1), Field("level", "int", 0, 1)>>],
   [type |-> "array", size |-> 2, fields |-> <<Field("pair", "uint", 0, 2)>>],
   [type |-> "mixed", size |-> 3,
    fields |-> <<Field("gain", "float", 0, 1), Field("count", "wide", 1, 1)>>]}

MCTyped == {<<"number", -1>>, <<"number", 4>>, <<"number", 9>>,
            <<"number and more", 1>>, <<"true">>, <<"empty">>}

MCKind == [period |-> "uint", radius |-> "float", port |-> "none"]
MCParameters == DOMAIN MCKind
MCWritable == {"period", "radius"}

\* A field lost, repeated, in another order or misnamed; its kind or shape
\* wrong; the whole of another type.
MCDistorted(s) ==
  LET n == Len(s.fields)
      With(f) == [s EXCEPT !.fields = f]
  IN IF n = 0 THEN {}
     ELSE {With(Tail(s.fields)), With(Reverse(s.fields)),
           With([i \in 1..n |-> s.fields[1]]),
           [s EXCEPT !.fields[1].name = "unknown"],
           [s EXCEPT !.fields[1].kind = "bool"],
           [s EXCEPT !.fields[n].array = <<<<"true">>>>],
           [s EXCEPT !.type = "unknown"]}

-----------------------------------------------------------------------------
VARIABLE backend   \* the one in use

vars == <<backend, mockVars>>
Init ==
  \/ backend = "kcf" /\ ParameterInit
     /\ texts = <<>> /\ sequence = <<>> /\ echo = None /\ heartbeat = 0
  \/ backend = "mock" /\ MockInit
Next ==
  /\ UNCHANGED backend
  /\ \/ backend = "kcf" /\ ParameterNext /\ UNCHANGED <<texts, sequence, echo, heartbeat>>
     \/ backend = "mock" /\ MockNext
Spec == Init /\ [][Next]_vars
=============================================================================
