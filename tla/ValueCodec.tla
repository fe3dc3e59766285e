----------------------------- MODULE ValueCodec -----------------------------
(***************************************************************************)
(* detail::Decode and detail::Encode (src/src/backend/value_codec.cpp):    *)
(* the bytes of a value as the texts of its fields, and back.  A byte is a *)
(* cell of ByteValues values, a few where whole ranges are to be checked.  *)
(* A text is what the parsers make of it, a tuple:                         *)
(*   <<"number", n>>  <<"number and more", n>>  an integer is in front     *)
(*   <<"real", kind, cells>>  <<"nonfinite">>   a floating-point value     *)
(*   <<"true">>  <<"false">>  <<"empty">>  <<"other">>                     *)
(* A result is an error or "ok", and what the caller's output holds.       *)
(***************************************************************************)
EXTENDS Integers, Sequences

CONSTANTS
  ByteValues, \* how many values a byte has, 256 in the code
  Kinds,      \* the kinds of fields
  Sort, Size, \* of each kind: its ValueKind, and how many bytes it takes
  Reals,      \* of a floating-point kind: its finite values, as cells
  Nearest     \* of such a kind: the other texts it reads, and what as

Bytes == 0..(ByteValues - 1)
Floating == {k \in Kinds : Sort[k] = "FLOATING_POINT"}

ASSUME CodecAssumption ==
  /\ ByteValues \in Nat \ {0} /\ ByteValues % 2 = 0
  /\ Sort \in [Kinds -> {"BOOLEAN", "SIGNED_INTEGER", "UNSIGNED_INTEGER", "FLOATING_POINT"}]
  /\ Size \in [Kinds -> Nat \ {0}]
  /\ \E widest \in Kinds : \A k \in Kinds : Size[k] <= Size[widest]
  /\ \A k \in Floating : /\ Reals[k] \subseteq [1..Size[k] -> Bytes]
                         /\ \A t \in DOMAIN Nearest[k] :
                              /\ Nearest[k][t] \in Reals[k]
                              /\ t[1] = "number" \/ (t[1] = "real" /\ t[2] # k)

\* Descriptors are [type, size, fields] with fields [name, kind, offset,
\* count]; payloads are [type, cells]; snapshots are [type, fields] with
\* fields [name, kind, value, array].
Empty == <<"empty">>
Result(error, output) == [error |-> error, output |-> output]

\* The first error of a sequence of them.
FirstError(errors) ==
  LET bad == {i \in DOMAIN errors : errors[i] # "ok"}
  IN IF bad = {} THEN "ok" ELSE errors[CHOOSE i \in bad : \A j \in bad : i <= j]

\* The weight of byte n + 1, and how many values n bytes have.
Power(n) ==
  LET power[i \in 0..n] == IF i = 0 THEN 1 ELSE ByteValues * power[i - 1]
  IN power[n]

WideSize == CHOOSE w \in {Size[k] : k \in Kinds} : \A k \in Kinds : Size[k] <= w

\* The range of a kind's values in size bytes.
Least(kind, size) == IF Sort[kind] = "SIGNED_INTEGER" THEN -(Power(size) \div 2) ELSE 0
Greatest(kind, size) ==
  IF Sort[kind] = "SIGNED_INTEGER" THEN (Power(size) \div 2) - 1 ELSE Power(size) - 1

\* Memory as an unsigned number, the first cell lowest.
Unsigned(cells) ==
  LET upTo[i \in 0..Len(cells)] ==
        IF i = 0 THEN 0 ELSE upTo[i - 1] + cells[i] * Power(i - 1)
  IN upTo[Len(cells)]

CellsOf(kind, n) ==
  [i \in 1..Size[kind] |-> ((n % Power(Size[kind])) \div Power(i - 1)) % ByteValues]

-----------------------------------------------------------------------------
\* ReadScalar
ReadScalar(kind, cells) ==
  LET u == Unsigned(cells)
  IN CASE Sort[kind] = "BOOLEAN" ->
            IF u > 1 THEN Result("EPROTO", Empty) ELSE Result("ok", IF u = 1 THEN <<"true">> ELSE <<"false">>)
       [] Sort[kind] = "FLOATING_POINT" ->
            Result("ok", IF cells \in Reals[kind] THEN <<"real", kind, cells>> ELSE <<"nonfinite">>)
       [] OTHER ->
            Result("ok", <<"number", IF u > Greatest(kind, Size[kind]) THEN u - Power(Size[kind]) ELSE u>>)

\* from_chars into the wide type of the kind: it takes no sign for an
\* unsigned one and stops where the number ends.
HasNumber(kind, text) ==
  /\ text[1] \in {"number", "number and more"}
  /\ Sort[kind] = "SIGNED_INTEGER" \/ text[2] >= 0
InRange(kind, size, n) == Least(kind, size) <= n /\ n <= Greatest(kind, size)

\* A variant that is content with the wide type.
WriteIntegerWide(kind, text) ==
  IF ~HasNumber(kind, text) \/ text[1] # "number" THEN Result("EINVAL", <<>>)
  ELSE IF ~InRange(kind, WideSize, text[2]) THEN Result("ERANGE", <<>>)
  ELSE Result("ok", CellsOf(kind, text[2]))

WriteInteger(kind, text) ==
  IF ~HasNumber(kind, text) THEN Result("EINVAL", <<>>)
  ELSE IF ~InRange(kind, WideSize, text[2]) THEN Result("ERANGE", <<>>)
  ELSE IF text[1] # "number" THEN Result("EINVAL", <<>>)
  ELSE IF ~InRange(kind, Size[kind], text[2]) THEN Result("ERANGE", <<>>)
  ELSE Result("ok", CellsOf(kind, text[2]))

\* WriteScalar
WriteScalar(kind, text) ==
  CASE Sort[kind] = "BOOLEAN" ->
         IF text \notin {<<"true">>, <<"false">>} THEN Result("EINVAL", <<>>)
         ELSE Result("ok", CellsOf(kind, IF text = <<"true">> THEN 1 ELSE 0))
    [] Sort[kind] = "FLOATING_POINT" ->
         IF text[1] = "real" /\ text[2] = kind THEN Result("ok", text[3])
         ELSE IF text \in DOMAIN Nearest[kind] THEN Result("ok", Nearest[kind][text])
         ELSE Result(IF text = Empty THEN "EINVAL" ELSE "ERANGE", <<>>)
    [] OTHER -> WriteInteger(kind, text)

-----------------------------------------------------------------------------
Bounds(f, size) == f.offset <= size /\ Size[f.kind] * f.count <= size - f.offset

\* How many cells are in front of element j of a field.
First(f, j) == f.offset + (j - 1) * Size[f.kind]

\* The texts of a field of a snapshot, one for each element.
Texts(f, field) == IF f.count = 1 THEN <<field.value>> ELSE field.array

Shown(f, texts) ==
  [name |-> f.name, kind |-> f.kind,
   value |-> IF f.count = 1 THEN texts[1] ELSE Empty,
   array |-> IF f.count = 1 THEN <<>> ELSE texts]

ReadField(f, cells) ==
  IF ~Bounds(f, Len(cells)) THEN Result("EPROTO", <<>>)
  ELSE LET read == [j \in 1..f.count |->
                      ReadScalar(f.kind, [i \in 1..Size[f.kind] |-> cells[First(f, j) + i]])]
       IN Result(FirstError([j \in DOMAIN read |-> read[j].error]),
                 Shown(f, [j \in DOMAIN read |-> read[j].output]))

\* A variant that fills the output field by field.
DecodeInPlace(d, payload, output) ==
  IF payload.type # d.type THEN Result("EPROTOTYPE", output)
  ELSE IF Len(payload.cells) # d.size THEN Result("EMSGSIZE", output)
  ELSE LET read == [i \in DOMAIN d.fields |-> ReadField(d.fields[i], payload.cells)]
           error == FirstError([i \in DOMAIN read |-> read[i].error])
           good == SelectSeq(read, LAMBDA r : r.error = "ok")
       IN Result(error, [type |-> d.type, fields |-> [i \in DOMAIN good |-> good[i].output]])

\* Decode: the output is assigned when every field has been read.
Decode(d, payload, output) ==
  IF payload.type # d.type THEN Result("EPROTOTYPE", output)
  ELSE IF Len(payload.cells) # d.size THEN Result("EMSGSIZE", output)
  ELSE LET read == [i \in DOMAIN d.fields |-> ReadField(d.fields[i], payload.cells)]
           error == FirstError([i \in DOMAIN read |-> read[i].error])
       IN IF error # "ok" THEN Result(error, output)
          ELSE Result("ok", [type |-> d.type, fields |-> [i \in DOMAIN read |-> read[i].output]])

-----------------------------------------------------------------------------
\* The cells of a payload with the elements of field f written over them.
Written(f, texts, cells) ==
  [i \in DOMAIN cells |->
     IF \E j \in DOMAIN texts : i - First(f, j) \in 1..Size[f.kind]
     THEN LET j == CHOOSE j \in DOMAIN texts : i - First(f, j) \in 1..Size[f.kind]
          IN WriteScalar(f.kind, texts[j]).output[i - First(f, j)]
     ELSE cells[i]]

\* One turn of Encode's loop, for field n of the input.
WriteField(d, input, n, size) ==
  LET field == input.fields[n]
      named == {i \in DOMAIN d.fields : d.fields[i].name = field.name}
      usedBefore == \E m \in 1..(n - 1) : input.fields[m].name = field.name
  IN IF named = {} \/ usedBefore THEN "EINVAL"
     ELSE LET f == d.fields[CHOOSE i \in named : TRUE]
          IN IF ~Bounds(f, size) THEN "EPROTO"
             ELSE IF field.kind # f.kind THEN "EPROTOTYPE"
             ELSE IF IF f.count = 1 THEN field.array # <<>>
                     ELSE Len(field.array) # f.count \/ field.value # Empty
                  THEN "EMSGSIZE"
             ELSE FirstError([j \in 1..f.count |-> WriteScalar(f.kind, Texts(f, field)[j]).error])

\* A variant that forgets the seed.
ZeroBase(d, seed) == [i \in 1..d.size |-> 0]

\* What Encode writes over: the seed, if the caller has one, or zeros.
Base(d, seed) == IF seed = <<>> THEN [i \in 1..d.size |-> 0] ELSE seed[1].cells

\* Encode.  seed is <<>> for a null pointer.
Encode(d, input, output, seed) ==
  IF input.type # d.type THEN Result("EPROTOTYPE", output)
  ELSE IF Len(input.fields) # Len(d.fields) THEN Result("EINVAL", output)
  ELSE IF seed # <<>> /\ (seed[1].type # d.type \/ Len(seed[1].cells) # d.size)
       THEN Result("EPROTOTYPE", output)
  ELSE LET error == FirstError([n \in DOMAIN input.fields |-> WriteField(d, input, n, d.size)])
           TextsOf(f) == Texts(f, input.fields[CHOOSE n \in DOMAIN input.fields :
                                                 input.fields[n].name = f.name])
           written[i \in 0..Len(d.fields)] ==
             IF i = 0 THEN Base(d, seed)
             ELSE Written(d.fields[i], TextsOf(d.fields[i]), written[i - 1])
       IN IF error # "ok" THEN Result(error, output)
          ELSE Result("ok", [type |-> d.type, cells |-> written[Len(d.fields)]])
=============================================================================
