--------------------------- MODULE MainWindowProofs ---------------------------
(***************************************************************************)
(* Proofs about the main window on the local backend, for any endpoints,   *)
(* fields and number of changes.                                           *)
(***************************************************************************)
EXTENDS MainWindow, SequenceTheorems, TLAPS

Ids == [life : Nat, reg : Nat \ {0}]

(* The registration that n was given last, and the order they are made in. *)
Newest(n) == Identity(life, last[n])
NotBefore(a, b) == b.life < a.life \/ (b.life = a.life /\ b.reg <= a.reg)

(* What is left of an operation, by what it has established: nothing yet,  *)
(* that its target was registered, what it has opened since, that this is  *)
(* the target.  Free ones open nothing.                                    *)
Begun ==
  {<<"validate", "pidfd", "type", "open", "validate", "keep">>,
   <<"validate", "type", "open", "validate", "get">>,
   <<"type", "encode", "validate", "open", "seed", "validate", "set">>,
   <<"encode", "validate", "open", "seed", "validate", "set">>,
   <<"validate", "open", "seed", "validate", "set">>,
   <<"type", "type", "encode", "validate", "open", "validate", "call">>,
   <<"type", "encode", "validate", "open", "validate", "call">>,
   <<"encode", "validate", "open", "validate", "call">>,
   <<"validate", "open", "validate", "call">>}
Validated ==
  {<<"pidfd", "type", "open", "validate", "keep">>,
   <<"type", "open", "validate", "keep">>, <<"open", "validate", "keep">>,
   <<"type", "open", "validate", "get">>, <<"open", "validate", "get">>,
   <<"open", "seed", "validate", "set">>, <<"open", "validate", "call">>}
Attaching ==
  {<<"validate", "keep">>, <<"validate", "get">>,
   <<"seed", "validate", "set">>, <<"validate", "set">>,
   <<"validate", "call">>}
Confirmed ==
  {<<"keep">>, <<"get">>, <<"set">>, <<"call">>}
Free ==
  {<<"type", "type", "encode">>, <<"type", "encode">>, <<"encode">>,
   <<"type", "type">>, <<"type">>}
Refreshing ==
  {<<"list", "endpoints", "recheck">>, <<"endpoints", "recheck">>,
   <<"recheck">>}

Aimed == Begun \cup Validated \cup Attaching \cup Confirmed

(* A registration holds its name and is the newest of it; what memory is   *)
(* left under a name is of no later one.                                   *)
WorldInv ==
  /\ life \in Nat /\ alive \in BOOLEAN
  /\ registered \in [Names -> Nat] /\ last \in [Names -> Nat \ {0}]
  /\ memory \in [Names -> Ids \cup {None}]
  /\ \A n \in Names :
       /\ registered[n] # 0 => alive /\ registered[n] = last[n] /\ memory[n] = Newest(n)
       /\ memory[n] # None => NotBefore(Newest(n), memory[n])

(* What is opened is its target or a later registration, and when the      *)
(* target is found registered again it can be no later one.                *)
Parts == {"plan", "name", "target", "handle", "watched", "value", "result",
          "found", "typed", "since"}
Shaped(c) == c = [part \in Parts |-> c[part]]

CallInv(c) ==
  /\ Shaped(c) /\ c.watched \in Nat
  /\ c.plan \in {<<>>} \cup Free \cup Refreshing \cup Aimed
  /\ c.found \in [Names -> Ids \cup {None}]
  /\ c.plan \in Aimed => c.name \in Names /\ c.target \in Ids
  /\ c.plan \in Validated =>
       /\ NotBefore(Newest(c.name), c.target)
       /\ memory[c.name] # None => NotBefore(memory[c.name], c.target)
  /\ c.plan \in Attaching \cup Confirmed =>
       /\ c.handle \in Ids
       /\ NotBefore(c.handle, c.target) /\ NotBefore(Newest(c.name), c.handle)
  /\ c.plan \in Confirmed => c.handle = c.target

BackendInv ==
  /\ WorldInv
  /\ calls = [t \in Threads |-> calls[t]]
  /\ \A t \in Threads : CallInv(calls[t])
  /\ records \in [Names -> Ids \cup {None}]
  /\ prepared # None => prepared.handle = prepared.identity /\ prepared.identity \in Ids

(* Nothing comes after the parts of Apply and of a call, which are about   *)
(* the selected row.                                                       *)
Remaining == {<<>>, <<"service">>, <<"parameter", "service">>}

TodoInv ==
  todo # <<>> =>
    /\ Tail(todo) \in Remaining
    /\ Head(todo) \in {"checked", "fresh", "written"} => row["parameter"] # None
    /\ Head(todo) = "call" => row["service"] # None /\ Tail(todo) = <<>>

(* A row is of a record, except while Refresh is filling the records.      *)
RowsInv ==
  /\ TodoInv /\ (Running("gui") => todo # <<>>)
  /\ calls["gui"].plan \in Refreshing => todo = <<"listed">>
  /\ calls["worker"].plan \notin Refreshing
  /\ row = [k \in Kinds |-> row[k]]
  /\ todo # <<"listed">> => \A k \in Kinds : row[k] # None => row[k] \in Names /\ records[row[k]] # None

Inv == BackendInv /\ RowsInv

-----------------------------------------------------------------------------
(* Where an operation gets by its next call.                               *)
LEMMA BegunPlans ==
  ASSUME NEW p \in Begun
  PROVE  /\ Head(p) \in {"validate", "type", "encode"}
         /\ Tail(p) \in IF Head(p) = "validate" THEN Validated ELSE Begun
<1>1. CASE p = <<"validate", "pidfd", "type", "open", "validate", "keep">>
  BY <1>1 DEF Begun, Validated
<1>2. CASE p = <<"validate", "type", "open", "validate", "get">>
  BY <1>2 DEF Begun, Validated
<1>3. CASE p = <<"type", "encode", "validate", "open", "seed", "validate", "set">>
  BY <1>3 DEF Begun, Validated
<1>4. CASE p = <<"encode", "validate", "open", "seed", "validate", "set">>
  BY <1>4 DEF Begun, Validated
<1>5. CASE p = <<"validate", "open", "seed", "validate", "set">>
  BY <1>5 DEF Begun, Validated
<1>6. CASE p = <<"type", "type", "encode", "validate", "open", "validate", "call">>
  BY <1>6 DEF Begun, Validated
<1>7. CASE p = <<"type", "encode", "validate", "open", "validate", "call">>
  BY <1>7 DEF Begun, Validated
<1>8. CASE p = <<"encode", "validate", "open", "validate", "call">>
  BY <1>8 DEF Begun, Validated
<1>9. CASE p = <<"validate", "open", "validate", "call">>
  BY <1>9 DEF Begun, Validated
<1> QED
  BY <1>1, <1>2, <1>3, <1>4, <1>5, <1>6, <1>7, <1>8, <1>9 DEF Begun

LEMMA ValidatedPlans ==
  ASSUME NEW p \in Validated
  PROVE  /\ Head(p) \in {"pidfd", "type", "open"}
         /\ Tail(p) \in IF Head(p) = "open" THEN Attaching ELSE Validated
<1>1. CASE p = <<"pidfd", "type", "open", "validate", "keep">>
  BY <1>1 DEF Validated, Attaching
<1>2. CASE p = <<"type", "open", "validate", "keep">>
  BY <1>2 DEF Validated, Attaching
<1>3. CASE p = <<"open", "validate", "keep">>
  BY <1>3 DEF Validated, Attaching
<1>4. CASE p = <<"type", "open", "validate", "get">>
  BY <1>4 DEF Validated, Attaching
<1>5. CASE p = <<"open", "validate", "get">>
  BY <1>5 DEF Validated, Attaching
<1>6. CASE p = <<"open", "seed", "validate", "set">>
  BY <1>6 DEF Validated, Attaching
<1>7. CASE p = <<"open", "validate", "call">>
  BY <1>7 DEF Validated, Attaching
<1> QED
  BY <1>1, <1>2, <1>3, <1>4, <1>5, <1>6, <1>7 DEF Validated

LEMMA AttachingPlans ==
  ASSUME NEW p \in Attaching
  PROVE  /\ Head(p) \in {"validate", "seed"}
         /\ Tail(p) \in IF Head(p) = "validate" THEN Confirmed ELSE Attaching
<1>1. CASE p = <<"validate", "keep">>
  BY <1>1 DEF Attaching, Confirmed
<1>2. CASE p = <<"validate", "get">>
  BY <1>2 DEF Attaching, Confirmed
<1>3. CASE p = <<"seed", "validate", "set">>
  BY <1>3 DEF Attaching, Confirmed
<1>4. CASE p = <<"validate", "set">>
  BY <1>4 DEF Attaching, Confirmed
<1>5. CASE p = <<"validate", "call">>
  BY <1>5 DEF Attaching, Confirmed
<1> QED
  BY <1>1, <1>2, <1>3, <1>4, <1>5 DEF Attaching

LEMMA ConfirmedPlans ==
  ASSUME NEW p \in Confirmed
  PROVE  /\ Head(p) \in {"keep", "get", "set", "call"}
         /\ Tail(p) = <<>>
<1>1. CASE p = <<"keep">>
  BY <1>1 DEF Confirmed
<1>2. CASE p = <<"get">>
  BY <1>2 DEF Confirmed
<1>3. CASE p = <<"set">>
  BY <1>3 DEF Confirmed
<1>4. CASE p = <<"call">>
  BY <1>4 DEF Confirmed
<1> QED
  BY <1>1, <1>2, <1>3, <1>4 DEF Confirmed

LEMMA FreePlans ==
  ASSUME NEW p \in Free
  PROVE  /\ Head(p) \in {"type", "encode"}
         /\ Tail(p) \in Free \cup {<<>>}
<1>1. CASE p = <<"type", "type", "encode">>
  BY <1>1 DEF Free
<1>2. CASE p = <<"type", "encode">>
  BY <1>2 DEF Free
<1>3. CASE p = <<"encode">>
  BY <1>3 DEF Free
<1>4. CASE p = <<"type", "type">>
  BY <1>4 DEF Free
<1>5. CASE p = <<"type">>
  BY <1>5 DEF Free
<1> QED
  BY <1>1, <1>2, <1>3, <1>4, <1>5 DEF Free

LEMMA RefreshingPlans ==
  ASSUME NEW p \in Refreshing
  PROVE  /\ Head(p) \in {"list", "endpoints", "recheck"}
         /\ Head(p) # "recheck" => Tail(p) \in Refreshing
<1>1. CASE p = <<"list", "endpoints", "recheck">>
  BY <1>1 DEF Refreshing
<1>2. CASE p = <<"endpoints", "recheck">>
  BY <1>2 DEF Refreshing
<1>3. CASE p = <<"recheck">>
  BY <1>3 DEF Refreshing
<1> QED
  BY <1>1, <1>2, <1>3 DEF Refreshing

(* What is left of an operation is of one kind only.                       *)
LEMMA PlansApart ==
  /\ <<>> \notin Free \cup Refreshing \cup Aimed
  /\ \A p \in Refreshing : p \notin Aimed
  /\ \A p \in Free : p \notin Aimed \cup Refreshing
  /\ \A p \in Confirmed : p \notin Begun \cup Validated \cup Attaching
  /\ \A p \in Attaching : p \notin Begun \cup Validated
  /\ \A p \in Validated : p \notin Begun
<1>1. <<>> \notin Free \cup Refreshing \cup Aimed
  BY DEF Aimed, Begun, Validated, Attaching, Confirmed, Free, Refreshing
<1>2. \A p \in Refreshing : p \notin Aimed
  BY DEF Aimed, Begun, Validated, Attaching, Confirmed, Free, Refreshing
<1>3. \A p \in Free : p \notin Aimed \cup Refreshing
  BY DEF Aimed, Begun, Validated, Attaching, Confirmed, Free, Refreshing
<1>4. \A p \in Confirmed : p \notin Begun \cup Validated \cup Attaching
  BY DEF Aimed, Begun, Validated, Attaching, Confirmed, Free, Refreshing
<1>5. \A p \in Attaching : p \notin Begun \cup Validated
  BY DEF Aimed, Begun, Validated, Attaching, Confirmed, Free, Refreshing
<1>6. \A p \in Validated : p \notin Begun
  BY DEF Aimed, Begun, Validated, Attaching, Confirmed, Free, Refreshing
<1> QED
  BY <1>1, <1>2, <1>3, <1>4, <1>5, <1>6

-----------------------------------------------------------------------------
LEMMA NotBeforeTransitive ==
  \A a, b, c \in Ids : NotBefore(a, b) /\ NotBefore(b, c) => NotBefore(a, c)
  BY DEF NotBefore, Ids

LEMMA NotBeforeAntisymmetric ==
  \A a, b \in Ids : NotBefore(a, b) /\ NotBefore(b, a) => a = b
  BY DEF NotBefore, Ids

LEMMA NotBeforeReflexive == \A a \in Ids : NotBefore(a, a)
  BY DEF NotBefore, Ids

LEMMA NoneApart == None \notin Names /\ None \notin Ids
  BY BackendAssumption DEF Ids

(* The world goes forward: memory under a name is left alone, goes, or is  *)
(* replaced by what is then the newest.                                    *)
Newer(n) == Identity(life', last'[n])

LEMMA WorldForward ==
  ASSUME WorldInv, WorldStep
  PROVE  /\ WorldInv' /\ UNCHANGED <<implVars, calls>>
         /\ \A n \in Names : /\ Newest(n) \in Ids /\ Newer(n) \in Ids
                             /\ NotBefore(Newer(n), Newest(n))
                             /\ memory'[n] \in {None, memory[n], Newer(n)}
<1> USE NoneApart DEF WorldInv, Newest, Newer, NotBefore, Identity, Ids, Change
<1>1. CASE \E n \in Names : Unregister(n)
  BY <1>1 DEF Unregister
<1>2. CASE \E n \in Names : Register(n)
  BY <1>2 DEF Register
<1>3. CASE Exit
  <2>1. /\ alive' = FALSE /\ life' = life /\ last' = last
        /\ registered' = [n \in Names |-> 0]
        /\ UNCHANGED <<implVars, calls>>
    BY <1>3 DEF Exit
  <2>2. memory' = memory \/ memory' = [n \in Names |-> None]
    BY <1>3 DEF Exit
  <2>3. memory' \in [Names -> Ids \cup {None}] /\ \A n \in Names : memory'[n] \in {None, memory[n]}
    BY <2>2
  <2>4. WorldInv'
    BY <2>1, <2>3
  <2> QED
    BY <2>1, <2>3, <2>4
<1>4. CASE Restart
  BY <1>4 DEF Restart
<1>5. CASE \E n \in Names, f \in Fields : WriteElsewhere(n, f)
  BY <1>5 DEF WriteElsewhere
<1> HIDE DEF WorldInv, Newest, Newer, NotBefore, Identity, Ids, Change
<1> QED
  BY <1>1, <1>2, <1>3, <1>4, <1>5 DEF WorldStep

LEMMA WorldKeepsCalls ==
  ASSUME WorldInv, WorldStep, NEW t \in Threads, CallInv(calls[t])
  PROVE  CallInv(calls[t])'
<1> DEFINE c == calls[t]
<1>1. /\ calls' = calls
      /\ \A n \in Names : /\ Newest(n) \in Ids /\ Newer(n) \in Ids
                          /\ NotBefore(Newer(n), Newest(n))
                          /\ memory'[n] \in {None, memory[n], Newer(n)}
  BY WorldForward
<1>2. ASSUME c.plan \in Validated
      PROVE  /\ NotBefore(Newer(c.name), c.target)
             /\ memory'[c.name] # None => NotBefore(memory'[c.name], c.target)
  <2>1. c.name \in Names /\ c.target \in Ids /\ NotBefore(Newest(c.name), c.target)
    BY <1>2 DEF CallInv, Aimed
  <2>2. NotBefore(Newer(c.name), c.target)
    BY <1>1, <2>1, NotBeforeTransitive
  <2> QED
    BY <1>1, <1>2, <2>1, <2>2 DEF CallInv
<1>3. ASSUME c.plan \in Attaching \cup Confirmed
      PROVE  NotBefore(Newer(c.name), c.handle)
  <2>1. c.name \in Names /\ c.handle \in Ids /\ NotBefore(Newest(c.name), c.handle)
    BY <1>3 DEF CallInv, Aimed
  <2> QED
    BY <1>1, <2>1, NotBeforeTransitive
<1> QED
  BY <1>1, <1>2, <1>3 DEF CallInv, Newest, Newer

-----------------------------------------------------------------------------
(* How the stages follow each other. *)
LEMMA Stages ==
  ASSUME NEW p \in Free \cup Refreshing \cup Aimed
  PROVE  /\ p # <<>>
         /\ Head(p) = "validate" =>
              \/ p \in Begun /\ Tail(p) \in Validated
              \/ p \in Attaching /\ Tail(p) \in Confirmed
         /\ Head(p) \in {"pidfd", "type", "encode"} =>
              \/ p \in Begun /\ Tail(p) \in Begun
              \/ p \in Validated /\ Tail(p) \in Validated
              \/ p \in Free /\ Tail(p) \in Free \cup {<<>>}
         /\ Head(p) = "open" => p \in Validated /\ Tail(p) \in Attaching
         /\ Head(p) = "seed" => p \in Attaching /\ Tail(p) \in Attaching
         /\ Head(p) \in {"keep", "get", "set", "call"} => p \in Confirmed /\ Tail(p) = <<>>
         /\ Head(p) \in {"list", "endpoints"} => p \in Refreshing /\ Tail(p) \in Refreshing
         /\ Head(p) = "recheck" => p \in Refreshing
<1> p # <<>>
  BY PlansApart
<1>1. CASE p \in Begun
  BY <1>1, BegunPlans
<1>2. CASE p \in Validated
  BY <1>2, ValidatedPlans
<1>3. CASE p \in Attaching
  BY <1>3, AttachingPlans
<1>4. CASE p \in Confirmed
  BY <1>4, ConfirmedPlans
<1>5. CASE p \in Free
  BY <1>5, FreePlans
<1>6. CASE p \in Refreshing
  BY <1>6, RefreshingPlans
<1> QED
  BY <1>1, <1>2, <1>3, <1>4, <1>5, <1>6 DEF Aimed

LEMMA ProceedFields ==
  ASSUME BackendInv, NEW t \in Threads, NEW c, Shaped(c), Proceed(t, c)
  PROVE  /\ calls' = [u \in Threads |-> calls'[u]]
         /\ \A u \in Threads \ {t} : calls'[u] = calls[u]
         /\ Shaped(calls'[t])
         /\ calls'[t].plan = Tail(c.plan)
         /\ calls'[t].name = c.name /\ calls'[t].target = c.target
         /\ calls'[t].handle = c.handle /\ calls'[t].found = c.found
         /\ calls'[t].result = c.result /\ calls'[t].watched = c.watched
         /\ calls'[t].value = c.value /\ calls'[t].since = c.since
<1> DEFINE d == [c EXCEPT !.plan = Tail(@)]
<1>1. calls' = [u \in Threads |-> IF u = t THEN d ELSE calls[u]]
  BY DEF Proceed, BackendInv
<1>2. d = [part \in Parts |-> IF part = "plan" THEN Tail(c.plan) ELSE c[part]]
  BY DEF Shaped, Parts
<1> HIDE DEF d
<1>3. /\ Shaped(d) /\ d.plan = Tail(c.plan)
      /\ d.name = c.name /\ d.target = c.target /\ d.handle = c.handle
      /\ d.found = c.found /\ d.result = c.result /\ d.watched = c.watched
      /\ d.value = c.value /\ d.since = c.since
  BY <1>2 DEF Shaped, Parts
<1> QED
  BY <1>1, <1>3

LEMMA FailFields ==
  ASSUME BackendInv, NEW t \in Threads, NEW why, Fail(t, why)
  PROVE  /\ calls' = [u \in Threads |-> calls'[u]]
         /\ \A u \in Threads \ {t} : calls'[u] = calls[u]
         /\ CallInv(calls[t])' /\ calls'[t].plan = <<>> /\ calls'[t].result = why
         /\ calls'[t].watched = calls[t].watched
         /\ calls'[t].name = calls[t].name /\ calls'[t].since = calls[t].since
<1> DEFINE c == calls[t]
           d == [c EXCEPT !.plan = <<>>, !.result = why]
<1>1. Shaped(c) /\ c.watched \in Nat /\ c.found \in [Names -> Ids \cup {None}]
  BY DEF BackendInv, CallInv
<1>2. calls' = [u \in Threads |-> IF u = t THEN d ELSE calls[u]]
  <2>1. calls' = [calls EXCEPT ![t] = d]
    BY <1>1 DEF Fail
  <2> QED
    BY <2>1 DEF BackendInv
<1>3. d = [part \in Parts |-> IF part = "plan" THEN <<>> ELSE
                               IF part = "result" THEN why ELSE c[part]]
  BY <1>1 DEF Shaped, Parts
<1> HIDE DEF c, d
<1>4. /\ Shaped(d) /\ d.plan = <<>> /\ d.result = why /\ d.found = c.found
      /\ d.watched = c.watched /\ d.name = c.name /\ d.since = c.since
  BY <1>3 DEF Shaped, Parts
<1>5. CallInv(calls[t])'
  BY <1>1, <1>2, <1>4, PlansApart DEF CallInv, Aimed
<1> QED
  BY <1>2, <1>4, <1>5 DEF c

-----------------------------------------------------------------------------
(* What the steps of a call leave alone, but for the contents.             *)
placeVars == <<life, alive, registered, last, memory>>

LEMMA SamePlace ==
  ASSUME BackendInv, UNCHANGED placeVars
  PROVE  /\ WorldInv'
         /\ \A u \in Threads : calls'[u] = calls[u] => CallInv(calls[u])'
  BY DEF BackendInv, WorldInv, CallInv, Shaped, Newest, placeVars

(* A call goes on within a stage, or within what needs no target.          *)
LEMMA StageKept ==
  ASSUME BackendInv, UNCHANGED placeVars, NEW t \in Threads, NEW c, Shaped(c), Proceed(t, c),
         c.watched \in Nat, c.plan = calls[t].plan, c.name = calls[t].name, c.target = calls[t].target,
         c.handle = calls[t].handle, c.found = calls[t].found,
         \/ c.plan \in Begun /\ Tail(c.plan) \in Begun
         \/ c.plan \in Validated /\ Tail(c.plan) \in Validated
         \/ c.plan \in Attaching /\ Tail(c.plan) \in Attaching
         \/ Tail(c.plan) \in Free \cup {<<>>}
  PROVE  CallInv(calls[t])'
<1> DEFINE d == calls'[t]
<1>1. /\ Shaped(d) /\ d.plan = Tail(c.plan) /\ d.name = c.name /\ d.target = c.target
      /\ d.handle = c.handle /\ d.found = c.found /\ d.watched \in Nat
  BY ProceedFields
<1>2. CallInv(calls[t])
  BY DEF BackendInv
<1>3. Newest(c.name)' = Newest(c.name) /\ memory' = memory
  BY DEF Newest, placeVars
<1>4. CASE c.plan \in Begun /\ Tail(c.plan) \in Begun
  BY <1>1, <1>2, <1>4, PlansApart DEF CallInv, Aimed
<1>5. CASE c.plan \in Validated /\ Tail(c.plan) \in Validated
  BY <1>1, <1>2, <1>5, PlansApart DEF CallInv, Aimed, Newest, placeVars
<1>6. CASE c.plan \in Attaching /\ Tail(c.plan) \in Attaching
  BY <1>1, <1>2, <1>6, PlansApart DEF CallInv, Aimed, Newest, placeVars
<1>7. CASE Tail(c.plan) \in Free \cup {<<>>}
  BY <1>1, <1>2, <1>7, PlansApart DEF CallInv, Aimed
<1> QED
  BY <1>4, <1>5, <1>6, <1>7

LEMMA ValidateKeeps ==
  ASSUME BackendInv, NEW t \in Threads, Validate(t)
  PROVE  CallInv(calls[t])'
<1> DEFINE c == calls[t]
           d == calls'[t]
<1>1. CallInv(c) /\ c.plan # <<>> /\ Head(c.plan) = "validate" /\ WorldInv
  BY DEF BackendInv, Validate, At, Running
<1>2. \/ c.plan \in Begun /\ Tail(c.plan) \in Validated
      \/ c.plan \in Attaching /\ Tail(c.plan) \in Confirmed
  BY <1>1, Stages DEF CallInv
<1>3. c.name \in Names /\ c.target \in Ids /\ c.found \in [Names -> Ids \cup {None}]
  BY <1>1, <1>2 DEF CallInv, Aimed
<1>4. UNCHANGED placeVars
  BY DEF Validate, worldVars, placeVars
<1>5. CASE ~Registered(c.name, c.target)
  BY <1>5, FailFields DEF Validate
<1>6. ASSUME Registered(c.name, c.target)
      PROVE  CallInv(calls[t])'
  <2>1. c.target = Newest(c.name) /\ memory[c.name] = c.target
    <3>1. c.target.reg # 0 /\ c.target = [life |-> c.target.life, reg |-> c.target.reg]
      BY <1>3 DEF Ids
    <3>2. life = c.target.life /\ registered[c.name] = c.target.reg
      BY <1>6 DEF Registered
    <3>3. registered[c.name] = last[c.name] /\ memory[c.name] = Newest(c.name)
      BY <1>1, <1>3, <3>1, <3>2 DEF WorldInv
    <3> HIDE DEF c
    <3> QED
      BY <3>1, <3>2, <3>3 DEF Newest, Identity
  <2>2. Proceed(t, c)
    BY <1>6 DEF Validate
  <2>3. /\ Shaped(d) /\ d.plan = Tail(c.plan) /\ d.name = c.name /\ d.target = c.target
        /\ d.handle = c.handle /\ d.found = c.found /\ d.watched \in Nat
    BY <1>1, <2>2, ProceedFields DEF CallInv
  <2>4. Identity(life', last'[d.name]) = Newest(c.name) /\ memory'[d.name] = memory[c.name]
    BY <1>4, <2>3 DEF Newest, placeVars
  <2>5. CASE c.plan \in Begun /\ Tail(c.plan) \in Validated
    <3>1. NotBefore(Newest(c.name), c.target) /\ NotBefore(memory[c.name], c.target)
      BY <1>3, <2>1, NotBeforeReflexive
    <3> QED
      BY <1>3, <2>3, <2>4, <2>5, <3>1, PlansApart DEF CallInv, Aimed, Newest
  <2>6. CASE c.plan \in Attaching /\ Tail(c.plan) \in Confirmed
    <3>1. /\ c.handle \in Ids /\ NotBefore(c.handle, c.target)
          /\ NotBefore(Newest(c.name), c.handle)
      BY <1>1, <2>6 DEF CallInv
    <3>2. c.handle = c.target
      BY <1>3, <2>1, <3>1, NotBeforeAntisymmetric
    <3> QED
      BY <1>3, <2>3, <2>4, <2>6, <3>1, <3>2, PlansApart DEF CallInv, Aimed, Newest
  <2> QED
    BY <1>2, <2>5, <2>6
<1> QED
  BY <1>5, <1>6

LEMMA OpenKeeps ==
  ASSUME BackendInv, NEW t \in Threads, Open(t)
  PROVE  CallInv(calls[t])'
<1> DEFINE c == calls[t]
           e == [c EXCEPT !.handle = memory[c.name]]
           d == calls'[t]
<1>1. CallInv(c) /\ c.plan # <<>> /\ Head(c.plan) = "open" /\ WorldInv
  BY DEF BackendInv, Open, At, Running
<1>2. c.plan \in Validated /\ Tail(c.plan) \in Attaching
  BY <1>1, Stages DEF CallInv
<1>3. c.name \in Names /\ c.target \in Ids /\ c.found \in [Names -> Ids \cup {None}]
  BY <1>1, <1>2 DEF CallInv, Aimed
<1>4. UNCHANGED placeVars
  BY DEF Open, worldVars, placeVars
<1>5. CASE memory[c.name] = None
  BY <1>5, FailFields DEF Open
<1>6. CASE memory[c.name] # None
  <2>1. Proceed(t, e)
    BY <1>6 DEF Open
  <2>2. /\ Shaped(e) /\ e.plan = c.plan /\ e.name = c.name /\ e.target = c.target
        /\ e.handle = memory[c.name] /\ e.found = c.found /\ e.watched \in Nat
    BY <1>1 DEF CallInv, Shaped, Parts
  <2> HIDE DEF e
  <2>3. /\ Shaped(d) /\ d.plan = Tail(c.plan) /\ d.name = c.name /\ d.target = c.target
        /\ d.handle = memory[c.name] /\ d.found = c.found /\ d.watched \in Nat
    BY <2>1, <2>2, ProceedFields
  <2>4. /\ memory[c.name] \in Ids /\ NotBefore(memory[c.name], c.target)
        /\ NotBefore(Newest(c.name), memory[c.name])
    BY <1>1, <1>2, <1>3, <1>6 DEF CallInv, WorldInv
  <2>5. Identity(life', last'[d.name]) = Newest(c.name)
    BY <1>4, <2>3 DEF Newest, placeVars
  <2> QED
    BY <1>2, <1>3, <2>3, <2>4, <2>5, PlansApart DEF CallInv, Aimed, Newest
<1> QED
  BY <1>5, <1>6

-----------------------------------------------------------------------------
(* Refresh, whose listing holds registrations only.                        *)
LEMMA ListingKeeps ==
  ASSUME BackendInv, NEW t \in Threads, ListRuntimes(t) \/ ListEndpoints(t)
  PROVE  CallInv(calls[t])' /\ calls'[t].plan \in Refreshing
<1> DEFINE c == calls[t]
           d == calls'[t]
<1>1. CallInv(c) /\ c.plan # <<>> /\ Head(c.plan) \in {"list", "endpoints"} /\ WorldInv
  BY DEF BackendInv, ListRuntimes, ListEndpoints, At, Running
<1>2. c.plan \in Refreshing /\ Tail(c.plan) \in Refreshing
  BY <1>1, Stages DEF CallInv
<1>3. Shaped(c) /\ c.watched \in Nat /\ life \in Nat /\ c.found \in [Names -> Ids \cup {None}]
  BY <1>1 DEF CallInv, WorldInv
<1>4. \E e : /\ Proceed(t, e) /\ Shaped(e) /\ e.plan = c.plan /\ e.watched \in Nat
             /\ e.found \in [Names -> Ids \cup {None}]
  <2>1. CASE ListRuntimes(t)
    <3> DEFINE e == [c EXCEPT !.watched = IF alive THEN life ELSE 0]
    <3>1. Proceed(t, e)
      BY <2>1 DEF ListRuntimes
    <3>2. Shaped(e) /\ e.plan = c.plan /\ e.watched \in Nat /\ e.found = c.found
      BY <1>3 DEF Shaped, Parts
    <3> QED
      BY <1>3, <3>1, <3>2
  <2>2. CASE ListEndpoints(t)
    <3>1. PICK kinds \in SUBSET {"endpoint", "service"}, types \in BOOLEAN :
            LET there == {n \in Names : alive /\ life = c.watched /\ registered[n] # 0}
                found == {n \in there : IF Kind[n] = "service" THEN "service" \in kinds
                                        ELSE "endpoint" \in kinds}
            IN Proceed(t, [c EXCEPT
                 !.found = [n \in Names |-> IF n \in found THEN Identity(life, registered[n])
                                            ELSE None],
                 !.typed = IF types THEN found \cap Parameters ELSE {}])
      BY <2>2 DEF ListEndpoints
    <3> DEFINE there == {n \in Names : alive /\ life = c.watched /\ registered[n] # 0}
               found == {n \in there : IF Kind[n] = "service" THEN "service" \in kinds
                                       ELSE "endpoint" \in kinds}
               new == [n \in Names |-> IF n \in found THEN Identity(life, registered[n])
                                       ELSE None]
               e == [c EXCEPT !.found = new,
                              !.typed = IF types THEN found \cap Parameters ELSE {}]
    <3>2. Proceed(t, e)
      BY <3>1
    <3>3. new \in [Names -> Ids \cup {None}]
      BY <1>1 DEF WorldInv, Identity, Ids
    <3> HIDE DEF new, found
    <3>4. Shaped(e) /\ e.plan = c.plan /\ e.watched \in Nat /\ e.found = new
      BY <1>3 DEF Shaped, Parts
    <3> QED
      BY <3>2, <3>3, <3>4
  <2> QED
    BY <2>1, <2>2
<1>5. PICK e : /\ Proceed(t, e) /\ Shaped(e) /\ e.plan = c.plan /\ e.watched \in Nat
               /\ e.found \in [Names -> Ids \cup {None}]
  BY <1>4
<1>6. Shaped(d) /\ d.plan = Tail(c.plan) /\ d.found = e.found /\ d.watched \in Nat
  BY <1>5, ProceedFields
<1> QED
  BY <1>2, <1>5, <1>6, PlansApart DEF CallInv, Aimed

(* No call at all.                                                         *)
LEMMA NoCallFields ==
  /\ Shaped(NoCall) /\ NoCall.plan = <<>> /\ NoCall.result = "ok"
  /\ NoCall.found \in [Names -> Ids \cup {None}] /\ NoCall.watched = 0
  BY DEF NoCall, NoRecords, Shaped, Parts

LEMMA RefreshEnds ==
  ASSUME BackendInv, NEW t \in Threads, Recheck(t) \/ RefreshFails(t)
  PROVE  /\ CallInv(calls[t])' /\ calls'[t].plan = <<>>
         /\ \A u \in Threads \ {t} : calls'[u] = calls[u]
         /\ calls' = [u \in Threads |-> calls'[u]]
         /\ records' \in [Names -> Ids \cup {None}] /\ prepared' \in {prepared, None}
         /\ UNCHANGED placeVars /\ calls[t].plan \in Refreshing
<1> DEFINE c == calls[t]
<1>1. CallInv(c) /\ c.plan # <<>> /\ Head(c.plan) \in {"list", "endpoints", "recheck"}
  BY DEF BackendInv, Recheck, RefreshFails, At, Running
<1>2. c.plan \in Refreshing /\ c.found \in [Names -> Ids \cup {None}]
  BY <1>1, Stages DEF CallInv
<1>3. \E e : /\ calls' = [calls EXCEPT ![t] = e]
             /\ Shaped(e) /\ e.plan = <<>> /\ e.found = NoCall.found /\ e.watched = 0
  <2>1. CASE Recheck(t)
    BY <2>1, NoCallFields DEF Recheck
  <2>2. CASE RefreshFails(t)
    <3> DEFINE e == [NoCall EXCEPT !.result = "error"]
    <3>1. calls' = [calls EXCEPT ![t] = e]
      BY <2>2 DEF RefreshFails
    <3>2. Shaped(e) /\ e.plan = <<>> /\ e.found = NoCall.found /\ e.watched = 0
      BY NoCallFields DEF Shaped, Parts
    <3> QED
      BY <3>1, <3>2
  <2> QED
    BY <2>1, <2>2
<1>4. PICK e : /\ calls' = [calls EXCEPT ![t] = e]
               /\ Shaped(e) /\ e.plan = <<>> /\ e.found = NoCall.found /\ e.watched = 0
  BY <1>3
<1>5. calls' = [u \in Threads |-> IF u = t THEN e ELSE calls[u]]
  BY <1>4 DEF BackendInv
<1>6. CallInv(calls[t])'
  BY <1>4, <1>5, NoCallFields, PlansApart DEF CallInv, Aimed
<1>7. records' \in [Names -> Ids \cup {None}] /\ prepared' \in {prepared, None}
  <2>1. NoRecords \in [Names -> Ids \cup {None}]
    BY DEF NoRecords
  <2> QED
    BY <1>2, <2>1 DEF Recheck, RefreshFails
<1>8. UNCHANGED placeVars
  BY DEF Recheck, RefreshFails, worldVars, placeVars
<1> QED
  BY <1>2, <1>4, <1>5, <1>6, <1>7, <1>8

-----------------------------------------------------------------------------
(* A step of a call disturbs no other one, and none begins to refresh.     *)
LEMMA TailsApart ==
  ASSUME NEW p \in Free \cup Aimed
  PROVE  Tail(p) \notin Refreshing
<1>1. Tail(p) \in Free \cup Aimed \cup {<<>>}
  <2>1. CASE p \in Free
    BY <2>1, FreePlans
  <2>2. CASE p \in Begun
    BY <2>2, BegunPlans DEF Aimed
  <2>3. CASE p \in Validated
    BY <2>3, ValidatedPlans DEF Aimed
  <2>4. CASE p \in Attaching
    BY <2>4, AttachingPlans DEF Aimed
  <2>5. CASE p \in Confirmed
    BY <2>5, ConfirmedPlans
  <2> QED
    BY <2>1, <2>2, <2>3, <2>4, <2>5 DEF Aimed
<1> QED
  BY <1>1, PlansApart

LEMMA StepFrame ==
  ASSUME BackendInv, NEW t \in Threads, CallStep(t)
  PROVE  /\ UNCHANGED placeVars /\ calls[t].plan # <<>>
         /\ calls' = [u \in Threads |-> calls'[u]]
         /\ \A u \in Threads \ {t} : calls'[u] = calls[u]
<1>1. /\ calls[t].plan # <<>> /\ UNCHANGED placeVars
      /\ \E e : calls' = [calls EXCEPT ![t] = e]
  <2> USE DEF At, Running, worldVars, placeVars, Proceed, Fail
  <2>1. CASE Validate(t)
    BY <2>1 DEF Validate
  <2>2. CASE OpenPidfd(t) \/ ReadType(t)
    BY <2>2 DEF OpenPidfd, ReadType
  <2>3. CASE Encode(t) \/ Call(t)
    BY <2>3 DEF Encode, Call
  <2>4. CASE Open(t)
    BY <2>4 DEF Open
  <2>5. CASE ReadParameter(t) \/ WriteParameter(t)
    BY <2>5 DEF ReadParameter, WriteParameter
  <2>6. CASE KeepEcho(t) \/ CallFails(t)
    BY <2>6 DEF KeepEcho, CallFails
  <2>7. CASE ListRuntimes(t) \/ ListEndpoints(t)
    BY <2>7 DEF ListRuntimes, ListEndpoints
  <2>8. CASE Recheck(t) \/ RefreshFails(t)
    BY <2>8 DEF Recheck, RefreshFails
  <2> QED
    BY <2>1, <2>2, <2>3, <2>4, <2>5, <2>6, <2>7, <2>8 DEF CallStep
<1>2. PICK e : calls' = [calls EXCEPT ![t] = e]
  BY <1>1
<1>3. calls' = [u \in Threads |-> IF u = t THEN e ELSE calls[u]]
  BY <1>2 DEF BackendInv
<1> QED
  BY <1>1, <1>3

(* Checks that need the target's process, or nothing but the value.        *)
LEMMA CheckKeeps ==
  ASSUME BackendInv, NEW t \in Threads, OpenPidfd(t) \/ ReadType(t) \/ Encode(t)
  PROVE  CallInv(calls[t])'
<1> DEFINE c == calls[t]
<1>1. CallInv(c) /\ c.plan # <<>> /\ Head(c.plan) \in {"pidfd", "type", "encode"}
  BY DEF BackendInv, OpenPidfd, ReadType, Encode, At, Running
<1>2. \/ c.plan \in Begun /\ Tail(c.plan) \in Begun
      \/ c.plan \in Validated /\ Tail(c.plan) \in Validated
      \/ Tail(c.plan) \in Free \cup {<<>>}
  BY <1>1, Stages DEF CallInv
<1>3. UNCHANGED placeVars
  BY DEF OpenPidfd, ReadType, Encode, worldVars, placeVars
<1>4. CASE \E why : Fail(t, why)
  BY <1>4, FailFields
<1>5. CASE \E e : /\ Proceed(t, e) /\ Shaped(e) /\ e.plan = c.plan /\ e.name = c.name
                  /\ e.target = c.target /\ e.handle = c.handle /\ e.found = c.found
                  /\ e.watched \in Nat
  BY <1>2, <1>3, <1>5, StageKept
<1>6. \/ \E why : Fail(t, why)
      \/ \E e : /\ Proceed(t, e) /\ Shaped(e) /\ e.plan = c.plan /\ e.name = c.name
                /\ e.target = c.target /\ e.handle = c.handle /\ e.found = c.found
                /\ e.watched \in Nat
  <2>1. CASE OpenPidfd(t)
    <3> DEFINE e == [c EXCEPT !.watched = life]
    <3>1. /\ Shaped(e) /\ e.plan = c.plan /\ e.name = c.name
          /\ e.target = c.target /\ e.handle = c.handle /\ e.found = c.found
          /\ e.watched \in Nat
      BY <1>1 DEF CallInv, Shaped, Parts, BackendInv, WorldInv
    <3>2. Proceed(t, e) \/ Fail(t, "error")
      BY <2>1 DEF OpenPidfd
    <3> HIDE DEF e
    <3> QED
      BY <3>1, <3>2
  <2>2. CASE ReadType(t) \/ Encode(t)
    <3>1. Proceed(t, c) \/ (\E why : Fail(t, why))
      BY <2>2 DEF ReadType, Encode
    <3> QED
      BY <1>1, <3>1 DEF CallInv
  <2> QED
    BY <2>1, <2>2
<1> QED
  BY <1>4, <1>5, <1>6

(* What uses the opened endpoint.                                          *)
LEMMA UseKeeps ==
  ASSUME BackendInv, NEW t \in Threads,
         ReadParameter(t) \/ WriteParameter(t) \/ Call(t) \/ KeepEcho(t)
  PROVE  CallInv(calls[t])'
<1> DEFINE c == calls[t]
<1>1. CallInv(c) /\ c.plan # <<>> /\ Head(c.plan) \in {"seed", "get", "set", "call", "keep"}
  BY DEF BackendInv, ReadParameter, WriteParameter, Call, KeepEcho, At, Running
<1>2. \/ c.plan \in Attaching /\ Tail(c.plan) \in Attaching
      \/ Tail(c.plan) \in Free \cup {<<>>}
  BY <1>1, Stages DEF CallInv
<1>3. UNCHANGED placeVars
  BY DEF ReadParameter, WriteParameter, Call, KeepEcho, worldVars, placeVars
<1>4. CASE \E why : Fail(t, why)
  BY <1>4, FailFields
<1>5. CASE \E e : /\ Proceed(t, e) /\ Shaped(e) /\ e.plan = c.plan /\ e.name = c.name
                  /\ e.target = c.target /\ e.handle = c.handle /\ e.found = c.found
                  /\ e.watched \in Nat
  BY <1>2, <1>3, <1>5, StageKept
<1>6. \/ \E why : Fail(t, why)
      \/ \E e : /\ Proceed(t, e) /\ Shaped(e) /\ e.plan = c.plan /\ e.name = c.name
                /\ e.target = c.target /\ e.handle = c.handle /\ e.found = c.found
                /\ e.watched \in Nat
  <2>1. CASE ReadParameter(t)
    <3> DEFINE e == [c EXCEPT !.value = contents[c.name]]
    <3>1. /\ Shaped(e) /\ e.plan = c.plan /\ e.name = c.name
          /\ e.target = c.target /\ e.handle = c.handle /\ e.found = c.found
          /\ e.watched \in Nat
      BY <1>1 DEF CallInv, Shaped, Parts
    <3>2. Proceed(t, e) \/ Proceed(t, c) \/ Fail(t, "error")
      BY <2>1 DEF ReadParameter
    <3> HIDE DEF e
    <3> QED
      BY <1>1, <3>1, <3>2 DEF CallInv
  <2>2. CASE WriteParameter(t) \/ Call(t) \/ KeepEcho(t)
    <3>1. Proceed(t, c) \/ (\E why : Fail(t, why))
      BY <2>2 DEF WriteParameter, Call, KeepEcho
    <3> QED
      BY <1>1, <3>1 DEF CallInv
  <2> QED
    BY <2>1, <2>2
<1> QED
  BY <1>4, <1>5, <1>6

LEMMA PlanMoves ==
  ASSUME BackendInv, NEW t \in Threads, CallStep(t), calls[t].plan \notin Refreshing
  PROVE  calls'[t].plan \in {<<>>, Tail(calls[t].plan)}
<1> DEFINE c == calls[t]
           Moves(e) == Proceed(t, e) /\ Shaped(e) /\ e.plan = c.plan
<1>1. Shaped(c) /\ (c.plan # <<>> => c.plan \in Free \cup Aimed)
  BY DEF BackendInv, CallInv
<1>2. ASSUME NEW e, Moves(e) PROVE calls'[t].plan = Tail(c.plan)
  BY <1>2, ProceedFields
<1>3. ASSUME NEW why, Fail(t, why) PROVE calls'[t].plan = <<>>
  BY <1>3, FailFields
<1>4. CASE Validate(t) \/ ReadType(t) \/ Encode(t) \/ Call(t) \/ KeepEcho(t) \/ WriteParameter(t)
  <2>1. Moves(c) \/ \E why : Fail(t, why)
    BY <1>1, <1>4 DEF Validate, ReadType, Encode, Call, KeepEcho, WriteParameter
  <2> QED
    BY <1>2, <1>3, <2>1
<1>5. CASE OpenPidfd(t) \/ Open(t) \/ ReadParameter(t)
  <2> DEFINE watching == [c EXCEPT !.watched = life]
             opened == [c EXCEPT !.handle = memory[c.name]]
             read == [c EXCEPT !.value = contents[c.name]]
  <2>1. /\ Shaped(watching) /\ watching.plan = c.plan /\ Shaped(opened) /\ opened.plan = c.plan
        /\ Shaped(read) /\ read.plan = c.plan
    BY <1>1 DEF Shaped, Parts
  <2>2. Proceed(t, watching) \/ Proceed(t, opened) \/ Proceed(t, read) \/ Proceed(t, c)
        \/ \E why : Fail(t, why)
    BY <1>5 DEF OpenPidfd, Open, ReadParameter
  <2> HIDE DEF watching, opened, read
  <2> QED
    BY <1>1, <1>2, <1>3, <2>1, <2>2
<1>6. CASE CallFails(t)
  BY <1>3, <1>6 DEF CallFails
<1>7. ~(ListRuntimes(t) \/ ListEndpoints(t) \/ Recheck(t) \/ RefreshFails(t))
  <2>1. c.plan # <<>> => Head(c.plan) \notin {"list", "endpoints", "recheck"}
    BY <1>1, BegunPlans, ValidatedPlans, AttachingPlans, ConfirmedPlans, FreePlans DEF Aimed
  <2> QED
    BY <2>1 DEF ListRuntimes, ListEndpoints, Recheck, RefreshFails, At, Running
<1> QED
  BY <1>4, <1>5, <1>6, <1>7 DEF CallStep

(* What the steps of the calls do to the rest of the backend: only an      *)
(* ending Refresh replaces records, and what KeepEcho keeps is the target. *)
LEMMA CallStepKeeps ==
  ASSUME BackendInv, NEW t \in Threads, CallStep(t)
  PROVE  /\ BackendInv'
         /\ \A u \in Threads : /\ calls'[u].plan # <<>> => calls[u].plan # <<>>
                               /\ calls'[u].plan \in Refreshing => calls[u].plan \in Refreshing
         /\ calls[t].plan \in Refreshing \/ records' = records
<1> DEFINE c == calls[t]
<1>1. /\ UNCHANGED placeVars /\ c.plan # <<>>
      /\ calls' = [u \in Threads |-> calls'[u]]
      /\ \A u \in Threads \ {t} : calls'[u] = calls[u]
  BY StepFrame
<1>2. CallInv(c) /\ c.plan \in Free \cup Refreshing \cup Aimed
  BY <1>1 DEF BackendInv, CallInv
<1>3. WorldInv' /\ \A u \in Threads \ {t} : CallInv(calls[u])'
  BY <1>1, SamePlace
<1>4. CallInv(calls[t])'
  <2>1. CASE Validate(t)
    BY <2>1, ValidateKeeps
  <2>2. CASE OpenPidfd(t) \/ ReadType(t) \/ Encode(t)
    BY <2>2, CheckKeeps
  <2>3. CASE Open(t)
    BY <2>3, OpenKeeps
  <2>4. CASE ReadParameter(t) \/ WriteParameter(t) \/ Call(t) \/ KeepEcho(t)
    BY <2>4, UseKeeps
  <2>5. CASE CallFails(t)
    BY <2>5, FailFields DEF CallFails
  <2>6. CASE ListRuntimes(t) \/ ListEndpoints(t)
    BY <2>6, ListingKeeps
  <2>7. CASE Recheck(t) \/ RefreshFails(t)
    BY <2>7, RefreshEnds
  <2> QED
    BY <2>1, <2>2, <2>3, <2>4, <2>5, <2>6, <2>7 DEF CallStep
<1>5. CASE Recheck(t) \/ RefreshFails(t)
  <2>1. /\ calls'[t].plan = <<>> /\ records' \in [Names -> Ids \cup {None}]
        /\ prepared' \in {prepared, None} /\ c.plan \in Refreshing
    BY <1>5, RefreshEnds
  <2>2. prepared' # None => prepared'.handle = prepared'.identity /\ prepared'.identity \in Ids
    BY <2>1 DEF BackendInv
  <2>3. BackendInv'
    BY <1>1, <1>3, <1>4, <2>1, <2>2 DEF BackendInv
  <2> QED
    BY <1>1, <2>1, <2>3, PlansApart
<1>6. CASE ~(Recheck(t) \/ RefreshFails(t))
  <2>1. records' = records
    BY <1>6 DEF CallStep, implVars, Validate, OpenPidfd, ReadType, Encode, Open, ReadParameter,
                WriteParameter, Call, KeepEcho, CallFails, ListRuntimes, ListEndpoints
  <2>2. prepared' # None => prepared'.handle = prepared'.identity /\ prepared'.identity \in Ids
    <3>1. CASE KeepEcho(t)
      <4>1. Head(c.plan) = "keep"
        BY <3>1 DEF KeepEcho, At
      <4>2. c.plan \in Confirmed
        BY <1>1, <1>2, <4>1, Stages
      <4>3. c.handle = c.target /\ c.target \in Ids
        BY <1>2, <4>2 DEF CallInv, Aimed
      <4>4. prepared'.handle = c.handle /\ prepared'.identity = c.target
        BY <3>1 DEF KeepEcho
      <4> QED
        BY <4>3, <4>4
    <3>2. CASE ~KeepEcho(t)
      <4>1. prepared' = prepared
        BY <1>6, <3>2 DEF CallStep, implVars, Validate, OpenPidfd, ReadType, Encode, Open,
                          ReadParameter, WriteParameter, Call, CallFails, ListRuntimes, ListEndpoints
      <4> QED
        BY <4>1 DEF BackendInv
    <3> QED
      BY <3>1, <3>2
  <2>3. BackendInv'
    BY <1>1, <1>3, <1>4, <2>1, <2>2 DEF BackendInv
  <2>4. calls'[t].plan \in Refreshing => c.plan \in Refreshing
    <3>1. c.plan \notin Refreshing => calls'[t].plan \in {<<>>, Tail(c.plan)}
      BY <1>2, PlanMoves
    <3> QED
      BY <1>2, <3>1, TailsApart, PlansApart
  <2> QED
    BY <1>1, <2>1, <2>3, <2>4
<1> QED
  BY <1>5, <1>6

LEMMA BackendKeeps ==
  ASSUME Inv, NEW t \in Threads, BackendStep(t)
  PROVE  Inv'
<1>1. /\ BackendInv'
      /\ \A u \in Threads : /\ calls'[u].plan # <<>> => calls[u].plan # <<>>
                            /\ calls'[u].plan \in Refreshing => calls[u].plan \in Refreshing
      /\ calls[t].plan \in Refreshing \/ records' = records
  BY CallStepKeeps DEF Inv, BackendStep
<1>2. UNCHANGED <<todo, row>>
  BY DEF BackendStep, windowVars, listVars
<1>3. calls[t].plan \in Refreshing => todo = <<"listed">>
  BY DEF Inv, RowsInv, Threads
<1> QED
  BY <1>1, <1>2, <1>3 DEF Inv, RowsInv, TodoInv, Running, Threads

LEMMA WorldKeeps ==
  ASSUME Inv, WorldStep, UNCHANGED windowVars
  PROVE  Inv'
<1>1. WorldInv' /\ UNCHANGED <<implVars, calls>>
  BY WorldForward DEF Inv, BackendInv
<1>2. \A t \in Threads : CallInv(calls[t])'
  BY WorldKeepsCalls DEF Inv, BackendInv
<1>3. UNCHANGED <<records, prepared, todo, row>>
  BY <1>1 DEF implVars, windowVars, listVars
<1> QED
  BY <1>1, <1>2, <1>3 DEF Inv, BackendInv, RowsInv, TodoInv, Running

-----------------------------------------------------------------------------
(* The window.  It only begins calls, about an endpoint it has a record of *)
(* or about none.                                                          *)
Entered(c) ==
  /\ Shaped(c) /\ c.watched \in Nat /\ c.found \in [Names -> Ids \cup {None}]
  /\ c.plan \in {<<>>} \cup Free \cup Refreshing \cup Begun
  /\ c.plan \in Begun => c.name \in Names /\ c.target \in Ids

LEMMA CalledIsEntered ==
  ASSUME BackendInv, NEW n \in Names, records[n] # None, NEW plan \in Free \cup Begun, NEW value
  PROVE  Entered(Called(plan, n, value)) /\ Called(plan, n, value).plan = plan
<1>1. records[n] \in Ids
  BY DEF BackendInv
<1>2. NoRecords \in [Names -> Ids \cup {None}]
  BY DEF NoRecords
<1> QED
  BY <1>1, <1>2 DEF Called, NoCall, Entered, Shaped, Parts

(* What a handler does not change: the registrations and the records, and  *)
(* an echo it can only end.                                                *)
Quiet == UNCHANGED <<placeVars, records>> /\ prepared' \in {prepared, None}

RowsOK ==
  /\ row = [k \in Kinds |-> row[k]]
  /\ \A k \in Kinds : row[k] # None => row[k] \in Names /\ records[row[k]] # None

LEMMA WindowKeeps ==
  ASSUME Inv, Quiet, calls' = [t \in Threads |-> calls'[t]],
         \A t \in Threads : calls'[t] = calls[t] \/ Entered(calls'[t]),
         TodoInv', RowsOK',
         calls'["gui"].plan # <<>> => todo' # <<>>,
         calls'["gui"].plan \in Refreshing => todo' = <<"listed">>,
         calls'["worker"].plan \notin Refreshing
  PROVE  Inv'
<1>1. WorldInv' /\ \A t \in Threads : calls'[t] = calls[t] => CallInv(calls[t])'
  BY SamePlace DEF Inv, Quiet
<1>2. ASSUME NEW t \in Threads, Entered(calls'[t]) PROVE CallInv(calls[t])'
  BY <1>2, PlansApart DEF Entered, CallInv, Aimed
<1>3. BackendInv'
  BY <1>1, <1>2 DEF Inv, BackendInv, Quiet
<1> QED
  BY <1>3 DEF Inv, RowsInv, RowsOK, Running

(* A handler ends, or has left its call running.                           *)
LEMMA StayKeeps ==
  ASSUME Inv, Quiet, UNCHANGED <<calls, todo, row>>
  PROVE  Inv'
<1>1. WorldInv' /\ \A t \in Threads : CallInv(calls[t])'
  BY SamePlace DEF Inv, Quiet
<1>2. BackendInv'
  BY <1>1 DEF Inv, BackendInv, Quiet
<1> QED
  BY <1>2 DEF Inv, RowsInv, TodoInv, Running, Quiet

LEMMA ReturnKeeps ==
  ASSUME Inv, Quiet, NoMoreCalls, UNCHANGED row, todo # <<"listed">>, TodoInv'
  PROVE  Inv'
<1>1. calls' = [t \in Threads |-> IF t = "gui" THEN NoCall ELSE calls[t]]
  BY DEF NoMoreCalls, Inv, BackendInv
<1>2. Entered(NoCall) /\ NoCall.plan = <<>>
  BY NoCallFields, PlansApart DEF Entered, Aimed
<1>3. RowsOK'
  BY DEF Inv, RowsInv, RowsOK, Quiet
<1>4. calls'["gui"] = NoCall /\ calls'["worker"] = calls["worker"]
  BY <1>1 DEF Threads
<1> QED
  BY <1>1, <1>2, <1>3, <1>4, WindowKeeps, PlansApart DEF Inv, RowsInv, Threads

LEMMA EnterKeeps ==
  ASSUME Inv, Quiet, UNCHANGED row, NEW c, calls' = [calls EXCEPT !["gui"] = c],
         Entered(c), c.plan \notin Refreshing,
         todo # <<"listed">>, TodoInv', todo' # <<>>
  PROVE  Inv'
<1>1. calls' = [t \in Threads |-> IF t = "gui" THEN c ELSE calls[t]]
  BY DEF Inv, BackendInv
<1>2. RowsOK'
  BY DEF Inv, RowsInv, RowsOK, Quiet
<1>3. calls'["gui"] = c /\ calls'["worker"] = calls["worker"]
  BY <1>1 DEF Threads
<1> QED
  BY <1>1, <1>2, <1>3, WindowKeeps DEF Inv, RowsInv, Threads

LEMMA PlansBegin ==
  /\ EchoPlan \in Begun /\ GetPlan \in Begun /\ SetPlan \in Begun /\ CallPlan \in Begun
  /\ TemplatePlan \in Free /\ \A n \in Names : CheckPlan(n) \in Free
  /\ RefreshPlan \in Refreshing
<1>1. EchoPlan \in Begun /\ GetPlan \in Begun /\ SetPlan \in Begun /\ CallPlan \in Begun
  BY DEF EchoPlan, GetPlan, SetPlan, CallPlan, Begun
<1>2. TemplatePlan \in Free /\ \A n \in Names : CheckPlan(n) \in Free
  BY DEF TemplatePlan, CheckPlan, Free
<1>3. RefreshPlan \in Refreshing
  BY DEF RefreshPlan, Refreshing
<1> QED
  BY <1>1, <1>2, <1>3

(* The endpoint of a selected row has a record. *)
LEMMA CallOfRow ==
  ASSUME Inv, todo # <<"listed">>, NEW k \in Kinds, row[k] # None,
         NEW plan \in Free \cup Begun, NEW value, NEW now
  PROVE  LET c == Called(plan, row[k], value)
             since == [c EXCEPT !.since = now]
         IN /\ Entered(c) /\ c.plan \notin Refreshing
            /\ Entered(since) /\ since.plan \notin Refreshing
<1>1. row[k] \in Names /\ records[row[k]] # None
  BY DEF Inv, RowsInv
<1>2. plan \notin Refreshing
  BY PlansApart DEF Aimed
<1>3. BackendInv
  BY DEF Inv
<1> DEFINE c == Called(plan, row[k], value)
           since == [c EXCEPT !.since = now]
<1>4. Entered(c) /\ c.plan = plan
  BY <1>1, <1>3, CalledIsEntered
<1>5. Entered(since) /\ since.plan = plan
  BY <1>4 DEF Entered, Shaped, Parts
<1> QED
  BY <1>2, <1>4, <1>5

(* What a handler has left to do. *)
LEMMA Prefixed ==
  ASSUME NEW S, NEW x \in S, NEW q \in Seq(S)
  PROVE  <<x>> \o q # <<>> /\ Head(<<x>> \o q) = x /\ Tail(<<x>> \o q) = q
<1>1. <<x>> \o q \in Seq(S) /\ Len(<<x>> \o q) = Len(q) + 1
  OBVIOUS
<1>2. Tail(<<x>> \o q) \in Seq(S) /\ Len(Tail(<<x>> \o q)) = Len(q)
  BY <1>1
<1>3. \A i \in 1 .. Len(q) : Tail(<<x>> \o q)[i] = q[i]
  BY <1>1, <1>2
<1>4. Tail(<<x>> \o q) = q
  BY <1>2, <1>3, SeqEqual
<1> QED
  BY <1>1, <1>4

LEMMA TodoFacts ==
  ASSUME NEW what, NEW rest \in Remaining
  PROVE  /\ <<what>> \o rest # <<>> /\ Head(<<what>> \o rest) = what
         /\ Tail(<<what>> \o rest) = rest
         /\ <<what>> # <<>> /\ Head(<<what>>) = what /\ Tail(<<what>>) = <<>>
         /\ rest # <<>> => Head(rest) \in {"parameter", "service"} /\ Tail(rest) \in Remaining
<1>1. rest \in Seq({what, "parameter", "service"})
  <2> DEFINE S == {what, "parameter", "service"}
  <2>1. <<>> \in Seq(S) /\ <<"service">> \in Seq(S) /\ <<"parameter", "service">> \in Seq(S)
    OBVIOUS
  <2> QED
    BY <2>1 DEF Remaining
<1>2. <<what>> \o rest # <<>> /\ Head(<<what>> \o rest) = what /\ Tail(<<what>> \o rest) = rest
  BY <1>1, Prefixed
<1>3. rest # <<>> => Head(rest) \in {"parameter", "service"} /\ Tail(rest) \in Remaining
  <2>1. CASE rest = <<"service">>
    BY <2>1 DEF Remaining
  <2>2. CASE rest = <<"parameter", "service">>
    BY <2>2 DEF Remaining
  <2> QED
    BY <2>1, <2>2 DEF Remaining
<1> QED
  BY <1>2, <1>3

LEMMA TodoReturns ==
  ASSUME TodoInv, todo # <<>>, todo' = Tail(todo)
  PROVE  TodoInv'
  BY TodoFacts DEF TodoInv

LEMMA TodoEnters ==
  ASSUME TodoInv, todo # <<>>, NEW what, what \notin {"checked", "fresh", "written", "call"},
         todo' = <<what>> \o Tail(todo)
  PROVE  TodoInv' /\ todo' # <<>>
  BY TodoFacts DEF TodoInv

LEMMA TodoBegins ==
  ASSUME NEW what, todo' = <<what>>,
         what \in {"checked", "fresh", "written"} => row'["parameter"] # None,
         what = "call" => row'["service"] # None
  PROVE  TodoInv' /\ todo' # <<>>
<1>1. <<>> \in Remaining
  BY DEF Remaining
<1> QED
  BY <1>1, TodoFacts DEF TodoInv

LEMMA ListedHead == Head(<<"listed">>) = "listed"
  OBVIOUS

-----------------------------------------------------------------------------
(* The handlers. *)
LEMMA RefreshKeeps ==
  ASSUME Inv, Refresh
  PROVE  Inv'
<1> DEFINE c == [NoCall EXCEPT !.plan = RefreshPlan]
<1>1. /\ Quiet /\ todo = <<>> /\ todo' = <<"listed">>
      /\ row' = [row EXCEPT !["parameter"] = None]
  BY DEF Refresh, Waiting, StopEcho, Quiet, worldVars, placeVars
<1>2. calls' = [t \in Threads |-> IF t = "gui" THEN c ELSE calls[t]]
  BY DEF Refresh, Inv, BackendInv
<1>3. Entered(c)
  <2>1. Shaped(c) /\ c.plan = RefreshPlan /\ c.found = NoCall.found /\ c.watched = 0
    BY NoCallFields DEF Shaped, Parts
  <2> HIDE DEF c
  <2> QED
    BY <2>1, NoCallFields, PlansBegin, PlansApart DEF Entered, Aimed
<1>4. \A k \in Kinds : row'[k] \in {None, row[k]}
  BY <1>1
<1>5. RowsOK'
  BY <1>1, <1>4 DEF Inv, RowsInv, RowsOK, Quiet
<1>6. calls'["gui"] = c /\ calls'["worker"] = calls["worker"]
  BY <1>2 DEF Threads
<1>7. TodoInv' /\ todo' # <<>>
  BY <1>1, TodoBegins
<1> HIDE DEF c
<1> QED
  BY <1>1, <1>2, <1>3, <1>5, <1>6, <1>7, WindowKeeps DEF Inv, RowsInv, Threads

LEMMA ListedKeeps ==
  ASSUME Inv, Listed
  PROVE  Inv'
<1>1. /\ Quiet /\ NoMoreCalls /\ todo' = <<"topic", "parameter", "service">>
      /\ row' \in Rows \/ row' = [k \in Kinds |-> None]
  BY DEF Listed, Quiet, worldVars, implVars, placeVars
<1>2. RowsOK'
  <2>1. ASSUME NEW k \in Kinds, row'[k] # None
        PROVE  row'[k] \in Names /\ records[row'[k]] # None
    <3>1. row' \in Rows
      BY <1>1, <2>1
    <3>2. row'[k] \in Names \cup {None} /\ Reselected(k, row'[k])
      BY <2>1, <3>1 DEF Rows
    <3> QED
      BY <2>1, <3>2 DEF Reselected
  <2>2. row' = [k \in Kinds |-> row'[k]]
    BY <1>1 DEF Rows
  <2> QED
    BY <1>1, <2>1, <2>2 DEF RowsOK, Quiet
<1>3. calls' = [t \in Threads |-> IF t = "gui" THEN NoCall ELSE calls[t]]
  BY <1>1 DEF NoMoreCalls, Inv, BackendInv
<1>4. Entered(NoCall) /\ NoCall.plan = <<>>
  BY NoCallFields, PlansApart DEF Entered, Aimed
<1>5. calls'["gui"] = NoCall /\ calls'["worker"] = calls["worker"]
  BY <1>3 DEF Threads
<1>6. TodoInv'
  BY <1>1 DEF TodoInv, Remaining
<1> QED
  BY <1>1, <1>2, <1>3, <1>4, <1>5, <1>6, WindowKeeps, PlansApart DEF Inv, RowsInv, Threads

LEMMA ReadEchoQuiet ==
  ASSUME ReadEcho
  PROVE  Quiet /\ UNCHANGED row
<1>1. PICK result \in {"ok", "EAGAIN", "error"} :
        CASE result = "error"  -> EndEcho
          [] result = "EAGAIN" -> UNCHANGED <<echoVars, prepared>>
          [] result = "ok"     -> /\ echoed' = prepared.identity
                                  /\ UNCHANGED <<startEnabled, echoing, requiresRefresh, prepared>>
  BY DEF ReadEcho, EchoResults
<1>2. EndEcho \/ prepared' = prepared
  BY <1>1
<1> QED
  BY <1>2 DEF ReadEcho, EndEcho, StopEcho, Quiet, worldVars, placeVars, listVars

LEMMA TopicKeeps ==
  ASSUME Inv, ShowTopic \/ Tried \/ StartEcho \/ Opened \/ FirstPoll
  PROVE  Inv'
<1> USE ListedHead DEF Resume, Return
<1>0. TodoInv
  BY DEF Inv, RowsInv
<1>1. CASE ShowTopic
  <2>1. Quiet /\ UNCHANGED row /\ todo # <<>> /\ todo # <<"listed">>
    BY <1>1 DEF ShowTopic, Quiet, StopEcho, worldVars, placeVars, listVars
  <2>2. CASE Return
    BY <1>0, <2>1, <2>2, TodoReturns, ReturnKeeps
  <2>3. CASE row["topic"] # None /\ Enter(EchoPlan, row["topic"], Blank, <<"tried">> \o Tail(todo))
    <3>1. TodoInv' /\ todo' # <<>>
      BY <1>0, <2>1, <2>3, TodoEnters DEF Enter
    <3> QED
      BY <2>1, <2>3, <3>1, CallOfRow, PlansBegin, EnterKeeps DEF Enter, Kinds
  <2> QED
    BY <1>1, <2>2, <2>3 DEF ShowTopic
<1>2. CASE Tried
  <2>1. /\ Quiet /\ UNCHANGED row /\ todo # <<>> /\ todo # <<"listed">>
        /\ todo' = Tail(todo) /\ NoMoreCalls
    BY <1>0, <1>2 DEF Tried, Quiet, worldVars, placeVars, listVars
  <2> QED
    BY <1>0, <2>1, TodoReturns, ReturnKeeps
<1>3. CASE StartEcho
  <2>1. /\ Quiet /\ UNCHANGED row /\ todo = <<>> /\ row["topic"] # None
        /\ Enter(EchoPlan, row["topic"], Blank, <<"opened">>)
    BY <1>3 DEF StartEcho, UserActs, Waiting, Quiet, worldVars, placeVars, listVars
  <2>2. TodoInv' /\ todo' # <<>>
    BY <2>1, TodoBegins DEF Enter
  <2> QED
    BY <2>1, <2>2, CallOfRow, PlansBegin, EnterKeeps DEF Enter, Kinds
<1>4. CASE Opened
  <2>1. /\ Quiet /\ UNCHANGED row /\ todo # <<"listed">> /\ NoMoreCalls
        /\ todo' \in {<<>>, <<"poll">>}
    BY <1>4 DEF Opened, EndEcho, StopEcho, Quiet, worldVars, placeVars, listVars
  <2>2. TodoInv'
    BY <2>1, TodoBegins DEF TodoInv
  <2> QED
    BY <2>1, <2>2, ReturnKeeps
<1>5. CASE FirstPoll
  <2>1. /\ Quiet /\ UNCHANGED row /\ todo # <<>> /\ todo # <<"listed">>
        /\ todo' = Tail(todo) /\ NoMoreCalls
    BY <1>5, ReadEchoQuiet DEF FirstPoll
  <2> QED
    BY <1>0, <2>1, TodoReturns, ReturnKeeps
<1> QED
  BY <1>1, <1>2, <1>3, <1>4, <1>5

(* The parameter page changes no record and no echo. *)
ParameterStep ==
  \/ ShowParameter \/ ReadDone \/ Checked \/ Fresh \/ Written \/ ReadBack
  \/ RefreshParameterValue \/ ApplyParameter

LEMMA ParameterKeeps ==
  ASSUME Inv, ParameterStep
  PROVE  Inv'
<1>1. Quiet /\ UNCHANGED row
  BY DEF ParameterStep, ShowParameter, ReadDone, Checked, Fresh, Written, ReadBack,
         RefreshParameterValue, ApplyParameter, Quiet, parameterFrame, worldVars, implVars,
         placeVars, listVars
<1>2. TodoInv /\ "parameter" \in Kinds
  BY DEF Inv, RowsInv, Kinds
<1>3. ASSUME Return, todo # <<>>, Head(todo) # "listed" PROVE Inv'
  <2>1. todo' = Tail(todo) /\ NoMoreCalls /\ todo # <<"listed">>
    BY <1>3, ListedHead DEF Return
  <2> QED
    BY <1>1, <1>2, <1>3, <2>1, TodoReturns, ReturnKeeps
<1>4. ASSUME row["parameter"] # None, todo # <<"listed">>, TodoInv', todo' # <<>>,
             NEW plan \in Free \cup Begun, NEW value, NEW now,
             LET c == Called(plan, row["parameter"], value)
             IN \/ calls' = [calls EXCEPT !["gui"] = c]
                \/ calls' = [calls EXCEPT !["gui"] = [c EXCEPT !.since = now]]
      PROVE  Inv'
  <2> DEFINE c == Called(plan, row["parameter"], value)
             since == [c EXCEPT !.since = now]
  <2>1. Entered(c) /\ c.plan \notin Refreshing /\ Entered(since) /\ since.plan \notin Refreshing
    BY <1>2, <1>4, CallOfRow
  <2>2. calls' = [calls EXCEPT !["gui"] = c] \/ calls' = [calls EXCEPT !["gui"] = since]
    BY <1>4
  <2> HIDE DEF c, since
  <2> QED
    BY <1>1, <1>4, <2>1, <2>2, EnterKeeps
<1>5. CASE ShowParameter
  <2>1. todo # <<>> /\ Head(todo) # "listed" /\ todo # <<"listed">>
    BY <1>5, ListedHead DEF ShowParameter, Resume
  <2>2. CASE Return
    BY <1>3, <2>1, <2>2
  <2>3. CASE /\ row["parameter"] # None
             /\ Enter(GetPlan, row["parameter"], Blank, <<"read">> \o Tail(todo))
    <3>1. TodoInv' /\ todo' # <<>>
      BY <1>2, <2>1, <2>3, TodoEnters DEF Enter
    <3> QED
      BY <1>4, <2>1, <2>3, <3>1, PlansBegin DEF Enter
  <2> QED
    BY <1>5, <2>2, <2>3 DEF ShowParameter
<1>6. CASE ReadDone \/ ReadBack
  BY <1>3, <1>6 DEF ReadDone, ReadBack, Resume
<1>7. CASE Checked
  <2>1. /\ todo # <<>> /\ Head(todo) # "listed" /\ todo # <<"listed">>
        /\ row["parameter"] # None
    BY <1>2, <1>7, ListedHead DEF Checked, Resume, TodoInv
  <2>2. CASE Return
    BY <1>3, <2>1, <2>2
  <2>3. CASE /\ calls' = [calls EXCEPT !["gui"] =
                  [Called(GetPlan, row["parameter"], Blank) EXCEPT !.since = changes]]
             /\ todo' = <<"fresh">>
    <3>1. TodoInv' /\ todo' # <<>>
      BY <1>1, <2>1, <2>3, TodoBegins
    <3> QED
      BY <1>4, <2>1, <2>3, <3>1, PlansBegin
  <2> QED
    BY <1>7, <2>2, <2>3 DEF Checked
<1>8. CASE Fresh
  <2>1. /\ todo # <<>> /\ Head(todo) # "listed" /\ todo # <<"listed">>
        /\ row["parameter"] # None
    BY <1>2, <1>8, ListedHead DEF Fresh, Resume, TodoInv
  <2>2. CASE Return
    BY <1>3, <2>1, <2>2
  <2>3. CASE /\ calls' = [calls EXCEPT !["gui"] =
                  [Called(SetPlan, row["parameter"], Overlay(@.value))
                     EXCEPT !.since = calls["gui"].since]]
             /\ todo' = <<"written">>
    <3>1. TodoInv' /\ todo' # <<>>
      BY <1>1, <2>1, <2>3, TodoBegins
    <3>2. PICK value, now :
            calls' = [calls EXCEPT !["gui"] =
                        [Called(SetPlan, row["parameter"], value) EXCEPT !.since = now]]
      BY <2>3
    <3> QED
      BY <1>4, <2>1, <3>1, <3>2, PlansBegin
  <2> QED
    BY <1>8, <2>2, <2>3 DEF Fresh
<1>9. CASE Written
  <2>1. /\ todo # <<>> /\ Head(todo) # "listed" /\ todo # <<"listed">>
        /\ row["parameter"] # None
    BY <1>2, <1>9, ListedHead DEF Written, Resume, TodoInv
  <2>2. CASE Return
    BY <1>3, <2>1, <2>2
  <2>3. CASE Enter(GetPlan, row["parameter"], Blank, <<"readBack">>)
    <3>1. TodoInv' /\ todo' # <<>>
      BY <2>3, TodoBegins DEF Enter
    <3> QED
      BY <1>4, <2>1, <2>3, <3>1, PlansBegin DEF Enter
  <2> QED
    BY <1>9, <2>2, <2>3 DEF Written
<1>10. CASE RefreshParameterValue \/ ApplyParameter
  <2>1. todo = <<>> /\ row["parameter"] # None /\ row["parameter"] \in Names
    BY <1>10 DEF RefreshParameterValue, ApplyParameter, UserActs, Waiting, Inv, RowsInv, Kinds
  <2>2. PICK plan \in Free \cup Begun, what \in {"read", "checked"} :
          Enter(plan, row["parameter"], Blank, <<what>>)
    BY <1>10, <2>1, PlansBegin DEF RefreshParameterValue, ApplyParameter
  <2>3. TodoInv' /\ todo' # <<>>
    BY <1>1, <2>1, <2>2, TodoBegins DEF Enter
  <2> QED
    BY <1>4, <2>1, <2>2, <2>3 DEF Enter
<1> QED
  BY <1>5, <1>6, <1>7, <1>8, <1>9, <1>10 DEF ParameterStep

(* What the user does to the page itself, closing, and the timer.          *)
LEMMA StayingKeeps ==
  ASSUME Inv,
         \/ RevertParameter \/ StopEchoClicked \/ Close \/ PollEcho
         \/ \E f \in Fields, v \in Values : Edit(f, v)
  PROVE  Inv'
<1>1. CASE RevertParameter \/ \E f \in Fields, v \in Values : Edit(f, v)
  BY <1>1, StayKeeps DEF RevertParameter, Edit, Quiet, parameterFrame, worldVars, implVars,
                         placeVars, listVars
<1>2. CASE StopEchoClicked \/ Close
  BY <1>2, StayKeeps DEF StopEchoClicked, Close, StopEcho, Quiet, worldVars, placeVars, listVars
<1>3. CASE PollEcho
  BY <1>3, ReadEchoQuiet, StayKeeps DEF PollEcho
<1> QED
  BY <1>1, <1>2, <1>3

(* A row that is selected has a record.                                    *)
LEMMA SelectKeeps ==
  ASSUME Inv, NEW n \in Names, SelectTopic(n) \/ SelectParameter(n) \/ SelectService(n)
  PROVE  Inv'
<1>1. PICK k \in Kinds : row' = [row EXCEPT ![k] = n] /\ todo' = <<k>>
  BY DEF SelectTopic, SelectParameter, SelectService, Kinds
<1>2. Quiet /\ UNCHANGED calls /\ todo = <<>> /\ records[n] # None
  BY DEF SelectTopic, SelectParameter, SelectService, UserActs, Waiting, Quiet, backendVars,
         worldVars, implVars, placeVars
<1>3. RowsOK'
  BY <1>1, <1>2 DEF Inv, RowsInv, RowsOK, Quiet
<1>4. TodoInv' /\ todo' # <<>>
  BY <1>1, TodoBegins DEF Kinds
<1>5. calls' = [t \in Threads |-> calls'[t]] /\ \A t \in Threads : calls'[t] = calls[t]
  BY <1>2 DEF Inv, BackendInv
<1>6. calls["gui"].plan \notin Refreshing /\ calls["worker"].plan \notin Refreshing
  BY <1>2 DEF Inv, RowsInv
<1> QED
  BY <1>2, <1>3, <1>4, <1>5, <1>6, WindowKeeps DEF Threads

(* A service call is checked by the window and made by the worker.         *)
LEMMA ServiceKeeps ==
  ASSUME Inv, ShowService \/ ShowTemplate \/ CallService \/ StartCall \/ Finished
  PROVE  Inv'
<1>1. Quiet /\ UNCHANGED row
  BY DEF ShowService, ShowTemplate, CallService, StartCall, Finished, StopEcho, Quiet,
         serviceFrame, worldVars, implVars, placeVars, listVars
<1>2. TodoInv /\ "service" \in Kinds
  BY DEF Inv, RowsInv, Kinds
<1>3. CASE ShowService \/ ShowTemplate
  <2>1. todo # <<>> /\ Head(todo) # "listed" /\ todo # <<"listed">>
    BY <1>3, ListedHead DEF ShowService, ShowTemplate, Resume
  <2>2. CASE Return
    <3>1. TodoInv'
      BY <1>2, <2>1, <2>2, TodoReturns DEF Return
    <3> QED
      BY <1>1, <2>1, <2>2, <3>1, ReturnKeeps DEF Return
  <2>3. CASE /\ row["service"] # None
             /\ Enter(TemplatePlan, row["service"], Blank, <<"template">> \o Tail(todo))
    <3>1. TodoInv' /\ todo' # <<>>
      BY <1>2, <2>1, <2>3, TodoEnters DEF Enter
    <3> QED
      BY <1>1, <1>2, <2>1, <2>3, <3>1, CallOfRow, PlansBegin, EnterKeeps DEF Enter
  <2> QED
    BY <1>3, <2>2, <2>3 DEF ShowService, ShowTemplate
<1>4. CASE CallService
  <2>1. /\ todo = <<>> /\ row["service"] # None /\ row["service"] \in Names
        /\ Enter(CheckPlan(row["service"]), row["service"], Blank, <<"call">>)
    BY <1>4 DEF CallService, UserActs, Waiting, Inv, RowsInv, Kinds
  <2>2. TodoInv' /\ todo' # <<>>
    BY <1>1, <2>1, TodoBegins DEF Enter
  <2>3. CheckPlan(row["service"]) \in Free
    BY <2>1, PlansBegin
  <2> QED
    BY <1>1, <1>2, <2>1, <2>2, <2>3, CallOfRow, EnterKeeps DEF Enter
<1>5. CASE StartCall
  <2> DEFINE c == Called(CallPlan, row["service"], Blank)
  <2>1. /\ todo # <<>> /\ todo # <<"listed">> /\ todo' = Tail(todo) /\ todo' = <<>>
        /\ row["service"] # None
    BY <1>2, <1>5, ListedHead DEF StartCall, Resume, TodoInv
  <2>2. TodoInv'
    BY <2>1 DEF TodoInv
  <2>3. CASE NoMoreCalls
    BY <1>1, <2>1, <2>2, <2>3, ReturnKeeps
  <2>4. CASE StartWorker
    <3>1. Entered(c) /\ c.plan \notin Refreshing
      BY <1>2, <2>1, CallOfRow, PlansBegin
    <3>2. calls' = [t \in Threads |-> IF t = "gui" THEN NoCall ELSE c]
      BY <2>4 DEF StartWorker, Inv, BackendInv, Threads
    <3>3. Entered(NoCall) /\ NoCall.plan = <<>>
      BY NoCallFields, PlansApart DEF Entered, Aimed
    <3>4. RowsOK'
      BY <1>1, <2>1 DEF Inv, RowsInv, RowsOK, Quiet
    <3> HIDE DEF c
    <3>5. calls'["gui"] = NoCall /\ calls'["worker"] = c
      BY <3>2 DEF Threads
    <3> QED
      BY <1>1, <2>1, <2>2, <3>1, <3>2, <3>3, <3>4, <3>5, WindowKeeps, PlansApart DEF Threads
  <2> QED
    BY <1>5, <2>3, <2>4 DEF StartCall
<1>6. CASE Finished
  <2>1. calls' = [t \in Threads |-> IF t = "worker" THEN NoCall ELSE calls[t]]
    BY <1>6 DEF Finished, Inv, BackendInv
  <2>2. Entered(NoCall) /\ NoCall.plan = <<>>
    BY NoCallFields, PlansApart DEF Entered, Aimed
  <2>3. todo = <<>> /\ UNCHANGED todo /\ TodoInv' /\ RowsOK'
    BY <1>1, <1>6 DEF Finished, Waiting, Inv, RowsInv, RowsOK, TodoInv, Quiet
  <2>4. calls'["gui"] = calls["gui"] /\ calls'["worker"] = NoCall
    BY <2>1 DEF Threads
  <2> QED
    BY <1>1, <2>1, <2>2, <2>3, <2>4, WindowKeeps, PlansApart DEF Threads, Inv, RowsInv, Running
<1> QED
  BY <1>3, <1>4, <1>5, <1>6

-----------------------------------------------------------------------------
LEMMA InitInv == Init => Inv
<1> SUFFICES ASSUME Init PROVE Inv
  OBVIOUS
<1> USE DEF Init, BackendInit
<1>1. WorldInv
  BY NoneApart DEF WorldInv, Newest, NotBefore, Identity, Ids
<1>2. CallInv(NoCall)
  BY NoCallFields, PlansApart DEF CallInv, Aimed
<1>3. BackendInv
  BY <1>1, <1>2 DEF BackendInv, NoRecords
<1>4. RowsInv
  BY NoCallFields, PlansApart DEF RowsInv, TodoInv, Running, Threads
<1> QED
  BY <1>3, <1>4 DEF Inv

LEMMA NextInv == Inv /\ [Next]_vars => Inv'
<1> SUFFICES ASSUME Inv, [Next]_vars PROVE Inv'
  OBVIOUS
<1>1. CASE Continue
  BY <1>1, ListedKeeps, TopicKeeps, ParameterKeeps, ServiceKeeps DEF Continue, ParameterStep
<1>2. ASSUME NEW n \in Names, OpenElementEndpoint(n) \/ OpenTopic(records[n]) PROVE Inv'
  BY <1>2, SelectKeeps DEF OpenElementEndpoint, OpenTopic
<1>3. CASE UserStep
  <2>1. CASE Refresh \/ StartEcho \/ CallService
    BY <2>1, RefreshKeeps, TopicKeeps, ServiceKeeps
  <2>2. CASE RefreshParameterValue \/ ApplyParameter
    BY <2>2, ParameterKeeps DEF ParameterStep
  <2>3. CASE \/ RevertParameter \/ StopEchoClicked \/ Close
             \/ \E f \in Fields, v \in Values : Edit(f, v)
    BY <2>3, StayingKeeps
  <2>4. CASE \E n \in Names : SelectTopic(n) \/ SelectParameter(n) \/ SelectService(n)
    BY <2>4, SelectKeeps
  <2> QED
    BY <1>2, <1>3, <2>1, <2>2, <2>3, <2>4 DEF UserStep
<1>4. CASE PollEcho \/ Finished
  BY <1>4, StayingKeeps, ServiceKeeps
<1>5. CASE \E t \in Threads : BackendStep(t)
  BY <1>5, BackendKeeps
<1>6. CASE WorldStep /\ UNCHANGED windowVars
  BY <1>6, WorldKeeps
<1>7. CASE UNCHANGED vars
  <2>1. Quiet /\ UNCHANGED <<calls, todo, row>>
    BY <1>7 DEF vars, backendVars, worldVars, implVars, windowVars, listVars, Quiet, placeVars
  <2> QED
    BY <2>1, StayKeeps
<1> QED
  BY <1>1, <1>3, <1>4, <1>5, <1>6, <1>7 DEF Next

(* The rows are of records, and every operation under way has established  *)
(* what its place in its plan says.                                        *)
THEOREM Invariance == Spec => []Inv
  BY InitInv, NextInv, PTL DEF Spec

(***************************************************************************)
(* OpenedIsTarget for any number of changes of the runtime: Open goes by   *)
(* name, but the check after it leaves only the registration asked for.    *)
(***************************************************************************)
THEOREM OpensTheTarget == Spec => []OpenedIsTarget
<1>1. Inv => OpenedIsTarget
  <2> SUFFICES ASSUME Inv PROVE OpenedIsTarget
    OBVIOUS
  <2>1. ASSUME NEW t \in Threads, At(t, "get") \/ At(t, "set") \/ At(t, "keep")
        PROVE  calls[t].handle = calls[t].target
    <3>1. /\ CallInv(calls[t]) /\ calls[t].plan # <<>>
          /\ Head(calls[t].plan) \in {"get", "set", "keep"}
      BY <2>1 DEF Inv, BackendInv, At, Running
    <3>2. calls[t].plan \in Confirmed
      BY <3>1, Stages DEF CallInv
    <3> QED
      BY <3>1, <3>2 DEF CallInv
  <2> QED
    BY <2>1 DEF OpenedIsTarget, Inv, BackendInv
<1> QED
  BY <1>1, Invariance, PTL

-----------------------------------------------------------------------------
(* The parameter form.  While it is about to be filled for another row     *)
(* there are no edits; otherwise it is of the row selected, or of none.    *)
Rest == <<"parameter", "service">>
ToShow == todo # <<>> /\ (Head(todo) \in {"listed", "parameter"} \/ Tail(todo) = Rest)

RestOfTopic == todo # <<>> /\ Tail(todo) = Rest => Head(todo) \in {"topic", "tried"}

FormInv ==
  /\ RestOfTopic
  /\ form = [part \in {"value", "text", "enabled", "from"} |-> form[part]]
  /\ dirty => ~ToShow /\ form.from # None
  /\ ~ToShow => form.from \in {None, Selected("parameter")}
  /\ form.enabled \/ "revert" \in buttons => form.from # None
  /\ todo # <<>> /\ Head(todo) \in {"read", "readBack"} =>
       ~dirty /\ Selected("parameter") # None /\ calls["gui"].target = Selected("parameter")

LEMMA RestFacts ==
  /\ Rest # <<>> /\ Head(Rest) = "parameter" /\ Tail(Rest) \in Remaining \ {Rest}
  /\ Rest \in Remaining /\ <<>> \in Remaining \ {Rest}
  /\ \A rest \in Remaining \ {Rest} : rest # <<>> => Head(rest) = "service" /\ Tail(rest) # Rest
<1>1. /\ Rest # <<>> /\ Head(Rest) = "parameter" /\ Tail(Rest) = <<"service">>
      /\ <<"service">> # Rest /\ <<>> # Rest
      /\ Head(<<"service">>) = "service" /\ Tail(<<"service">>) = <<>>
  BY DEF Rest
<1> QED
  BY <1>1 DEF Remaining, Rest

(* How a handler gets on, as far as the form is concerned.                 *)
LEMMA TodoMoves ==
  ASSUME TodoInv,
         todo # <<>> => RestOfTopic
  PROVE  /\ todo # <<>> /\ todo' = Tail(todo) =>
              /\ RestOfTopic' /\ (ToShow' <=> Tail(todo) = Rest)
              /\ todo' # <<>> => Head(todo') \in {"parameter", "service"}
         /\ \A what : todo' = <<what>> =>
              /\ RestOfTopic' /\ (ToShow' <=> what \in {"listed", "parameter"})
              /\ todo' # <<>> /\ Head(todo') = what
         /\ \A what : todo # <<>> /\ todo' = <<what>> \o Tail(todo) =>
              /\ ToShow' <=> what \in {"listed", "parameter"} \/ Tail(todo) = Rest
              /\ todo' # <<>> /\ Head(todo') = what /\ Tail(todo') = Tail(todo)
<1>1. ASSUME todo # <<>>, todo' = Tail(todo)
      PROVE  /\ RestOfTopic' /\ (ToShow' <=> Tail(todo) = Rest)
             /\ todo' # <<>> => Head(todo') \in {"parameter", "service"}
  <2>1. todo' \in Remaining
    BY <1>1 DEF TodoInv
  <2>2. CASE todo' = Rest
    BY <1>1, <2>2, RestFacts DEF RestOfTopic, ToShow
  <2>3. CASE todo' # Rest
    <3>1. todo' # <<>> => Head(todo') = "service" /\ Tail(todo') # Rest
      BY <2>1, <2>3, RestFacts
    <3> QED
      BY <1>1, <2>3, <3>1 DEF RestOfTopic, ToShow
  <2> QED
    BY <2>2, <2>3
<1>2. ASSUME NEW what, todo' = <<what>>
      PROVE  /\ RestOfTopic' /\ (ToShow' <=> what \in {"listed", "parameter"})
             /\ todo' # <<>> /\ Head(todo') = what
  <2>1. todo' # <<>> /\ Head(todo') = what /\ Tail(todo') = <<>>
    BY <1>2, RestFacts, TodoFacts
  <2> QED
    BY <2>1, RestFacts DEF RestOfTopic, ToShow
<1>3. ASSUME NEW what, todo # <<>>, todo' = <<what>> \o Tail(todo)
      PROVE  /\ ToShow' <=> what \in {"listed", "parameter"} \/ Tail(todo) = Rest
             /\ todo' # <<>> /\ Head(todo') = what /\ Tail(todo') = Tail(todo)
  <2>1. todo' # <<>> /\ Head(todo') = what /\ Tail(todo') = Tail(todo)
    BY <1>3, TodoFacts DEF TodoInv
  <2> QED
    BY <2>1 DEF ToShow
<1> QED
  BY <1>1, <1>2, <1>3

(* The other pages.                                                        *)
LEMMA AsideKeeps ==
  ASSUME FormInv, UNCHANGED <<form, dirty, buttons, records>>,
         row'["parameter"] = row["parameter"],
         RestOfTopic', ToShow' <=> ToShow,
         todo' # <<>> => Head(todo') \notin {"read", "readBack"}
  PROVE  FormInv'
  BY DEF FormInv, Selected

LEMMA RefreshKeepsForm ==
  ASSUME Inv, FormInv, Refresh \/ Listed
  PROVE  FormInv'
<1>1. TodoInv /\ (todo # <<>> => RestOfTopic)
  BY DEF Inv, RowsInv, FormInv
<1>2. UNCHANGED <<form, dirty, buttons>> /\ ~dirty
  BY DEF Refresh, Listed, Resume, panelVars, parameterVars, FormInv, ToShow
<1>3. RestOfTopic' /\ ToShow' /\ Head(todo') \in {"listed", "topic"}
  <2>1. CASE todo' = <<"listed">>
    BY <1>1, <2>1, TodoMoves
  <2>2. CASE todo' = <<"topic", "parameter", "service">>
    <3>1. todo' # <<>> /\ Head(todo') = "topic" /\ Tail(todo') = Rest
      BY <2>2 DEF Rest
    <3> QED
      BY <3>1 DEF RestOfTopic, ToShow
  <2> QED
    BY <2>1, <2>2 DEF Refresh, Listed
<1> QED
  BY <1>2, <1>3 DEF FormInv

LEMMA TopicKeepsForm ==
  ASSUME Inv, FormInv,
         \/ ShowTopic \/ Tried \/ StartEcho \/ Opened \/ FirstPoll \/ PollEcho
         \/ StopEchoClicked \/ \E n \in Names : SelectTopic(n)
  PROVE  FormInv'
<1>1. TodoInv /\ (todo # <<>> => RestOfTopic)
  BY DEF Inv, RowsInv, FormInv
<1>2. /\ UNCHANGED <<form, dirty, buttons, records>>
      /\ row'["parameter"] = row["parameter"]
  <2>1. CASE \E n \in Names : SelectTopic(n)
    BY <2>1 DEF SelectTopic, panelVars, parameterVars, backendVars, implVars, Inv, RowsInv, Kinds
  <2>2. CASE FirstPoll \/ PollEcho
    BY <2>2 DEF FirstPoll, PollEcho, ReadEcho, parameterVars, listVars
  <2> QED
    BY <2>1, <2>2 DEF ShowTopic, Tried, StartEcho, Opened, StopEchoClicked, panelVars,
                      parameterVars, listVars
<1>3. CASE ShowTopic \/ Tried
  <2>1. todo # <<>> /\ Head(todo) \in {"topic", "tried"}
    BY <1>3 DEF ShowTopic, Tried, Resume
  <2>2. todo' = Tail(todo) \/ todo' = <<"tried">> \o Tail(todo)
    BY <1>3 DEF ShowTopic, Tried, Return, Enter
  <2>3. RestOfTopic' /\ (ToShow' <=> ToShow)
    BY <1>1, <2>1, <2>2, TodoMoves DEF ToShow, RestOfTopic
  <2>4. todo' # <<>> => Head(todo') \notin {"read", "readBack"}
    BY <1>1, <2>1, <2>2, TodoMoves
  <2> QED
    BY <1>2, <2>3, <2>4, AsideKeeps
<1>4. CASE Opened \/ FirstPoll
  <2>1. todo # <<>> /\ Head(todo) \in {"opened", "poll"} /\ ~ToShow
    BY <1>1, <1>4 DEF Opened, FirstPoll, Resume, ToShow, RestOfTopic
  <2>2. \/ todo' = <<>> \/ todo' = <<"poll">> \/ todo' = Tail(todo)
    BY <1>4 DEF Opened, FirstPoll, Return
  <2>3. /\ RestOfTopic' /\ ~ToShow'
        /\ todo' # <<>> => Head(todo') \notin {"read", "readBack"}
    <3>1. CASE todo' = <<>>
      BY <3>1 DEF RestOfTopic, ToShow
    <3> QED
      BY <1>1, <2>1, <2>2, <3>1, TodoMoves DEF ToShow
  <2> QED
    BY <1>2, <2>1, <2>3, AsideKeeps
<1>5. CASE \/ StartEcho \/ PollEcho \/ StopEchoClicked \/ \E n \in Names : SelectTopic(n)
  <2>1. todo = <<>> /\ \/ todo' = <<>>
                       \/ todo' = <<"opened">>
                       \/ todo' = <<"topic">>
    BY <1>5 DEF StartEcho, PollEcho, StopEchoClicked, SelectTopic, UserActs, Waiting, Enter
  <2>2. /\ RestOfTopic' /\ ~ToShow' /\ ~ToShow
        /\ todo' # <<>> => Head(todo') \notin {"read", "readBack"}
    <3>1. CASE todo' = <<>>
      BY <2>1, <3>1 DEF RestOfTopic, ToShow
    <3> QED
      BY <1>1, <2>1, <3>1, TodoMoves DEF ToShow
  <2> QED
    BY <1>2, <2>2, AsideKeeps
<1> QED
  BY <1>3, <1>4, <1>5

LEMMA ServiceKeepsForm ==
  ASSUME Inv, FormInv,
         \/ ShowService \/ ShowTemplate \/ CallService \/ StartCall \/ Finished \/ Close
         \/ \E n \in Names : SelectService(n)
  PROVE  FormInv'
<1>1. TodoInv /\ (todo # <<>> => RestOfTopic)
  BY DEF Inv, RowsInv, FormInv
<1>2. /\ UNCHANGED <<form, dirty, buttons, records>>
      /\ row'["parameter"] = row["parameter"]
  <2>1. CASE \E n \in Names : SelectService(n)
    BY <2>1 DEF SelectService, panelVars, parameterVars, backendVars, implVars, Inv, RowsInv, Kinds
  <2> QED
    BY <2>1 DEF ShowService, ShowTemplate, CallService, StartCall, Finished, Close, serviceFrame,
                implVars, parameterVars, listVars
<1>3. CASE ShowService \/ ShowTemplate \/ StartCall
  <2>1. todo # <<>> /\ Head(todo) \in {"service", "template", "call"} /\ ~ToShow
    BY <1>1, <1>3 DEF ShowService, ShowTemplate, StartCall, Resume, ToShow, RestOfTopic
  <2>2. todo' = Tail(todo) \/ todo' = <<"template">> \o Tail(todo)
    BY <1>3 DEF ShowService, ShowTemplate, StartCall, Return, Enter
  <2>3. /\ RestOfTopic' /\ ~ToShow'
        /\ todo' # <<>> => Head(todo') \notin {"read", "readBack"}
    BY <1>1, <2>1, <2>2, TodoMoves DEF ToShow, RestOfTopic
  <2> QED
    BY <1>2, <2>1, <2>3, AsideKeeps
<1>4. CASE CallService \/ Finished \/ Close \/ \E n \in Names : SelectService(n)
  <2>1. todo = <<>> /\ \/ todo' = <<>>
                       \/ todo' = <<"call">>
                       \/ todo' = <<"service">>
    BY <1>4 DEF CallService, Finished, Close, SelectService, UserActs, Waiting, Enter
  <2>2. /\ RestOfTopic' /\ ~ToShow' /\ ~ToShow
        /\ todo' # <<>> => Head(todo') \notin {"read", "readBack"}
    <3>1. CASE todo' = <<>>
      BY <2>1, <3>1 DEF RestOfTopic, ToShow
    <3> QED
      BY <1>1, <2>1, <3>1, TodoMoves DEF ToShow
  <2> QED
    BY <1>2, <2>2, AsideKeeps
<1> QED
  BY <1>3, <1>4

(* A value that is read is of the row selected.                            *)
LEMMA ReadsSelected ==
  ASSUME Inv, row["parameter"] # None, todo # <<"listed">>, UNCHANGED <<row, records>>,
         NEW rest, Enter(GetPlan, row["parameter"], Blank, rest)
  PROVE  /\ Selected("parameter")' # None
         /\ calls'["gui"].target = Selected("parameter")'
<1>1. row["parameter"] \in Names /\ records[row["parameter"]] # None
  BY DEF Inv, RowsInv, Kinds
<1>2. calls' = [t \in Threads |-> IF t = "gui" THEN Called(GetPlan, row["parameter"], Blank)
                                  ELSE calls[t]]
  BY DEF Enter, Inv, BackendInv
<1>3. calls'["gui"].target = records[row["parameter"]]
  BY <1>2 DEF Called, NoCall, Threads
<1> QED
  BY <1>1, <1>3 DEF Selected

(* The handlers of the page that fill the form ...                         *)
LEMMA FillingKeepsForm ==
  ASSUME Inv, FormInv,
         ShowParameter \/ ReadDone \/ Written \/ ReadBack \/ RefreshParameterValue
  PROVE  FormInv'
<1>1. TodoInv /\ (todo # <<>> => RestOfTopic)
  BY DEF Inv, RowsInv, FormInv
<1>2. UNCHANGED <<row, records>> /\ Selected("parameter")' = Selected("parameter")
  BY DEF ShowParameter, ReadDone, Written, ReadBack, RefreshParameterValue, parameterFrame,
         implVars, listVars, Selected
<1>3. todo # <<"listed">> /\ (todo # <<>> => Tail(todo) # Rest)
  BY <1>1, ListedHead DEF ShowParameter, ReadDone, Written, ReadBack, RefreshParameterValue,
                          Resume, UserActs, Waiting, RestOfTopic
<1>4. ASSUME Return, todo # <<>>
      PROVE  /\ RestOfTopic' /\ ~ToShow'
             /\ todo' # <<>> => Head(todo') \notin {"read", "readBack"}
  BY <1>1, <1>3, <1>4, TodoMoves DEF Return
<1>5. ASSUME row["parameter"] # None, NEW what \in {"read", "readBack"},
             \/ Enter(GetPlan, row["parameter"], Blank, <<what>>)
             \/ /\ todo # <<>>
                /\ Enter(GetPlan, row["parameter"], Blank, <<what>> \o Tail(todo))
      PROVE  /\ RestOfTopic' /\ ~ToShow' /\ Selected("parameter")' # None
             /\ calls'["gui"].target = Selected("parameter")'
  <2>1. RestOfTopic' /\ ~ToShow'
    BY <1>1, <1>3, <1>5, TodoMoves DEF Enter, RestOfTopic
  <2> QED
    BY <1>2, <1>3, <1>5, <2>1, ReadsSelected
<1>6. CASE ShowParameter
  <2>1. /\ todo # <<>> /\ ~dirty' /\ form' = NoForm /\ "revert" \notin buttons'
    BY <1>6 DEF ShowParameter, Resume, FormInv, ToShow
  <2>2. /\ form' = [part \in {"value", "text", "enabled", "from"} |-> form'[part]]
        /\ form'.from = None /\ ~form'.enabled
    BY <2>1 DEF NoForm
  <2>3. CASE Return
    BY <1>4, <2>1, <2>2, <2>3 DEF FormInv
  <2>4. CASE /\ row["parameter"] # None
             /\ Enter(GetPlan, row["parameter"], Blank, <<"read">> \o Tail(todo))
    BY <1>5, <2>1, <2>2, <2>4 DEF FormInv
  <2> QED
    BY <1>6, <2>3, <2>4 DEF ShowParameter
<1>7. CASE ReadDone \/ ReadBack
  <2>1. /\ todo # <<>> /\ Return /\ ~dirty /\ ~ToShow /\ Selected("parameter") # None
        /\ calls["gui"].target = Selected("parameter")
    BY <1>3, <1>7 DEF ReadDone, ReadBack, Resume, FormInv, ToShow
  <2>2. CASE RenderResult
    <3>1. /\ form' = [part \in {"value", "text", "enabled", "from"} |-> form'[part]]
          /\ form'.from = Selected("parameter") /\ ~dirty'
      BY <2>1, <2>2 DEF RenderResult, Render
    <3> QED
      BY <1>2, <1>4, <2>1, <3>1 DEF FormInv
  <2>3. CASE UNCHANGED <<form, dirty>> /\ buttons' \in {buttons, buttons \cup {"refresh"}}
    BY <1>2, <1>4, <2>1, <2>3 DEF FormInv
  <2> QED
    BY <1>7, <2>2, <2>3 DEF ReadDone, ReadBack, ParameterError
<1>8. CASE Written
  <2>1. todo # <<>> /\ Head(todo) = "written" /\ ~ToShow /\ row["parameter"] # None
    BY <1>1, <1>3, <1>8 DEF Written, Resume, TodoInv, ToShow
  <2>2. CASE Return /\ ParameterError
    BY <1>2, <1>4, <2>1, <2>2 DEF FormInv, ParameterError
  <2>3. CASE /\ Enter(GetPlan, row["parameter"], Blank, <<"readBack">>)
             /\ dirty' = FALSE /\ UNCHANGED <<form, buttons>>
    BY <1>2, <1>5, <2>1, <2>3 DEF FormInv
  <2> QED
    BY <1>8, <2>2, <2>3 DEF Written
<1>9. CASE RefreshParameterValue
  <2>1. /\ todo = <<>> /\ ~ToShow /\ ~dirty /\ row["parameter"] # None
        /\ UNCHANGED <<form, dirty, buttons>>
        /\ Enter(GetPlan, row["parameter"], Blank, <<"read">>)
    BY <1>9 DEF RefreshParameterValue, UserActs, Waiting, ToShow, parameterVars
  <2> QED
    BY <1>2, <1>5, <2>1 DEF FormInv
<1> QED
  BY <1>6, <1>7, <1>8, <1>9

(* ... and those that edit it or write what it says.                       *)
LEMMA EditingKeepsForm ==
  ASSUME Inv, FormInv,
         \/ ApplyParameter \/ Checked \/ Fresh \/ RevertParameter
         \/ \E f \in Fields, v \in Values : Edit(f, v)
         \/ \E n \in Names : SelectParameter(n)
  PROVE  FormInv'
<1>1. TodoInv /\ (todo # <<>> => RestOfTopic)
  BY DEF Inv, RowsInv, FormInv
<1>2. CASE ApplyParameter \/ Checked \/ Fresh
  <2>1. UNCHANGED <<form, dirty, buttons, records, row>>
    BY <1>2 DEF ApplyParameter, Checked, Fresh, ParameterError, parameterFrame, parameterVars,
                implVars, listVars
  <2>2. \/ todo = <<>>
        \/ todo # <<>> /\ Head(todo) \in {"checked", "fresh"} /\ Tail(todo) # Rest
    BY <1>1, <1>2 DEF ApplyParameter, Checked, Fresh, UserActs, Waiting, Resume, RestOfTopic
  <2>3. \/ \E what \in {"checked", "fresh", "written"} : todo' = <<what>>
        \/ todo # <<>> /\ todo' = Tail(todo)
    BY <1>2 DEF ApplyParameter, Checked, Fresh, Resume, Enter, Return
  <2>4. /\ RestOfTopic' /\ ~ToShow'
        /\ todo' # <<>> => Head(todo') \notin {"read", "readBack"}
    BY <1>1, <2>2, <2>3, TodoMoves
  <2> QED
    BY <2>1, <2>2, <2>4, AsideKeeps DEF ToShow
<1>3. CASE RevertParameter
  <2>1. /\ todo = <<>> /\ todo' = todo /\ UNCHANGED <<row, records>> /\ "revert" \in buttons
        /\ Render(form.value, form.from, invalid)
    BY <1>3 DEF RevertParameter, UserActs, Waiting, parameterFrame, implVars, listVars
  <2>2. /\ form' = [part \in {"value", "text", "enabled", "from"} |-> form'[part]]
        /\ form'.from = form.from /\ ~dirty'
    BY <2>1 DEF Render
  <2> QED
    BY <2>1, <2>2 DEF FormInv, RestOfTopic, ToShow, Selected
<1>4. ASSUME NEW f \in Fields, NEW v \in Values, Edit(f, v) PROVE FormInv'
  <2>1. /\ todo = <<>> /\ todo' = todo /\ UNCHANGED <<row, records>> /\ form.enabled
        /\ form' = [form EXCEPT !.text[f] = v]
    BY <1>4 DEF Edit, UserActs, Waiting, parameterFrame, implVars, listVars
  <2>2. /\ form' = [part \in {"value", "text", "enabled", "from"} |-> form'[part]]
        /\ form'.from = form.from
    BY <2>1 DEF FormInv
  <2> QED
    BY <2>1, <2>2 DEF FormInv, RestOfTopic, ToShow, Selected
<1>5. ASSUME NEW n \in Names, SelectParameter(n) PROVE FormInv'
  <2>1. ~dirty /\ todo' = <<"parameter">> /\ UNCHANGED <<form, dirty, buttons>>
    BY <1>5 DEF SelectParameter, panelVars, parameterVars
  <2>2. RestOfTopic' /\ ToShow' /\ Head(todo') = "parameter"
    BY <1>1, <2>1, TodoMoves
  <2> QED
    BY <2>1, <2>2 DEF FormInv
<1> QED
  BY <1>2, <1>3, <1>4, <1>5

(* A backend call goes on about the endpoint it was made for, and only a   *)
(* listing replaces the records.                                           *)
LEMMA CallsKeepTarget ==
  ASSUME BackendInv, NEW t \in Threads, CallStep(t), calls[t].plan \notin Refreshing
  PROVE  UNCHANGED records /\ calls'[t].target = calls[t].target
<1> DEFINE c == calls[t]
<1>1. Shaped(c) /\ calls = [u \in Threads |-> calls[u]]
  BY DEF BackendInv, CallInv
<1>2. ~At(t, "list") /\ ~At(t, "endpoints") /\ ~At(t, "recheck")
  BY <1>1, Stages DEF BackendInv, CallInv, At, Running
<1>3. UNCHANGED records /\
      \/ \E why : Fail(t, why)
      \/ \E d : Proceed(t, d) /\ Shaped(d) /\ d.target = c.target
  <2>1. CASE Validate(t) \/ ReadType(t) \/ Encode(t) \/ Call(t) \/ KeepEcho(t)
    BY <1>1, <2>1 DEF Validate, ReadType, Encode, Call, KeepEcho, implVars
  <2>2. CASE OpenPidfd(t) \/ Open(t)
    <3>1. ASSUME NEW w PROVE /\ Shaped([c EXCEPT !.watched = w]) /\ Shaped([c EXCEPT !.handle = w])
                             /\ [c EXCEPT !.watched = w].target = c.target
                             /\ [c EXCEPT !.handle = w].target = c.target
      BY <1>1 DEF Shaped, Parts
    <3> QED
      BY <2>2, <3>1 DEF OpenPidfd, Open, implVars
  <2>3. CASE ReadParameter(t) \/ WriteParameter(t)
    <3>1. ASSUME NEW w PROVE /\ Shaped([c EXCEPT !.value = w])
                             /\ [c EXCEPT !.value = w].target = c.target
      BY <1>1 DEF Shaped, Parts
    <3> QED
      BY <1>1, <2>3, <3>1 DEF ReadParameter, WriteParameter, implVars
  <2>4. CASE CallFails(t)
    BY <2>4 DEF CallFails, implVars
  <2> QED
    BY <1>2, <2>1, <2>2, <2>3, <2>4 DEF CallStep, ListRuntimes, ListEndpoints, Recheck,
                                        RefreshFails
<1>4. CASE \E why : Fail(t, why)
  <2>1. PICK why : Fail(t, why)
    BY <1>4
  <2>2. [c EXCEPT !.plan = <<>>, !.result = why].target = c.target
    BY <1>1 DEF Shaped, Parts
  <2>3. calls'[t] = [c EXCEPT !.plan = <<>>, !.result = why]
    BY <1>1, <2>1 DEF Fail
  <2> QED
    BY <1>3, <2>2, <2>3
<1>5. CASE \E d : Proceed(t, d) /\ Shaped(d) /\ d.target = c.target
  BY <1>3, <1>5, ProceedFields
<1> QED
  BY <1>3, <1>4, <1>5

LEMMA BackendKeepsForm ==
  ASSUME Inv, FormInv, NEW t \in Threads, BackendStep(t)
  PROVE  FormInv'
<1>1. /\ UNCHANGED <<todo, row, form, dirty, buttons>> /\ BackendInv
      /\ \A u \in Threads \ {t} : calls'[u] = calls[u]
  BY StepFrame DEF BackendStep, windowVars, listVars, panelVars, parameterVars, Inv
<1>2. CASE calls[t].plan \in Refreshing
  <2>1. todo = <<"listed">>
    BY <1>2 DEF Inv, RowsInv, Threads
  <2>2. ToShow /\ Head(todo) = "listed"
    BY <2>1, ListedHead DEF ToShow
  <2> QED
    BY <1>1, <2>2 DEF FormInv, RestOfTopic, ToShow
<1>3. CASE calls[t].plan \notin Refreshing
  <2>1. UNCHANGED records /\ calls'["gui"].target = calls["gui"].target
    BY <1>1, <1>3, CallsKeepTarget DEF BackendStep, Threads
  <2> QED
    BY <1>1, <2>1 DEF FormInv, RestOfTopic, ToShow, Selected
<1> QED
  BY <1>2, <1>3

LEMMA NextFormInv == Inv /\ FormInv /\ [Next]_vars => FormInv'
<1> SUFFICES ASSUME Inv, FormInv, [Next]_vars PROVE FormInv'
  OBVIOUS
<1>1. CASE Continue
  BY <1>1, RefreshKeepsForm, TopicKeepsForm, ServiceKeepsForm, FillingKeepsForm,
     EditingKeepsForm DEF Continue
<1>2. CASE UserStep
  BY <1>2, RefreshKeepsForm, TopicKeepsForm, ServiceKeepsForm, FillingKeepsForm,
     EditingKeepsForm DEF UserStep, OpenElementEndpoint, OpenTopic
<1>3. CASE PollEcho \/ Finished
  BY <1>3, TopicKeepsForm, ServiceKeepsForm
<1>4. CASE \E t \in Threads : BackendStep(t)
  BY <1>4, BackendKeepsForm
<1>5. CASE (WorldStep /\ UNCHANGED windowVars) \/ UNCHANGED vars
  <2>1. UNCHANGED <<todo, row, form, dirty, buttons, records, calls>>
    BY <1>5, WorldForward DEF Inv, BackendInv, vars, backendVars, implVars, windowVars,
                              listVars, panelVars, parameterVars
  <2> QED
    BY <2>1 DEF FormInv, RestOfTopic, ToShow, Selected
<1> QED
  BY <1>1, <1>2, <1>3, <1>4, <1>5 DEF Next

(***************************************************************************)
(* FormOfSelection for any parameters, fields and changes of the runtime:  *)
(* a form that is left with another row's value is about to be filled, and *)
(* no edits are pending then.                                              *)
(***************************************************************************)
THEOREM FormIsOfSelection == Spec => []FormOfSelection
<1>1. Init => FormInv
  BY DEF Init, FormInv, NoForm, RestOfTopic, ToShow
<1>2. FormInv => FormOfSelection
  BY DEF FormInv, FormOfSelection, Waiting, ToShow
<1> QED
  BY <1>1, <1>2, InitInv, NextInv, NextFormInv, PTL DEF Spec

-----------------------------------------------------------------------------
(* Apply: what it has read and what it is about to write.  The worker only *)
(* ever calls a service.                                                   *)
Getting ==
  {<<"validate", "type", "open", "validate", "get">>,
   <<"type", "open", "validate", "get">>, <<"open", "validate", "get">>,
   <<"validate", "get">>, <<"get">>}
Setting ==
  {<<"type", "encode", "validate", "open", "seed", "validate", "set">>,
   <<"encode", "validate", "open", "seed", "validate", "set">>,
   <<"validate", "open", "seed", "validate", "set">>,
   <<"open", "seed", "validate", "set">>, <<"seed", "validate", "set">>,
   <<"validate", "set">>, <<"set">>}
Calling ==
  {<<"type", "type", "encode", "validate", "open", "validate", "call">>,
   <<"type", "encode", "validate", "open", "validate", "call">>,
   <<"encode", "validate", "open", "validate", "call">>,
   <<"validate", "open", "validate", "call">>,
   <<"open", "validate", "call">>, <<"validate", "call">>, <<"call">>}

Echoing ==
  {<<"validate", "pidfd", "type", "open", "validate", "keep">>,
   <<"pidfd", "type", "open", "validate", "keep">>,
   <<"type", "open", "validate", "keep">>, <<"open", "validate", "keep">>,
   <<"validate", "keep">>, <<"keep">>}
Harmless == Getting \cup Echoing \cup Free \cup Refreshing \cup {<<>>}

Unedited == {f \in Fields : form.text[f] = form.value[f]}
Dated(c) == c.name = row["parameter"] /\ c.since \in Nat /\ c.since <= changes

(* The value read after the check is what is there, as long as nobody else *)
(* has written since.                                                      *)
ReadInv ==
  LET c == calls["gui"]
  IN todo # <<>> /\ Head(todo) = "fresh" =>
       /\ c.plan \in Getting \cup {<<>>} /\ Dated(c)
       /\ c.plan = <<>> /\ c.result = "ok" /\ c.since = changes => c.value = contents[c.name]

(* And the value to be written agrees with it where nothing was edited.    *)
WriteInv ==
  LET c == calls["gui"]
  IN /\ c.plan \in Setting \cup Harmless
     /\ c.plan \in Setting =>
          /\ todo # <<>> /\ Head(todo) = "written" /\ Dated(c)
          /\ c.since = changes => \A f \in Unedited : c.value[f] = contents[c.name][f]

FieldsInv ==
  /\ changes \in Nat /\ contents = [n \in Names |-> contents[n]]
  /\ calls["worker"].plan \in Calling \cup {<<>>}
  /\ ReadInv /\ WriteInv

LEMMA GettingPlans ==
  ASSUME NEW p \in Getting
  PROVE  /\ Head(p) \in {"validate", "type", "open", "get"}
         /\ IF Head(p) = "get" THEN Tail(p) = <<>> ELSE Tail(p) \in Getting
<1>1. CASE p = <<"validate", "type", "open", "validate", "get">>
  BY <1>1 DEF Getting
<1>2. CASE p = <<"type", "open", "validate", "get">>
  BY <1>2 DEF Getting
<1>3. CASE p = <<"open", "validate", "get">>
  BY <1>3 DEF Getting
<1>4. CASE p = <<"validate", "get">>
  BY <1>4 DEF Getting
<1>5. CASE p = <<"get">>
  BY <1>5 DEF Getting
<1> QED
  BY <1>1, <1>2, <1>3, <1>4, <1>5 DEF Getting

LEMMA SettingPlans ==
  ASSUME NEW p \in Setting
  PROVE  /\ Head(p) \in {"type", "encode", "validate", "open", "seed", "set"}
         /\ IF Head(p) = "set" THEN Tail(p) = <<>> ELSE Tail(p) \in Setting
<1>1. CASE p = <<"type", "encode", "validate", "open", "seed", "validate", "set">>
  BY <1>1 DEF Setting
<1>2. CASE p = <<"encode", "validate", "open", "seed", "validate", "set">>
  BY <1>2 DEF Setting
<1>3. CASE p = <<"validate", "open", "seed", "validate", "set">>
  BY <1>3 DEF Setting
<1>4. CASE p = <<"open", "seed", "validate", "set">>
  BY <1>4 DEF Setting
<1>5. CASE p = <<"seed", "validate", "set">>
  BY <1>5 DEF Setting
<1>6. CASE p = <<"validate", "set">>
  BY <1>6 DEF Setting
<1>7. CASE p = <<"set">>
  BY <1>7 DEF Setting
<1> QED
  BY <1>1, <1>2, <1>3, <1>4, <1>5, <1>6, <1>7 DEF Setting

LEMMA CallingPlans ==
  ASSUME NEW p \in Calling
  PROVE  Head(p) # "set" /\ Tail(p) \in Calling \cup {<<>>}
<1>1. CASE p = <<"type", "type", "encode", "validate", "open", "validate", "call">>
  BY <1>1 DEF Calling
<1>2. CASE p = <<"type", "encode", "validate", "open", "validate", "call">>
  BY <1>2 DEF Calling
<1>3. CASE p = <<"encode", "validate", "open", "validate", "call">>
  BY <1>3 DEF Calling
<1>4. CASE p = <<"validate", "open", "validate", "call">>
  BY <1>4 DEF Calling
<1>5. CASE p = <<"open", "validate", "call">>
  BY <1>5 DEF Calling
<1>6. CASE p = <<"validate", "call">>
  BY <1>6 DEF Calling
<1>7. CASE p = <<"call">>
  BY <1>7 DEF Calling
<1> QED
  BY <1>1, <1>2, <1>3, <1>4, <1>5, <1>6, <1>7 DEF Calling

LEMMA EchoingPlans ==
  ASSUME NEW p \in Echoing
  PROVE  Head(p) # "set" /\ Tail(p) \in Echoing \cup {<<>>}
<1>1. CASE p = <<"validate", "pidfd", "type", "open", "validate", "keep">>
  BY <1>1 DEF Echoing
<1>2. CASE p = <<"pidfd", "type", "open", "validate", "keep">>
  BY <1>2 DEF Echoing
<1>3. CASE p = <<"type", "open", "validate", "keep">>
  BY <1>3 DEF Echoing
<1>4. CASE p = <<"open", "validate", "keep">>
  BY <1>4 DEF Echoing
<1>5. CASE p = <<"validate", "keep">>
  BY <1>5 DEF Echoing
<1>6. CASE p = <<"keep">>
  BY <1>6 DEF Echoing
<1> QED
  BY <1>1, <1>2, <1>3, <1>4, <1>5, <1>6 DEF Echoing

(* Only SetParameter gets to a set.                                        *)
LEMMA OnlySetting ==
  /\ <<>> \notin Setting \cup Getting
  /\ Setting \cap Harmless = {} /\ \A p \in Setting : p \in Aimed
  /\ Refreshing \cap (Getting \cup Calling) = {}
  /\ SetPlan \in Setting /\ GetPlan \in Getting /\ CallPlan \in Calling /\ EchoPlan \in Echoing
  /\ \A p \in Harmless \ {<<>>} :
       Head(p) # "set" /\ (Head(p) # "recheck" => Tail(p) \in Harmless)
<1>1. <<>> \notin Setting \cup Getting
  BY DEF Setting, Getting
<1>2. Setting \cap Harmless = {}
  <2>1. \A p \in Getting \cup Echoing : p \notin Setting
    BY DEF Setting, Getting, Echoing
  <2>2. \A p \in Free \cup Refreshing : p \notin Setting
    BY DEF Setting, Free, Refreshing
  <2> QED
    BY <1>1, <2>1, <2>2 DEF Harmless
<1>3. Refreshing \cap (Getting \cup Calling) = {}
  BY DEF Getting, Calling, Refreshing
<1>4. SetPlan \in Setting /\ GetPlan \in Getting /\ CallPlan \in Calling /\ EchoPlan \in Echoing
  BY DEF Setting, Getting, Calling, Echoing, SetPlan, GetPlan, CallPlan, EchoPlan
<1>5. \A p \in Setting : p \in Aimed
  BY DEF Setting, Aimed, Begun, Validated, Attaching, Confirmed
<1>6. \A p \in Harmless \ {<<>>} :
        Head(p) # "set" /\ (Head(p) # "recheck" => Tail(p) \in Harmless)
  BY GettingPlans, EchoingPlans, FreePlans, RefreshingPlans DEF Harmless
<1> QED
  BY <1>1, <1>2, <1>3, <1>4, <1>5, <1>6

(* What the calls do to what Apply depends on.                             *)
LEMMA RefreshMoves ==
  ASSUME BackendInv, NEW t \in Threads, CallStep(t), calls[t].plan \in Refreshing
  PROVE  /\ calls'[t].plan \in Refreshing \cup {<<>>}
         /\ UNCHANGED <<changes, contents>>
<1>1. Head(calls[t].plan) \in {"list", "endpoints", "recheck"}
  BY RefreshingPlans
<1>2. ListRuntimes(t) \/ ListEndpoints(t) \/ Recheck(t) \/ RefreshFails(t)
  BY <1>1 DEF CallStep, At, Running, Validate, OpenPidfd, ReadType, Encode, Open, ReadParameter,
              WriteParameter, Call, KeepEcho, CallFails
<1>3. UNCHANGED <<changes, contents>>
  BY <1>2 DEF ListRuntimes, ListEndpoints, Recheck, RefreshFails, worldVars
<1> QED
  BY <1>2, <1>3, ListingKeeps, RefreshEnds

LEMMA CallMoves ==
  ASSUME BackendInv, NEW t \in Threads, CallStep(t), calls[t].plan \notin Refreshing
  PROVE  LET c == calls[t]
             d == calls'[t]
         IN /\ changes' = changes /\ d.name = c.name /\ d.since = c.since
            /\ \/ d.plan = <<>> /\ d.result # "ok" /\ contents' = contents
               \/ /\ d.plan = Tail(c.plan)
                  /\ \/ /\ Head(c.plan) \notin {"get", "set"}
                        /\ d.value = c.value /\ contents' = contents
                     \/ /\ Head(c.plan) = "get"
                        /\ d.value = contents[c.name] /\ contents' = contents
                     \/ /\ Head(c.plan) = "set"
                        /\ contents' = [contents EXCEPT ![c.name] = c.value]
<1> DEFINE c == calls[t]
           d == calls'[t]
           Passing == /\ d.name = c.name /\ d.since = c.since /\ d.plan = Tail(c.plan)
<1>1. Shaped(c) /\ (c.plan # <<>> => c.plan \in Free \cup Aimed)
  BY DEF BackendInv, CallInv
<1>2. ASSUME NEW e, Proceed(t, e), Shaped(e), e.plan = c.plan, e.name = c.name, e.since = c.since
      PROVE  Passing /\ d.value = e.value
  BY <1>2, ProceedFields
<1>3. ASSUME NEW why, why # "ok", Fail(t, why), UNCHANGED worldVars
      PROVE  /\ changes' = changes /\ d.name = c.name /\ d.since = c.since
             /\ d.plan = <<>> /\ d.result # "ok" /\ contents' = contents
  BY <1>3, FailFields DEF worldVars
<1>4. CASE Validate(t) \/ ReadType(t) \/ Encode(t) \/ Call(t) \/ KeepEcho(t)
  <2>1. /\ Head(c.plan) \notin {"get", "set"} /\ UNCHANGED worldVars
        /\ Proceed(t, c) \/ Fail(t, "error") \/ Fail(t, "invalid")
    BY <1>4 DEF Validate, ReadType, Encode, Call, KeepEcho, At
  <2>2. CASE Proceed(t, c)
    <3>1. Passing /\ d.value = c.value
      BY <1>1, <1>2, <2>2
    <3> QED
      BY <2>1, <3>1 DEF worldVars
  <2> QED
    BY <1>3, <2>1, <2>2
<1>5. CASE OpenPidfd(t) \/ Open(t)
  <2> DEFINE watching == [c EXCEPT !.watched = life]
             opened == [c EXCEPT !.handle = memory[c.name]]
  <2>1. /\ Head(c.plan) \notin {"get", "set"} /\ UNCHANGED worldVars
        /\ Proceed(t, watching) \/ Proceed(t, opened) \/ Fail(t, "error")
    BY <1>5 DEF OpenPidfd, Open, At
  <2>2. /\ Shaped(watching) /\ watching.plan = c.plan /\ watching.name = c.name
        /\ watching.since = c.since /\ watching.value = c.value
        /\ Shaped(opened) /\ opened.plan = c.plan /\ opened.name = c.name
        /\ opened.since = c.since /\ opened.value = c.value
    BY <1>1 DEF Shaped, Parts
  <2> HIDE DEF watching, opened
  <2>3. CASE Proceed(t, watching) \/ Proceed(t, opened)
    <3>1. Passing /\ d.value = c.value
      BY <1>2, <2>2, <2>3
    <3> QED
      BY <2>1, <3>1 DEF worldVars
  <2> QED
    BY <1>3, <2>1, <2>3
<1>6. CASE ReadParameter(t)
  <2> DEFINE read == [c EXCEPT !.value = contents[c.name]]
  <2>1. /\ UNCHANGED worldVars
        /\ \/ Fail(t, "error")
           \/ Head(c.plan) = "seed" /\ Proceed(t, c)
           \/ Head(c.plan) = "get" /\ Proceed(t, read)
    BY <1>6 DEF ReadParameter, At
  <2>2. /\ Shaped(read) /\ read.plan = c.plan /\ read.name = c.name
        /\ read.since = c.since /\ read.value = contents[c.name]
    BY <1>1 DEF Shaped, Parts
  <2> HIDE DEF read
  <2>3. CASE Head(c.plan) = "seed" /\ Proceed(t, c)
    <3>1. Passing /\ d.value = c.value
      BY <1>1, <1>2, <2>3
    <3> QED
      BY <2>1, <2>3, <3>1 DEF worldVars
  <2>4. CASE Head(c.plan) = "get" /\ Proceed(t, read)
    <3>1. Passing /\ d.value = contents[c.name]
      BY <1>2, <2>2, <2>4
    <3> QED
      BY <2>1, <2>4, <3>1 DEF worldVars
  <2> QED
    BY <1>3, <2>1, <2>3, <2>4
<1>7. CASE WriteParameter(t)
  <2>1. CASE Proceed(t, c) /\ contents' = [contents EXCEPT ![c.name] = c.value]
    <3>1. Passing
      BY <1>1, <1>2, <2>1
    <3> QED
      BY <1>7, <2>1, <3>1 DEF WriteParameter, At
  <2>2. CASE Fail(t, "error") /\ UNCHANGED contents
    BY <1>7, <2>2, FailFields DEF WriteParameter
  <2> QED
    BY <1>7, <2>1, <2>2 DEF WriteParameter
<1>8. CASE CallFails(t)
  BY <1>3, <1>8 DEF CallFails
<1>9. ~(ListRuntimes(t) \/ ListEndpoints(t) \/ Recheck(t) \/ RefreshFails(t))
  <2>1. c.plan # <<>> => Head(c.plan) \notin {"list", "endpoints", "recheck"}
    BY <1>1, BegunPlans, ValidatedPlans, AttachingPlans, ConfirmedPlans, FreePlans DEF Aimed
  <2> QED
    BY <2>1 DEF ListRuntimes, ListEndpoints, Recheck, RefreshFails, At, Running
<1> QED
  BY <1>4, <1>5, <1>6, <1>7, <1>8, <1>9 DEF CallStep

(* A step of the worker's call, and one of the window's.                   *)
LEMMA WorkerKeepsFields ==
  ASSUME Inv, FieldsInv, BackendStep("worker")
  PROVE  FieldsInv' /\ contents' = contents /\ changes' = changes
<1> DEFINE c == calls["worker"]
<1>1. /\ BackendInv /\ CallStep("worker") /\ "worker" \in Threads /\ "gui" # "worker"
      /\ UNCHANGED <<todo, row, form>>
  BY DEF Inv, BackendStep, Threads, windowVars, listVars, panelVars, parameterVars
<1>2. c.plan \in Calling /\ c.plan \notin Refreshing /\ calls'["gui"] = calls["gui"]
  BY <1>1, StepFrame, OnlySetting DEF FieldsInv, Inv, RowsInv, Threads
<1>3. Head(c.plan) # "set" /\ Tail(c.plan) \in Calling \cup {<<>>}
  BY <1>2, CallingPlans
<1>4. contents' = contents /\ changes' = changes /\ calls'["worker"].plan \in Calling \cup {<<>>}
  BY <1>1, <1>2, <1>3, CallMoves
<1> QED
  BY <1>1, <1>2, <1>4 DEF FieldsInv, ReadInv, WriteInv, Dated, Unedited

LEMMA WindowKeepsFields ==
  ASSUME Inv, FieldsInv, BackendStep("gui")
  PROVE  /\ FieldsInv' /\ changes' = changes
         /\ contents' # contents =>
              /\ calls["gui"].plan \in Setting /\ calls["gui"].name \in Names
              /\ contents' = [contents EXCEPT ![calls["gui"].name] = calls["gui"].value]
<1> DEFINE c == calls["gui"]
           d == calls'["gui"]
<1>1. /\ BackendInv /\ CallStep("gui") /\ "gui" \in Threads /\ "gui" # "worker"
      /\ UNCHANGED <<todo, row, form>>
  BY DEF Inv, BackendStep, Threads, windowVars, listVars, panelVars, parameterVars
<1>2. calls'["worker"] = calls["worker"] /\ c.plan # <<>>
  BY <1>1, StepFrame DEF Threads
<1>3. CASE c.plan \in Refreshing
  <2>1. todo' # <<>> => Head(todo') # "fresh"
    BY <1>1, <1>3, ListedHead DEF Inv, RowsInv
  <2>2. d.plan \in Harmless /\ UNCHANGED <<changes, contents>>
    BY <1>1, <1>3, RefreshMoves DEF Harmless
  <2> QED
    BY <1>1, <1>2, <2>1, <2>2, OnlySetting DEF FieldsInv, ReadInv, WriteInv
<1>4. CASE c.plan \in Setting
  <2>1. c.plan \notin Refreshing /\ todo # <<>> /\ Head(todo) = "written" /\ Dated(c)
    BY <1>4, OnlySetting DEF FieldsInv, WriteInv, Harmless
  <2>2. /\ c.name \in Names
        /\ Head(c.plan) # "get"
        /\ IF Head(c.plan) = "set" THEN Tail(c.plan) = <<>> ELSE Tail(c.plan) \in Setting
    <3>1. c.plan \in Aimed
      BY <1>4, OnlySetting
    <3> QED
      BY <1>1, <1>4, <3>1, SettingPlans DEF BackendInv, CallInv
  <2>3. changes' = changes /\ d.name = c.name /\ d.since = c.since
    BY <1>1, <2>1, CallMoves
  <2>4. CASE d.plan = <<>> /\ contents' = contents
    BY <1>1, <1>2, <2>1, <2>3, <2>4, OnlySetting DEF FieldsInv, ReadInv, WriteInv, Harmless
  <2>5. CASE /\ Head(c.plan) # "set" /\ d.plan = Tail(c.plan)
             /\ d.value = c.value /\ contents' = contents
    <3>1. d.plan \in Setting /\ d.plan \notin Harmless
      BY <2>2, <2>5, OnlySetting
    <3> QED
      BY <1>1, <1>2, <1>4, <2>1, <2>3, <2>5, <3>1 DEF FieldsInv, ReadInv, WriteInv, Dated, Unedited
  <2>6. CASE /\ Head(c.plan) = "set" /\ d.plan = Tail(c.plan)
             /\ contents' = [contents EXCEPT ![c.name] = c.value]
    <3>1. d.plan = <<>>
      BY <2>2, <2>6
    <3>2. contents' = [n \in Names |-> contents'[n]]
      BY <2>6 DEF FieldsInv
    <3> QED
      BY <1>1, <1>2, <1>4, <2>1, <2>2, <2>3, <2>6, <3>1, <3>2, OnlySetting
      DEF FieldsInv, ReadInv, WriteInv, Harmless
  <2> QED
    BY <1>1, <2>1, <2>2, <2>4, <2>5, <2>6, CallMoves
<1>5. CASE c.plan \in Harmless \ Refreshing
  <2>1. Head(c.plan) # "set" /\ Tail(c.plan) \in Harmless
    <3>1. Head(c.plan) # "recheck"
      BY <1>1, <1>2, <1>5, Stages DEF BackendInv, CallInv
    <3> QED
      BY <1>2, <1>5, <3>1, OnlySetting
  <2>2. changes' = changes /\ d.name = c.name /\ d.since = c.since /\ contents' = contents
    BY <1>1, <1>5, <2>1, CallMoves
  <2>3. d.plan \in Harmless /\ d.plan \notin Setting
    BY <1>1, <1>5, <2>1, CallMoves, OnlySetting DEF Harmless
  <2>4. CASE todo # <<>> /\ Head(todo) = "fresh"
    <3>1. c.plan \in Getting /\ Dated(c) /\ Dated(c)'
      BY <1>1, <1>2, <2>2, <2>4 DEF FieldsInv, ReadInv, Dated
    <3>2. /\ d.plan \in Getting \cup {<<>>}
          /\ d.plan = <<>> /\ d.result = "ok" => d.value = contents[c.name]
      <4>1. /\ Head(c.plan) # "set"
            /\ IF Head(c.plan) = "get" THEN Tail(c.plan) = <<>>
               ELSE Tail(c.plan) \in Getting /\ Tail(c.plan) # <<>>
        BY <2>1, <3>1, GettingPlans, OnlySetting
      <4>2. \/ d.plan = <<>> /\ d.result # "ok"
            \/ Head(c.plan) \notin {"get", "set"} /\ d.plan = Tail(c.plan)
            \/ d.plan = Tail(c.plan) /\ d.value = contents[c.name]
            \/ Head(c.plan) = "set"
        BY <1>1, <1>5, CallMoves
      <4> QED
        BY <4>1, <4>2
    <3> QED
      BY <1>1, <1>2, <2>2, <2>3, <3>1, <3>2 DEF FieldsInv, ReadInv, WriteInv
  <2>5. CASE ~(todo # <<>> /\ Head(todo) = "fresh")
    BY <1>1, <1>2, <2>2, <2>3, <2>5 DEF FieldsInv, ReadInv, WriteInv
  <2> QED
    BY <2>4, <2>5
<1> QED
  BY <1>3, <1>4, <1>5 DEF FieldsInv, WriteInv

(* A handler begins no writing but Fresh, and reads for none but Checked.  *)
LEMMA AsideKeepsFields ==
  ASSUME Inv, FieldsInv, UNCHANGED <<changes, contents>>,
         NEW c, c.plan \in Harmless,
         \/ calls' = [calls EXCEPT !["gui"] = c]
         \/ StartWorker
         \/ todo = <<>> /\ (UNCHANGED calls \/ calls' = [calls EXCEPT !["worker"] = NoCall]),
         \/ todo' = <<>>
         \/ todo # <<>> /\ todo' = Tail(todo)
         \/ \E what : what # "fresh" /\ \/ todo' = <<what>>
                                        \/ todo # <<>> /\ todo' = <<what>> \o Tail(todo)
  PROVE  FieldsInv'
<1>1. calls = [t \in Threads |-> calls[t]] /\ TodoInv
  BY DEF Inv, BackendInv, RowsInv
<1>2. NoCall.plan = <<>> /\ Called(CallPlan, row["service"], Blank).plan \in Calling
  BY OnlySetting DEF NoCall, Called
<1>3. /\ calls'["gui"].plan \in Harmless
      /\ calls'["worker"].plan \in Calling \cup {<<>>}
  <2>1. CASE calls' = [calls EXCEPT !["gui"] = c]
    <3>1. calls'["gui"] = c /\ calls'["worker"] = calls["worker"]
      BY <1>1, <2>1 DEF Threads
    <3> QED
      BY <3>1 DEF FieldsInv
  <2>2. CASE StartWorker
    <3>1. /\ calls'["gui"] = NoCall
          /\ calls'["worker"] = Called(CallPlan, row["service"], Blank)
      BY <1>1, <2>2 DEF StartWorker, Threads
    <3> QED
      BY <1>2, <3>1 DEF Harmless
  <2>3. CASE todo = <<>> /\ (UNCHANGED calls \/ calls' = [calls EXCEPT !["worker"] = NoCall])
    <3>1. /\ calls'["gui"] = calls["gui"]
          /\ calls'["worker"] = calls["worker"] \/ calls'["worker"] = NoCall
      BY <1>1, <2>3 DEF Threads
    <3>2. calls["gui"].plan = <<>>
      BY <2>3 DEF Inv, RowsInv, Running
    <3> QED
      BY <1>2, <3>1, <3>2 DEF Harmless, FieldsInv
  <2> QED
    BY <2>1, <2>2, <2>3
<1>4. todo' # <<>> => Head(todo') # "fresh"
  <2>1. CASE todo # <<>> /\ todo' = Tail(todo)
    BY <1>1, <2>1, TodoFacts DEF TodoInv
  <2>2. ASSUME NEW what, what # "fresh",
               todo' = <<what>> \/ (todo # <<>> /\ todo' = <<what>> \o Tail(todo))
        PROVE  Head(todo') # "fresh"
    <3>1. <<>> \in Remaining
      BY DEF Remaining
    <3>2. CASE todo' = <<what>>
      BY <2>2, <3>1, <3>2, TodoFacts
    <3>3. CASE todo # <<>> /\ todo' = <<what>> \o Tail(todo)
      BY <1>1, <2>2, <3>3, TodoFacts DEF TodoInv
    <3> QED
      BY <2>2, <3>2, <3>3
  <2> QED
    BY <2>1, <2>2
<1>5. calls'["gui"].plan \notin Setting
  BY <1>3, OnlySetting
<1>6. changes' \in Nat /\ contents' = [n \in Names |-> contents'[n]]
  BY DEF FieldsInv
<1> QED
  BY <1>3, <1>4, <1>5, <1>6 DEF FieldsInv, ReadInv, WriteInv

LEMMA ReturnKeepsFields ==
  ASSUME Inv, FieldsInv, UNCHANGED <<changes, contents>>, NoMoreCalls,
         todo' = <<>> \/ (todo # <<>> /\ todo' = Tail(todo)) \/ todo' = <<"poll">>
  PROVE  FieldsInv'
<1>1. NoCall.plan \in Harmless
  BY DEF NoCall, Harmless
<1>2. calls' = [calls EXCEPT !["gui"] = NoCall]
  BY DEF NoMoreCalls
<1> QED
  BY <1>1, <1>2, AsideKeepsFields

LEMMA EnterKeepsFields ==
  ASSUME Inv, FieldsInv, UNCHANGED <<changes, contents>>,
         NEW plan \in Harmless, NEW n, NEW value, NEW what, what # "fresh",
         \/ Enter(plan, n, value, <<what>>)
         \/ todo # <<>> /\ Enter(plan, n, value, <<what>> \o Tail(todo))
  PROVE  FieldsInv'
<1>1. Called(plan, n, value).plan \in Harmless
  BY DEF Called, NoCall
<1>2. calls' = [calls EXCEPT !["gui"] = Called(plan, n, value)]
  BY DEF Enter
<1>3. \/ todo' = <<what>>
      \/ todo # <<>> /\ todo' = <<what>> \o Tail(todo)
  BY DEF Enter
<1> QED
  BY <1>1, <1>2, <1>3, AsideKeepsFields

LEMMA StayKeepsFields ==
  ASSUME Inv, FieldsInv, UNCHANGED <<changes, contents>>, todo = <<>>,
         UNCHANGED calls \/ calls' = [calls EXCEPT !["worker"] = NoCall],
         todo' \in {<<>>, <<"topic">>, <<"parameter">>, <<"service">>}
  PROVE  FieldsInv'
<1>1. NoCall.plan \in Harmless
  BY DEF NoCall, Harmless
<1>2. todo' = <<>> \/ \E what : what # "fresh" /\ todo' = <<what>>
  OBVIOUS
<1> QED
  BY <1>1, <1>2, AsideKeepsFields

LEMMA HarmlessPlans ==
  /\ EchoPlan \in Harmless /\ GetPlan \in Harmless /\ TemplatePlan \in Harmless
  /\ RefreshPlan \in Harmless /\ \A n \in Names : CheckPlan(n) \in Harmless
  BY PlansBegin, OnlySetting DEF Harmless

(* Nothing but Checked and Fresh has to do with Apply.                     *)
LEMMA ContinueKeepsFields ==
  ASSUME Inv, FieldsInv, Continue, ~Checked, ~Fresh
  PROVE  FieldsInv' /\ UNCHANGED contents
<1>1. UNCHANGED <<changes, contents>> /\ todo # <<>>
  <2>1. CASE Listed \/ ShowTopic \/ Tried \/ Opened
    BY <2>1 DEF Listed, ShowTopic, Tried, Opened, Resume, worldVars
  <2>2. CASE FirstPoll
    BY <2>2 DEF FirstPoll, ReadEcho, Resume, worldVars
  <2>3. CASE ShowParameter \/ ReadDone \/ Written \/ ReadBack
    BY <2>3 DEF ShowParameter, ReadDone, Written, ReadBack, Resume, parameterFrame, worldVars
  <2>4. CASE ShowService \/ ShowTemplate \/ StartCall
    BY <2>4 DEF ShowService, ShowTemplate, StartCall, Resume, serviceFrame, worldVars
  <2> QED
    BY <2>1, <2>2, <2>3, <2>4 DEF Continue
<1>2. CASE Listed
  <2>1. calls' = [calls EXCEPT !["gui"] = NoCall] /\ NoCall.plan \in Harmless
    BY <1>2 DEF Listed, NoMoreCalls, NoCall, Harmless
  <2>2. calls'["gui"] = NoCall /\ calls'["worker"] = calls["worker"]
    BY <2>1 DEF Inv, BackendInv, Threads
  <2>3. todo' # <<>> /\ Head(todo') = "topic"
    BY <1>2 DEF Listed
  <2> QED
    BY <1>1, <2>1, <2>2, <2>3, OnlySetting DEF FieldsInv, ReadInv, WriteInv
<1>3. CASE ShowTopic \/ Tried \/ Opened \/ FirstPoll
  <2>1. \/ NoMoreCalls /\ todo' \in {<<>>, <<"poll">>, Tail(todo)}
        \/ Enter(EchoPlan, row["topic"], Blank, <<"tried">> \o Tail(todo))
    BY <1>3 DEF ShowTopic, Tried, Opened, FirstPoll, Return
  <2> QED
    BY <1>1, <2>1, ReturnKeepsFields, EnterKeepsFields, HarmlessPlans
<1>4. CASE ShowParameter \/ ReadDone \/ Written \/ ReadBack
  <2>1. \/ NoMoreCalls /\ todo' = Tail(todo)
        \/ Enter(GetPlan, row["parameter"], Blank, <<"read">> \o Tail(todo))
        \/ Enter(GetPlan, row["parameter"], Blank, <<"readBack">>)
    BY <1>4 DEF ShowParameter, ReadDone, Written, ReadBack, Return
  <2> QED
    BY <1>1, <2>1, ReturnKeepsFields, EnterKeepsFields, HarmlessPlans
<1>5. CASE ShowService \/ ShowTemplate
  <2>1. \/ NoMoreCalls /\ todo' = Tail(todo)
        \/ Enter(TemplatePlan, row["service"], Blank, <<"template">> \o Tail(todo))
    BY <1>5 DEF ShowService, ShowTemplate, Return
  <2> QED
    BY <1>1, <2>1, ReturnKeepsFields, EnterKeepsFields, HarmlessPlans
<1>6. CASE StartCall
  <2>1. todo' = Tail(todo) /\ (StartWorker \/ NoMoreCalls)
    BY <1>6 DEF StartCall
  <2>2. NoCall.plan \in Harmless
    BY DEF NoCall, Harmless
  <2> QED
    BY <1>1, <2>1, <2>2, ReturnKeepsFields, AsideKeepsFields
<1> QED
  BY <1>1, <1>2, <1>3, <1>4, <1>5, <1>6 DEF Continue

LEMMA UserKeepsFields ==
  ASSUME Inv, FieldsInv, UserStep \/ PollEcho \/ Finished
  PROVE  FieldsInv' /\ UNCHANGED contents
<1>1. CASE Refresh
  <2> DEFINE c == [NoCall EXCEPT !.plan = RefreshPlan]
  <2>1. c.plan \in Harmless
    BY HarmlessPlans DEF NoCall
  <2>2. /\ UNCHANGED <<changes, contents>> /\ todo' = <<"listed">>
        /\ calls' = [calls EXCEPT !["gui"] = c]
    BY <1>1 DEF Refresh, worldVars
  <2> HIDE DEF c
  <2> QED
    BY <2>1, <2>2, AsideKeepsFields
<1>2. CASE StartEcho \/ RefreshParameterValue
  <2>1. /\ UNCHANGED <<changes, contents>>
        /\ \/ Enter(EchoPlan, row["topic"], Blank, <<"opened">>)
           \/ Enter(GetPlan, row["parameter"], Blank, <<"read">>)
    BY <1>2 DEF StartEcho, RefreshParameterValue, parameterFrame, worldVars
  <2> QED
    BY <2>1, EnterKeepsFields, HarmlessPlans
<1>3. CASE ApplyParameter \/ CallService
  <2>1. PICK k \in {"parameter", "service"}, what \in {"checked", "call"} :
          /\ UNCHANGED <<changes, contents>> /\ todo = <<>> /\ row[k] # None
          /\ Enter(CheckPlan(row[k]), row[k], Blank, <<what>>)
    BY <1>3 DEF ApplyParameter, CallService, UserActs, Waiting, parameterFrame, serviceFrame, worldVars
  <2>2. CheckPlan(row[k]) \in Harmless
    BY <2>1, HarmlessPlans DEF Inv, RowsInv, Kinds
  <2> QED
    BY <2>1, <2>2, EnterKeepsFields
<1>4. CASE StopEchoClicked \/ Close \/ Finished
  BY <1>4, StayKeepsFields DEF StopEchoClicked, Close, Finished, UserActs, Waiting, worldVars,
                               serviceFrame
<1>5. CASE PollEcho
  BY <1>5, StayKeepsFields DEF PollEcho, ReadEcho, Waiting, worldVars
<1>6. CASE RevertParameter \/ \E f \in Fields, v \in Values : Edit(f, v)
  BY <1>6, StayKeepsFields DEF RevertParameter, Edit, UserActs, Waiting, parameterFrame, worldVars
<1>7. ASSUME NEW n \in Names, SelectTopic(n) \/ SelectParameter(n) \/ SelectService(n)
      PROVE  FieldsInv' /\ UNCHANGED contents
  BY <1>7, StayKeepsFields DEF SelectTopic, SelectParameter, SelectService, UserActs, Waiting,
                               backendVars, worldVars
<1> QED
  BY <1>1, <1>2, <1>3, <1>4, <1>5, <1>6, <1>7 DEF UserStep, OpenElementEndpoint, OpenTopic

(* What is read for Apply is dated before it is read ...                   *)
LEMMA CheckedKeepsFields ==
  ASSUME Inv, FieldsInv, Checked
  PROVE  FieldsInv' /\ UNCHANGED contents
<1>1. UNCHANGED <<changes, contents, row>> /\ todo # <<>>
  BY DEF Checked, Resume, parameterFrame, worldVars, listVars
<1>2. CASE Return
  BY <1>1, <1>2, ReturnKeepsFields DEF Return
<1>3. CASE /\ calls' = [calls EXCEPT !["gui"] =
                [Called(GetPlan, row["parameter"], Blank) EXCEPT !.since = changes]]
           /\ todo' = <<"fresh">>
  <2> DEFINE c == [Called(GetPlan, row["parameter"], Blank) EXCEPT !.since = changes]
  <2>1. c.plan = GetPlan /\ c.name = row["parameter"] /\ c.since = changes
    BY DEF Called, NoCall
  <2> HIDE DEF c
  <2>2. calls'["gui"] = c /\ calls'["worker"] = calls["worker"]
    BY <1>3 DEF c, Inv, BackendInv, Threads
  <2>3. c.plan \in Getting /\ c.plan # <<>> /\ c.plan \in Harmless /\ c.plan \notin Setting
    BY <2>1, OnlySetting DEF Harmless
  <2> QED
    <3>1. changes' \in Nat /\ contents' = [n \in Names |-> contents'[n]]
      BY <1>1 DEF FieldsInv
    <3>2. ReadInv'
      BY <1>1, <2>1, <2>2, <2>3, <3>1 DEF FieldsInv, ReadInv, Dated
    <3>3. WriteInv'
      BY <2>2, <2>3 DEF WriteInv
    <3> QED
      BY <1>1, <2>2, <3>1, <3>2, <3>3 DEF FieldsInv
<1> QED
  BY <1>1, <1>2, <1>3 DEF Checked

(* ... and what it writes differs from it by the edits.                    *)
LEMMA FreshKeepsFields ==
  ASSUME Inv, FieldsInv, Fresh
  PROVE  FieldsInv' /\ UNCHANGED contents
<1> DEFINE g == calls["gui"]
<1>1. /\ UNCHANGED <<changes, contents, row, form>>
      /\ todo # <<>> /\ Head(todo) = "fresh" /\ g.plan = <<>>
  BY DEF Fresh, Resume, Running, ParameterError, parameterFrame, parameterVars, worldVars, listVars
<1>2. Dated(g) /\ (g.result = "ok" /\ g.since = changes => g.value = contents[g.name])
  BY <1>1 DEF FieldsInv, ReadInv
<1>3. CASE Return
  BY <1>1, <1>3, ReturnKeepsFields DEF Return
<1>4. CASE /\ g.result = "ok"
           /\ calls' = [calls EXCEPT !["gui"] =
                [Called(SetPlan, row["parameter"], Overlay(@.value)) EXCEPT !.since = g.since]]
           /\ todo' = <<"written">>
  <2> DEFINE c == [Called(SetPlan, row["parameter"], Overlay(g.value)) EXCEPT !.since = g.since]
  <2>1. /\ c.plan = SetPlan /\ c.name = row["parameter"] /\ c.since = g.since
        /\ c.value = Overlay(g.value)
    BY DEF Called, NoCall
  <2> HIDE DEF c
  <2>2. calls'["gui"] = c /\ calls'["worker"] = calls["worker"]
    BY <1>4 DEF c, Inv, BackendInv, Threads
  <2>3. \A f \in Unedited : c.value[f] = g.value[f]
    BY <2>1 DEF Unedited, Overlay
  <2>4. c.since = changes => \A f \in Unedited : c.value[f] = contents[c.name][f]
    BY <1>2, <1>4, <2>1, <2>3 DEF Dated
  <2>5. c.plan \in Setting /\ c.plan \notin Harmless
    BY <2>1, OnlySetting
  <2>6. todo' # <<>> /\ Head(todo') = "written"
    BY <1>4
  <2> QED
    BY <1>1, <1>2, <2>1, <2>2, <2>4, <2>5, <2>6 DEF FieldsInv, ReadInv, WriteInv, Dated, Unedited
<1> QED
  BY <1>3, <1>4 DEF Fresh, Result

(* Whoever writes elsewhere makes what has been read old.                  *)
LEMMA WorldKeepsFields ==
  ASSUME Inv, FieldsInv, WorldStep, UNCHANGED windowVars
  PROVE  FieldsInv' /\ changes' # changes
<1>1. changes' = changes + 1 /\ UNCHANGED <<calls, todo, row, form>> /\ changes \in Nat
  BY DEF WorldStep, Unregister, Register, Exit, Restart, WriteElsewhere, Change, windowVars,
         listVars, panelVars, parameterVars, FieldsInv
<1>2. contents' = [n \in Names |-> contents'[n]]
  BY DEF WorldStep, Unregister, Register, Exit, Restart, WriteElsewhere, FieldsInv
<1>3. \A c : Dated(c) => Dated(c)' /\ c.since # changes'
  BY <1>1 DEF Dated
<1> QED
  BY <1>1, <1>2, <1>3 DEF FieldsInv, ReadInv, WriteInv

LEMMA NextFieldsInv ==
  ASSUME Inv, FieldsInv, [Next]_vars
  PROVE  /\ FieldsInv'
         /\ contents' # contents /\ changes' = changes =>
              /\ calls["gui"].plan \in Setting /\ calls["gui"].name \in Names
              /\ contents' = [contents EXCEPT ![calls["gui"].name] = calls["gui"].value]
<1>1. CASE Continue
  BY <1>1, ContinueKeepsFields, CheckedKeepsFields, FreshKeepsFields
<1>2. CASE UserStep \/ PollEcho \/ Finished
  BY <1>2, UserKeepsFields
<1>3. CASE \E t \in Threads : BackendStep(t)
  BY <1>3, WorkerKeepsFields, WindowKeepsFields DEF Threads
<1>4. CASE WorldStep /\ UNCHANGED windowVars
  BY <1>4, WorldKeepsFields
<1>5. CASE UNCHANGED vars
  BY <1>5 DEF vars, backendVars, worldVars, windowVars, listVars, panelVars, parameterVars,
              FieldsInv, ReadInv, WriteInv, Dated, Unedited
<1> QED
  BY <1>1, <1>2, <1>3, <1>4, <1>5 DEF Next

LEMMA InitFieldsInv == Init => FieldsInv
<1> SUFFICES ASSUME Init PROVE FieldsInv
  OBVIOUS
<1>1. calls["gui"] = NoCall /\ calls["worker"] = NoCall /\ NoCall.plan = <<>>
  BY DEF Init, BackendInit, Threads, NoCall
<1>2. <<>> \in Harmless /\ <<>> \notin Setting
  BY OnlySetting DEF Harmless
<1>3. changes \in Nat /\ contents = [n \in Names |-> contents[n]] /\ todo = <<>>
  BY DEF Init, BackendInit
<1> QED
  BY <1>1, <1>2, <1>3 DEF FieldsInv, ReadInv, WriteInv

(***************************************************************************)
(* UneditedFieldsKept for any parameters, fields and changes: what is      *)
(* written was read after the change it is dated with and overlaid with    *)
(* the edits only, so as long as nobody else writes, nothing but the edits *)
(* changes.                                                                *)
(***************************************************************************)
THEOREM ApplyKeepsUnedited == Spec => UneditedFieldsKept
<1> DEFINE Kept ==
      At("gui", "set") /\ changes' = changes /\ calls["gui"].since = changes /\ contents' # contents =>
        \A f \in Fields : form.text[f] = form.value[f] =>
          contents'[row["parameter"]][f] = contents[row["parameter"]][f]
<1>1. Inv /\ FieldsInv /\ [Next]_vars => Kept
  <2> SUFFICES ASSUME Inv, FieldsInv, [Next]_vars, changes' = changes, contents' # contents,
                      calls["gui"].since = changes,
                      NEW f \in Fields, form.text[f] = form.value[f]
               PROVE  contents'[row["parameter"]][f] = contents[row["parameter"]][f]
    OBVIOUS
  <2> DEFINE c == calls["gui"]
  <2>1. /\ c.plan \in Setting /\ c.name \in Names
        /\ contents' = [contents EXCEPT ![c.name] = c.value]
    BY NextFieldsInv
  <2>2. c.name = row["parameter"] /\ c.value[f] = contents[c.name][f]
    BY <2>1 DEF FieldsInv, WriteInv, Dated, Unedited
  <2>3. contents'[c.name] = c.value
    BY <2>1 DEF FieldsInv
  <2> QED
    BY <2>2, <2>3
<1>2. Inv /\ FieldsInv /\ [Next]_vars => FieldsInv'
  BY NextFieldsInv
<1>3. Inv /\ FieldsInv /\ [Next]_vars => [Kept]_vars
  BY <1>1
<1>4. Spec => [][Kept]_vars
  BY <1>2, <1>3, InitInv, NextInv, InitFieldsInv, PTL DEF Spec
<1> QED
  BY <1>4 DEF UneditedFieldsKept

-----------------------------------------------------------------------------
(***************************************************************************)
(* That the main window uses the backend as ToolBackend demands.           *)
(***************************************************************************)
(* The handler is in the echo call or about to take its result.            *)
Trial == todo # <<>> /\ Head(todo) \in {"tried", "opened"}

(* What is left of the only operation that keeps a session.                *)
EchoPlans == {p \in Aimed : p[Len(p)] = "keep"}

(* A session that is not polled exists only during a trial, whose success  *)
(* leaves one; a service call finds neither.                               *)
EchoInv ==
  /\ echoing \in BOOLEAN
  /\ Running("worker") => busy
  /\ busy => todo = <<>> /\ prepared = None /\ ~echoing
  /\ ~Trial => (echoing <=> prepared # None)
  /\ Trial \/ todo = <<"listed">> => ~echoing
  /\ startEnabled => ~echoing
  /\ calls["worker"].plan \notin EchoPlans
  /\ calls["gui"].plan \in EchoPlans => Trial
  /\ Trial => calls["gui"].plan \in EchoPlans \cup {<<>>}
  /\ todo # <<>> /\ Head(todo) = "opened" /\ calls["gui"].plan = <<>> /\ Result = "ok" =>
       prepared # None

-----------------------------------------------------------------------------
CallNames ==
  {"validate", "pidfd", "type", "encode", "open", "seed", "keep", "get", "set", "call"}

LEMMA AimedAreCalls == Aimed \subseteq Seq(CallNames) \ {<<>>}
<1> DEFINE S == Seq(CallNames)
<1>1. Begun \subseteq S
  <2>1. /\ <<"validate", "pidfd", "type", "open", "validate", "keep">> \in S
        /\ <<"validate", "type", "open", "validate", "get">> \in S
        /\ <<"type", "encode", "validate", "open", "seed", "validate", "set">> \in S
        /\ <<"encode", "validate", "open", "seed", "validate", "set">> \in S
        /\ <<"validate", "open", "seed", "validate", "set">> \in S
    BY DEF CallNames
  <2>2. /\ <<"type", "type", "encode", "validate", "open", "validate", "call">> \in S
        /\ <<"type", "encode", "validate", "open", "validate", "call">> \in S
        /\ <<"encode", "validate", "open", "validate", "call">> \in S
        /\ <<"validate", "open", "validate", "call">> \in S
    BY DEF CallNames
  <2> HIDE DEF S
  <2> QED
    BY <2>1, <2>2 DEF Begun
<1>2. Validated \subseteq S
  <2>1. /\ <<"pidfd", "type", "open", "validate", "keep">> \in S
        /\ <<"type", "open", "validate", "keep">> \in S /\ <<"open", "validate", "keep">> \in S
        /\ <<"type", "open", "validate", "get">> \in S /\ <<"open", "validate", "get">> \in S
        /\ <<"open", "seed", "validate", "set">> \in S /\ <<"open", "validate", "call">> \in S
    BY DEF CallNames
  <2> HIDE DEF S
  <2> QED
    BY <2>1 DEF Validated
<1>3. Attaching \cup Confirmed \subseteq S
  <2>1. /\ <<"validate", "keep">> \in S /\ <<"validate", "get">> \in S
        /\ <<"seed", "validate", "set">> \in S /\ <<"validate", "set">> \in S
        /\ <<"validate", "call">> \in S
        /\ <<"keep">> \in S /\ <<"get">> \in S /\ <<"set">> \in S /\ <<"call">> \in S
    BY DEF CallNames
  <2> HIDE DEF S
  <2> QED
    BY <2>1 DEF Attaching, Confirmed
<1> QED
  BY <1>1, <1>2, <1>3, PlansApart DEF Aimed

LEMMA AimedTails ==
  ASSUME NEW p \in Aimed
  PROVE  /\ Tail(p) \in Aimed \cup {<<>>}
         /\ Tail(p) # <<>> => Tail(p)[Len(Tail(p))] = p[Len(p)]
         /\ Tail(p) = <<>> => Head(p) = p[Len(p)]
         /\ Head(p) = "keep" => Tail(p) = <<>>
<1>1. Tail(p) \in Aimed \cup {<<>>} /\ (Head(p) = "keep" => Tail(p) = <<>>)
  BY BegunPlans, ValidatedPlans, AttachingPlans, ConfirmedPlans DEF Aimed
<1>2. p \in Seq(CallNames) /\ p # <<>>
  BY AimedAreCalls
<1>3. /\ Len(p) \in Nat \ {0} /\ Head(p) = p[1] /\ Len(Tail(p)) = Len(p) - 1
      /\ \A i \in 1 .. Len(Tail(p)) : Tail(p)[i] = p[i + 1]
  BY <1>2, HeadTailProperties
<1>4. Tail(p) \in Seq(CallNames)
  BY <1>2, HeadTailProperties
<1>5. Tail(p) # <<>> => Len(Tail(p)) \in 1 .. Len(Tail(p))
  BY <1>3, <1>4
<1>6. Tail(p) # <<>> => Tail(p)[Len(Tail(p))] = p[Len(p)]
  <2> SUFFICES ASSUME Tail(p) # <<>> PROVE Tail(p)[Len(Tail(p))] = p[Len(p)]
    OBVIOUS
  <2>1. Tail(p)[Len(Tail(p))] = p[Len(Tail(p)) + 1]
    BY <1>3, <1>5
  <2>2. Len(Tail(p)) + 1 = Len(p)
    BY <1>3
  <2> QED
    BY <2>1, <2>2
<1>7. Tail(p) = <<>> => Head(p) = p[Len(p)]
  <2> SUFFICES ASSUME Tail(p) = <<>> PROVE Head(p) = p[Len(p)]
    OBVIOUS
  <2>1. Len(<<>>) = 0
    OBVIOUS
  <2>2. Len(p) = 1
    BY <1>3, <2>1
  <2> QED
    BY <1>3, <2>2
<1> QED
  BY <1>1, <1>6, <1>7

LEMMA EchoPlansNext ==
  ASSUME NEW p \in EchoPlans
  PROVE  /\ p # <<>> /\ p \in Aimed
         /\ Tail(p) \in EchoPlans \cup {<<>>}
         /\ Tail(p) = <<>> => Head(p) = "keep"
  BY AimedTails, PlansApart DEF EchoPlans

LEMMA RefreshingTails == \A p \in Refreshing : Tail(p) \in Refreshing \cup {<<>>}
<1>1. /\ Tail(<<"list", "endpoints", "recheck">>) = <<"endpoints", "recheck">>
      /\ Tail(<<"endpoints", "recheck">>) = <<"recheck">>
      /\ Tail(<<"recheck">>) = <<>>
  OBVIOUS
<1> QED
  BY <1>1 DEF Refreshing

(* No other operation keeps one.                                           *)
LEMMA OtherPlansNext ==
  ASSUME NEW p \in Free \cup Refreshing \cup Aimed, p \notin EchoPlans
  PROVE  Tail(p) \notin EchoPlans /\ Head(p) # "keep"
<1>1. CASE p \in Free
  <2>1. Tail(p) \in Free \cup {<<>>} /\ Head(p) # "keep"
    BY <1>1, FreePlans
  <2> QED
    BY <2>1, PlansApart DEF EchoPlans
<1>2. CASE p \in Refreshing
  <2>1. Tail(p) \in Refreshing \cup {<<>>}
    BY <1>2, RefreshingTails
  <2>2. Head(p) # "keep"
    BY <1>2, RefreshingPlans
  <2> QED
    BY <2>1, <2>2, PlansApart DEF EchoPlans
<1>3. CASE p \in Aimed
  BY <1>3, AimedTails, PlansApart DEF EchoPlans
<1> QED
  BY <1>1, <1>2, <1>3

LEMMA BeginningPlans ==
  /\ EchoPlan \in EchoPlans
  /\ \A p \in {GetPlan, SetPlan, CallPlan} : p \notin EchoPlans
  /\ \A p \in Free \cup Refreshing \cup {<<>>} : p \notin EchoPlans
<1>1. EchoPlan \in EchoPlans
  BY PlansBegin DEF EchoPlan, EchoPlans, Aimed
<1>2. \A p \in {GetPlan, SetPlan, CallPlan} : p \notin EchoPlans
  <2>1. Len(GetPlan) = 5 /\ GetPlan[5] = "get"
    BY DEF GetPlan
  <2>2. Len(SetPlan) = 7 /\ SetPlan[7] = "set"
    BY DEF SetPlan
  <2>3. Len(CallPlan) = 7 /\ CallPlan[7] = "call"
    BY DEF CallPlan
  <2> QED
    BY <2>1, <2>2, <2>3 DEF EchoPlans
<1>3. \A p \in Free \cup Refreshing \cup {<<>>} : p \notin EchoPlans
  BY PlansApart DEF EchoPlans
<1> QED
  BY <1>1, <1>2, <1>3

-----------------------------------------------------------------------------
(* What a handler goes on with. *)
LEMMA GoesOn ==
  ASSUME \/ TodoInv /\ todo # <<>> /\ todo' = Tail(todo)
         \/ \E what :
              /\ what \notin {"tried", "opened", "listed"}
              /\ \/ todo' = <<what>>
                 \/ TodoInv /\ todo # <<>> /\ todo' = <<what>> \o Tail(todo)
  PROVE  ~Trial' /\ todo' # <<"listed">>
<1>1. CASE TodoInv /\ todo # <<>> /\ todo' = Tail(todo)
  <2>1. todo' # <<>> => Head(todo') \in {"parameter", "service"}
    BY <1>1, TodoFacts DEF TodoInv
  <2> QED
    BY <2>1, ListedHead DEF Trial
<1>2. ASSUME NEW what, what \notin {"tried", "opened", "listed"},
             \/ todo' = <<what>>
             \/ TodoInv /\ todo # <<>> /\ todo' = <<what>> \o Tail(todo)
      PROVE  ~Trial' /\ todo' # <<"listed">>
  <2>1. <<>> \in Remaining /\ (TodoInv /\ todo # <<>> => Tail(todo) \in Remaining)
    BY DEF Remaining, TodoInv
  <2>2. Head(todo') = what
    BY <1>2, <2>1, TodoFacts
  <2> QED
    BY <1>2, <2>2, ListedHead DEF Trial
<1> QED
  BY <1>1, <1>2

(* What the parameter and the service page do without the echo.            *)
LEMMA PageKeepsEcho ==
  ASSUME EchoInv, UNCHANGED <<echoing, startEnabled, busy, prepared>>,
         calls'["worker"] = calls["worker"], calls'["gui"].plan \notin EchoPlans,
         ~Trial, ~Trial', todo' # <<"listed">>, ~busy
  PROVE  EchoInv'
  BY DEF EchoInv, Running, Trial

(* The calls that the pages make are no echo calls.                        *)
LEMMA PageCalls ==
  ASSUME Inv, NEW plan, plan \notin EchoPlans, NEW n, NEW value, NEW now,
         LET c == Called(plan, n, value)
         IN \/ calls' = [calls EXCEPT !["gui"] = c]
            \/ calls' = [calls EXCEPT !["gui"] = [c EXCEPT !.since = now]]
            \/ NoMoreCalls
            \/ UNCHANGED calls /\ calls["gui"].plan \notin EchoPlans
  PROVE  calls'["worker"] = calls["worker"] /\ calls'["gui"].plan \notin EchoPlans
<1> DEFINE c == Called(plan, n, value)
           since == [c EXCEPT !.since = now]
<1>1. c.plan = plan /\ since.plan = plan /\ NoCall.plan = <<>> /\ <<>> \notin EchoPlans
  BY BeginningPlans DEF Called, NoCall
<1>2. \/ \E e \in {c, since, NoCall} : calls' = [calls EXCEPT !["gui"] = e]
      \/ UNCHANGED calls /\ calls["gui"].plan \notin EchoPlans
  BY DEF NoMoreCalls
<1>3. calls = [t \in Threads |-> calls[t]]
  BY DEF Inv, BackendInv
<1> HIDE DEF c, since
<1> QED
  BY <1>1, <1>2, <1>3 DEF Threads

(* The handlers after a call of the parameter and the service page.        *)
LEMMA PageHandlersKeepEcho ==
  ASSUME Inv, EchoInv,
         \/ ShowParameter \/ ReadDone \/ Checked \/ Fresh \/ Written \/ ReadBack
         \/ ShowService \/ ShowTemplate
  PROVE  EchoInv' /\ UNCHANGED <<echoing, prepared, echoed>> /\ ~Running("worker")
         /\ todo # <<>> /\ calls'["worker"] = calls["worker"]
<1>1. /\ UNCHANGED <<echoing, startEnabled, busy, prepared, echoed>>
      /\ todo # <<>> /\ Head(todo) \notin {"tried", "opened"}
  BY DEF ShowParameter, ReadDone, Checked, Fresh, Written, ReadBack, ShowService, ShowTemplate,
         Resume, parameterFrame, serviceFrame, implVars, echoVars, serviceVars
<1>2. ~Trial /\ ~busy /\ ~Running("worker") /\ TodoInv
  BY <1>1 DEF EchoInv, Trial, Inv, RowsInv
<1>3. /\ GetPlan \notin EchoPlans /\ SetPlan \notin EchoPlans /\ TemplatePlan \notin EchoPlans
  BY BeginningPlans, PlansBegin
<1>4. ~Trial' /\ todo' # <<"listed">>
  <2>1. CASE Return
    BY <1>1, <1>2, <2>1, GoesOn DEF Return
  <2>2. CASE ~Return
    <3>1. \/ \E what \in {"read", "template"} : todo' = <<what>> \o Tail(todo)
          \/ \E what \in {"fresh", "written", "readBack"} : todo' = <<what>>
      BY <2>2 DEF ShowParameter, ReadDone, Checked, Fresh, Written, ReadBack, ShowService,
                  ShowTemplate, Enter
    <3> QED
      BY <1>1, <1>2, <3>1, GoesOn
  <2> QED
    BY <2>1, <2>2
<1>5. calls'["worker"] = calls["worker"] /\ calls'["gui"].plan \notin EchoPlans
  <2>1. CASE Return
    BY <1>3, <2>1, PageCalls DEF Return
  <2>2. CASE ~Return
    <3>1. PICK plan \in {GetPlan, SetPlan, TemplatePlan} : \E n, value, now :
            LET c == Called(plan, n, value)
            IN \/ calls' = [calls EXCEPT !["gui"] = c]
               \/ calls' = [calls EXCEPT !["gui"] = [c EXCEPT !.since = now]]
      BY <2>2 DEF ShowParameter, ReadDone, Checked, Fresh, Written, ReadBack, ShowService,
                  ShowTemplate, Enter
    <3>2. PICK n, value, now :
            LET c == Called(plan, n, value)
            IN \/ calls' = [calls EXCEPT !["gui"] = c]
               \/ calls' = [calls EXCEPT !["gui"] = [c EXCEPT !.since = now]]
      BY <3>1
    <3> QED
      BY <1>3, <3>2, PageCalls
  <2> QED
    BY <2>1, <2>2
<1> QED
  BY <1>1, <1>2, <1>4, <1>5, PageKeepsEcho

(* What the user does there, and the selection of any row.                 *)
LEMMA UserKeepsEcho ==
  ASSUME Inv, EchoInv,
         \/ RefreshParameterValue \/ ApplyParameter \/ CallService \/ RevertParameter
         \/ \E f \in Fields, v \in Values : Edit(f, v)
         \/ \E n \in Names : SelectTopic(n) \/ SelectParameter(n) \/ SelectService(n)
  PROVE  EchoInv' /\ UNCHANGED <<echoing, prepared, echoed>> /\ ~Running("worker")
         /\ todo = <<>> /\ calls'["worker"] = calls["worker"]
<1>1. /\ UNCHANGED <<echoing, startEnabled, busy, prepared, echoed>>
      /\ todo = <<>> /\ ~busy
  BY DEF RefreshParameterValue, ApplyParameter, CallService, RevertParameter, Edit, SelectTopic,
         SelectParameter, SelectService, UserActs, Waiting, parameterFrame, serviceFrame,
         backendVars, panelVars, implVars, echoVars, serviceVars
<1>2. ~Trial /\ ~Running("worker") /\ calls["gui"].plan \notin EchoPlans
  BY <1>1 DEF EchoInv, Trial
<1>3. \A n \in Names : CheckPlan(n) \notin EchoPlans /\ GetPlan \notin EchoPlans
  BY BeginningPlans, PlansBegin
<1>4. \A k \in Kinds : row[k] # None => row[k] \in Names
  BY <1>1 DEF Inv, RowsInv
<1>5. \/ todo' = todo /\ UNCHANGED calls
      \/ \E what \in Kinds : todo' = <<what>> /\ UNCHANGED calls
      \/ \E n \in Names, what \in {"read", "checked", "call"} :
           Enter(GetPlan, n, Blank, <<what>>) \/ Enter(CheckPlan(n), n, Blank, <<what>>)
  BY <1>4 DEF RefreshParameterValue, ApplyParameter, CallService, RevertParameter, Edit,
              SelectTopic, SelectParameter, SelectService, backendVars, Kinds
<1>6. ~Trial' /\ todo' # <<"listed">>
  <2>1. CASE todo' = todo
    BY <1>1, <2>1 DEF Trial
  <2>2. CASE \E what \in {"topic", "parameter", "service", "read", "checked", "call"} :
               todo' = <<what>>
    BY <2>2, GoesOn
  <2> QED
    BY <1>5, <2>1, <2>2 DEF Kinds, Enter
<1>7. calls'["worker"] = calls["worker"] /\ calls'["gui"].plan \notin EchoPlans
  <2>1. CASE UNCHANGED calls
    BY <1>2, <2>1
  <2>2. CASE \E n \in Names, what \in {"read", "checked", "call"} :
               Enter(GetPlan, n, Blank, <<what>>) \/ Enter(CheckPlan(n), n, Blank, <<what>>)
    BY <1>3, <2>2, PageCalls DEF Enter
  <2> QED
    BY <1>5, <2>1, <2>2
<1> QED
  BY <1>1, <1>2, <1>6, <1>7, PageKeepsEcho

-----------------------------------------------------------------------------
(* The echo itself.                                                        *)
Session == IF prepared = None THEN None ELSE prepared.identity

LEMMA ReadEchoKeepsEcho ==
  ASSUME Inv, EchoInv, ~Trial, ReadEcho
  PROVE  /\ UNCHANGED busy /\ echoed' \in {echoed, Session} /\ echoing' \in BOOLEAN
         /\ echoing' <=> prepared' # None
         /\ startEnabled' => ~echoing'
         /\ \/ UNCHANGED <<prepared, echoing>>
            \/ prepared' = None /\ ~echoing'
<1>1. PICK result \in EchoResults :
        CASE result = "error"  -> EndEcho
          [] result = "EAGAIN" -> UNCHANGED <<echoVars, prepared>>
          [] result = "ok"     -> /\ echoed' = prepared.identity
                                  /\ UNCHANGED <<startEnabled, echoing, requiresRefresh, prepared>>
  BY DEF ReadEcho
<1>2. result \in {"ok", "EAGAIN", "error"} /\ (result = "ok" => prepared # None)
  BY DEF EchoResults
<1>3. UNCHANGED busy
  BY DEF ReadEcho, serviceVars
<1>4. CASE result = "error"
  BY <1>1, <1>3, <1>4 DEF EndEcho, StopEcho
<1>5. CASE result = "EAGAIN"
  BY <1>1, <1>3, <1>5 DEF echoVars, EchoInv
<1>6. CASE result = "ok"
  BY <1>1, <1>2, <1>3, <1>6 DEF EchoInv, Session
<1> QED
  BY <1>2, <1>4, <1>5, <1>6

(* The handlers of the topic page, and Refresh's end.                      *)
LEMMA EchoHandlersKeepEcho ==
  ASSUME Inv, EchoInv, Listed \/ ShowTopic \/ Tried \/ Opened \/ FirstPoll
  PROVE  EchoInv' /\ echoed' \in {echoed, Session, None} /\ ~Running("worker")
         /\ todo # <<>> /\ calls'["worker"] = calls["worker"]
<1>1. todo # <<>> /\ ~busy /\ ~Running("worker") /\ TodoInv /\ calls = [t \in Threads |-> calls[t]]
      /\ calls["worker"].plan = <<>> /\ ~Running("gui")
  BY DEF Listed, ShowTopic, Tried, Opened, FirstPoll, Resume, EchoInv, Inv, RowsInv, BackendInv,
         Running
<1>2. NoCall.plan = <<>> /\ <<>> \notin EchoPlans
  BY BeginningPlans DEF NoCall
<1>3. UNCHANGED busy
  BY ReadEchoKeepsEcho DEF Listed, ShowTopic, Tried, Opened, FirstPoll, ReadEcho, panelVars,
                           serviceVars
<1>4. ASSUME NoMoreCalls
      PROVE  calls'["worker"] = calls["worker"] /\ calls'["gui"].plan = <<>>
  BY <1>1, <1>2, <1>4 DEF NoMoreCalls, Threads
<1>5. CASE Listed
  <2>1. /\ NoMoreCalls /\ UNCHANGED <<echoing, startEnabled, prepared, echoed>>
        /\ todo' = <<"topic", "parameter", "service">> /\ Head(todo) = "listed"
    BY <1>5 DEF Listed, Resume, implVars, panelVars, echoVars
  <2>2. ~Trial /\ ~Trial' /\ todo' # <<"listed">>
    BY <2>1 DEF Trial
  <2> QED
    BY <1>1, <1>2, <1>3, <1>4, <2>1, <2>2, PageKeepsEcho
<1>6. CASE ShowTopic
  <2>1. echoing' = FALSE /\ prepared' = None /\ startEnabled' = FALSE /\ echoed' = None
    BY <1>6 DEF ShowTopic, StopEcho
  <2>2. CASE Return
    <3>1. ~Trial' /\ todo' # <<"listed">>
      BY <1>1, <2>2, GoesOn DEF Return
    <3> QED
      BY <1>1, <1>2, <1>3, <1>4, <2>1, <2>2, <3>1 DEF Return, EchoInv, Trial, Running
  <2>3. CASE Enter(EchoPlan, row["topic"], Blank, <<"tried">> \o Tail(todo))
    <3> DEFINE c == Called(EchoPlan, row["topic"], Blank)
    <3>1. c.plan = EchoPlan /\ EchoPlan \in EchoPlans /\ EchoPlan # <<>>
      BY <1>2, BeginningPlans DEF Called, NoCall
    <3>2. calls' = [t \in Threads |-> IF t = "gui" THEN c ELSE calls[t]]
      BY <1>1, <2>3 DEF Enter
    <3> HIDE DEF c
    <3>3. calls'["gui"] = c /\ calls'["worker"] = calls["worker"]
      BY <3>2 DEF Threads
    <3>4. todo' # <<>> /\ Head(todo') = "tried"
      BY <1>1, <2>3, TodoFacts DEF Enter, TodoInv
    <3> QED
      BY <1>1, <1>2, <1>3, <2>1, <3>1, <3>3, <3>4 DEF EchoInv, Trial, Running
  <2> QED
    BY <1>6, <2>2, <2>3 DEF ShowTopic
<1>7. CASE Tried
  <2>1. /\ prepared' = None /\ UNCHANGED <<echoing, echoed>> /\ startEnabled' \in BOOLEAN
        /\ todo' = Tail(todo) /\ NoMoreCalls /\ Trial
    BY <1>7 DEF Tried, Return, Resume, Trial
  <2>2. ~Trial' /\ todo' # <<"listed">>
    BY <1>1, <2>1, GoesOn
  <2> QED
    BY <1>1, <1>2, <1>3, <1>4, <2>1, <2>2 DEF EchoInv, Trial, Running
<1>8. CASE Opened
  <2>1. NoMoreCalls /\ todo # <<>> /\ Head(todo) = "opened" /\ todo' \in {<<>>, <<"poll">>}
    BY <1>8 DEF Opened, Resume
  <2>2. ~Trial' /\ todo' # <<"listed">>
    <3>1. CASE todo' = <<>>
      BY <3>1 DEF Trial
    <3>2. CASE todo' = <<"poll">>
      BY <3>2, GoesOn
    <3> QED
      BY <2>1, <3>1, <3>2
  <2>3. CASE EndEcho
    <3>1. echoing' = FALSE /\ prepared' = None /\ startEnabled' = FALSE /\ echoed' = echoed
      BY <2>3 DEF EndEcho, StopEcho
    <3> QED
      BY <1>1, <1>2, <1>3, <1>4, <2>1, <2>2, <3>1 DEF EchoInv, Trial, Running
  <2>4. CASE /\ Result = "ok" /\ startEnabled' = FALSE /\ echoing' = TRUE
             /\ UNCHANGED <<requiresRefresh, echoed, prepared>>
    <3>1. prepared' # None
      BY <1>1, <2>1, <2>4 DEF EchoInv, Running
    <3> QED
      BY <1>1, <1>2, <1>3, <1>4, <2>1, <2>2, <2>4, <3>1 DEF EchoInv, Trial, Running
  <2> QED
    BY <1>8, <2>3, <2>4 DEF Opened
<1>9. CASE FirstPoll
  <2>1. ReadEcho /\ todo' = Tail(todo) /\ NoMoreCalls /\ ~Trial
    BY <1>9 DEF FirstPoll, Return, Resume, Trial
  <2>2. ~Trial' /\ todo' # <<"listed">>
    BY <1>1, <2>1, GoesOn
  <2>3. /\ echoed' \in {echoed, Session} /\ echoing' \in BOOLEAN
        /\ echoing' <=> prepared' # None
        /\ startEnabled' => ~echoing'
    BY <2>1, ReadEchoKeepsEcho
  <2> QED
    BY <1>1, <1>2, <1>3, <1>4, <2>1, <2>2, <2>3 DEF EchoInv, Trial, Running
<1> QED
  BY <1>5, <1>6, <1>7, <1>8, <1>9

(* What the user and the timer do to the echo.                             *)
LEMMA EchoEventsKeepEcho ==
  ASSUME Inv, EchoInv, Refresh \/ StartEcho \/ StopEchoClicked \/ Close \/ PollEcho
  PROVE  /\ EchoInv' /\ echoed' \in {echoed, Session} /\ ~Running("worker")
         /\ todo = <<>> /\ calls'["worker"] = calls["worker"]
         /\ UNCHANGED <<prepared, echoing>> \/ (prepared' = None /\ ~echoing')
<1>1. /\ todo = <<>> /\ ~busy /\ ~Running("worker") /\ calls["worker"].plan = <<>>
      /\ ~Running("gui") /\ calls["gui"].plan = <<>>
      /\ calls = [t \in Threads |-> calls[t]] /\ ~Trial
  BY DEF Refresh, StartEcho, StopEchoClicked, Close, PollEcho, UserActs, Waiting, EchoInv, Inv,
         RowsInv, BackendInv, Running, Trial
<1>2. NoCall.plan = <<>> /\ <<>> \notin EchoPlans
  BY BeginningPlans DEF NoCall
<1>3. CASE Refresh
  <2> DEFINE c == [NoCall EXCEPT !.plan = RefreshPlan]
  <2>1. /\ echoing' = FALSE /\ prepared' = None /\ UNCHANGED <<busy, echoed>>
        /\ startEnabled' = StartEnabledAfterStop /\ todo' = <<"listed">>
        /\ calls' = [t \in Threads |-> IF t = "gui" THEN c ELSE calls[t]]
    BY <1>1, <1>3 DEF Refresh, StopEcho, serviceVars
  <2>2. c.plan \notin EchoPlans
    BY BeginningPlans, PlansBegin DEF NoCall
  <2> HIDE DEF c
  <2>3. calls'["gui"] = c /\ calls'["worker"] = calls["worker"]
    BY <2>1 DEF Threads
  <2>4. ~Trial'
    BY <2>1, ListedHead DEF Trial
  <2> QED
    BY <1>1, <1>2, <2>1, <2>2, <2>3, <2>4 DEF EchoInv, Running, Trial
<1>4. CASE StartEcho
  <2> DEFINE c == Called(EchoPlan, row["topic"], Blank)
  <2>1. /\ prepared' = None /\ UNCHANGED <<echoing, startEnabled, busy, echoed>> /\ startEnabled
        /\ todo' = <<"opened">>
        /\ calls' = [t \in Threads |-> IF t = "gui" THEN c ELSE calls[t]]
    BY <1>1, <1>4 DEF StartEcho, UserActs, Enter, panelVars, echoVars, serviceVars
  <2>2. c.plan = EchoPlan /\ EchoPlan \in EchoPlans
    BY BeginningPlans DEF Called, NoCall
  <2> HIDE DEF c
  <2>3. calls'["gui"] = c /\ calls'["worker"] = calls["worker"]
    BY <2>1 DEF Threads
  <2>4. todo' # <<>> /\ Head(todo') = "opened" /\ todo' # <<"listed">>
    BY <2>1
  <2>5. ~echoing /\ prepared = None
    BY <1>1, <2>1 DEF EchoInv
  <2> QED
    BY <1>1, <1>2, <2>1, <2>2, <2>3, <2>4, <2>5 DEF EchoInv, Running, Trial
<1>5. CASE StopEchoClicked \/ Close
  <2>1. /\ echoing' = FALSE /\ prepared' = None /\ UNCHANGED <<busy, echoed, calls, todo>>
        /\ startEnabled' = StartEnabledAfterStop
    BY <1>5 DEF StopEchoClicked, Close, StopEcho, serviceVars
  <2> QED
    BY <1>1, <1>2, <2>1 DEF EchoInv, Running, Trial
<1>6. CASE PollEcho
  <2>1. ReadEcho /\ UNCHANGED <<todo, calls>>
    BY <1>6 DEF PollEcho
  <2>2. /\ UNCHANGED busy /\ echoed' \in {echoed, Session} /\ echoing' \in BOOLEAN
        /\ echoing' <=> prepared' # None
        /\ startEnabled' => ~echoing'
        /\ UNCHANGED <<prepared, echoing>> \/ (prepared' = None /\ ~echoing')
    BY <1>1, <2>1, ReadEchoKeepsEcho
  <2>3. ~Trial'
    BY <1>1, <2>1 DEF Trial
  <2> QED
    BY <1>1, <1>2, <2>1, <2>2, <2>3 DEF EchoInv, Running, Trial
<1> QED
  BY <1>3, <1>4, <1>5, <1>6

(* The worker is given the backend with nothing open, and gives it back.   *)
LEMMA ServiceCallKeepsEcho ==
  ASSUME Inv, EchoInv, StartCall \/ Finished
  PROVE  /\ EchoInv' /\ UNCHANGED echoed /\ todo' = <<>>
         /\ StartCall => /\ todo # <<>> /\ ~Running("worker")
                         /\ \/ prepared' = None /\ ~echoing'
                            \/ UNCHANGED <<prepared, echoing>> /\ calls'["worker"] = calls["worker"]
         /\ Finished => /\ todo = <<>> /\ ~Running("worker") /\ ~Running("worker")'
                        /\ UNCHANGED <<prepared, echoing>>
<1>1. NoCall.plan = <<>> /\ <<>> \notin EchoPlans /\ calls = [t \in Threads |-> calls[t]]
  BY BeginningPlans DEF NoCall, Inv, BackendInv
<1>2. CASE StartCall
  <2> DEFINE c == Called(CallPlan, row["service"], Blank)
  <2>1. /\ todo # <<>> /\ Head(todo) = "call" /\ todo' = <<>> /\ ~Trial /\ ~Trial'
        /\ ~Running("gui") /\ ~busy /\ ~Running("worker") /\ UNCHANGED echoed
        /\ todo' # <<"listed">>
    BY <1>2 DEF StartCall, Resume, Trial, EchoInv, Inv, RowsInv, TodoInv, serviceFrame
  <2>2. CASE Result = "ok"
    <3>1. /\ echoing' = FALSE /\ prepared' = None /\ startEnabled' = StartEnabledAfterStop
          /\ busy' = TRUE
          /\ calls' = [t \in Threads |-> IF t = "gui" THEN NoCall ELSE c]
      BY <1>1, <1>2, <2>2 DEF StartCall, StopEcho, StartWorker, Threads
    <3>2. c.plan \notin EchoPlans
      BY BeginningPlans DEF Called, NoCall
    <3> HIDE DEF c
    <3>3. calls'["gui"] = NoCall /\ calls'["worker"] = c
      BY <3>1 DEF Threads
    <3> QED
      BY <1>1, <1>2, <2>1, <3>1, <3>2, <3>3 DEF EchoInv, Running, Trial, Finished, Waiting
  <2>3. CASE Result # "ok"
    <3>1. NoMoreCalls /\ UNCHANGED <<echoing, startEnabled, prepared, busy>>
      BY <1>2, <2>3 DEF StartCall
    <3>2. calls'["gui"] = NoCall /\ calls'["worker"] = calls["worker"]
      BY <1>1, <3>1 DEF NoMoreCalls, Threads
    <3> QED
      BY <1>1, <1>2, <2>1, <3>1, <3>2, PageKeepsEcho DEF Finished, Waiting
  <2> QED
    BY <2>2, <2>3
<1>3. CASE Finished
  <2>1. /\ todo = <<>> /\ todo' = <<>> /\ busy /\ busy' = FALSE /\ ~Running("worker")
        /\ UNCHANGED <<echoing, startEnabled, prepared, echoed>>
        /\ calls' = [t \in Threads |-> IF t = "worker" THEN NoCall ELSE calls[t]]
    BY <1>1, <1>3 DEF Finished, Waiting, serviceFrame, implVars
  <2>2. calls'["worker"] = NoCall /\ calls'["gui"] = calls["gui"]
    BY <2>1 DEF Threads
  <2>3. ~StartCall
    BY <2>1 DEF StartCall, Resume
  <2> QED
    BY <1>1, <2>1, <2>2, <2>3 DEF EchoInv, Running, Trial
<1> QED
  BY <1>2, <1>3

-----------------------------------------------------------------------------
(* The calls.  Only the last step of an echo call opens a session, and the *)
(* call succeeds by no other step.                                         *)
LEMMA CallStepEcho ==
  ASSUME Inv, NEW t \in Threads, CallStep(t)
  PROVE  /\ calls'[t].plan \in EchoPlans => calls[t].plan \in EchoPlans
         /\ calls[t].plan \in EchoPlans => calls'[t].plan \in EchoPlans \cup {<<>>}
         /\ \/ prepared' = prepared
            \/ calls[t].plan \in EchoPlans /\ prepared' # None
            \/ calls[t].plan \in Refreshing /\ prepared' = None
         /\ /\ calls[t].plan \in EchoPlans /\ calls'[t].plan = <<>> /\ calls'[t].result = "ok"
            => prepared' # None
<1> DEFINE c == calls[t]
<1>1. BackendInv /\ CallInv(c) /\ c.plan # <<>> /\ c.plan \in Free \cup Refreshing \cup Aimed
  BY StepFrame DEF Inv, BackendInv, CallInv
<1>2. c.plan \in Refreshing => calls'[t].plan \in Refreshing \cup {<<>>}
  <2> SUFFICES ASSUME c.plan \in Refreshing PROVE calls'[t].plan \in Refreshing \cup {<<>>}
    OBVIOUS
  <2>1. Head(c.plan) \in {"list", "endpoints", "recheck"}
    BY RefreshingPlans
  <2>2. ListRuntimes(t) \/ ListEndpoints(t) \/ Recheck(t) \/ RefreshFails(t)
    BY <2>1 DEF CallStep, Validate, OpenPidfd, ReadType, Encode, Open, ReadParameter,
                WriteParameter, Call, KeepEcho, CallFails, At, Running
  <2>3. CASE ListRuntimes(t) \/ ListEndpoints(t)
    <3>1. CallInv(calls[t])'
      BY <1>1, <2>3, ListingKeeps
    <3>2. \E e : Proceed(t, e) /\ Shaped(e) /\ e.plan = c.plan
      <4>1. CASE ListRuntimes(t)
        <5> DEFINE e == [c EXCEPT !.watched = IF alive THEN life ELSE 0]
        <5>1. Shaped(e) /\ e.plan = c.plan
          BY <1>1 DEF CallInv, Shaped, Parts
        <5>2. Proceed(t, e)
          BY <4>1 DEF ListRuntimes
        <5> QED
          BY <5>1, <5>2
      <4>2. CASE ListEndpoints(t)
        <5>1. PICK new, types : Proceed(t, [c EXCEPT !.found = new, !.typed = types])
          BY <4>2 DEF ListEndpoints
        <5> DEFINE e == [c EXCEPT !.found = new, !.typed = types]
        <5>2. Shaped(e) /\ e.plan = c.plan
          BY <1>1 DEF CallInv, Shaped, Parts
        <5> QED
          BY <5>1, <5>2
      <4> QED
        BY <2>3, <4>1, <4>2
    <3>3. calls'[t].plan = Tail(c.plan)
      BY <1>1, <3>2, ProceedFields
    <3> QED
      BY <3>3, RefreshingTails
  <2>4. CASE Recheck(t) \/ RefreshFails(t)
    BY <1>1, <2>4, RefreshEnds
  <2> QED
    BY <2>2, <2>3, <2>4
<1>3. c.plan \notin Refreshing => calls'[t].plan \in {<<>>, Tail(c.plan)}
  BY <1>1, PlanMoves
<1>4. c.plan \in Refreshing => c.plan \notin EchoPlans /\ calls'[t].plan \notin EchoPlans
  BY <1>2, BeginningPlans
<1>7. ASSUME NEW e, Proceed(t, e), Shaped(e), e.plan = c.plan PROVE calls'[t].plan = Tail(c.plan)
  BY <1>1, <1>7, ProceedFields
<1>5. CASE KeepEcho(t)
  <2>1. Head(c.plan) = "keep"
    BY <1>5 DEF KeepEcho, At
  <2>2. c.plan \in EchoPlans /\ c.plan \in Confirmed /\ Tail(c.plan) = <<>>
    BY <1>1, <2>1, OtherPlansNext, Stages
  <2>3. c.name \in Names /\ c.target \in Ids /\ c.handle \in Ids /\ c.watched \in Nat
    BY <1>1, <2>2 DEF CallInv, Aimed
  <2>4. prepared' \in [name : Names, identity : Ids, handle : Ids, watched : Nat]
    BY <1>5, <2>3 DEF KeepEcho
  <2>5. Ids \subseteq [life : Nat, reg : Nat]
    BY DEF Ids
  <2>6. prepared' # None
    BY <2>4, <2>5, BackendAssumption
  <2> QED
    BY <1>3, <1>4, <2>2, <2>6, EchoPlansNext
<1>6. CASE ~KeepEcho(t)
  <2>1. \/ prepared' = prepared
        \/ c.plan \in Refreshing /\ prepared' = None
    <3>1. CASE Recheck(t) \/ RefreshFails(t)
      BY <1>1, <3>1, RefreshEnds
    <3>2. CASE ~(Recheck(t) \/ RefreshFails(t))
      BY <1>6, <3>2 DEF CallStep, implVars, Validate, OpenPidfd, ReadType, Encode, Open,
                        ReadParameter, WriteParameter, Call, CallFails, ListRuntimes, ListEndpoints
    <3> QED
      BY <3>1, <3>2
  <2>2. c.plan \in EchoPlans /\ calls'[t].plan = <<>> => calls'[t].result # "ok"
    <3> SUFFICES ASSUME c.plan \in EchoPlans, calls'[t].plan = <<>>
                 PROVE  calls'[t].result # "ok"
      OBVIOUS
    <3>1. Head(c.plan) # "keep"
      <4>1. Head(c.plan) = "keep" => At(t, "keep")
        BY <1>1 DEF At, Running
      <4> QED
        BY <1>6, <4>1 DEF CallStep, Validate, OpenPidfd, ReadType, Encode, Open, ReadParameter,
                          WriteParameter, Call, CallFails, ListRuntimes, ListEndpoints, Recheck,
                          RefreshFails, At
    <3>2. Tail(c.plan) # <<>>
      BY <3>1, EchoPlansNext
    <3>3. \E why \in {"error", "invalid"} : Fail(t, why)
      <4>1. ASSUME NEW e, Proceed(t, e), Shaped(e), e.plan = c.plan PROVE FALSE
        BY <1>7, <3>2, <4>1
      <4>2. c.plan \in Aimed /\ c.plan \notin Refreshing
        BY <1>4, EchoPlansNext
      <4>3. CASE Validate(t) \/ ReadType(t) \/ Encode(t) \/ WriteParameter(t) \/ Call(t) \/ CallFails(t)
        BY <1>1, <4>1, <4>3 DEF Validate, ReadType, Encode, WriteParameter, Call, CallFails, CallInv
      <4>4. CASE OpenPidfd(t) \/ Open(t) \/ ReadParameter(t)
        <5> DEFINE watching == [c EXCEPT !.watched = life]
                   opened == [c EXCEPT !.handle = memory[c.name]]
                   read == [c EXCEPT !.value = contents[c.name]]
        <5>1. /\ Shaped(watching) /\ watching.plan = c.plan /\ Shaped(opened)
              /\ opened.plan = c.plan /\ Shaped(read) /\ read.plan = c.plan /\ Shaped(c)
          BY <1>1 DEF CallInv, Shaped, Parts
        <5>2. Proceed(t, watching) \/ Proceed(t, opened) \/ Proceed(t, read) \/ Proceed(t, c)
              \/ Fail(t, "error")
          BY <4>4 DEF OpenPidfd, Open, ReadParameter
        <5> HIDE DEF watching, opened, read
        <5> QED
          BY <4>1, <5>1, <5>2
      <4>5. ~(ListRuntimes(t) \/ ListEndpoints(t) \/ Recheck(t) \/ RefreshFails(t))
        <5>1. Head(c.plan) \notin {"list", "endpoints", "recheck"}
          BY <4>2, BegunPlans, ValidatedPlans, AttachingPlans, ConfirmedPlans DEF Aimed
        <5> QED
          BY <5>1 DEF ListRuntimes, ListEndpoints, Recheck, RefreshFails, At
      <4> QED
        BY <1>6, <4>3, <4>4, <4>5 DEF CallStep
    <3> QED
      BY <1>1, <3>3, FailFields
  <2>3. c.plan \notin EchoPlans => calls'[t].plan \notin EchoPlans
    BY <1>1, <1>3, <1>4, OtherPlansNext, BeginningPlans
  <2> QED
    BY <1>3, <1>4, <2>1, <2>2, <2>3, EchoPlansNext
<1> QED
  BY <1>5, <1>6

LEMMA BackendKeepsEcho ==
  ASSUME Inv, EchoInv, NEW t \in Threads, BackendStep(t)
  PROVE  /\ EchoInv' /\ UNCHANGED <<echoing, echoed, todo>> /\ Running(t)
         /\ \A u \in Threads \ {t} : calls'[u] = calls[u]
         /\ t = "worker" => prepared' = prepared
<1>1. /\ CallStep(t) /\ UNCHANGED <<echoing, startEnabled, busy, echoed, todo>>
  BY DEF BackendStep, windowVars, panelVars, echoVars, serviceVars
<1>2. calls[t].plan # <<>> /\ \A u \in Threads \ {t} : calls'[u] = calls[u]
  BY <1>1, StepFrame DEF Inv
<1>3. /\ calls'[t].plan \in EchoPlans => calls[t].plan \in EchoPlans
      /\ calls[t].plan \in EchoPlans => calls'[t].plan \in EchoPlans \cup {<<>>}
      /\ \/ prepared' = prepared
         \/ calls[t].plan \in EchoPlans /\ prepared' # None
         \/ calls[t].plan \in Refreshing /\ prepared' = None
      /\ /\ calls[t].plan \in EchoPlans /\ calls'[t].plan = <<>> /\ calls'[t].result = "ok"
         => prepared' # None
  BY <1>1, CallStepEcho
<1>4. Trial' <=> Trial
  BY <1>1 DEF Trial
<1>5. CASE t = "worker"
  <2>1. calls["worker"].plan \notin EchoPlans /\ calls["worker"].plan \notin Refreshing
    BY DEF EchoInv, Inv, RowsInv
  <2>2. prepared' = prepared /\ calls'["gui"] = calls["gui"] /\ calls'["worker"].plan \notin EchoPlans
    BY <1>2, <1>3, <1>5, <2>1 DEF Threads
  <2> QED
    BY <1>1, <1>2, <1>4, <1>5, <2>2 DEF EchoInv, Running, Trial
<1>6. CASE t = "gui"
  <2>1. calls'["worker"] = calls["worker"] /\ todo # <<>>
    BY <1>2, <1>6 DEF Inv, RowsInv, Running, Threads
  <2>2. calls["gui"].plan \in Refreshing => todo = <<"listed">>
    BY DEF Inv, RowsInv
  <2>3. ~busy
    BY <2>1 DEF EchoInv
  <2>4. CASE Trial
    <3>1. calls["gui"].plan \in EchoPlans
      BY <1>2, <1>6, <2>4 DEF EchoInv
    <3> QED
      BY <1>1, <1>2, <1>3, <1>4, <1>6, <2>1, <2>3, <2>4, <3>1 DEF EchoInv, Running, Trial, Result
  <2>5. CASE ~Trial
    <3>1. calls["gui"].plan \notin EchoPlans
      BY <2>5 DEF EchoInv
    <3>2. echoing' <=> prepared' # None
      BY <1>1, <1>3, <1>6, <2>2, <2>5, <3>1 DEF EchoInv
    <3> QED
      BY <1>1, <1>2, <1>3, <1>4, <1>6, <2>1, <2>3, <2>5, <3>1, <3>2 DEF EchoInv, Running, Trial
  <2> QED
    BY <2>4, <2>5
<1> QED
  BY <1>5, <1>6 DEF Threads

LEMMA UnchangedKeepsEcho ==
  ASSUME EchoInv, UNCHANGED <<prepared, calls, windowVars>>
  PROVE  EchoInv'
  BY DEF EchoInv, Running, Trial, Result, windowVars, panelVars, echoVars, serviceVars

LEMMA InitEcho == Init => EchoInv
<1> SUFFICES ASSUME Init PROVE EchoInv
  OBVIOUS
<1>1. NoCall.plan = <<>> /\ <<>> \notin EchoPlans
  BY BeginningPlans DEF NoCall
<1> QED
  BY <1>1 DEF Init, BackendInit, EchoInv, Running, Trial, Threads

-----------------------------------------------------------------------------
(* The contract. *)
Users == {t \in Threads : Running(t) \/ (t = "gui" /\ todo # <<>>)}

LEMMA UsersAre ==
  ASSUME Inv, EchoInv
  PROVE  /\ todo # <<>> => Users = {"gui"}
         /\ todo = <<>> => Users = IF Running("worker") THEN {"worker"} ELSE {}
         /\ todo = <<>> => echoing = (Session # None)
<1>1. prepared # None => prepared.identity # None
  BY NoneApart DEF Inv, BackendInv
<1> QED
  BY <1>1 DEF EchoInv, Inv, RowsInv, Users, Threads, Session, Trial

LEMMA UsersWillBe ==
  ASSUME Inv', EchoInv'
  PROVE  /\ todo' # <<>> => Users' = {"gui"}
         /\ todo' = <<>> => Users' = IF Running("worker")' THEN {"worker"} ELSE {}
         /\ todo' = <<>> => echoing' = (Session' # None)
<1>1. prepared' # None => prepared'.identity # None
  BY NoneApart DEF Inv, BackendInv
<1> QED
  BY <1>1 DEF EchoInv, Inv, RowsInv, Users, Threads, Session, Trial

(* One thread in an operation, or leaving it.                              *)
LEMMA OperatesOrLeaves ==
  ASSUME NEW t \in Threads, Users = {t}, Users' \in {{t}, {}},
         echoed' \in {echoed, Session, None}, Users' = {} => echoing' = (Session' # None)
  PROVE  Contract!Next
<1>1. CASE Users' = {t}
  BY <1>1 DEF Users, Session, Contract!Next, Contract!Operate, Contract!Sampled
<1>2. CASE Users' = {}
  BY <1>2 DEF Users, Session, Contract!Next, Contract!Leave, Contract!Sampled
<1> QED
  BY <1>1, <1>2

(* The window entering one, or an event without.                           *)
LEMMA EntersOrIdles ==
  ASSUME Users = {}, Users' \in {{"gui"}, {}}, echoed' \in {echoed, Session, None},
         UNCHANGED <<prepared, echoing>> \/ (prepared' = None /\ ~echoing' /\ echoing' \in BOOLEAN)
  PROVE  Contract!Next
<1>1. Contract!Poll
  BY DEF Session, Contract!Poll, Contract!Sampled, Contract!Ended
<1>2. CASE Users' = {"gui"}
  BY <1>1, <1>2 DEF Users, Threads, Contract!Next, Contract!Enter
<1>3. CASE Users' = {}
  BY <1>1, <1>3 DEF Users, Contract!Next, Contract!Idle
<1> QED
  BY <1>2, <1>3

(* A handler begins or goes on, or the user and the timer do.              *)
WindowStep == Continue \/ UserStep \/ PollEcho \/ Finished

LEMMA WindowKeepsEcho == Inv /\ EchoInv /\ WindowStep => EchoInv'
<1>1. ASSUME Inv, EchoInv, NEW n \in Names, OpenElementEndpoint(n) \/ OpenTopic(records[n])
      PROVE  EchoInv'
  BY <1>1, UserKeepsEcho DEF OpenElementEndpoint, OpenTopic
<1>2. ASSUME Inv, EchoInv, Continue PROVE EchoInv'
  BY <1>2, PageHandlersKeepEcho, EchoHandlersKeepEcho, ServiceCallKeepsEcho DEF Continue
<1>3. ASSUME Inv, EchoInv, UserStep PROVE EchoInv'
  BY <1>1, <1>3, UserKeepsEcho, EchoEventsKeepEcho DEF UserStep
<1> QED
  BY <1>2, <1>3, EchoEventsKeepEcho, ServiceCallKeepsEcho DEF WindowStep

LEMMA WindowRefines ==
  ASSUME Inv, EchoInv, Inv', EchoInv', WindowStep
  PROVE  Contract!Next
<1>1. ASSUME todo # <<>>, ~Running("worker"), calls'["worker"] = calls["worker"],
             echoed' \in {echoed, Session, None}
      PROVE  Contract!Next
  <2>1. Users = {"gui"} /\ Users' \in {{"gui"}, {}} /\ (Users' = {} => todo' = <<>>)
    BY <1>1, UsersAre, UsersWillBe DEF Running
  <2>2. Users' = {} => echoing' = (Session' # None)
    BY <2>1, UsersWillBe
  <2> QED
    BY <1>1, <2>1, <2>2, OperatesOrLeaves DEF Threads
<1>2. ASSUME todo = <<>>, ~Running("worker"), calls'["worker"] = calls["worker"],
             echoed' \in {echoed, Session, None},
             UNCHANGED <<prepared, echoing>> \/ (prepared' = None /\ ~echoing')
      PROVE  Contract!Next
  <2>1. Users = {} /\ Users' \in {{"gui"}, {}}
    BY <1>2, UsersAre, UsersWillBe DEF Running
  <2>2. echoing' \in BOOLEAN
    BY DEF EchoInv
  <2> QED
    BY <1>2, <2>1, <2>2, EntersOrIdles
<1>3. CASE \/ ShowParameter \/ ReadDone \/ Checked \/ Fresh \/ Written \/ ReadBack
           \/ ShowService \/ ShowTemplate
  BY <1>1, <1>3, PageHandlersKeepEcho
<1>4. CASE Listed \/ ShowTopic \/ Tried \/ Opened \/ FirstPoll
  BY <1>1, <1>4, EchoHandlersKeepEcho
<1>5. CASE \/ RefreshParameterValue \/ ApplyParameter \/ CallService \/ RevertParameter
           \/ \E f \in Fields, v \in Values : Edit(f, v)
           \/ \E n \in Names : SelectTopic(n) \/ SelectParameter(n) \/ SelectService(n)
  BY <1>2, <1>5, UserKeepsEcho
<1>6. CASE Refresh \/ StartEcho \/ StopEchoClicked \/ Close \/ PollEcho
  BY <1>2, <1>6, EchoEventsKeepEcho
<1>7. CASE StartCall
  <2>1. /\ UNCHANGED echoed /\ todo' = <<>> /\ todo # <<>> /\ ~Running("worker")
        /\ \/ prepared' = None /\ ~echoing'
           \/ UNCHANGED <<prepared, echoing>> /\ calls'["worker"] = calls["worker"]
    BY <1>7, ServiceCallKeepsEcho
  <2>2. CASE calls'["worker"] = calls["worker"]
    BY <1>1, <2>1, <2>2
  <2>3. CASE prepared' = None /\ ~echoing'
    <3>1. /\ Users = {"gui"} /\ Users' \in {{"worker"}, {}}
          /\ echoing' = (Session' # None) /\ echoing' = FALSE
      BY <2>1, <2>3, UsersAre, UsersWillBe DEF EchoInv
    <3>2. CASE Users' = {"worker"}
      BY <2>1, <2>3, <3>1, <3>2 DEF Users, Threads, Contract!Next, Contract!HandOver, Contract!Ended
    <3>3. CASE Users' = {}
      BY <2>1, <3>1, <3>3, OperatesOrLeaves DEF Threads
    <3> QED
      BY <3>1, <3>2, <3>3
  <2> QED
    BY <2>1, <2>2, <2>3
<1>8. CASE Finished
  <2>1. /\ UNCHANGED <<echoed, prepared, echoing>> /\ todo = <<>> /\ todo' = <<>>
        /\ ~Running("worker") /\ ~Running("worker")'
    BY <1>8, ServiceCallKeepsEcho
  <2>2. Users = {} /\ Users' = {}
    BY <2>1, UsersAre, UsersWillBe
  <2> QED
    BY <2>1, <2>2, EntersOrIdles
<1>9. ASSUME NEW n \in Names, OpenElementEndpoint(n) \/ OpenTopic(records[n])
      PROVE  \E m \in Names : SelectTopic(m) \/ SelectParameter(m) \/ SelectService(m)
  BY <1>9 DEF OpenElementEndpoint, OpenTopic
<1> QED
  BY <1>3, <1>4, <1>5, <1>6, <1>7, <1>8, <1>9 DEF WindowStep, Continue, UserStep

LEMMA BackendRefines ==
  ASSUME Inv, EchoInv, Inv', EchoInv', NEW t \in Threads, BackendStep(t)
  PROVE  Contract!Next
<1>1. /\ UNCHANGED <<echoing, echoed, todo>> /\ Running(t)
      /\ \A u \in Threads \ {t} : calls'[u] = calls[u]
  BY BackendKeepsEcho
<1>2. CASE t = "gui"
  <2>1. todo # <<>>
    BY <1>1, <1>2 DEF Inv, RowsInv
  <2>2. Users = {"gui"} /\ Users' = {"gui"}
    BY <1>1, <2>1, UsersAre, UsersWillBe
  <2> QED
    BY <1>1, <1>2, <2>2, OperatesOrLeaves
<1>3. CASE t = "worker"
  <2>1. todo = <<>>
    BY <1>1, <1>3 DEF EchoInv
  <2>2. /\ Users = {"worker"} /\ Users' \in {{"worker"}, {}}
        /\ echoing' = (Session' # None)
    BY <1>1, <1>3, <2>1, UsersAre, UsersWillBe
  <2> QED
    BY <1>1, <1>3, <2>2, OperatesOrLeaves
<1> QED
  BY <1>2, <1>3 DEF Threads

LEMMA StepRefines ==
  ASSUME Inv, EchoInv, Inv', [Next]_vars
  PROVE  EchoInv' /\ [Contract!Next]_(Contract!vars)
<1>1. CASE WindowStep
  BY <1>1, WindowKeepsEcho, WindowRefines
<1>2. CASE \E t \in Threads : BackendStep(t)
  BY <1>2, BackendKeepsEcho, BackendRefines
<1>3. CASE UNCHANGED <<prepared, calls, windowVars>>
  <2>1. EchoInv'
    BY <1>3, UnchangedKeepsEcho
  <2>2. UNCHANGED Contract!vars
    BY <1>3 DEF Contract!vars, Running, windowVars, panelVars, echoVars
  <2> QED
    BY <2>1, <2>2
<1>4. (WorldStep /\ UNCHANGED windowVars) \/ UNCHANGED vars => UNCHANGED <<prepared, calls, windowVars>>
  BY WorldForward DEF Inv, BackendInv, vars, backendVars, implVars
<1> QED
  BY <1>1, <1>2, <1>3, <1>4 DEF Next, WindowStep

(***************************************************************************)
(* EchoContract for any number of endpoints and changes: one thread at a   *)
(* time uses the backend, a service call finds no session, none is left    *)
(* that the window does not poll, and samples are of the session's         *)
(* endpoint.                                                               *)
(***************************************************************************)
THEOREM KeepsContract == Spec => EchoContract
<1>1. Init => Contract!Init
  <2> SUFFICES ASSUME Init PROVE Contract!Init
    OBVIOUS
  <2>1. NoCall.plan = <<>>
    BY DEF NoCall
  <2> QED
    BY <2>1 DEF Init, BackendInit, Contract!Init, Running, Threads
<1>2. Init => Inv /\ EchoInv
  BY InitInv, InitEcho
<1>3. Inv /\ EchoInv /\ [Next]_vars => (Inv /\ EchoInv)' /\ [Contract!Next]_(Contract!vars)
  BY NextInv, StepRefines
<1> QED
  BY <1>1, <1>2, <1>3, PTL DEF Spec, EchoContract, Contract!Spec

=============================================================================
