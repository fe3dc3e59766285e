------------------------ MODULE RemoteWorkspaceProofs ------------------------
(***************************************************************************)
(* Proofs about RemoteWorkspace for any pages, endpoints and hosts, and    *)
(* however often discovery changes and the user clicks.                    *)
(***************************************************************************)
EXTENDS RemoteWorkspace, SequenceTheorems, FiniteSetTheorems, TLAPS

Ops == {"Poll", "Unsubscribe", "Subscribe", "Get", "Prepare", "Set", "Call", "Cancel", "Goal"}
Senders == Waiters \cup {"cleanup"}
Networks == {"up", "stopping", "off", "starting"}

Commands == [from : Senders, op : Ops, endpoint : EndpointOrNone, handle : Nat]
Reports  == [topic : BOOLEAN, handle : Nat, endpoint : Endpoints, terminal : BOOLEAN,
             lost : BOOLEAN]
Replies  == [ready : BOOLEAN, error : BOOLEAN, handle : Nat, readback : BOOLEAN,
             activities : SUBSET Reports]
Entries  == [handle : Nat, endpoint : Endpoints]
Requests == [page : Pages, op : Ops \ {"Poll"}, endpoint : EndpointOrNone, same : BOOLEAN,
             unrevised : BOOLEAN]
Panels   == [selected : EndpointOrNone, subscription : Nat, dirty : BOOLEAN,
             shown : EndpointOrNone, output : Nat]
Goals    == [handle : Nat, endpoint : Endpoints, terminal : BOOLEAN, lost : BOOLEAN,
             unknown : BOOLEAN]

(* The dialogs that can be open, and what stays true while they are.       *)
Questions ==
  [what : {"select"}, page : Pages, row : Nat, endpoint : Endpoints]
  \cup [what : {"request"}, page : Pages, op : {"Get", "Prepare"}]
  \cup [what : {"host"}]
  \cup [what : {"configure"}, start : BOOLEAN]
  \cup [what : {"close"}]

RuntimeTypes ==
  /\ live \subseteq Endpoints
  /\ churn \in Nat
  /\ inbox \in Seq(Commands)
  /\ futures \in [Waiters -> Replies]
  /\ subscriptions \subseteq Entries /\ actions \subseteq Entries
  /\ finished \subseteq Nat /\ acked \subseteq Nat
  /\ nextHandle \in Nat

GuiTypes ==
  /\ net \in Networks /\ status \in Networks
  /\ floor \in Nat
  /\ configuration \in [state : {"none", "requested", "stopping", "done"},
                        shutdown : BOOLEAN, start : BOOLEAN]
  /\ seen \subseteq Endpoints
  /\ gui \in [at : {"idle", "replies", "poll"}, next : Nat, due : BOOLEAN]
  /\ buttons \in [Pages -> SUBSET {"first", "second"}]
  /\ choices \in [Pages -> SUBSET Endpoints]
  /\ host \in Hosts \cup {Local} /\ combo \in Hosts \cup {Local}
  /\ polling \in [valid : BOOLEAN, same : BOOLEAN]
  /\ chosen \in Nat
  /\ asking # NoQuestion => asking \in Questions
  /\ closing \in {"no", "closing", "closed"}

FormTypes ==
  /\ panels \in [Pages -> Panels]
  /\ pending \in Seq(Requests)
  /\ activities \subseteq Goals

Types == RuntimeTypes /\ GuiTypes /\ FormTypes

(* A page that waits for an answer is busy, and a dialog keeps it as the   *)
(* guards before it found it.                                              *)
AskingInv ==
  /\ asking # NoQuestion /\ asking.what = "request" => ~Busy(asking.page)
  /\ asking # NoQuestion /\ asking.what = "configure" => ~Configuring
  /\ closing = "closing" => Configuring

(* Each waiter has at most one command, which is queued or answered.       *)
OnePerPage == \A k, l \in DOMAIN pending : pending[k].page = pending[l].page => k = l

OnePerWaiter ==
  \A k, l \in DOMAIN inbox :
    inbox[k].from = inbox[l].from /\ inbox[k].from \in Waiters => k = l

(* Every queued command is a cleanup, the poll, or what a page waits for.  *)
Purposes ==
  \A k \in DOMAIN inbox :
    /\ inbox[k].from = "cleanup" => inbox[k].op = "Unsubscribe"
    /\ inbox[k].from = "poll" => polling.valid /\ inbox[k].op = "Poll"
    /\ inbox[k].from \in Pages =>
         \E l \in DOMAIN pending : /\ pending[l].page = inbox[k].from
                                   /\ pending[l].op = inbox[k].op
                                   /\ pending[l].endpoint = inbox[k].endpoint

QueuedOrAnswered ==
  \A k \in DOMAIN inbox : inbox[k].from \in Waiters => futures[inbox[k].from] = Unready

AnswersExpected ==
  /\ futures["poll"] # Unready => polling.valid
  /\ \A i \in Pages : futures[i] # Unready => Busy(i)

OneCommandEach ==
  OnePerPage /\ OnePerWaiter /\ Purposes /\ QueuedOrAnswered /\ AnswersExpected

(* Every handle that is kept anywhere was given out.                       *)
GivenOut ==
  /\ nextHandle > 0 /\ floor > 0
  /\ floor <= nextHandle
  /\ \A h \in Handles(subscriptions) \cup Handles(actions) \cup finished \cup acked :
       0 < h /\ h < nextHandle
  /\ \A w \in Waiters :
       /\ futures[w].handle < nextHandle
       /\ \A v \in futures[w].activities : 0 < v.handle /\ v.handle < nextHandle
  /\ \A k \in DOMAIN inbox : inbox[k].handle < nextHandle
  /\ \A i \in Pages : panels[i].subscription < nextHandle /\ panels[i].output < nextHandle
  /\ \A a \in activities : 0 < a.handle /\ a.handle < nextHandle
  /\ chosen < nextHandle

(* A handle comes with the reply to a Subscribe or a Goal on an endpoint.  *)
HandleOfRequest ==
  /\ futures["poll"].handle = 0
  /\ \A k \in DOMAIN pending :
       futures[pending[k].page].handle # 0 =>
         /\ pending[k].op \in {"Subscribe", "Goal"}
         /\ pending[k].endpoint \in Endpoints

HandlesInv == GivenOut /\ HandleOfRequest

TypeInv == Types /\ AskingInv /\ OneCommandEach /\ HandlesInv

-----------------------------------------------------------------------------
(* A value on its way to a form that has not been cleared meanwhile comes  *)
(* from the endpoint selected there.                                       *)
ValueOnItsWay ==
  \A k \in DOMAIN pending :
    LET q == pending[k] IN
    q.same /\ q.unrevised /\ q.op \in {"Get", "Prepare", "Set"} =>
      panels[q.page].selected = q.endpoint

ShownInv == ShownBelongsToSelection /\ ValueOnItsWay

(* While a Subscribe is out its panel holds no subscription.               *)
SubscribesOnce ==
  \A k \in DOMAIN pending :
    pending[k].op = "Subscribe" => panels[pending[k].page].subscription = 0

HeldInv == ValueOfHeldSubscription /\ SubscribesOnce

(* What a poll reports as ended has ended.                                 *)
ReportedEnds ==
  \A w \in Waiters : \A v \in futures[w].activities : v.terminal => v.handle \in finished

EndedInv == NoFalseCompletion /\ ReportedEnds

(* What is on its way since the settings were changed is about handles     *)
(* given out since.                                                        *)
GoalsOnTheirWay ==
  \A k \in DOMAIN pending :
    pending[k].same /\ futures[pending[k].page].handle # 0 =>
      futures[pending[k].page].handle >= floor

PollOnItsWay ==
  polling.same =>
    /\ configuration.state = "none"
    /\ \A v \in futures["poll"].activities : ~v.topic => v.handle >= floor

ActionsSince ==
  configuration.state \in {"none", "done"} => \A h \in Handles(actions) : h >= floor

DetachedInv == UnknownAfterDetach /\ GoalsOnTheirWay /\ PollOnItsWay /\ ActionsSince

-----------------------------------------------------------------------------
Settled == net = "up" /\ configuration.state \in {"none", "done"}

(* Only the topic page subscribes.                                         *)
TopicOnly ==
  /\ \A i \in Pages : panels[i].subscription # 0 => i = "topic"
  /\ \A k \in DOMAIN pending :
       pending[k].op \in {"Subscribe", "Unsubscribe"} => pending[k].page = "topic"

(* The network is replaced only while a configuration is under way, and    *)
(* the new one starts with nothing.                                        *)
NetworkInv ==
  /\ configuration.state = "stopping" => net \in {"stopping", "off"}
  /\ net = "stopping" => configuration.state = "stopping"
  /\ net \in {"starting", "off"} => inbox = <<>> /\ subscriptions = {}

(* A cleanup that is queued concerns a subscription given up; a new one    *)
(* comes after it.                                                         *)
CleanupInv ==
  \A k \in DOMAIN inbox : inbox[k].from = "cleanup" =>
    /\ \A i \in Pages : panels[i].subscription = 0
    /\ \A l \in DOMAIN pending : pending[l].op = "Subscribe" => futures[pending[l].page].handle = 0
    /\ \A l \in DOMAIN inbox : inbox[l].op = "Subscribe" => k < l
    /\ \A l \in DOMAIN inbox : inbox[l].from = "cleanup" => k = l

(* A handle that waits in a future for a subscription is that of a         *)
(* Subscribe, which then succeeded on an endpoint that was current.        *)
RepliesInv ==
  \A k \in DOMAIN pending :
    LET q == pending[k]
        r == futures[q.page]
    IN /\ r.handle \in Handles(subscriptions) => q.op = "Subscribe"
       /\ r.handle # 0 /\ q.op = "Subscribe" => ~r.error
       /\ r.handle # 0 /\ churn = 0 => q.endpoint \in live

(* An Unsubscribe that the panel waits for concerns what the panel holds.  *)
UnsubscribeInv ==
  \A k \in DOMAIN pending :
    LET q == pending[k]
        r == futures[q.page]
    IN q.op = "Unsubscribe" /\ q.same /\ q.unrevised =>
         /\ \A l \in DOMAIN inbox :
              inbox[l].from = q.page => inbox[l].handle = panels[q.page].subscription
         /\ r # Unready /\ ~r.error =>
              panels[q.page].subscription \notin Handles(subscriptions)

(* A request from before a reconfiguration has nothing to do with the      *)
(* subscriptions of the network after it.                                  *)
DetachedRequests ==
  configuration.state \in {"none", "done"} =>
    \A k \in DOMAIN pending : ~pending[k].same =>
      /\ \A l \in DOMAIN inbox : inbox[l].from # pending[k].page
      /\ futures[pending[k].page].handle \notin Handles(subscriptions)

(* While discovery does not change, a tick that reads replies of the       *)
(* current observer sees what was current when they were given.            *)
SeenInv ==
  churn = 0 /\ Settled /\ gui.at = "replies" =>
    \/ seen = live
    \/ subscriptions = {} /\ \A k \in DOMAIN inbox : inbox[k].op # "Subscribe"

OrphanInv ==
  /\ NoOrphanSubscription
  /\ TopicOnly /\ NetworkInv /\ CleanupInv /\ RepliesInv /\ UnsubscribeInv
  /\ DetachedRequests /\ SeenInv

WorkspaceInv ==
  TypeInv /\ ShownInv /\ HeldInv /\ EndedInv /\ DetachedInv /\ OrphanInv

-----------------------------------------------------------------------------
(* What the operators make of the sequences.                               *)

LEMMA AppendedTo ==
  ASSUME NEW S, NEW s \in Seq(S), NEW e \in S
  PROVE  /\ Append(s, e) \in Seq(S)
         /\ Len(s) \in Nat /\ Len(Append(s, e)) = Len(s) + 1
         /\ DOMAIN s = 1..Len(s)
         /\ DOMAIN Append(s, e) = 1..(Len(s) + 1)
         /\ \A k \in DOMAIN s : k \in DOMAIN Append(s, e) /\ Append(s, e)[k] = s[k]
         /\ Append(s, e)[Len(s) + 1] = e
BY AppendProperties, LenProperties

LEMMA TailOf ==
  ASSUME NEW S, NEW s \in Seq(S), s # <<>>
  PROVE  /\ Tail(s) \in Seq(S)
         /\ Head(s) \in S /\ Head(s) = s[1] /\ 1 \in DOMAIN s
         /\ \A k \in DOMAIN Tail(s) : /\ k + 1 \in DOMAIN s /\ Tail(s)[k] = s[k + 1]
                                      /\ k \in Nat /\ k + 1 # 1
         /\ \A k \in DOMAIN s : k = 1 \/ \E m \in DOMAIN Tail(s) : Tail(s)[m] = s[k]
<1>1. Len(s) \in Nat \ {0} /\ DOMAIN s = 1..Len(s)
  BY EmptySeq, LenProperties
<1>2. Tail(s) \in Seq(S) /\ Len(Tail(s)) = Len(s) - 1
  BY HeadTailProperties
<1>3. DOMAIN Tail(s) = 1..(Len(s) - 1)
  BY <1>2, LenProperties
<1>4. \A k \in 1..(Len(s) - 1) : Tail(s)[k] = s[k + 1]
  BY <1>2, HeadTailProperties
<1>5. Head(s) = s[1] /\ Head(s) \in S
  BY HeadTailProperties
<1>6. ASSUME NEW k \in DOMAIN s, k # 1 PROVE \E m \in DOMAIN Tail(s) : Tail(s)[m] = s[k]
  <2>1. k - 1 \in DOMAIN Tail(s) /\ (k - 1) + 1 = k
    BY <1>1, <1>3, <1>6
  <2> QED BY <1>3, <1>4, <2>1
<1> QED
  BY <1>1, <1>2, <1>3, <1>4, <1>5, <1>6

(* Forget(k) keeps the other requests, and keeps them apart.               *)
LEMMA Forgotten ==
  ASSUME pending \in Seq(Requests), NEW k \in DOMAIN pending
  PROVE  /\ Forget(k) \in Seq(Requests)
         /\ DOMAIN Forget(k) = 1..(Len(pending) - 1)
         /\ \A j \in DOMAIN Forget(k) :
              LET l == IF j < k THEN j ELSE j + 1
              IN l \in DOMAIN pending /\ l # k /\ Forget(k)[j] = pending[l] /\ j \in Nat
         /\ k \in Nat
<1> DEFINE n == Len(pending)
           s == SubSeq(pending, 1, k - 1)
           t == SubSeq(pending, k + 1, n)
<1>1. n \in Nat /\ DOMAIN pending = 1..n /\ k \in 1..n /\ \A j \in 1..n : pending[j] \in Requests
  BY LenProperties, ElementOfSeq
<1>2. /\ s \in Seq(Requests) /\ Len(s) = k - 1
      /\ \A j \in 1..(k - 1) : s[j] = pending[j]
  <2>1. \A j \in 1..(k - 1) : pending[j] \in Requests
    BY <1>1
  <2>2. /\ SubSeq(pending, 1, k - 1) \in Seq(Requests)
        /\ Len(SubSeq(pending, 1, k - 1)) = IF 1 <= k - 1 THEN (k - 1) - 1 + 1 ELSE 0
        /\ \A j \in 1..((k - 1) - 1 + 1) : SubSeq(pending, 1, k - 1)[j] = pending[1 + j - 1]
    BY <1>1, <2>1, SubSeqProperties
  <2> QED BY <1>1, <2>2
<1>3. /\ t \in Seq(Requests) /\ Len(t) = n - k
      /\ \A j \in 1..(n - k) : t[j] = pending[k + j]
  <2>1. \A j \in (k + 1)..n : pending[j] \in Requests
    BY <1>1
  <2>2. /\ SubSeq(pending, k + 1, n) \in Seq(Requests)
        /\ Len(SubSeq(pending, k + 1, n)) = IF k + 1 <= n THEN n - (k + 1) + 1 ELSE 0
        /\ \A j \in 1..(n - (k + 1) + 1) : SubSeq(pending, k + 1, n)[j] = pending[(k + 1) + j - 1]
    BY <1>1, <2>1, SubSeqProperties
  <2>3. n - (k + 1) + 1 = n - k /\ \A j \in 1..(n - k) : (k + 1) + j - 1 = k + j
    BY <1>1
  <2>4. k + 1 <= n \/ n - k = 0
    BY <1>1
  <2> HIDE DEF n
  <2> QED BY <2>2, <2>3, <2>4
<1> HIDE DEF s, t
<1>4. /\ s \o t \in Seq(Requests) /\ Len(s \o t) = n - 1
      /\ \A j \in 1..(n - 1) : (s \o t)[j] = IF j <= k - 1 THEN s[j] ELSE t[j - (k - 1)]
  <2>1. /\ s \o t \in Seq(Requests) /\ Len(s \o t) = Len(s) + Len(t)
        /\ \A j \in 1..(Len(s) + Len(t)) : (s \o t)[j] = IF j <= Len(s) THEN s[j] ELSE t[j - Len(s)]
    BY <1>2, <1>3, ConcatProperties
  <2>2. Len(s) + Len(t) = n - 1
    BY <1>1, <1>2, <1>3
  <2> QED BY <2>1, <2>2, <1>2
<1>5. DOMAIN (s \o t) = 1..(n - 1)
  BY <1>4, LenProperties
<1>6. Forget(k) = s \o t
  BY DEF Forget, s, t
<1>7. ASSUME NEW j \in 1..(n - 1)
      PROVE  (s \o t)[j] = pending[IF j < k THEN j ELSE j + 1]
  <2>1. CASE j < k
    BY <1>1, <1>2, <1>4, <2>1
  <2>2. CASE ~(j < k)
    <3>1. j - (k - 1) \in 1..(n - k) /\ k + (j - (k - 1)) = j + 1
      BY <1>1, <2>2
    <3>2. (s \o t)[j] = t[j - (k - 1)]
      BY <1>1, <1>4, <2>2
    <3> QED BY <3>1, <3>2, <1>3, <2>2
  <2> QED BY <2>1, <2>2
<1>8. ASSUME NEW j \in 1..(n - 1)
      PROVE  LET l == IF j < k THEN j ELSE j + 1 IN l \in 1..n /\ l # k /\ j \in Nat
  BY <1>1
<1>9. DOMAIN (s \o t) = 1..(Len(pending) - 1)
  BY <1>5
<1> HIDE DEF n
<1>10. ASSUME NEW j \in DOMAIN (s \o t)
      PROVE  LET l == IF j < k THEN j ELSE j + 1
             IN l \in DOMAIN pending /\ l # k /\ (s \o t)[j] = pending[l] /\ j \in Nat
  BY <1>1, <1>5, <1>7, <1>8
<1>11. k \in Nat
  BY <1>1
<1> QED
  BY <1>4, <1>6, <1>9, <1>10, <1>11

(* ++p.revision leaves a request as it is, or marks it.                    *)
LEMMA RevisedRequests ==
  ASSUME pending \in Seq(Requests), NEW P
  PROVE  /\ Revised(pending, P) \in Seq(Requests)
         /\ DOMAIN Revised(pending, P) = DOMAIN pending
         /\ \A k \in DOMAIN pending :
              Revised(pending, P)[k] =
                [pending[k] EXCEPT !.unrevised = pending[k].unrevised /\ pending[k].page \notin P]
<1>1. /\ Len(pending) \in Nat /\ DOMAIN pending = 1..Len(pending)
      /\ \A k \in DOMAIN pending : pending[k] \in Requests
  BY LenProperties, ElementOfSeq
<1>2. Revised(pending, P) \in [1..Len(pending) -> Requests]
  BY <1>1 DEF Revised, Requests
<1>3. Revised(pending, P) \in Seq(Requests)
  BY <1>1, <1>2, SeqDef
<1> QED
  BY <1>1, <1>3 DEF Revised

(* What ++p.revision of the panels in P makes of request q.                *)
Marked(new, q, P) ==
  /\ new.page = q.page /\ new.op = q.op /\ new.endpoint = q.endpoint
  /\ new.same = q.same
  /\ new.unrevised <=> q.unrevised /\ q.page \notin P

LEMMA RevisedMarked ==
  ASSUME pending \in Seq(Requests), NEW P
  PROVE  /\ DOMAIN Revised(pending, P) = DOMAIN pending
         /\ \A k \in DOMAIN pending : Marked(Revised(pending, P)[k], pending[k], P)
<1>1. \A q \in Requests : \A b \in BOOLEAN :
        /\ [q EXCEPT !.unrevised = b].page = q.page /\ [q EXCEPT !.unrevised = b].op = q.op
        /\ [q EXCEPT !.unrevised = b].endpoint = q.endpoint
        /\ [q EXCEPT !.unrevised = b].same = q.same
        /\ [q EXCEPT !.unrevised = b].unrevised = b
  BY DEF Requests
<1>2. \A q \in Requests :
        Marked([q EXCEPT !.unrevised = q.unrevised /\ q.page \notin P], q, P)
  BY <1>1, Zenon DEF Marked
<1>3. \A k \in DOMAIN pending : pending[k] \in Requests
  BY ElementOfSeq, LenProperties
<1>4. /\ DOMAIN Revised(pending, P) = DOMAIN pending
      /\ \A k \in DOMAIN pending :
           Revised(pending, P)[k] =
             [pending[k] EXCEPT !.unrevised = pending[k].unrevised /\ pending[k].page \notin P]
  BY RevisedRequests
<1> QED
  BY <1>2, <1>3, <1>4, Zenon

-----------------------------------------------------------------------------
(* The steps of the workspace, as far as requests, panels and activities   *)
(* feel them: a dialog that opens, or is answered with no, is quiet.       *)

Quiet ==
  /\ UNCHANGED <<runtimeVars, netVars, snapVars, panels, pending, polling, activities, chosen>>
  /\ \/ UNCHANGED configuration
     \/ configuration.state = "done" /\ configuration' = Idle
  /\ \/ UNCHANGED gui
     \/ gui.at = "replies" /\ gui' = [gui EXCEPT !.at = "poll"]

Restart ==
  /\ configuration.state \in {"none", "done"}
  /\ \E shutdown, start \in BOOLEAN : StartConfiguration(shutdown, start)
  /\ UNCHANGED <<runtimeVars, net, snapVars, gui, chosen>>

Asked(i, op) ==
  /\ gui.at = "idle" /\ ~Busy(i)
  /\ op \in Ops \ {"Poll", "Cancel"}
  /\ op \in {"Subscribe", "Unsubscribe"} => i = "topic"
  /\ op = "Subscribe" => panels[i].subscription = 0
  /\ SendRequest(i, op)

Shown(h) ==
  /\ h \in {a.handle : a \in activities}
  /\ UNCHANGED <<runtimeVars, netVars, configuration, snapVars, gui, panels, pending, polling>>
  /\ ShowActivity(activities, h)

StepOf ==
  \/ (Execute /\ UNCHANGED workspaceVars)
  \/ (DiscoveryChanges /\ UNCHANGED workspaceVars)
  \/ (ActionFinishes /\ UNCHANGED workspaceVars)
  \/ TakeNetwork \/ ReplaceNetwork \/ ObserverUp
  \/ (gui.at = "idle" /\ ReadSnapshot)
  \/ VisitReply \/ TickEnds
  \/ Quiet \/ Restart
  \/ \E i \in Pages : Edit(i)
  \/ \E i \in Pages, e \in Endpoints : SelectEndpoint(i, e)
  \/ \E i \in Pages, op \in Ops : Asked(i, op)
  \/ \E a \in activities : "action" \in Pages /\ CancelGoal(a)
  \/ \E h \in Hosts \cup {Local} : ShowHost(h)
  \/ \E h : Shown(h)

LEMMA AskIsQuiet == \A question : Ask(question) => Quiet
BY DEF Ask, Quiet, netVars, snapVars, formVars, listVars

LEMMA CloseSteps ==
  ASSUME Types, Close
  PROVE  Quiet \/ Restart
<1>1. CASE Configuring
  BY <1>1 DEF Close, Quiet, netVars, snapVars
<1>2. CASE ~Configuring
  <2>1. StartConfiguration(TRUE, FALSE) /\ UNCHANGED <<runtimeVars, net, snapVars, gui, chosen>>
    BY <1>2 DEF Close
  <2>2. configuration.state = "none"
    BY <1>2 DEF Configuring
  <2> QED
    BY <2>1, <2>2 DEF Restart
<1> QED
  BY <1>1, <1>2

LEMMA AnswerSteps ==
  ASSUME Types, AskingInv, AnswerDialog
  PROVE  StepOf
<1>1. CASE AnswerNo
  <2>1. Quiet
    BY <1>1 DEF AnswerNo, Quiet, netVars, snapVars, formVars, listVars
  <2> QED BY <2>1 DEF StepOf
<1>2. CASE AnswerYes
  <2>1. asking # NoQuestion /\ asking \in Questions
    BY <1>2 DEF AnswerYes, Types, GuiTypes
  <2>2. CASE asking.what = "select"
    <3>1. asking.page \in Pages
      BY <2>1, <2>2 DEF Questions
    <3>2. choices[asking.page] \subseteq Endpoints
      BY <3>1 DEF Types, GuiTypes
    <3>3. PICK e \in Endpoints : SelectEndpoint(asking.page, e)
      BY <1>2, <2>2, <3>2 DEF AnswerYes, InRow
    <3> QED BY <3>1, <3>3 DEF StepOf
  <2>3. CASE asking.what = "request"
    <3>1. asking.page \in Pages /\ asking.op \in {"Get", "Prepare"}
      BY <2>1, <2>3 DEF Questions
    <3>2. SendRequest(asking.page, asking.op) /\ ~Busy(asking.page) /\ gui.at = "idle"
      BY <1>2, <2>1, <2>3 DEF AnswerYes, AskingInv, AnswerDialog
    <3>3. Asked(asking.page, asking.op) /\ asking.op \in Ops
      BY <3>1, <3>2 DEF Asked, Ops
    <3> QED BY <3>1, <3>3 DEF StepOf
  <2>4. CASE asking.what = "host"
    <3>1. ShowHost(combo) /\ combo \in Hosts \cup {Local}
      BY <1>2, <2>4 DEF AnswerYes, Types, GuiTypes
    <3> QED BY <3>1 DEF StepOf
  <2>5. CASE asking.what = "configure"
    <3>1. configuration.state = "none"
      BY <2>1, <2>5 DEF AskingInv, Configuring
    <3>2. asking.start \in BOOLEAN
      BY <2>1, <2>5 DEF Questions
    <3>3. StartConfiguration(FALSE, asking.start) /\ UNCHANGED <<runtimeVars, net, snapVars, gui, chosen>>
      BY <1>2, <2>5 DEF AnswerYes
    <3>4. Restart
      BY <3>1, <3>2, <3>3 DEF Restart
    <3> QED BY <3>4 DEF StepOf
  <2>6. CASE asking.what = "close"
    <3>1. Close
      BY <1>2, <2>6 DEF AnswerYes
    <3> QED BY <3>1, CloseSteps DEF StepOf
  <2> QED
    BY <2>1, <2>2, <2>3, <2>4, <2>5, <2>6 DEF Questions
<1> QED
  BY <1>1, <1>2 DEF AnswerDialog

LEMMA UserSteps ==
  ASSUME Types, AskingInv, UserStep
  PROVE  StepOf
<1>1. CASE \E i \in Pages : Edit(i)
  BY <1>1 DEF StepOf
<1>2. CASE \E i \in Pages : \E e \in choices[i] : Select(i, e)
  <2>1. PICK i \in Pages : \E e \in choices[i] : Select(i, e)
    BY <1>2
  <2>2. PICK e \in choices[i] : Select(i, e)
    BY <2>1
  <2>3. e \in Endpoints
    BY <2>1, <2>2 DEF Types, GuiTypes
  <2> QED BY <2>1, <2>2, <2>3, AskIsQuiet DEF Select, StepOf
<1>3. CASE \E i \in Pages, button \in {"first", "second"} : Request(i, button)
  <2>1. PICK i \in Pages, button \in {"first", "second"} : Request(i, button)
    BY <1>3
  <2> DEFINE op == Operation(i, button)
  <2>2. /\ op \in Ops \ {"Poll", "Cancel"}
        /\ op \in {"Subscribe", "Unsubscribe"} => i = "topic"
    BY RuntimeAssumption DEF Operation, Ops, PageNames
  <2>3. CASE op \in {"Get", "Prepare"} /\ panels[i].dirty
    BY <2>1, <2>3, AskIsQuiet DEF Request, StepOf
  <2>4. CASE ~(op \in {"Get", "Prepare"} /\ panels[i].dirty)
    <3>1. Asked(i, op)
      BY <2>1, <2>2, <2>4 DEF Request, Asked, UserActs
    <3> QED BY <2>2, <3>1 DEF StepOf
  <2> QED BY <2>3, <2>4
<1>4. CASE "action" \in Pages /\ \E a \in activities : ChooseActivity(a) \/ CancelGoal(a)
  <2>1. PICK a \in activities : ChooseActivity(a) \/ CancelGoal(a)
    BY <1>4
  <2>2. ASSUME ChooseActivity(a) PROVE Shown(a.handle)
    BY <2>1, <2>2 DEF ChooseActivity, Shown, netVars, snapVars, formVars
  <2> QED BY <1>4, <2>1, <2>2 DEF StepOf
<1>5. CASE \E h \in Hosts \cup {Local} : ChangeHost(h)
  BY <1>5, AskIsQuiet DEF ChangeHost, StepOf
<1>6. CASE \E start \in BOOLEAN : Configure(start)
  <2>1. PICK start \in BOOLEAN : Configure(start)
    BY <1>6
  <2>2. CASE Dirty
    BY <2>1, <2>2, AskIsQuiet DEF Configure, StepOf
  <2>3. CASE ~Dirty
    <3>1. /\ StartConfiguration(FALSE, start) /\ UNCHANGED <<runtimeVars, net, snapVars, gui, chosen>>
          /\ configuration.state = "none"
      BY <2>1, <2>3 DEF Configure, Configuring
    <3> QED BY <3>1 DEF Restart, StepOf
  <2> QED BY <2>2, <2>3
<1>7. CASE BeginClose
  <2>1. CASE UNCHANGED <<runtimeVars, netVars, configuration, snapVars, gui, formVars,
                         host, pending, polling, listVars, asking>>
    BY <2>1 DEF Quiet, StepOf, netVars, snapVars, formVars, listVars
  <2>2. CASE Ask([what |-> "close"])
    BY <2>2, AskIsQuiet DEF StepOf
  <2>3. CASE Close
    BY <2>3, CloseSteps DEF StepOf
  <2> QED BY <1>7, <2>1, <2>2, <2>3 DEF BeginClose
<1>8. CASE AnswerDialog
  BY <1>8, AnswerSteps
<1> QED
  BY <1>1, <1>2, <1>3, <1>4, <1>5, <1>6, <1>7, <1>8 DEF UserStep

LEMMA StepCases ==
  ASSUME Types, AskingInv, [Next]_vars
  PROVE  StepOf
<1>1. CASE TickStep
  <2>1. CASE TickBegins /\ CollectWhileClosing
    <3>1. CASE configuration.shutdown
      BY <2>1, <3>1 DEF CollectWhileClosing, Quiet, StepOf, netVars, snapVars
    <3>2. CASE ~configuration.shutdown
      BY <2>1, <3>2 DEF CollectWhileClosing, Restart, StepOf
    <3> QED BY <3>1, <3>2
  <2>2. CASE TickBegins /\ ReadSnapshot
    BY <2>2 DEF TickBegins, StepOf
  <2>3. CASE RepliesVisited
    BY <2>3 DEF RepliesVisited, Quiet, StepOf, netVars, snapVars, formVars, listVars
  <2> QED BY <1>1, <2>1, <2>2, <2>3 DEF TickStep, TickBegins, StepOf
<1>2. CASE NetworkStep
  BY <1>2 DEF NetworkStep, StepOf
<1>3. CASE UserStep
  BY <1>3, UserSteps
<1>4. CASE RuntimeStep /\ UNCHANGED workspaceVars
  BY <1>4 DEF RuntimeStep, StepOf
<1>5. CASE UNCHANGED vars
  BY <1>5 DEF vars, workspaceVars, Quiet, StepOf, netVars, snapVars, formVars, listVars
<1> QED
  BY <1>1, <1>2, <1>3, <1>4, <1>5 DEF Next

-----------------------------------------------------------------------------
(* What the execution of command c, answered by r, comes to.               *)
Executes(c, r) ==
  /\ futures' = IF c.from \in Waiters THEN [futures EXCEPT ![c.from] = r] ELSE futures
  /\ r \in [ready : {TRUE}, error : BOOLEAN, handle : {0, nextHandle}, readback : BOOLEAN,
            activities : {{}, Activities}]
  /\ r.activities # {} => c.op = "Poll"
  /\ \/ acked' = acked
     \/ c.handle \in Handles(actions) /\ acked' = acked \cup {c.handle}
  /\ \/ /\ r.handle = 0 /\ nextHandle' = nextHandle
        /\ subscriptions' = IF c.op = "Unsubscribe" THEN Unsubscribed(c.handle) ELSE subscriptions
        /\ actions' \subseteq actions
     \/ /\ r.handle = nextHandle /\ nextHandle' = nextHandle + 1
        /\ c.op \in {"Subscribe", "Goal"} /\ c.endpoint \in live
        /\ LET new == [handle |-> nextHandle, endpoint |-> c.endpoint]
           IN \/ /\ c.op = "Subscribe" /\ ~r.error
                 /\ subscriptions' = subscriptions \cup {new} /\ actions' = actions
              \/ /\ c.op = "Goal"
                 /\ subscriptions' = subscriptions /\ actions' \subseteq actions \cup {new}

LEMMA Executed ==
  ASSUME Execute
  PROVE  /\ inbox # <<>> /\ inbox' = Tail(inbox)
         /\ UNCHANGED <<live, churn, finished>>
         /\ \E r : Executes(Head(inbox), r)
<1> DEFINE c == Head(inbox)
<1> SUFFICES \E r : Executes(c, r)
  BY DEF Execute
<1> HIDE DEF c
<1>1. CASE ExecutePoll(c)
  <2>1. Executes(c, Reply(FALSE, 0, FALSE, Activities))
    BY <1>1 DEF ExecutePoll, Answer, Executes, Reply
  <2> QED BY <2>1
<1>2. CASE ExecuteUnsubscribe(c)
  <2>1. /\ c.op = "Unsubscribe" /\ subscriptions' = Unsubscribed(c.handle)
        /\ UNCHANGED <<actions, acked, nextHandle>>
        /\ Answer(c, Done) \/ Answer(c, Failed)
    BY <1>2 DEF ExecuteUnsubscribe
  <2>2. ASSUME Answer(c, Done) PROVE Executes(c, Done)
    BY <2>1, <2>2 DEF Answer, Executes, Reply, Done
  <2>3. ASSUME Answer(c, Failed) PROVE Executes(c, Failed)
    BY <2>1, <2>3 DEF Answer, Executes, Reply, Failed
  <2> QED BY <2>1, <2>2, <2>3
<1>3. CASE ExecuteStale(c) \/ ExecuteFailed(c)
  <2>1. Executes(c, Failed)
    BY <1>3 DEF ExecuteStale, ExecuteFailed, Answer, Executes, Reply, Failed
  <2> QED BY <2>1
<1>4. CASE ExecuteSubscribe(c)
  <2>1. Executes(c, Reply(FALSE, nextHandle, FALSE, {}))
    BY <1>4 DEF ExecuteSubscribe, Usable, Answer, Executes, Reply
  <2> QED BY <2>1
<1>5. CASE ExecuteRead(c)
  <2>1. Executes(c, Done)
    BY <1>5 DEF ExecuteRead, Usable, Answer, Executes, Reply, Done
  <2> QED BY <2>1
<1>6. CASE ExecuteSet(c)
  <2>1. PICK readback \in BOOLEAN : Answer(c, Reply(FALSE, 0, readback, {}))
    BY <1>6 DEF ExecuteSet
  <2>2. Executes(c, Reply(FALSE, 0, readback, {}))
    BY <1>6, <2>1 DEF ExecuteSet, Usable, Answer, Executes, Reply
  <2> QED BY <2>2
<1>7. CASE ExecuteCancel(c)
  <2>1. c.handle \in Handles(actions)
    BY <1>7 DEF ExecuteCancel, Handles
  <2>2. Executes(c, Done)
    BY <1>7, <2>1 DEF ExecuteCancel, Usable, Answer, Executes, Reply, Done
  <2> QED BY <2>2
<1>8. CASE ExecuteGoal(c)
  <2>1. CASE Answer(c, Failed) /\ nextHandle' = nextHandle /\ actions' \subseteq actions
    <3>1. Executes(c, Failed)
      BY <1>8, <2>1 DEF ExecuteGoal, Usable, Answer, Executes, Reply, Failed
    <3> QED BY <3>1
  <2>2. CASE /\ nextHandle' = nextHandle + 1
             /\ actions' \subseteq actions \cup {[handle |-> nextHandle, endpoint |-> c.endpoint]}
             /\ \E error \in BOOLEAN : Answer(c, Reply(error, nextHandle, FALSE, {}))
    <3>1. PICK error \in BOOLEAN : Answer(c, Reply(error, nextHandle, FALSE, {}))
      BY <2>2
    <3>2. Executes(c, Reply(error, nextHandle, FALSE, {}))
      BY <1>8, <2>2, <3>1 DEF ExecuteGoal, Usable, Answer, Executes, Reply
    <3> QED BY <3>2
  <2> QED BY <1>8, <2>1, <2>2 DEF ExecuteGoal
<1> QED
  BY <1>1, <1>2, <1>3, <1>4, <1>5, <1>6, <1>7, <1>8 DEF Execute, c

-----------------------------------------------------------------------------
(* The types of what the operators build.                                  *)

LEMMA ReplyTypes ==
  /\ Failed \in Replies /\ Done \in Replies /\ Unready \in Replies
  /\ Failed.handle = 0 /\ Failed.activities = {} /\ Failed.error /\ Failed # Unready
  /\ Unready.handle = 0 /\ Unready.activities = {}
BY DEF Failed, Done, Unready, Reply, Replies

LEMMA SendTypes ==
  ASSUME Types, NEW c \in Commands, Send(c)
  PROVE  inbox' \in Seq(Commands) /\ futures' \in [Waiters -> Replies]
<1>1. inbox \in Seq(Commands) /\ futures \in [Waiters -> Replies]
  BY DEF Types, RuntimeTypes
<1>2. Append(inbox, c) \in Seq(Commands)
  BY <1>1, AppendProperties
<1> QED
  BY <1>1, <1>2, ReplyTypes DEF Send, Answer

LEMMA CommandTypes ==
  ASSUME NEW w \in Senders, NEW op \in Ops, NEW e \in EndpointOrNone, NEW h \in Nat
  PROVE  Command(w, op, e, h) \in Commands
BY DEF Command, Commands

LEMMA SubmittedTypes ==
  ASSUME NEW s \in Seq(Requests), NEW i \in Pages, NEW c \in Commands, c.op # "Poll"
  PROVE  Submitted(s, i, c) \in Seq(Requests)
<1>1. [page |-> i, op |-> c.op, endpoint |-> c.endpoint, same |-> TRUE, unrevised |-> TRUE] \in Requests
  BY DEF Commands, Requests
<1> QED
  BY <1>1, AppendProperties DEF Submitted

LEMMA ExecutedTypes ==
  ASSUME Types, Execute
  PROVE  RuntimeTypes'
<1>1. /\ inbox \in Seq(Commands) /\ futures \in [Waiters -> Replies]
      /\ live \subseteq Endpoints /\ nextHandle \in Nat
      /\ subscriptions \subseteq Entries /\ actions \subseteq Entries
      /\ finished \subseteq Nat /\ acked \subseteq Nat
  BY DEF Types, RuntimeTypes
<1> DEFINE c == Head(inbox)
<1>2. c \in Commands /\ Tail(inbox) \in Seq(Commands)
  BY <1>1, Executed, HeadTailProperties
<1> HIDE DEF c
<1>3. PICK r : Executes(c, r)
  BY Executed DEF c
<1>4. Activities \subseteq Reports
  <2>1. \A a \in Entries, t \in BOOLEAN, u, v \in BOOLEAN :
          [topic |-> t, handle |-> a.handle, endpoint |-> a.endpoint, terminal |-> u, lost |-> v] \in Reports
    BY DEF Entries, Reports
  <2>2. \A a \in actions : (a.handle \in finished) \in BOOLEAN /\ (a.endpoint \notin live) \in BOOLEAN
    OBVIOUS
  <2>3. \A a \in subscriptions : (a.endpoint \notin live) \in BOOLEAN
    OBVIOUS
  <2> QED
    BY <1>1, <2>1, <2>2, <2>3, Zenon DEF Activities
<1>5. r \in Replies
  <2>1. r \in [ready : {TRUE}, error : BOOLEAN, handle : {0, nextHandle}, readback : BOOLEAN,
               activities : {{}, Activities}]
    BY <1>3 DEF Executes
  <2>2. {TRUE} \subseteq BOOLEAN /\ {0, nextHandle} \subseteq Nat /\ {{}, Activities} \subseteq SUBSET Reports
    BY <1>1, <1>4
  <2> QED
    BY <2>1, <2>2 DEF Replies
<1>6. futures' \in [Waiters -> Replies]
  BY <1>1, <1>3, <1>5 DEF Executes
<1>7. subscriptions' \subseteq Entries /\ actions' \subseteq Entries /\ nextHandle' \in Nat
  <2>1. CASE nextHandle' = nextHandle
    BY <1>1, <1>3, <2>1 DEF Executes, Unsubscribed
  <2>2. CASE nextHandle' # nextHandle
    <3>1. [handle |-> nextHandle, endpoint |-> c.endpoint] \in Entries /\ nextHandle' = nextHandle + 1
      BY <1>1, <1>3, <2>2 DEF Executes, Entries
    <3> QED BY <1>1, <1>3, <2>2, <3>1 DEF Executes
  <2> QED BY <2>1, <2>2
<1>8. acked' \subseteq Nat
  BY <1>1, <1>2, <1>3 DEF Executes, Commands
<1> QED
  BY <1>1, <1>2, <1>6, <1>7, <1>8, Executed DEF RuntimeTypes, Types

LEMMA ShowActivityTypes ==
  ASSUME NEW list \in SUBSET Goals, NEW h \in Nat, ShowActivity(list, h)
  PROVE  activities' \subseteq Goals /\ chosen' \in Nat
<1>1. \A a \in list : [a EXCEPT !.lost = @ \/ (a.handle = h /\ a.endpoint \notin seen')] \in Goals
  BY DEF Goals
<1> QED
  BY <1>1 DEF ShowActivity

LEMMA MergedTypes ==
  ASSUME activities \subseteq Goals, NEW reported \in SUBSET Reports
  PROVE  Merged(reported) \subseteq Goals /\ Evicted(Merged(reported)) \subseteq Merged(reported)
<1>1. \A v \in reported :
        [handle |-> v.handle, endpoint |-> v.endpoint, terminal |-> v.terminal, lost |-> v.lost,
         unknown |-> FALSE] \in Goals
  BY DEF Goals, Reports
<1> QED
  BY <1>1 DEF Merged, Evicted

LEMMA HistoryTypes ==
  ASSUME activities \subseteq Goals, NEW q \in Requests, NEW r \in Replies,
         r.handle # 0 => q.endpoint \in Endpoints
  PROVE  History(q, r) \subseteq Goals
<1>1. r.handle # 0 =>
        [handle |-> r.handle, endpoint |-> q.endpoint, terminal |-> FALSE, lost |-> FALSE,
         unknown |-> r.error] \in Goals
  BY DEF Goals, Replies
<1> QED
  BY <1>1 DEF History

LEMMA AppliedTypes ==
  ASSUME NEW p \in Panels, NEW q \in Requests, NEW r \in Replies
  PROVE  Applied(p, q, r) \in Panels
BY DEF Applied, Panels, Requests, Replies, Ops, EndpointOrNone

LEMMA EmptyPanelType == EmptyPanel \in Panels
BY DEF EmptyPanel, Panels, EndpointOrNone

LEMMA VisitTypes ==
  ASSUME TypeInv, VisitReply
  PROVE  RuntimeTypes' /\ FormTypes'
<1> DEFINE q == pending[gui.next]
           r == futures[q.page]
<1>1. /\ inbox \in Seq(Commands) /\ futures \in [Waiters -> Replies]
      /\ panels \in [Pages -> Panels] /\ pending \in Seq(Requests) /\ activities \subseteq Goals
      /\ RuntimeTypes /\ UNCHANGED worldVars
  BY DEF TypeInv, Types, RuntimeTypes, FormTypes, VisitReply
<1>2. /\ gui.next \in DOMAIN pending /\ q \in Requests /\ q.page \in Pages /\ r \in Replies
  <2>1. gui.next \in DOMAIN pending /\ q \in Requests
    BY <1>1, ElementOfSeq, LenProperties DEF VisitReply
  <2> QED BY <1>1, <2>1 DEF Requests, Waiters
<1>3. r.handle # 0 => q.endpoint \in Endpoints
  BY <1>2 DEF TypeInv, HandlesInv, HandleOfRequest
<1>4. CASE UNCHANGED <<inbox, futures, panels, pending, activities>>
  BY <1>1, <1>4 DEF RuntimeTypes, FormTypes, worldVars
<1>5. CASE /\ r # Unready
           /\ futures' = [futures EXCEPT ![q.page] = Unready]
           /\ pending' = Forget(gui.next)
           /\ activities' = History(q, r)
           /\ GiveUpOrphan(q, r)
           /\ panels' = IF Applicable(q) /\ ~r.error
                        THEN [panels EXCEPT ![q.page] = Applied(@, q, r)] ELSE panels
  <2>1. pending' \in Seq(Requests)
    BY <1>1, <1>2, <1>5, Forgotten
  <2>2. activities' \subseteq Goals
    BY <1>1, <1>2, <1>3, <1>5, HistoryTypes
  <2>3. inbox' \in Seq(Commands)
    <3>1. Command("cleanup", "Unsubscribe", Nothing, r.handle) \in Commands
      BY <1>2 DEF Command, Commands, Senders, Ops, EndpointOrNone, Replies
    <3> QED BY <1>1, <1>5, <3>1, AppendProperties DEF GiveUpOrphan
  <2>4. panels' \in [Pages -> Panels]
    <3>1. Applied(panels[q.page], q, r) \in Panels
      BY <1>1, <1>2, AppliedTypes
    <3> QED BY <1>1, <1>5, <3>1
  <2>5. futures' \in [Waiters -> Replies]
    BY <1>1, <1>5, ReplyTypes
  <2> QED
    BY <1>1, <2>1, <2>2, <2>3, <2>4, <2>5 DEF RuntimeTypes, FormTypes, worldVars
<1> QED
  BY <1>4, <1>5 DEF VisitReply

LEMMA TickEndsTypes ==
  ASSUME TypeInv, TickEnds
  PROVE  RuntimeTypes' /\ FormTypes' /\ chosen' \in Nat
<1>1. /\ inbox \in Seq(Commands) /\ futures \in [Waiters -> Replies]
      /\ panels \in [Pages -> Panels] /\ pending \in Seq(Requests) /\ activities \subseteq Goals
      /\ RuntimeTypes /\ chosen \in Nat
      /\ UNCHANGED worldVars /\ pending' = pending
  BY DEF TypeInv, Types, RuntimeTypes, FormTypes, GuiTypes, TickEnds
<1>2. futures' \in [Waiters -> Replies] /\ inbox' \in Seq(Commands)
  <2>1. Command("poll", "Poll", Nothing, 0) \in Commands
    BY DEF Command, Commands, Senders, Waiters, Ops, EndpointOrNone
  <2>2. Append(inbox, Command("poll", "Poll", Nothing, 0)) \in Seq(Commands)
    BY <1>1, <2>1, AppendProperties
  <2> QED
    BY <1>1, <2>2, ReplyTypes DEF TickEnds, SubmitPoll
<1>3. CASE CollectPoll
  <2> DEFINE reported == IF PollCounts THEN futures["poll"].activities ELSE {}
             list == Evicted(Merged(reported))
  <2>1. reported \subseteq Reports
    BY <1>1 DEF Replies, Waiters
  <2>2. list \subseteq Goals
    BY <1>1, <2>1, MergedTypes
  <2> HIDE DEF reported
  <2>3. (IF chosen \in Handles(list) THEN chosen ELSE 0) \in Nat
    BY <1>1
  <2>4. activities' \subseteq Goals /\ chosen' \in Nat
    <3>1. ShowActivity(list, IF chosen \in Handles(list) THEN chosen ELSE 0)
      BY <1>3 DEF CollectPoll, reported
    <3> QED BY <2>2, <2>3, <3>1, ShowActivityTypes
  <2>5. panels' \in [Pages -> Panels]
    <3>1. PICK output \in (IF "topic" \in Pages THEN TopicOutputs(panels["topic"], reported) ELSE {0}) :
            panels' = [i \in Pages |-> IF i = "topic" THEN [panels[i] EXCEPT !.output = output]
                                       ELSE panels[i]]
      BY <1>3 DEF CollectPoll, reported
    <3>2. output \in Nat
      BY <1>1, <2>1, <3>1 DEF TopicOutputs, OfHeldSubscription, Reports, Panels
    <3> QED BY <1>1, <3>1, <3>2 DEF Panels
  <2> QED
    BY <1>1, <1>2, <2>4, <2>5 DEF RuntimeTypes, FormTypes, worldVars
<1>4. CASE NoPollToCollect
  BY <1>1, <1>2, <1>4 DEF NoPollToCollect, listVars, RuntimeTypes, FormTypes, worldVars
<1> QED
  BY <1>3, <1>4 DEF TickEnds

LEMMA StepTypes ==
  ASSUME TypeInv, StepOf
  PROVE  RuntimeTypes' /\ FormTypes'
<1>1. /\ inbox \in Seq(Commands) /\ futures \in [Waiters -> Replies]
      /\ panels \in [Pages -> Panels] /\ pending \in Seq(Requests) /\ activities \subseteq Goals
      /\ RuntimeTypes /\ FormTypes /\ Types
  BY DEF TypeInv, Types, RuntimeTypes, FormTypes
<1> USE DEF worldVars
<1>2. CASE Execute /\ UNCHANGED workspaceVars
  BY <1>1, <1>2, ExecutedTypes DEF FormTypes, workspaceVars, formVars, listVars
<1>3. CASE DiscoveryChanges /\ UNCHANGED workspaceVars
  BY <1>1, <1>3 DEF DiscoveryChanges, RuntimeTypes, FormTypes, workspaceVars, formVars, listVars
<1>4. CASE ActionFinishes /\ UNCHANGED workspaceVars
  <2>1. Handles(actions) \subseteq Nat
    BY <1>1 DEF RuntimeTypes, Handles, Entries
  <2> QED
    BY <1>1, <1>4, <2>1 DEF ActionFinishes, RuntimeTypes, FormTypes, workspaceVars, formVars, listVars
<1>5. CASE TakeNetwork \/ ObserverUp
  BY <1>1, <1>5
     DEF TakeNetwork, ObserverUp, RuntimeTypes, FormTypes, runtimeVars, formVars, listVars
<1>6. CASE ReplaceNetwork
  <2>1. inbox' \in Seq(Commands)
    BY <1>6, EmptySeq DEF ReplaceNetwork
  <2>2. futures' \in [Waiters -> Replies]
    BY <1>1, <1>6, ReplyTypes DEF ReplaceNetwork
  <2> QED
    BY <1>1, <1>6, <2>1, <2>2 DEF ReplaceNetwork, RuntimeTypes, FormTypes, formVars, listVars
<1>7. CASE ReadSnapshot
  <2>1. pending' \in Seq(Requests)
    BY <1>1, <1>7, RevisedRequests DEF ReadSnapshot
  <2>2. panels' \in [Pages -> Panels]
    <3>1. \A p \in Panels : Cleared(p) \in Panels
      BY EmptyPanelType DEF Cleared, Panels
    <3> QED BY <1>1, <1>7, <3>1 DEF ReadSnapshot
  <2>3. activities' \subseteq Goals
    BY <1>1, <1>7, ShowActivityTypes DEF ReadSnapshot, GuiTypes, Types
  <2> QED
    BY <1>1, <1>7, <2>1, <2>2, <2>3 DEF ReadSnapshot, RuntimeTypes, FormTypes, runtimeVars
<1>8. CASE VisitReply
  BY <1>8, VisitTypes
<1>9. CASE TickEnds
  BY <1>9, TickEndsTypes
<1>10. CASE Quiet
  BY <1>1, <1>10 DEF Quiet, RuntimeTypes, FormTypes, runtimeVars
<1>11. CASE Restart
  <2>0. PICK shutdown, start \in BOOLEAN : StartConfiguration(shutdown, start)
    BY <1>11 DEF Restart
  <2>1. pending' \in Seq(Requests)
    <3>1. /\ Len(pending) \in Nat /\ DOMAIN pending = 1..Len(pending)
          /\ \A k \in DOMAIN pending : pending[k] \in Requests
      BY <1>1, LenProperties, ElementOfSeq
    <3>2. pending' \in [1..Len(pending) -> Requests]
      BY <2>0, <3>1 DEF StartConfiguration, Requests
    <3> QED BY <3>1, <3>2, SeqDef
  <2>2. panels' \in [Pages -> Panels]
    BY <2>0, EmptyPanelType DEF StartConfiguration
  <2>3. activities' \subseteq Goals
    <3>1. \A a \in Goals : [a EXCEPT !.lost = TRUE, !.unknown = ~a.terminal] \in Goals
      BY DEF Goals
    <3> QED BY <1>1, <2>0, <3>1 DEF StartConfiguration
  <2> QED
    BY <1>1, <1>11, <2>1, <2>2, <2>3 DEF Restart, RuntimeTypes, FormTypes, runtimeVars
<1>12. CASE \E i \in Pages : Edit(i)
  <2>1. panels' \in [Pages -> Panels]
    BY <1>1, <1>12 DEF Edit, Panels
  <2> QED
    BY <1>1, <1>12, <2>1 DEF Edit, RuntimeTypes, FormTypes, runtimeVars, listVars
<1>13. CASE \E i \in Pages, e \in Endpoints : SelectEndpoint(i, e)
  <2>1. PICK i \in Pages, e \in Endpoints : SelectEndpoint(i, e)
    BY <1>13
  <2>2. panels[i].subscription \in Nat /\ i \in Senders
    BY <1>1 DEF Panels, Senders, Waiters
  <2> DEFINE fetch == Command(i, Fetch(i), e, 0)
             cleanup == Command("cleanup", "Unsubscribe", Nothing, panels[i].subscription)
  <2>3. fetch \in Commands /\ cleanup \in Commands /\ fetch.op # "Poll"
    BY <2>2, CommandTypes DEF Command, Fetch, Ops, EndpointOrNone, Senders
  <2>4. Revised(pending, {i}) \in Seq(Requests)
    BY <1>1, RevisedRequests
  <2>5. pending' \in Seq(Requests)
    BY <2>1, <2>3, <2>4, SubmittedTypes DEF SelectEndpoint
  <2>6. panels' \in [Pages -> Panels]
    <3>1. [EmptyPanel EXCEPT !.selected = e] \in Panels
      BY EmptyPanelType DEF Panels, EndpointOrNone
    <3> QED BY <1>1, <2>1, <3>1 DEF SelectEndpoint
  <2>7. inbox' \in Seq(Commands) /\ futures' \in [Waiters -> Replies]
    <3>1. Send(fetch) \/ Send(cleanup) \/ UNCHANGED <<inbox, futures>>
      BY <2>1 DEF SelectEndpoint
    <3> QED BY <1>1, <2>3, <3>1, SendTypes
  <2> QED
    BY <1>1, <2>1, <2>5, <2>6, <2>7 DEF SelectEndpoint, RuntimeTypes, FormTypes, listVars
<1>14. CASE \E i \in Pages, op \in Ops : Asked(i, op)
  <2>1. PICK i \in Pages, op \in Ops : Asked(i, op)
    BY <1>14
  <2> DEFINE c == Command(i, op, panels[i].selected, panels[i].subscription)
  <2>2. c \in Commands /\ c.op # "Poll"
    BY <1>1, <2>1, CommandTypes DEF Asked, Command, Panels, Senders, Waiters
  <2>3. Send(c) /\ pending' = Submitted(pending, i, c)
    BY <2>1 DEF Asked, SendRequest
  <2>4. pending' \in Seq(Requests)
    BY <1>1, <2>2, <2>3, SubmittedTypes
  <2> QED
    BY <1>1, <2>1, <2>2, <2>3, <2>4, SendTypes
       DEF Asked, SendRequest, RuntimeTypes, FormTypes, formVars, listVars
<1>15. CASE \E a \in activities : "action" \in Pages /\ CancelGoal(a)
  <2>1. PICK a \in activities : "action" \in Pages /\ CancelGoal(a)
    BY <1>15
  <2> DEFINE c == Command("action", "Cancel", a.endpoint, a.handle)
  <2>2. c \in Commands /\ c.op # "Poll"
    BY <1>1, <2>1, CommandTypes DEF Command, Goals, Senders, Waiters, Ops, EndpointOrNone
  <2>3. Send(c) /\ pending' = Submitted(pending, "action", c)
    BY <2>1 DEF CancelGoal
  <2>4. pending' \in Seq(Requests)
    BY <1>1, <2>1, <2>2, <2>3, SubmittedTypes
  <2> QED
    BY <1>1, <2>1, <2>2, <2>3, <2>4, SendTypes
       DEF CancelGoal, RuntimeTypes, FormTypes, formVars, listVars
<1>16. CASE \E h \in Hosts \cup {Local} : ShowHost(h)
  <2>1. PICK h \in Hosts \cup {Local} : ShowHost(h)
    BY <1>16
  <2> DEFINE held == IF "topic" \in Pages THEN panels["topic"].subscription ELSE 0
             c == Command("cleanup", "Unsubscribe", Nothing, held)
  <2>2. c \in Commands
    <3>1. held \in Nat
      BY <1>1 DEF Panels
    <3> HIDE DEF held
    <3> QED BY <3>1, CommandTypes DEF Senders, Ops, EndpointOrNone
  <2>3. inbox' \in Seq(Commands) /\ futures' \in [Waiters -> Replies]
    <3>1. Send(c) \/ UNCHANGED <<inbox, futures>>
      BY <2>1 DEF ShowHost
    <3> QED BY <1>1, <2>2, <3>1, SendTypes
  <2>4. pending' \in Seq(Requests) /\ panels' \in [Pages -> Panels]
    BY <1>1, <2>1, RevisedRequests, EmptyPanelType DEF ShowHost
  <2> QED
    BY <1>1, <2>1, <2>3, <2>4 DEF ShowHost, RuntimeTypes, FormTypes, listVars
<1>17. CASE \E h : Shown(h)
  <2>1. PICK h : Shown(h)
    BY <1>17
  <2>2. activities' \subseteq Goals
    BY <1>1, <2>1, ShowActivityTypes DEF Shown, Goals
  <2> QED
    BY <1>1, <2>1, <2>2 DEF Shown, RuntimeTypes, FormTypes, runtimeVars
<1> QED
  BY StepOf, <1>2, <1>3, <1>4, <1>5, <1>6, <1>7, <1>8, <1>9, <1>10, <1>11, <1>12, <1>13, <1>14,
     <1>15, <1>16, <1>17 DEF StepOf

-----------------------------------------------------------------------------
(* The dialogs and the rest of the window.                                 *)

LEMMA BusyShrinks ==
  ASSUME TypeInv,
         \/ pending' = pending
         \/ \E k \in DOMAIN pending : pending' = Forget(k)
         \/ \E P : pending' = Revised(pending, P)
         \/ \E shutdown, start \in BOOLEAN : StartConfiguration(shutdown, start)
  PROVE  \A i : ~Busy(i) => ~Busy(i)'
<1>1. pending \in Seq(Requests)
  BY DEF TypeInv, Types, FormTypes
<1>2. \A k \in DOMAIN pending : pending[k] \in Requests
  BY <1>1, ElementOfSeq, LenProperties
<1>3. SUFFICES \A j \in DOMAIN pending' : \E l \in DOMAIN pending : pending'[j].page = pending[l].page
  BY DEF Busy
<1>4. CASE pending' = pending
  BY <1>4
<1>5. ASSUME NEW k \in DOMAIN pending, pending' = Forget(k)
      PROVE  \A j \in DOMAIN pending' : \E l \in DOMAIN pending : pending'[j].page = pending[l].page
  <2>1. \A j \in DOMAIN Forget(k) :
          LET l == IF j < k THEN j ELSE j + 1
          IN l \in DOMAIN pending /\ Forget(k)[j] = pending[l]
    BY <1>1, <1>5, Forgotten
  <2> QED BY <1>5, <2>1
<1>6. ASSUME NEW P, pending' = Revised(pending, P)
      PROVE  \A j \in DOMAIN pending' : \E l \in DOMAIN pending : pending'[j].page = pending[l].page
  <2>1. /\ DOMAIN Revised(pending, P) = DOMAIN pending
        /\ \A k \in DOMAIN pending : Revised(pending, P)[k].page = pending[k].page
    BY <1>2 DEF Revised, Requests
  <2> QED BY <1>6, <2>1
<1>7. ASSUME NEW shutdown \in BOOLEAN, NEW start \in BOOLEAN, StartConfiguration(shutdown, start)
      PROVE  \A j \in DOMAIN pending' : \E l \in DOMAIN pending : pending'[j].page = pending[l].page
  BY <1>2, <1>7 DEF StartConfiguration, Requests
<1> QED
  BY <1>4, <1>5, <1>6, <1>7

LEMMA StepGuiBackground ==
  ASSUME TypeInv,
         \/ RuntimeStep /\ UNCHANGED workspaceVars
         \/ NetworkStep
         \/ UNCHANGED vars
  PROVE  GuiTypes' /\ AskingInv'
<1> USE DEF TypeInv, Types, GuiTypes, AskingInv, Networks, Busy, Configuring, netVars, snapVars,
            formVars, hostVars, userVars, listVars
<1>1. CASE (RuntimeStep /\ UNCHANGED workspaceVars) \/ UNCHANGED vars
  BY <1>1 DEF workspaceVars, vars
<1>2. CASE TakeNetwork
  BY <1>2 DEF TakeNetwork
<1>3. CASE ReplaceNetwork
  BY <1>3 DEF ReplaceNetwork
<1>4. CASE ObserverUp
  BY <1>4 DEF ObserverUp
<1> QED
  BY <1>1, <1>2, <1>3, <1>4 DEF NetworkStep

LEMMA StepGuiTick ==
  ASSUME TypeInv, TickStep
  PROVE  GuiTypes' /\ AskingInv'
<1>1. GuiTypes /\ AskingInv /\ Types
  BY DEF TypeInv, Types
<1>2. CASE TickBegins /\ CollectWhileClosing
  <2>1. CASE configuration.shutdown
    <3>1. /\ UNCHANGED <<netVars, snapVars, gui, buttons, choices, hostVars, chosen, pending,
                         polling, asking>>
          /\ closing' = "closed" /\ configuration' = Idle
      BY <1>2, <2>1 DEF CollectWhileClosing, netVars
    <3>2. \A i : ~Busy(i) => ~Busy(i)'
      BY <3>1, BusyShrinks
    <3> QED
      BY <1>1, <3>1, <3>2
         DEF GuiTypes, AskingInv, Idle, netVars, snapVars, hostVars, Configuring
  <2>2. CASE ~configuration.shutdown
    <3>1. StartConfiguration(TRUE, FALSE)
      BY <1>2, <2>2 DEF CollectWhileClosing
    <3>2. configuration' \in [state : {"none", "requested", "stopping", "done"},
                              shutdown : BOOLEAN, start : BOOLEAN]
          /\ polling' \in [valid : BOOLEAN, same : BOOLEAN] /\ floor' \in Nat
          /\ configuration'.state # "none"
      BY <1>1, <3>1 DEF StartConfiguration, GuiTypes, Types, RuntimeTypes
    <3>3. asking # NoQuestion => asking.what # "configure"
      BY <1>1, <1>2 DEF CollectWhileClosing, AskingInv, Configuring
    <3>4. \A i : ~Busy(i) => ~Busy(i)'
      BY <3>1, BusyShrinks
    <3>5. UNCHANGED <<net, snapVars, gui, buttons, choices, hostVars, chosen, asking, closing>>
      BY <1>2, <2>2 DEF CollectWhileClosing
    <3>6. GuiTypes'
      BY <1>1, <3>2, <3>5 DEF GuiTypes, snapVars, hostVars
    <3>7. AskingInv'
      BY <1>1, <3>2, <3>3, <3>4, <3>5 DEF AskingInv, Configuring
    <3> QED BY <3>6, <3>7
  <2> QED BY <2>1, <2>2
<1>3. CASE TickBegins /\ ReadSnapshot
  <2>1. /\ configuration' \in [state : {"none", "requested", "stopping", "done"},
                               shutdown : BOOLEAN, start : BOOLEAN]
        /\ configuration.state = "none" => configuration'.state = "none"
        /\ closing = "closing" => configuration' = configuration
    BY <1>1, <1>3 DEF ReadSnapshot, GuiTypes, Idle
  <2>2. seen' \subseteq Endpoints /\ status' \in Networks
    BY <1>1, <1>3 DEF ReadSnapshot, GuiTypes, Types, RuntimeTypes
  <2>3. choices' \in [Pages -> SUBSET Endpoints]
    <3>1. \A i : Rows(i, host, seen') \subseteq Endpoints
      BY <2>2 DEF Rows
    <3> QED BY <1>1, <1>3, <3>1 DEF ReadSnapshot, GuiTypes
  <2>4. chosen' \in Nat /\ combo' \in Hosts \cup {Local}
    BY <1>1, <1>3 DEF ReadSnapshot, ShowActivity, GuiTypes
  <2>5. gui' \in [at : {"idle", "replies", "poll"}, next : Nat, due : BOOLEAN]
    BY <1>1, <1>3 DEF ReadSnapshot, GuiTypes
  <2>6. \A i : ~Busy(i) => ~Busy(i)'
    <3>1. \E P : pending' = Revised(pending, P)
      BY <1>3 DEF ReadSnapshot
    <3> QED BY <3>1, BusyShrinks
  <2>7. UNCHANGED <<net, floor, buttons, host, polling, asking, closing>>
    BY <1>3 DEF ReadSnapshot, netVars, userVars
  <2>8. GuiTypes'
    BY <1>1, <2>1, <2>2, <2>3, <2>4, <2>5, <2>7 DEF GuiTypes
  <2>9. AskingInv'
    BY <1>1, <2>1, <2>6, <2>7 DEF AskingInv, Configuring
  <2> QED BY <2>8, <2>9
<1>4. CASE VisitReply
  <2>1. \A i : ~Busy(i) => ~Busy(i)'
    <3>1. pending' = pending \/ \E k \in DOMAIN pending : pending' = Forget(k)
      BY <1>4 DEF VisitReply
    <3> QED BY <3>1, BusyShrinks
  <2>2. gui' \in [at : {"idle", "replies", "poll"}, next : Nat, due : BOOLEAN]
    BY <1>1, <1>4 DEF VisitReply, GuiTypes
  <2>3. UNCHANGED <<netVars, configuration, snapVars, buttons, choices, hostVars, polling, chosen, userVars>>
    BY <1>4 DEF VisitReply
  <2> QED
    BY <1>1, <2>1, <2>2, <2>3
       DEF GuiTypes, AskingInv, Configuring, netVars, snapVars, hostVars, userVars
<1>5. CASE RepliesVisited
  BY <1>1, <1>5
     DEF RepliesVisited, GuiTypes, AskingInv, Configuring, Busy, netVars, snapVars, formVars,
         hostVars, listVars, userVars
<1>6. CASE TickEnds
  <2>1. chosen' \in Nat
    BY <1>6, TickEndsTypes
  <2>2. polling' \in [valid : BOOLEAN, same : BOOLEAN]
    BY <1>1, <1>6 DEF TickEnds, SubmitPoll, NoPoll, GuiTypes
  <2>3. buttons' \in [Pages -> SUBSET {"first", "second"}]
    <3>1. \A i : Enabled(i) \subseteq {"first", "second"}
      BY DEF Enabled
    <3>2. buttons' = [i \in Pages |-> Enabled(i)]
      BY <1>6 DEF TickEnds
    <3> HIDE DEF Enabled
    <3> QED BY <3>1, <3>2
  <2>4. gui' \in [at : {"idle", "replies", "poll"}, next : Nat, due : BOOLEAN]
    BY <1>6 DEF TickEnds, Resting
  <2>5. UNCHANGED <<netVars, snapVars, configuration, choices, hostVars, pending, userVars>>
    BY <1>6 DEF TickEnds
  <2> QED
    BY <1>1, <2>1, <2>2, <2>3, <2>4, <2>5
       DEF GuiTypes, AskingInv, Configuring, Busy, netVars, snapVars, hostVars, userVars
<1> QED
  BY <1>2, <1>3, <1>4, <1>5, <1>6 DEF TickStep, TickBegins

LEMMA StepGuiUser ==
  ASSUME TypeInv, UserStep
  PROVE  GuiTypes' /\ AskingInv'
<1>1. GuiTypes /\ AskingInv /\ Types /\ \A i \in Pages : choices[i] \subseteq Endpoints
  BY DEF TypeInv, Types, GuiTypes
<1> DEFINE Rest == UNCHANGED <<netVars, snapVars, gui, buttons>>
           Same == Rest /\ UNCHANGED <<configuration, choices, host, polling, chosen, closing>>
<1>2. ASSUME Same, combo' \in Hosts \cup {Local}, asking' = NoQuestion
      PROVE  GuiTypes' /\ AskingInv'
  BY <1>1, <1>2 DEF GuiTypes, AskingInv, Configuring, netVars, snapVars
<1>3. ASSUME NEW question \in Questions, Ask(question), combo' \in Hosts \cup {Local},
             question.what = "request" => ~Busy(question.page),
             question.what = "configure" => ~Configuring
      PROVE  GuiTypes' /\ AskingInv'
  <2>1. asking' = question /\ Same /\ pending' = pending
    BY <1>3 DEF Ask, formVars, listVars
  <2>2. \A i : ~Busy(i) => ~Busy(i)'
    BY <2>1 DEF Busy
  <2>3. GuiTypes'
    BY <1>1, <1>3, <2>1 DEF GuiTypes, netVars, snapVars
  <2>4. AskingInv'
    BY <1>1, <1>3, <2>1, <2>2 DEF AskingInv, Configuring
  <2> QED BY <2>3, <2>4
<1>4. ASSUME NEW shutdown \in BOOLEAN, NEW start \in BOOLEAN, StartConfiguration(shutdown, start),
             UNCHANGED <<net, snapVars, gui, buttons, choices, host, combo, chosen>>,
             closing' \in {closing, "closing"}, asking' = NoQuestion
      PROVE  GuiTypes' /\ AskingInv'
  <2>1. configuration' \in [state : {"none", "requested", "stopping", "done"},
                            shutdown : BOOLEAN, start : BOOLEAN]
        /\ polling' \in [valid : BOOLEAN, same : BOOLEAN] /\ floor' \in Nat
        /\ configuration'.state # "none"
    BY <1>1, <1>4 DEF StartConfiguration, GuiTypes, Types, RuntimeTypes
  <2>2. GuiTypes'
    BY <1>1, <1>4, <2>1 DEF GuiTypes, snapVars
  <2>3. AskingInv'
    BY <1>4, <2>1 DEF AskingInv, Configuring
  <2> QED BY <2>2, <2>3
<1>5. ASSUME Close, UNCHANGED combo, asking' = NoQuestion PROVE GuiTypes' /\ AskingInv'
  <2>1. CASE Configuring
    BY <1>1, <1>5, <2>1
       DEF Close, GuiTypes, AskingInv, Configuring, netVars, snapVars
  <2>2. CASE ~Configuring
    BY <1>4, <1>5, <2>2 DEF Close
  <2> QED BY <2>1, <2>2
<1>6. ASSUME NEW i, NEW e, SelectEndpoint(i, e), UNCHANGED combo, asking' = NoQuestion
      PROVE  GuiTypes' /\ AskingInv'
  BY <1>1, <1>2, <1>6 DEF SelectEndpoint, listVars, GuiTypes
<1>7. ASSUME NEW i, NEW op, SendRequest(i, op), UNCHANGED combo, asking' = NoQuestion
      PROVE  GuiTypes' /\ AskingInv'
  BY <1>1, <1>2, <1>7 DEF SendRequest, formVars, listVars, GuiTypes
<1>8. ASSUME NEW h \in Hosts \cup {Local}, ShowHost(h), combo' \in Hosts \cup {Local}, asking' = NoQuestion
      PROVE  GuiTypes' /\ AskingInv'
  <2>1. choices' \in [Pages -> SUBSET Endpoints]
    BY <1>1, <1>8 DEF ShowHost, Rows, GuiTypes
  <2>2. host' = h /\ Rest /\ UNCHANGED <<configuration, polling, chosen, closing>>
    BY <1>8 DEF ShowHost, listVars
  <2> QED
    BY <1>1, <1>8, <2>1, <2>2 DEF GuiTypes, AskingInv, Configuring, netVars, snapVars
<1> HIDE DEF Rest, Same
<1>9. ASSUME UserActs PROVE asking = NoQuestion
  BY <1>9 DEF UserActs
<1>10. CASE \E i \in Pages : Edit(i)
  BY <1>1, <1>2, <1>9, <1>10 DEF Edit, hostVars, listVars, GuiTypes, Same, Rest
<1>11. CASE \E i \in Pages : \E e \in choices[i] : Select(i, e)
  <2>1. PICK i \in Pages : \E e \in choices[i] : Select(i, e)
    BY <1>11
  <2>2. PICK e \in choices[i] : Select(i, e)
    BY <2>1
  <2>3. e \in Endpoints /\ UNCHANGED combo /\ asking = NoQuestion
    BY <1>1, <1>9, <2>1, <2>2 DEF Select
  <2>4. CASE panels[i].dirty
    <3> DEFINE question == [what |-> "select", page |-> i, row |-> Row(choices[i], e), endpoint |-> e]
    <3>1. Row(choices[i], e) \in Nat
      <4>1. IsFiniteSet({f \in choices[i] : Place[f] <= Place[e]})
        <5>1. Place \in [Endpoints -> Nat] /\ \A f, g \in Endpoints : Place[f] = Place[g] => f = g
          BY WorkspaceAssumption
        <5> DEFINE S == {f \in choices[i] : Place[f] <= Place[e]}
                   at == [f \in S |-> Place[f]]
        <5>2. at \in Injection(S, 0..Place[e])
          BY <1>1, <2>3, <5>1 DEF Injection, IsInjective
        <5>3. IsFiniteSet(0..Place[e])
          BY <5>1, <2>3, FS_Interval
        <5> QED BY <5>2, <5>3, FS_Injection
      <4> QED BY <4>1, FS_CardinalityType DEF Row
    <3>2. question \in Questions
      BY <2>3, <3>1 DEF Questions
    <3>3. Ask(question) /\ question.what = "select"
      BY <2>2, <2>4 DEF Select
    <3> HIDE DEF question
    <3> QED BY <1>1, <1>3, <2>3, <3>2, <3>3 DEF GuiTypes
  <2>5. CASE ~panels[i].dirty
    BY <1>6, <2>2, <2>3, <2>5 DEF Select
  <2> QED BY <2>4, <2>5
<1>12. CASE \E i \in Pages, button \in {"first", "second"} : Request(i, button)
  <2>1. PICK i \in Pages, button \in {"first", "second"} : Request(i, button)
    BY <1>12
  <2> DEFINE op == Operation(i, button)
  <2>2. UNCHANGED combo /\ asking = NoQuestion /\ ~Busy(i)
    BY <1>9, <2>1 DEF Request
  <2>3. CASE op \in {"Get", "Prepare"} /\ panels[i].dirty
    <3> DEFINE question == [what |-> "request", page |-> i, op |-> op]
    <3>1. Ask(question)
      BY <2>1, <2>3 DEF Request
    <3>2. question \in Questions /\ question.page = i /\ question.what = "request"
      BY <2>3 DEF Questions
    <3> HIDE DEF question
    <3> QED BY <1>1, <1>3, <2>2, <3>1, <3>2 DEF GuiTypes
  <2>4. CASE ~(op \in {"Get", "Prepare"} /\ panels[i].dirty)
    BY <1>7, <2>1, <2>2, <2>4 DEF Request
  <2> QED BY <2>3, <2>4
<1>13. CASE "action" \in Pages /\ \E a \in activities : ChooseActivity(a) \/ CancelGoal(a)
  <2>1. PICK a \in activities : ChooseActivity(a) \/ CancelGoal(a)
    BY <1>13
  <2>2. CASE ChooseActivity(a)
    <3>1. chosen' \in Nat
      BY <1>1, <2>1, <2>2 DEF ChooseActivity, ShowActivity, Types, FormTypes, Goals
    <3> QED
      BY <1>1, <1>9, <2>2, <3>1
         DEF ChooseActivity, GuiTypes, AskingInv, Configuring, netVars, snapVars, formVars, hostVars
  <2>3. CASE CancelGoal(a)
    BY <1>1, <1>2, <1>9, <2>3 DEF CancelGoal, formVars, hostVars, listVars, GuiTypes, Same, Rest
  <2> QED BY <2>1, <2>2, <2>3
<1>14. CASE \E h \in Hosts \cup {Local} : ChangeHost(h)
  <2>1. PICK h \in Hosts \cup {Local} : ChangeHost(h)
    BY <1>14
  <2>2. combo' \in Hosts \cup {Local} /\ asking = NoQuestion
    BY <1>9, <2>1 DEF ChangeHost
  <2>3. CASE Dirty
    <3>1. [what |-> "host"] \in Questions
      BY DEF Questions
    <3> QED BY <1>3, <2>1, <2>2, <2>3, <3>1 DEF ChangeHost
  <2>4. CASE ~Dirty
    BY <1>8, <2>1, <2>2, <2>4 DEF ChangeHost
  <2> QED BY <2>3, <2>4
<1>15. CASE \E start \in BOOLEAN : Configure(start)
  <2>1. PICK start \in BOOLEAN : Configure(start)
    BY <1>15
  <2>2. UNCHANGED combo /\ asking = NoQuestion /\ ~Configuring
    BY <1>9, <2>1 DEF Configure
  <2>3. CASE Ask([what |-> "configure", start |-> start])
    <3>1. [what |-> "configure", start |-> start] \in Questions
      BY DEF Questions
    <3> QED BY <1>1, <1>3, <2>2, <2>3, <3>1 DEF GuiTypes
  <2>4. CASE ~Ask([what |-> "configure", start |-> start])
    BY <1>4, <2>1, <2>2, <2>4 DEF Configure
  <2> QED BY <2>3, <2>4
<1>16. CASE BeginClose
  <2>1. UNCHANGED combo /\ asking = NoQuestion
    BY <1>9, <1>16 DEF BeginClose
  <2>2. CASE Ask([what |-> "close"])
    <3>1. [what |-> "close"] \in Questions
      BY DEF Questions
    <3> QED BY <1>1, <1>3, <2>1, <2>2, <3>1 DEF GuiTypes
  <2>3. CASE Close /\ UNCHANGED asking
    BY <1>5, <2>1, <2>3
  <2>4. CASE ~Ask([what |-> "close"]) /\ ~Close
    BY <1>1, <1>16, <2>1, <2>4
       DEF BeginClose, GuiTypes, AskingInv, Configuring, netVars, snapVars, formVars, listVars
  <2> QED BY <1>16, <2>2, <2>3, <2>4 DEF BeginClose
<1>17. CASE AnswerDialog
  <2>1. asking' = NoQuestion
    BY <1>17 DEF AnswerDialog
  <2>2. CASE AnswerNo
    BY <1>1, <1>2, <2>1, <2>2 DEF AnswerNo, formVars, listVars, GuiTypes, Same, Rest
  <2>3. CASE AnswerYes
    <3>1. asking \in Questions /\ asking # NoQuestion /\ UNCHANGED combo /\ combo \in Hosts \cup {Local}
      BY <1>1, <2>3 DEF AnswerYes, GuiTypes
    <3>2. CASE asking.what = "select"
      BY <1>6, <2>1, <2>3, <3>1, <3>2 DEF AnswerYes
    <3>3. CASE asking.what = "request"
      BY <1>7, <2>1, <2>3, <3>1, <3>3 DEF AnswerYes
    <3>4. CASE asking.what = "host"
      BY <1>8, <2>1, <2>3, <3>1, <3>4 DEF AnswerYes
    <3>5. CASE asking.what = "configure"
      <4>1. asking.start \in BOOLEAN
        BY <3>1, <3>5 DEF Questions
      <4> QED BY <1>4, <2>1, <2>3, <3>1, <3>5, <4>1 DEF AnswerYes
    <3>6. CASE asking.what = "close"
      BY <1>5, <2>1, <2>3, <3>1, <3>6 DEF AnswerYes
    <3> QED BY <3>1, <3>2, <3>3, <3>4, <3>5, <3>6 DEF Questions
  <2> QED BY <1>17, <2>2, <2>3 DEF AnswerDialog
<1> QED
  BY <1>10, <1>11, <1>12, <1>13, <1>14, <1>15, <1>16, <1>17 DEF UserStep

LEMMA StepGui ==
  ASSUME TypeInv, [Next]_vars
  PROVE  GuiTypes' /\ AskingInv'
BY StepGuiBackground, StepGuiTick, StepGuiUser DEF Next

-----------------------------------------------------------------------------
(* One command per waiter.                                                 *)

(* The requests in flight are the same as to who asked for what.           *)
SameRequests ==
  /\ DOMAIN pending' = DOMAIN pending
  /\ \A k \in DOMAIN pending : /\ pending'[k].page = pending[k].page
                               /\ pending'[k].op = pending[k].op
                               /\ pending'[k].endpoint = pending[k].endpoint

LEMMA RevisedSame ==
  ASSUME TypeInv, NEW P, pending' = Revised(pending, P)
  PROVE  SameRequests
<1>1. \A k \in DOMAIN pending : pending[k] \in Requests
  BY ElementOfSeq, LenProperties DEF TypeInv, Types, FormTypes
<1> QED
  BY <1>1 DEF SameRequests, Revised, Requests

LEMMA RestartSame ==
  ASSUME TypeInv, Restart
  PROVE  SameRequests
<1>1. \A k \in DOMAIN pending : pending[k] \in Requests
  BY ElementOfSeq, LenProperties DEF TypeInv, Types, FormTypes
<1>2. PICK shutdown, start \in BOOLEAN : StartConfiguration(shutdown, start)
  BY DEF Restart
<1> QED
  BY <1>1, <1>2 DEF SameRequests, StartConfiguration, Requests

(* The new request of page i, after what Revised leaves of the others.     *)
SubmittedBy(i, c) ==
  /\ Len(pending) \in Nat /\ DOMAIN pending = 1..Len(pending)
  /\ DOMAIN pending' = 1..(Len(pending) + 1)
  /\ \A k \in DOMAIN pending : /\ pending'[k].page = pending[k].page
                               /\ pending'[k].op = pending[k].op
                               /\ pending'[k].endpoint = pending[k].endpoint
                               /\ pending'[k].same = pending[k].same
                               /\ pending'[k].unrevised => pending[k].unrevised
  /\ pending'[Len(pending) + 1] =
       [page |-> i, op |-> c.op, endpoint |-> c.endpoint, same |-> TRUE, unrevised |-> TRUE]

LEMMA SubmittedPointwise ==
  ASSUME TypeInv, NEW i \in Pages, NEW c \in Commands, c.op # "Poll",
         \/ pending' = Submitted(pending, i, c)
         \/ \E P : pending' = Submitted(Revised(pending, P), i, c)
  PROVE  SubmittedBy(i, c)
<1>1. /\ pending \in Seq(Requests) /\ Len(pending) \in Nat /\ DOMAIN pending = 1..Len(pending)
      /\ \A k \in DOMAIN pending : pending[k] \in Requests
  BY ElementOfSeq, LenProperties DEF TypeInv, Types, FormTypes
<1> DEFINE new == [page |-> i, op |-> c.op, endpoint |-> c.endpoint, same |-> TRUE, unrevised |-> TRUE]
<1>2. new \in Requests
  BY DEF Commands, Requests
<1>3. CASE pending' = Submitted(pending, i, c)
  <2>1. pending' = Append(pending, new)
    BY <1>3 DEF Submitted
  <2> HIDE DEF new
  <2>2. /\ DOMAIN pending' = 1..(Len(pending) + 1)
        /\ \A k \in DOMAIN pending : pending'[k] = pending[k]
        /\ pending'[Len(pending) + 1] = new
    BY <1>1, <1>2, <2>1, AppendedTo
  <2> QED BY <1>1, <2>2 DEF SubmittedBy, new
<1>4. ASSUME NEW P, pending' = Submitted(Revised(pending, P), i, c) PROVE SubmittedBy(i, c)
  <2> DEFINE s == Revised(pending, P)
  <2>1. pending' = Append(s, new)
    BY <1>4 DEF Submitted
  <2>2. s \in Seq(Requests) /\ DOMAIN s = DOMAIN pending /\ Len(s) = Len(pending)
    <3>1. s \in Seq(Requests) /\ DOMAIN s = DOMAIN pending
      BY <1>1, RevisedRequests
    <3>2. DOMAIN s = 1..Len(s) /\ Len(s) \in Nat
      BY <3>1, LenProperties
    <3> QED BY <1>1, <3>1, <3>2
  <2>3. \A k \in DOMAIN pending : /\ s[k].page = pending[k].page
                                  /\ s[k].op = pending[k].op
                                  /\ s[k].endpoint = pending[k].endpoint
                                  /\ s[k].same = pending[k].same
                                  /\ s[k].unrevised => pending[k].unrevised
    BY <1>1 DEF Revised, Requests
  <2> HIDE DEF new, s
  <2>4. /\ DOMAIN pending' = 1..(Len(pending) + 1)
        /\ \A k \in DOMAIN s : pending'[k] = s[k]
        /\ pending'[Len(pending) + 1] = new
    BY <1>2, <2>1, <2>2, AppendedTo
  <2> QED BY <1>1, <2>2, <2>3, <2>4 DEF SubmittedBy, new
<1> QED
  BY <1>3, <1>4

LEMMA NamesApart ==
  /\ "poll" \notin Pages /\ "cleanup" \notin Waiters /\ "poll" \in Waiters /\ Pages \subseteq Waiters
BY RuntimeAssumption DEF PageNames, Waiters

(* A command nobody waits for joins the queue, or none does.               *)
LEMMA CleanupKeepsOne ==
  ASSUME TypeInv, NEW h \in Nat, SameRequests, UNCHANGED polling,
         \/ Send(Command("cleanup", "Unsubscribe", Nothing, h))
         \/ UNCHANGED <<inbox, futures>>
  PROVE  OneCommandEach'
<1> DEFINE c == Command("cleanup", "Unsubscribe", Nothing, h)
<1>1. OneCommandEach /\ inbox \in Seq(Commands)
  BY DEF TypeInv, Types, RuntimeTypes
<1>2. c \in Commands /\ c.from = "cleanup" /\ c.op = "Unsubscribe"
  BY CommandTypes DEF Command, Senders, Ops, EndpointOrNone
<1>3. OnePerPage' /\ \A i \in Pages : Busy(i)' <=> Busy(i)
  BY <1>1 DEF OneCommandEach, OnePerPage, SameRequests, Busy
<1> HIDE DEF c
<1>4. futures' = futures /\ (inbox' = inbox \/ inbox' = Append(inbox, c))
  BY <1>2, NamesApart DEF Send, Answer, c
<1>5. CASE inbox' = inbox
  BY <1>1, <1>3, <1>4, <1>5
     DEF OneCommandEach, OnePerWaiter, Purposes, QueuedOrAnswered, AnswersExpected, SameRequests
<1>6. CASE inbox' = Append(inbox, c)
  <2>1. /\ Len(inbox) \in Nat /\ DOMAIN inbox = 1..Len(inbox) /\ DOMAIN inbox' = 1..(Len(inbox) + 1)
        /\ \A k \in DOMAIN inbox : inbox'[k] = inbox[k]
        /\ inbox'[Len(inbox) + 1] = c
    BY <1>1, <1>2, <1>6, AppendedTo
  <2>2. \A k \in DOMAIN inbox' : k \in DOMAIN inbox \/ inbox'[k] = c
    BY <2>1
  <2>3. OnePerWaiter'
    BY <1>1, <1>2, <2>1, <2>2, NamesApart DEF OneCommandEach, OnePerWaiter
  <2>4. Purposes'
    <3>1. c.from # "poll" /\ c.from \notin Pages
      BY <1>2, NamesApart
    <3> QED BY <1>1, <1>2, <2>1, <2>2, <3>1 DEF OneCommandEach, Purposes, SameRequests
  <2>5. QueuedOrAnswered'
    BY <1>1, <1>2, <1>4, <2>1, <2>2, NamesApart DEF OneCommandEach, QueuedOrAnswered
  <2>6. AnswersExpected'
    BY <1>1, <1>3, <1>4 DEF OneCommandEach, AnswersExpected
  <2> QED BY <1>3, <2>3, <2>4, <2>5, <2>6 DEF OneCommandEach
<1> QED
  BY <1>4, <1>5, <1>6

(* A page that was free submits a command.                                 *)
LEMMA SubmitKeepsOne ==
  ASSUME TypeInv, NEW i \in Pages, NEW c \in Commands, c.from = i, c.op # "Poll", ~Busy(i),
         Send(c), SubmittedBy(i, c), UNCHANGED polling
  PROVE  OneCommandEach'
<1>1. OneCommandEach /\ inbox \in Seq(Commands) /\ futures \in [Waiters -> Replies]
  BY DEF TypeInv, Types, RuntimeTypes
<1>2. \A k \in DOMAIN inbox : inbox[k].from # i
  BY <1>1 DEF OneCommandEach, Purposes, Busy
<1>3. futures[i] = Unready /\ i \in Waiters /\ i # "poll" /\ i # "cleanup"
  BY <1>1, NamesApart DEF OneCommandEach, AnswersExpected
<1>4. OnePerPage' /\ \A j \in Pages : Busy(j)' <=> Busy(j) \/ j = i
  BY <1>1 DEF OneCommandEach, OnePerPage, SubmittedBy, Busy
<1>5. CASE inbox' = inbox /\ futures' = [futures EXCEPT ![i] = Failed]
  <2>1. OnePerWaiter'
    BY <1>1, <1>5 DEF OneCommandEach, OnePerWaiter
  <2>2. Purposes'
    BY <1>1, <1>5 DEF OneCommandEach, Purposes, SubmittedBy
  <2>3. QueuedOrAnswered'
    BY <1>1, <1>2, <1>5 DEF OneCommandEach, QueuedOrAnswered
  <2>4. AnswersExpected'
    BY <1>1, <1>3, <1>4, <1>5 DEF OneCommandEach, AnswersExpected
  <2> QED BY <1>4, <2>1, <2>2, <2>3, <2>4 DEF OneCommandEach
<1>6. CASE inbox' = Append(inbox, c) /\ futures' = futures
  <2>1. /\ Len(inbox) \in Nat /\ DOMAIN inbox = 1..Len(inbox) /\ DOMAIN inbox' = 1..(Len(inbox) + 1)
        /\ \A k \in DOMAIN inbox : inbox'[k] = inbox[k]
        /\ inbox'[Len(inbox) + 1] = c
    BY <1>1, <1>6, AppendedTo
  <2>2. \A k \in DOMAIN inbox' : k \in DOMAIN inbox \/ (k = Len(inbox) + 1 /\ inbox'[k] = c)
    BY <2>1
  <2>3. OnePerWaiter'
    BY <1>1, <1>2, <2>1, <2>2 DEF OneCommandEach, OnePerWaiter
  <2>4. Purposes'
    <3>1. \A k \in DOMAIN inbox :
            inbox'[k].from \in Pages =>
              \E l \in DOMAIN pending' : /\ pending'[l].page = inbox'[k].from
                                         /\ pending'[l].op = inbox'[k].op
                                         /\ pending'[l].endpoint = inbox'[k].endpoint
      BY <1>1, <2>1 DEF OneCommandEach, Purposes, SubmittedBy
    <3>2. \E l \in DOMAIN pending' : /\ pending'[l].page = c.from
                                     /\ pending'[l].op = c.op
                                     /\ pending'[l].endpoint = c.endpoint
      <4>1. Len(pending) + 1 \in DOMAIN pending'
        BY DEF SubmittedBy
      <4> QED BY <4>1 DEF SubmittedBy
    <3> QED BY <1>1, <1>3, <2>1, <2>2, <3>1, <3>2 DEF OneCommandEach, Purposes
  <2>5. QueuedOrAnswered'
    BY <1>1, <1>3, <1>6, <2>1, <2>2 DEF OneCommandEach, QueuedOrAnswered
  <2>6. AnswersExpected'
    BY <1>1, <1>4, <1>6 DEF OneCommandEach, AnswersExpected
  <2> QED BY <1>4, <2>3, <2>4, <2>5, <2>6 DEF OneCommandEach
<1> QED
  BY <1>3, <1>5, <1>6 DEF Send, Answer

LEMMA ExecuteKeepsOne ==
  ASSUME TypeInv, Execute, UNCHANGED workspaceVars
  PROVE  OneCommandEach'
<1>1. OneCommandEach /\ inbox \in Seq(Commands) /\ futures \in [Waiters -> Replies]
  BY DEF TypeInv, Types, RuntimeTypes
<1> DEFINE c == Head(inbox)
<1>2. /\ inbox # <<>> /\ inbox' = Tail(inbox) /\ c \in Commands /\ c = inbox[1] /\ 1 \in DOMAIN inbox
      /\ \A k \in DOMAIN inbox' : k + 1 \in DOMAIN inbox /\ inbox'[k] = inbox[k + 1] /\ k \in Nat /\ k + 1 # 1
  BY <1>1, Executed, TailOf
<1>3. PICK r : Executes(c, r)
  BY Executed
<1> HIDE DEF c
<1>4. futures' = IF c.from \in Waiters THEN [futures EXCEPT ![c.from] = r] ELSE futures
  BY <1>3 DEF Executes
<1>5. pending' = pending /\ polling' = polling
  BY DEF workspaceVars
<1>6. OnePerPage'
  BY <1>1, <1>5 DEF OneCommandEach, OnePerPage
<1>7. OnePerWaiter'
  <2>1. \A k, l \in DOMAIN inbox' : k + 1 = l + 1 => k = l
    BY <1>2
  <2> QED BY <1>1, <1>2, <2>1 DEF OneCommandEach, OnePerWaiter
<1>8. Purposes'
  BY <1>1, <1>2, <1>5 DEF OneCommandEach, Purposes
<1>9. QueuedOrAnswered'
  <2>1. \A k \in DOMAIN inbox' : inbox'[k].from \in Waiters => inbox'[k].from # c.from
    BY <1>1, <1>2 DEF OneCommandEach, OnePerWaiter
  <2> QED BY <1>1, <1>2, <1>4, <2>1 DEF OneCommandEach, QueuedOrAnswered
<1>10. AnswersExpected'
  <2>1. c.from = "poll" => polling.valid
    BY <1>1, <1>2 DEF OneCommandEach, Purposes
  <2>2. c.from \in Pages => Busy(c.from)
    BY <1>1, <1>2 DEF OneCommandEach, Purposes, Busy
  <2>3. \A w \in Waiters : w # c.from => futures'[w] = futures[w]
    BY <1>1, <1>4
  <2> QED BY <1>1, <1>5, <2>1, <2>2, <2>3, NamesApart DEF OneCommandEach, AnswersExpected, Busy
<1> QED
  BY <1>6, <1>7, <1>8, <1>9, <1>10 DEF OneCommandEach

LEMMA ReplaceKeepsOne ==
  ASSUME TypeInv, ReplaceNetwork
  PROVE  OneCommandEach'
<1>1. OneCommandEach /\ inbox \in Seq(Commands) /\ futures \in [Waiters -> Replies]
  BY DEF TypeInv, Types, RuntimeTypes
<1>2. /\ pending' = pending /\ polling' = polling /\ inbox' = <<>>
      /\ futures' = [w \in Waiters |->
                       IF \E k \in DOMAIN inbox : inbox[k].from = w THEN Failed ELSE futures[w]]
  BY DEF ReplaceNetwork
<1>3. OnePerPage' /\ OnePerWaiter' /\ Purposes' /\ QueuedOrAnswered'
  BY <1>1, <1>2 DEF OneCommandEach, OnePerPage, OnePerWaiter, Purposes, QueuedOrAnswered
<1>4. AnswersExpected'
  <2>1. \A w \in Waiters : futures'[w] = futures[w] \/ \E k \in DOMAIN inbox : inbox[k].from = w
    BY <1>2
  <2>2. \A k \in DOMAIN inbox : /\ inbox[k].from = "poll" => polling.valid
                                /\ inbox[k].from \in Pages => Busy(inbox[k].from)
    BY <1>1 DEF OneCommandEach, Purposes, Busy
  <2> QED BY <1>1, <1>2, <2>1, <2>2, NamesApart DEF OneCommandEach, AnswersExpected, Busy
<1> QED
  BY <1>3, <1>4 DEF OneCommandEach

(* What is left of the requests when that of gui.next is forgotten.        *)
LEMMA ForgottenPointwise ==
  ASSUME TypeInv, NEW k \in DOMAIN pending, pending' = Forget(k)
  PROVE  /\ \A j \in DOMAIN pending' : \E l \in DOMAIN pending :
              l # k /\ pending'[j] = pending[l] /\ pending[l].page # pending[k].page
         /\ OnePerPage'
<1>1. pending \in Seq(Requests) /\ OnePerPage
  BY DEF TypeInv, Types, FormTypes, OneCommandEach
<1>2. \A j \in DOMAIN pending' :
        LET l == IF j < k THEN j ELSE j + 1
        IN l \in DOMAIN pending /\ l # k /\ pending'[j] = pending[l] /\ j \in Nat
  BY <1>1, Forgotten
<1>3. k \in Nat
  BY <1>1, Forgotten
<1>4. OnePerPage'
  <2> SUFFICES ASSUME NEW j \in DOMAIN pending', NEW m \in DOMAIN pending',
                      pending'[j].page = pending'[m].page
               PROVE  j = m
    BY DEF OnePerPage
  <2>1. (IF j < k THEN j ELSE j + 1) = (IF m < k THEN m ELSE m + 1)
    BY <1>1, <1>2 DEF OnePerPage
  <2> QED BY <1>2, <1>3, <2>1
<1> QED
  BY <1>1, <1>2, <1>4 DEF OnePerPage

LEMMA VisitKeepsOne ==
  ASSUME TypeInv, VisitReply
  PROVE  OneCommandEach'
<1> DEFINE k == gui.next
           q == pending[k]
           r == futures[q.page]
<1>1. /\ OneCommandEach /\ inbox \in Seq(Commands) /\ futures \in [Waiters -> Replies]
      /\ pending \in Seq(Requests) /\ polling' = polling
  BY DEF TypeInv, Types, RuntimeTypes, FormTypes, VisitReply
<1>2. k \in DOMAIN pending /\ q \in Requests /\ q.page \in Pages
  <2>1. k \in DOMAIN pending /\ q \in Requests
    BY <1>1, ElementOfSeq, LenProperties DEF VisitReply
  <2> QED BY <2>1 DEF Requests
<1>3. CASE UNCHANGED <<inbox, futures, panels, pending, activities>>
  BY <1>1, <1>3
     DEF OneCommandEach, OnePerPage, OnePerWaiter, Purposes, QueuedOrAnswered, AnswersExpected, Busy
<1>4. CASE /\ r # Unready
           /\ futures' = [futures EXCEPT ![q.page] = Unready]
           /\ pending' = Forget(k)
           /\ GiveUpOrphan(q, r)
  <2> DEFINE c == Command("cleanup", "Unsubscribe", Nothing, r.handle)
  <2>1. /\ OnePerPage'
        /\ \A j \in DOMAIN pending' : \E l \in DOMAIN pending :
             l # k /\ pending'[j] = pending[l] /\ pending[l].page # q.page
    BY <1>2, <1>4, ForgottenPointwise
  <2>2. \A l \in DOMAIN pending : l # k => \E j \in DOMAIN pending' : pending'[j] = pending[l]
    <3>1. /\ DOMAIN pending = 1..Len(pending) /\ Len(pending) \in Nat /\ k \in 1..Len(pending)
          /\ \A j \in DOMAIN pending' :
               pending'[j] = pending[IF j < k THEN j ELSE j + 1]
          /\ DOMAIN pending' = 1..(Len(pending) - 1)
      <4>1. DOMAIN pending = 1..Len(pending) /\ Len(pending) \in Nat
        BY <1>1, LenProperties
      <4>2. \A j \in DOMAIN pending' : pending'[j] = pending[IF j < k THEN j ELSE j + 1]
        BY <1>1, <1>2, <1>4, Forgotten
      <4>3. DOMAIN pending' = 1..(Len(pending) - 1)
        BY <1>1, <1>2, <1>4, Forgotten
      <4> QED BY <1>2, <4>1, <4>2, <4>3
    <3> SUFFICES ASSUME NEW l \in DOMAIN pending, l # k
                 PROVE  \E j \in DOMAIN pending' : pending'[j] = pending[l]
      OBVIOUS
    <3>2. CASE l < k
      BY <3>1, <3>2
    <3>3. CASE ~(l < k)
      <4>1. l - 1 \in DOMAIN pending' /\ ~(l - 1 < k) /\ (l - 1) + 1 = l
        BY <3>1, <3>3
      <4> QED BY <3>1, <4>1
    <3> QED BY <3>2, <3>3
  <2>3. \A l \in DOMAIN inbox : inbox[l].from # q.page
    BY <1>1, <1>2, <1>4, NamesApart DEF OneCommandEach, QueuedOrAnswered
  <2>4. c.from = "cleanup" /\ c.op = "Unsubscribe" /\ c \in Commands
    <3>1. r.handle \in Nat
      BY <1>1, <1>2, NamesApart DEF Replies
    <3> QED BY <3>1, CommandTypes DEF Command, Senders, Ops, EndpointOrNone
  <2>5. inbox' = inbox \/ inbox' = Append(inbox, c)
    BY <1>4 DEF GiveUpOrphan
  <2> HIDE DEF c, q
  <2>6. /\ Len(inbox) \in Nat /\ DOMAIN inbox = 1..Len(inbox)
        /\ \A j \in DOMAIN inbox' : (j \in DOMAIN inbox /\ inbox'[j] = inbox[j]) \/ inbox'[j] = c
    <3>1. Len(inbox) \in Nat /\ DOMAIN inbox = 1..Len(inbox)
      BY <1>1, LenProperties
    <3>2. inbox' = Append(inbox, c) =>
            /\ DOMAIN inbox' = 1..(Len(inbox) + 1)
            /\ \A j \in DOMAIN inbox : inbox'[j] = inbox[j]
            /\ inbox'[Len(inbox) + 1] = c
      BY <1>1, <2>4, AppendedTo
    <3> QED BY <2>5, <3>1, <3>2
  <2>7. OnePerWaiter'
    BY <1>1, <2>4, <2>6, NamesApart DEF OneCommandEach, OnePerWaiter
  <2>8. Purposes'
    <3>1. c.from # "poll" /\ c.from \notin Pages
      BY <2>4, NamesApart
    <3>2. ASSUME NEW j \in DOMAIN inbox, inbox[j].from \in Pages
          PROVE  \E l \in DOMAIN pending' : /\ pending'[l].page = inbox[j].from
                                            /\ pending'[l].op = inbox[j].op
                                            /\ pending'[l].endpoint = inbox[j].endpoint
      <4>1. PICK l \in DOMAIN pending : /\ pending[l].page = inbox[j].from
                                        /\ pending[l].op = inbox[j].op
                                        /\ pending[l].endpoint = inbox[j].endpoint
        BY <1>1, <3>2 DEF OneCommandEach, Purposes
      <4>2. l # k
        BY <2>3, <4>1 DEF q
      <4> QED BY <2>2, <4>1, <4>2
    <3> QED BY <1>1, <2>4, <2>6, <3>1, <3>2 DEF OneCommandEach, Purposes
  <2>9. QueuedOrAnswered'
    BY <1>1, <1>4, <2>3, <2>4, <2>6, NamesApart DEF OneCommandEach, QueuedOrAnswered
  <2>10. AnswersExpected'
    <3>1. \A i \in Pages : Busy(i) /\ i # q.page => Busy(i)'
      BY <2>2 DEF Busy, q
    <3> QED BY <1>1, <1>2, <1>4, <3>1, NamesApart DEF OneCommandEach, AnswersExpected
  <2> QED BY <2>1, <2>7, <2>8, <2>9, <2>10 DEF OneCommandEach
<1> QED
  BY <1>3, <1>4 DEF VisitReply

LEMMA PollKeepsOne ==
  ASSUME TypeInv, TickEnds
  PROVE  OneCommandEach'
<1> DEFINE ready == polling.valid /\ futures["poll"] # Unready
           asks == /\ gui.due /\ (ready \/ ~polling.valid) /\ status = "up"
                   /\ ~Configuring /\ closing = "no"
           left == IF ready THEN [futures EXCEPT !["poll"] = Unready] ELSE futures
           c == Command("poll", "Poll", Nothing, 0)
<1>1. OneCommandEach /\ inbox \in Seq(Commands) /\ futures \in [Waiters -> Replies] /\ pending' = pending
  BY DEF TypeInv, Types, RuntimeTypes, TickEnds
<1>2. /\ polling' = IF asks THEN [valid |-> TRUE, same |-> TRUE] ELSE IF ready THEN NoPoll ELSE polling
      /\ inbox' = IF asks /\ Accepts THEN Append(inbox, c) ELSE inbox
      /\ futures' = IF asks /\ ~Accepts THEN [left EXCEPT !["poll"] = Failed] ELSE left
  BY DEF TickEnds, SubmitPoll
<1>3. c \in Commands /\ c.from = "poll" /\ c.op = "Poll"
  BY CommandTypes, NamesApart DEF Command, Senders, Ops, EndpointOrNone
<1>4. ready \/ ~polling.valid => \A k \in DOMAIN inbox : inbox[k].from # "poll"
  BY <1>1, NamesApart DEF OneCommandEach, QueuedOrAnswered, Purposes
<1>5. \A w \in Waiters : w # "poll" => futures'[w] = futures[w]
  BY <1>1, <1>2
<1>6. asks => polling'.valid /\ (ready \/ ~polling.valid) /\ (inbox' = Append(inbox, c) => futures'["poll"] = Unready)
  <2>1. asks /\ Accepts => futures'["poll"] = Unready
    BY <1>1, <1>2, NamesApart DEF OneCommandEach, AnswersExpected
  <2>2. asks /\ ~Accepts => inbox' = inbox /\ inbox # Append(inbox, c)
    BY <1>1, <1>2, <1>3, AppendedTo
  <2> QED BY <1>2, <2>1, <2>2
<1>7. ~asks => /\ inbox' = inbox
               /\ ready => futures'["poll"] = Unready
               /\ ~ready => futures' = futures /\ polling' = polling
  BY <1>1, <1>2, NamesApart
<1> HIDE DEF asks, ready, left, c
<1>8. OnePerPage' /\ \A i \in Pages : Busy(i)' <=> Busy(i)
  BY <1>1 DEF OneCommandEach, OnePerPage, Busy
<1>9. CASE inbox' = inbox
  <2>1. OnePerWaiter' /\ Purposes'
    <3>1. OnePerWaiter'
      BY <1>1, <1>9 DEF OneCommandEach, OnePerWaiter
    <3>2. \A k \in DOMAIN inbox : inbox[k].from = "poll" => polling'.valid
      BY <1>1, <1>4, <1>6, <1>7 DEF OneCommandEach, Purposes
    <3> QED BY <1>1, <1>9, <3>1, <3>2 DEF OneCommandEach, Purposes
  <2>2. QueuedOrAnswered'
    <3>1. \A k \in DOMAIN inbox : inbox[k].from = "poll" => ~ready /\ ~asks
      BY <1>4, <1>6
    <3> QED BY <1>1, <1>5, <1>7, <1>9, <3>1 DEF OneCommandEach, QueuedOrAnswered
  <2>3. AnswersExpected'
    <3>1. futures'["poll"] # Unready => polling'.valid
      BY <1>1, <1>6, <1>7 DEF OneCommandEach, AnswersExpected
    <3> QED BY <1>1, <1>5, <1>8, <3>1, NamesApart DEF OneCommandEach, AnswersExpected
  <2> QED BY <1>8, <2>1, <2>2, <2>3 DEF OneCommandEach
<1>10. CASE asks /\ inbox' = Append(inbox, c)
  <2>1. /\ Len(inbox) \in Nat /\ DOMAIN inbox = 1..Len(inbox) /\ DOMAIN inbox' = 1..(Len(inbox) + 1)
        /\ \A k \in DOMAIN inbox : inbox'[k] = inbox[k]
        /\ inbox'[Len(inbox) + 1] = c
    BY <1>1, <1>3, <1>10, AppendedTo
  <2>2. \A k \in DOMAIN inbox' : k \in DOMAIN inbox \/ (k = Len(inbox) + 1 /\ inbox'[k] = c)
    BY <2>1
  <2>3. polling'.valid /\ futures'["poll"] = Unready /\ \A k \in DOMAIN inbox : inbox[k].from # "poll"
    BY <1>4, <1>6, <1>10
  <2>4. OnePerWaiter'
    BY <1>1, <1>3, <2>1, <2>2, <2>3 DEF OneCommandEach, OnePerWaiter
  <2>5. Purposes'
    BY <1>1, <1>3, <2>1, <2>2, <2>3, NamesApart DEF OneCommandEach, Purposes
  <2>6. QueuedOrAnswered'
    BY <1>1, <1>3, <1>5, <2>1, <2>2, <2>3 DEF OneCommandEach, QueuedOrAnswered
  <2>7. AnswersExpected'
    BY <1>1, <1>5, <1>8, <2>3, NamesApart DEF OneCommandEach, AnswersExpected
  <2> QED BY <1>8, <2>4, <2>5, <2>6, <2>7 DEF OneCommandEach
<1> QED
  BY <1>2, <1>9, <1>10

LEMMA StepOne ==
  ASSUME TypeInv, StepOf
  PROVE  OneCommandEach'
<1>1. ASSUME UNCHANGED <<inbox, futures, polling>>, SameRequests PROVE OneCommandEach'
  BY <1>1, CleanupKeepsOne
<1>2. ASSUME pending' = pending PROVE SameRequests
  BY <1>2 DEF SameRequests
<1>3. panels \in [Pages -> Panels]
  BY DEF TypeInv, Types, FormTypes
<1>4. CASE Execute /\ UNCHANGED workspaceVars
  BY <1>4, ExecuteKeepsOne
<1>5. CASE (DiscoveryChanges \/ ActionFinishes) /\ UNCHANGED workspaceVars
  BY <1>1, <1>2, <1>5 DEF DiscoveryChanges, ActionFinishes, workspaceVars
<1>6. CASE TakeNetwork \/ ObserverUp
  BY <1>1, <1>2, <1>6 DEF TakeNetwork, ObserverUp, runtimeVars
<1>7. CASE ReplaceNetwork
  BY <1>7, ReplaceKeepsOne
<1>8. CASE ReadSnapshot
  <2>1. PICK P : pending' = Revised(pending, P)
    BY <1>8 DEF ReadSnapshot
  <2>2. SameRequests
    BY <2>1, RevisedSame
  <2> QED BY <1>1, <1>8, <2>2 DEF ReadSnapshot, runtimeVars
<1>9. CASE VisitReply
  BY <1>9, VisitKeepsOne
<1>10. CASE TickEnds
  BY <1>10, PollKeepsOne
<1>11. CASE Quiet
  BY <1>1, <1>2, <1>11 DEF Quiet, runtimeVars
<1>12. CASE Restart
  <2>1. SameRequests /\ UNCHANGED <<inbox, futures>>
    BY <1>12, RestartSame DEF Restart, runtimeVars
  <2>2. polling'.valid = polling.valid
    BY <1>12 DEF Restart, StartConfiguration, TypeInv, Types, GuiTypes
  <2>3. OneCommandEach
    BY DEF TypeInv
  <2> QED
    BY <2>1, <2>2, <2>3
       DEF OneCommandEach, OnePerPage, OnePerWaiter, Purposes, QueuedOrAnswered, AnswersExpected,
           SameRequests, Busy
<1>13. CASE \E i \in Pages : Edit(i)
  BY <1>1, <1>2, <1>13 DEF Edit, runtimeVars
<1>14. CASE \E i \in Pages, e \in Endpoints : SelectEndpoint(i, e)
  <2>1. PICK i \in Pages, e \in Endpoints : SelectEndpoint(i, e)
    BY <1>14
  <2> DEFINE fetch == Command(i, Fetch(i), e, 0)
             held == panels[i].subscription
             cleanup == Command("cleanup", "Unsubscribe", Nothing, held)
  <2>2. CASE Send(fetch) /\ ~Busy(i) /\ pending' = Submitted(Revised(pending, {i}), i, fetch)
    <3>1. fetch \in Commands /\ fetch.from = i /\ fetch.op # "Poll"
      BY CommandTypes DEF Command, Fetch, Ops, EndpointOrNone, Senders, Waiters
    <3> HIDE DEF fetch
    <3>2. SubmittedBy(i, fetch)
      BY <2>2, <3>1, SubmittedPointwise
    <3> QED BY <2>1, <2>2, <3>1, <3>2, SubmitKeepsOne DEF SelectEndpoint
  <2>3. CASE pending' = Revised(pending, {i}) /\ (Send(cleanup) \/ UNCHANGED <<inbox, futures>>)
    <3>1. SameRequests /\ held \in Nat
      BY <1>3, <2>3, RevisedSame DEF Panels
    <3> HIDE DEF held
    <3> QED BY <2>1, <2>3, <3>1, CleanupKeepsOne DEF SelectEndpoint
  <2> QED BY <2>1, <2>2, <2>3 DEF SelectEndpoint
<1>15. CASE \E i \in Pages, op \in Ops : Asked(i, op)
  <2>1. PICK i \in Pages, op \in Ops : Asked(i, op)
    BY <1>15
  <2> DEFINE c == Command(i, op, panels[i].selected, panels[i].subscription)
  <2>2. c \in Commands /\ c.from = i /\ c.op # "Poll"
    BY <1>3, <2>1, CommandTypes DEF Asked, Command, Panels, Senders, Waiters
  <2>3. Send(c) /\ pending' = Submitted(pending, i, c) /\ ~Busy(i) /\ UNCHANGED polling
    BY <2>1 DEF Asked, SendRequest
  <2> HIDE DEF c
  <2>4. SubmittedBy(i, c)
    BY <2>2, <2>3, SubmittedPointwise
  <2> QED BY <2>2, <2>3, <2>4, SubmitKeepsOne
<1>16. CASE \E a \in activities : "action" \in Pages /\ CancelGoal(a)
  <2>1. PICK a \in activities : "action" \in Pages /\ CancelGoal(a)
    BY <1>16
  <2> DEFINE c == Command("action", "Cancel", a.endpoint, a.handle)
  <2>2. c \in Commands /\ c.from = "action" /\ c.op # "Poll"
    BY <2>1, CommandTypes
       DEF Command, TypeInv, Types, FormTypes, Goals, Senders, Waiters, Ops, EndpointOrNone
  <2>3. Send(c) /\ pending' = Submitted(pending, "action", c) /\ ~Busy("action") /\ UNCHANGED polling
    BY <2>1 DEF CancelGoal
  <2> HIDE DEF c
  <2>4. SubmittedBy("action", c)
    BY <2>1, <2>2, <2>3, SubmittedPointwise
  <2> QED BY <2>1, <2>2, <2>3, <2>4, SubmitKeepsOne
<1>17. CASE \E h \in Hosts \cup {Local} : ShowHost(h)
  <2>1. PICK h \in Hosts \cup {Local} : ShowHost(h)
    BY <1>17
  <2> DEFINE held == IF "topic" \in Pages THEN panels["topic"].subscription ELSE 0
  <2>2. /\ Send(Command("cleanup", "Unsubscribe", Nothing, held)) \/ UNCHANGED <<inbox, futures>>
        /\ pending' = Revised(pending, Pages) /\ UNCHANGED polling
    BY <2>1 DEF ShowHost
  <2>3. held \in Nat
    BY <1>3 DEF Panels
  <2> HIDE DEF held
  <2> QED BY <2>2, <2>3, RevisedSame, CleanupKeepsOne
<1>18. CASE \E h : Shown(h)
  BY <1>1, <1>2, <1>18 DEF Shown, runtimeVars
<1> QED
  BY <1>4, <1>5, <1>6, <1>7, <1>8, <1>9, <1>10, <1>11, <1>12, <1>13, <1>14, <1>15, <1>16, <1>17,
     <1>18 DEF StepOf

-----------------------------------------------------------------------------
(* Handles.                                                                *)

LEMMA ShowActivityHandles ==
  ASSUME NEW list, list \subseteq Goals, NEW h, ShowActivity(list, h)
  PROVE  \A a \in activities' : \E b \in list :
           /\ a.handle = b.handle /\ a.terminal = b.terminal /\ a.unknown = b.unknown
           /\ a.endpoint = b.endpoint /\ (b.lost => a.lost)
BY DEF ShowActivity, Goals

LEMMA ExecuteKeepsHandles ==
  ASSUME TypeInv, Execute, UNCHANGED workspaceVars
  PROVE  HandlesInv'
<1>1. /\ OneCommandEach /\ HandlesInv /\ inbox \in Seq(Commands) /\ futures \in [Waiters -> Replies]
      /\ pending \in Seq(Requests)
      /\ nextHandle \in Nat /\ live \subseteq Endpoints /\ floor \in Nat /\ chosen \in Nat
      /\ subscriptions \subseteq Entries /\ actions \subseteq Entries
      /\ finished \subseteq Nat /\ acked \subseteq Nat
      /\ panels \in [Pages -> Panels] /\ activities \subseteq Goals
  BY DEF TypeInv, Types, RuntimeTypes, FormTypes, GuiTypes
<1> DEFINE c == Head(inbox)
<1>2. /\ inbox # <<>> /\ inbox' = Tail(inbox) /\ c \in Commands /\ c = inbox[1] /\ 1 \in DOMAIN inbox
      /\ \A k \in DOMAIN inbox' : k + 1 \in DOMAIN inbox /\ inbox'[k] = inbox[k + 1]
  BY <1>1, Executed, TailOf
<1>3. (\A k \in DOMAIN inbox : inbox[k] \in Commands) /\ \A k \in DOMAIN pending : pending[k] \in Requests
  BY <1>1, ElementOfSeq, LenProperties
<1>4. PICK r : Executes(c, r)
  BY Executed
<1>5. finished' = finished /\ live' = live
  BY Executed
<1> HIDE DEF c
<1>6. /\ nextHandle' \in Nat /\ nextHandle <= nextHandle'
      /\ r.handle \in Nat /\ r.handle < nextHandle'
  BY <1>1, <1>4 DEF Executes, HandlesInv, GivenOut
<1>7. \A v \in r.activities : v.handle \in Nat /\ 0 < v.handle /\ v.handle < nextHandle
  <2>1. r.activities \in {{}, Activities}
    BY <1>4 DEF Executes
  <2>2. \A v \in Activities : v.handle \in Handles(actions) \cup Handles(subscriptions)
    BY DEF Activities, Handles
  <2>3. Handles(actions) \cup Handles(subscriptions) \subseteq Nat
    BY <1>1 DEF Handles, Entries
  <2> QED BY <1>1, <2>1, <2>2, <2>3 DEF HandlesInv, GivenOut
<1>8. \A h \in Handles(subscriptions') \cup Handles(actions') :
        h \in Handles(subscriptions) \cup Handles(actions) \/ (h = nextHandle /\ nextHandle' = nextHandle + 1)
  BY <1>4 DEF Executes, Handles, Unsubscribed
<1>9. \A h \in acked' : h \in acked \cup Handles(actions)
  BY <1>4 DEF Executes
<1>10. \A w \in Waiters : futures'[w] = futures[w] \/ (w = c.from /\ futures'[w] = r)
  BY <1>1, <1>4 DEF Executes
<1>11. UNCHANGED <<floor, chosen, panels, activities, pending>>
  BY DEF workspaceVars, netVars, listVars, formVars
<1>12. /\ Handles(subscriptions) \subseteq Nat /\ Handles(actions) \subseteq Nat
       /\ \A w \in Waiters : futures[w].handle \in Nat /\ \A v \in futures[w].activities : v.handle \in Nat
       /\ \A k \in DOMAIN inbox : inbox[k].handle \in Nat
       /\ \A i \in Pages : panels[i].subscription \in Nat /\ panels[i].output \in Nat
       /\ \A a \in activities : a.handle \in Nat
  BY <1>1, <1>3 DEF Handles, Entries, Replies, Reports, Commands, Panels, Goals
<1>13. GivenOut'
  <2>1. nextHandle' > 0 /\ floor' > 0 /\ floor' <= nextHandle'
    BY <1>1, <1>6, <1>11 DEF HandlesInv, GivenOut
  <2>2. \A h \in Handles(subscriptions') \cup Handles(actions') : 0 < h /\ h < nextHandle'
    <3>1. \A h \in Handles(subscriptions) \cup Handles(actions) : h \in Nat /\ 0 < h /\ h < nextHandle
      BY <1>1, <1>12 DEF HandlesInv, GivenOut
    <3>2. 0 < nextHandle
      BY <1>1 DEF HandlesInv, GivenOut
    <3> QED BY <1>1, <1>6, <1>8, <3>1, <3>2
  <2>3. \A h \in finished' \cup acked' : 0 < h /\ h < nextHandle'
    <3>1. \A h \in finished \cup acked \cup Handles(actions) : h \in Nat /\ 0 < h /\ h < nextHandle
      BY <1>1, <1>12 DEF HandlesInv, GivenOut
    <3> QED BY <1>1, <1>5, <1>6, <1>9, <3>1
  <2>4. \A w \in Waiters : /\ futures'[w].handle < nextHandle'
                           /\ \A v \in futures'[w].activities : 0 < v.handle /\ v.handle < nextHandle'
    <3> SUFFICES ASSUME NEW w \in Waiters
                 PROVE  /\ futures'[w].handle < nextHandle'
                        /\ \A v \in futures'[w].activities : 0 < v.handle /\ v.handle < nextHandle'
      OBVIOUS
    <3>1. CASE futures'[w] = futures[w]
      <4>1. /\ futures[w].handle < nextHandle /\ futures[w].handle \in Nat
            /\ \A v \in futures[w].activities : v.handle \in Nat /\ 0 < v.handle /\ v.handle < nextHandle
        BY <1>1, <1>12 DEF HandlesInv, GivenOut
      <4> QED BY <1>1, <1>6, <3>1, <4>1
    <3>2. CASE futures'[w] = r
      BY <1>1, <1>6, <1>7, <3>2
    <3> QED BY <1>10, <3>1, <3>2
  <2>5. \A k \in DOMAIN inbox' : inbox'[k].handle < nextHandle'
    BY <1>1, <1>2, <1>6, <1>12 DEF HandlesInv, GivenOut
  <2>6. \A i \in Pages : panels'[i].subscription < nextHandle' /\ panels'[i].output < nextHandle'
    BY <1>1, <1>6, <1>11, <1>12 DEF HandlesInv, GivenOut
  <2>7. \A a \in activities' : 0 < a.handle /\ a.handle < nextHandle'
    BY <1>1, <1>6, <1>11, <1>12 DEF HandlesInv, GivenOut
  <2>8. chosen' < nextHandle'
    BY <1>1, <1>6, <1>11 DEF HandlesInv, GivenOut
  <2> QED BY <2>1, <2>2, <2>3, <2>4, <2>5, <2>6, <2>7, <2>8 DEF GivenOut
<1>14. HandleOfRequest'
  <2>1. r.handle # 0 => c.op \in {"Subscribe", "Goal"} /\ c.endpoint \in Endpoints
    BY <1>1, <1>4 DEF Executes
  <2>2. c.from = "poll" => c.op = "Poll"
    BY <1>1, <1>2 DEF OneCommandEach, Purposes
  <2>3. futures'["poll"].handle = 0
    BY <1>1, <1>10, <2>1, <2>2, NamesApart DEF HandlesInv, HandleOfRequest
  <2>4. ASSUME NEW k \in DOMAIN pending, pending[k].page = c.from
        PROVE  pending[k].op = c.op /\ pending[k].endpoint = c.endpoint
    <3>1. c.from \in Pages
      BY <1>3, <2>4 DEF Requests
    <3> QED BY <1>1, <1>2, <2>4, <3>1 DEF OneCommandEach, Purposes, OnePerPage
  <2>5. \A k \in DOMAIN pending : pending[k].page \in Waiters
    BY <1>3, NamesApart DEF Requests
  <2> QED BY <1>1, <1>10, <1>11, <2>1, <2>3, <2>4, <2>5 DEF HandlesInv, HandleOfRequest
<1> QED
  BY <1>13, <1>14 DEF HandlesInv

(* A send leaves the queue and the futures as they were, but for the       *)
(* command itself or the refusal.                                          *)
LEMMA SendPointwise ==
  ASSUME TypeInv, NEW c \in Commands, Send(c)
  PROVE  /\ \A k \in DOMAIN inbox' : (k \in DOMAIN inbox /\ inbox'[k] = inbox[k]) \/ inbox'[k] = c
         /\ \A w \in Waiters : futures'[w] = futures[w] \/ (w = c.from /\ futures'[w] = Failed)
<1>1. inbox \in Seq(Commands) /\ futures \in [Waiters -> Replies]
  BY DEF TypeInv, Types, RuntimeTypes
<1>2. CASE inbox' = Append(inbox, c) /\ futures' = futures
  BY <1>1, <1>2, AppendedTo
<1>3. CASE inbox' = inbox /\ Answer(c, Failed)
  BY <1>1, <1>3 DEF Answer
<1> QED
  BY <1>2, <1>3 DEF Send

(* The user's commands carry handles that were given out.                  *)
LEMMA SendKeepsHandles ==
  ASSUME TypeInv, NEW c \in Commands, c.handle < nextHandle,
         Send(c) \/ UNCHANGED <<inbox, futures>>,
         UNCHANGED <<worldVars, floor, activities, chosen>>,
         panels' \in [Pages -> Panels],
         \A i \in Pages : \/ panels'[i] = panels[i]
                          \/ panels'[i].subscription = 0 /\ panels'[i].output = 0,
         \/ SameRequests /\ c.from = "cleanup"
         \/ c.from \in Pages /\ ~Busy(c.from) /\ SubmittedBy(c.from, c)
  PROVE  HandlesInv'
<1>1. /\ OneCommandEach /\ HandlesInv /\ inbox \in Seq(Commands) /\ futures \in [Waiters -> Replies]
      /\ nextHandle \in Nat /\ \A k \in DOMAIN pending : pending[k] \in Requests
  BY ElementOfSeq, LenProperties DEF TypeInv, Types, RuntimeTypes, FormTypes
<1>2. /\ \A k \in DOMAIN inbox' : (k \in DOMAIN inbox /\ inbox'[k] = inbox[k]) \/ inbox'[k] = c
      /\ \A w \in Waiters : futures'[w] = futures[w] \/ (w = c.from /\ futures'[w] = Failed)
  BY SendPointwise
<1>3. GivenOut'
  <2>1. \A w \in Waiters : /\ futures'[w].handle < nextHandle'
                           /\ \A v \in futures'[w].activities : 0 < v.handle /\ v.handle < nextHandle'
    BY <1>1, <1>2, ReplyTypes DEF HandlesInv, GivenOut, worldVars
  <2>2. \A i \in Pages : panels'[i].subscription < nextHandle' /\ panels'[i].output < nextHandle'
    BY <1>1 DEF HandlesInv, GivenOut, worldVars
  <2> QED
    BY <1>1, <1>2, <2>1, <2>2 DEF HandlesInv, GivenOut, worldVars
<1>4. /\ \A w \in Waiters : futures'[w].handle # 0 => futures'[w].handle = futures[w].handle
      /\ \A w \in Waiters : w # c.from => futures'[w] = futures[w]
  BY <1>2, ReplyTypes
<1>5. futures["poll"].handle = 0 /\ \A k \in DOMAIN pending : pending[k].page \in Waiters
  BY <1>1, NamesApart DEF HandlesInv, HandleOfRequest, Requests
<1>6. futures'["poll"].handle = 0
  BY <1>4, <1>5, NamesApart
<1>7. ASSUME NEW k \in DOMAIN pending,
             pending'[k].page = pending[k].page, pending'[k].op = pending[k].op,
             pending'[k].endpoint = pending[k].endpoint, futures'[pending'[k].page].handle # 0
      PROVE  pending'[k].op \in {"Subscribe", "Goal"} /\ pending'[k].endpoint \in Endpoints
  <2>1. futures[pending[k].page].handle # 0
    BY <1>4, <1>5, <1>7
  <2> QED BY <1>1, <1>7, <2>1 DEF HandlesInv, HandleOfRequest
<1>8. CASE SameRequests
  <2>1. \A k \in DOMAIN pending' :
          /\ k \in DOMAIN pending
          /\ pending'[k].page = pending[k].page /\ pending'[k].op = pending[k].op
          /\ pending'[k].endpoint = pending[k].endpoint
    BY <1>8 DEF SameRequests
  <2>2. ASSUME NEW k \in DOMAIN pending', futures'[pending'[k].page].handle # 0
        PROVE  pending'[k].op \in {"Subscribe", "Goal"} /\ pending'[k].endpoint \in Endpoints
    BY <1>7, <2>1, <2>2
  <2> QED BY <1>3, <1>6, <2>2 DEF HandlesInv, HandleOfRequest
<1>9. CASE c.from \in Pages /\ ~Busy(c.from) /\ SubmittedBy(c.from, c)
  <2>1. futures[c.from] = Unready
    BY <1>1, <1>9 DEF OneCommandEach, AnswersExpected
  <2>2. futures'[c.from].handle = 0
    BY <1>2, <1>9, <2>1, ReplyTypes, NamesApart
  <2>3. \A k \in DOMAIN pending' : k \in DOMAIN pending \/ pending'[k].page = c.from
    BY <1>9 DEF SubmittedBy
  <2>4. \A k \in DOMAIN pending : /\ pending'[k].page = pending[k].page
                                  /\ pending'[k].op = pending[k].op
                                  /\ pending'[k].endpoint = pending[k].endpoint
    BY <1>9 DEF SubmittedBy
  <2>5. ASSUME NEW k \in DOMAIN pending', futures'[pending'[k].page].handle # 0
        PROVE  pending'[k].op \in {"Subscribe", "Goal"} /\ pending'[k].endpoint \in Endpoints
    <3>1. k \in DOMAIN pending
      BY <2>2, <2>3, <2>5
    <3> QED BY <1>7, <2>4, <2>5, <3>1
  <2> QED
    BY <1>3, <1>6, <2>5 DEF HandlesInv, HandleOfRequest
<1> QED
  BY <1>3, <1>8, <1>9 DEF HandlesInv

LEMMA VisitKeepsHandles ==
  ASSUME TypeInv, VisitReply
  PROVE  HandlesInv'
<1> DEFINE k == gui.next
           q == pending[k]
           r == futures[q.page]
<1>1. /\ HandlesInv /\ inbox \in Seq(Commands) /\ futures \in [Waiters -> Replies]
      /\ pending \in Seq(Requests) /\ panels \in [Pages -> Panels] /\ nextHandle \in Nat
      /\ UNCHANGED <<worldVars, floor, chosen>> /\ activities \subseteq Goals
      /\ \A l \in DOMAIN pending : pending[l] \in Requests
  BY ElementOfSeq, LenProperties
     DEF TypeInv, Types, RuntimeTypes, FormTypes, VisitReply, netVars
<1>2. k \in DOMAIN pending /\ q \in Requests /\ q.page \in Pages /\ r \in Replies
  <2>1. k \in DOMAIN pending /\ q \in Requests /\ q.page \in Pages
    BY <1>1 DEF VisitReply, Requests
  <2> QED BY <1>1, <2>1, NamesApart
<1>3. CASE UNCHANGED <<inbox, futures, panels, pending, activities>>
  BY <1>1, <1>3 DEF HandlesInv, GivenOut, HandleOfRequest, worldVars
<1>4. CASE /\ futures' = [futures EXCEPT ![q.page] = Unready]
           /\ pending' = Forget(k)
           /\ activities' = History(q, r)
           /\ GiveUpOrphan(q, r)
           /\ panels' = IF Applicable(q) /\ ~r.error
                        THEN [panels EXCEPT ![q.page] = Applied(@, q, r)] ELSE panels
  <2>1. \A j \in DOMAIN pending' : \E l \in DOMAIN pending :
             pending'[j] = pending[l] /\ pending[l].page # q.page
    BY <1>2, <1>4, ForgottenPointwise
  <2>2. r.handle \in Nat /\ r.handle < nextHandle
    BY <1>1, <1>2, NamesApart DEF HandlesInv, GivenOut, Replies
  <2> DEFINE c == Command("cleanup", "Unsubscribe", Nothing, r.handle)
  <2>3. c \in Commands /\ c.handle = r.handle
    BY <2>2, CommandTypes DEF Command, Senders, Ops, EndpointOrNone
  <2>4. inbox' = inbox \/ inbox' = Append(inbox, c)
    BY <1>4 DEF GiveUpOrphan
  <2>5. \A j \in DOMAIN inbox' : inbox'[j].handle < nextHandle'
    <3> HIDE DEF c, r
    <3>1. \A j \in DOMAIN inbox' : (j \in DOMAIN inbox /\ inbox'[j] = inbox[j]) \/ inbox'[j] = c
      BY <1>1, <2>3, <2>4, AppendedTo
    <3> QED BY <1>1, <2>2, <2>3, <3>1 DEF HandlesInv, GivenOut, worldVars
  <2>6. \A w \in Waiters : /\ futures'[w].handle < nextHandle'
                           /\ \A v \in futures'[w].activities : 0 < v.handle /\ v.handle < nextHandle'
    BY <1>1, <1>4, ReplyTypes DEF HandlesInv, GivenOut, worldVars
  <2>7. \A i \in Pages : panels'[i].subscription < nextHandle' /\ panels'[i].output < nextHandle'
    <3>1. \A p \in Panels : p.subscription < nextHandle /\ p.output < nextHandle =>
             Applied(p, q, r).subscription < nextHandle /\ Applied(p, q, r).output < nextHandle
      BY <1>1, <1>2, <2>2 DEF Applied, Panels, Requests, Ops, HandlesInv, GivenOut
    <3> HIDE DEF q, r
    <3> QED BY <1>1, <1>2, <1>4, <3>1 DEF HandlesInv, GivenOut, worldVars
  <2>8. \A a \in activities' : 0 < a.handle /\ a.handle < nextHandle'
    <3>1. r.handle # 0 => 0 < r.handle
      BY <2>2
    <3> HIDE DEF q, r
    <3> QED BY <1>1, <1>4, <2>2, <3>1 DEF HandlesInv, GivenOut, worldVars, History
  <2>9. GivenOut'
    BY <1>1, <2>5, <2>6, <2>7, <2>8 DEF HandlesInv, GivenOut, worldVars
  <2>10. HandleOfRequest'
    <3>1. \A w \in Waiters : w # q.page => futures'[w] = futures[w]
      BY <1>1, <1>4
    <3> HIDE DEF q, r
    <3> QED BY <1>1, <1>2, <2>1, <3>1, NamesApart DEF HandlesInv, HandleOfRequest, Requests
  <2> QED BY <2>9, <2>10 DEF HandlesInv
<1> QED
  BY <1>3, <1>4 DEF VisitReply

LEMMA TickEndsKeepsHandles ==
  ASSUME TypeInv, TickEnds
  PROVE  HandlesInv'
<1>1. /\ HandlesInv /\ inbox \in Seq(Commands) /\ futures \in [Waiters -> Replies]
      /\ pending \in Seq(Requests) /\ panels \in [Pages -> Panels] /\ nextHandle \in Nat
      /\ UNCHANGED <<worldVars, floor, pending>> /\ activities \subseteq Goals /\ chosen \in Nat
      /\ \A l \in DOMAIN pending : pending[l] \in Requests
  BY ElementOfSeq, LenProperties
     DEF TypeInv, Types, RuntimeTypes, FormTypes, GuiTypes, TickEnds, netVars
<1>2. /\ \A w \in Waiters : w # "poll" => futures'[w] = futures[w]
      /\ futures'["poll"] \in {futures["poll"], Unready, Failed}
  BY <1>1, NamesApart DEF TickEnds, SubmitPoll
<1>3. \A w \in Waiters : /\ futures'[w].handle < nextHandle'
                         /\ \A v \in futures'[w].activities : 0 < v.handle /\ v.handle < nextHandle'
  BY <1>1, <1>2, ReplyTypes DEF HandlesInv, GivenOut, worldVars
<1>4. \A k \in DOMAIN inbox' : inbox'[k].handle < nextHandle'
  <2> DEFINE c == Command("poll", "Poll", Nothing, 0)
  <2>1. c \in Commands /\ c.handle = 0
    BY CommandTypes, NamesApart DEF Command, Senders, Ops, EndpointOrNone
  <2>2. inbox' = inbox \/ inbox' = Append(inbox, c)
    BY DEF TickEnds, SubmitPoll
  <2> HIDE DEF c
  <2>3. \A k \in DOMAIN inbox' : (k \in DOMAIN inbox /\ inbox'[k] = inbox[k]) \/ inbox'[k] = c
    BY <1>1, <2>1, <2>2, AppendedTo
  <2> QED BY <1>1, <2>1, <2>3 DEF HandlesInv, GivenOut, worldVars
<1>5. HandleOfRequest'
  BY <1>1, <1>2, ReplyTypes, NamesApart DEF HandlesInv, HandleOfRequest, Requests
<1>6. /\ \A i \in Pages : panels'[i].subscription < nextHandle' /\ panels'[i].output < nextHandle'
      /\ \A a \in activities' : 0 < a.handle /\ a.handle < nextHandle'
      /\ chosen' < nextHandle'
  <2>1. CASE CollectPoll
    <3> DEFINE reported == IF PollCounts THEN futures["poll"].activities ELSE {}
               list == Evicted(Merged(reported))
               item == IF chosen \in Handles(list) THEN chosen ELSE 0
    <3>1. reported \subseteq Reports /\ \A v \in reported : 0 < v.handle /\ v.handle < nextHandle
      BY <1>1, NamesApart DEF Replies, HandlesInv, GivenOut
    <3> HIDE DEF reported
    <3>2. \A a \in Merged(reported) : 0 < a.handle /\ a.handle < nextHandle
      BY <1>1, <3>1 DEF Merged, HandlesInv, GivenOut
    <3>3. list \subseteq Goals /\ list \subseteq Merged(reported)
      BY <1>1, <3>1, MergedTypes
    <3>4. ShowActivity(list, item)
      BY <2>1 DEF CollectPoll, reported
    <3> HIDE DEF list
    <3>5. \A a \in activities' : 0 < a.handle /\ a.handle < nextHandle'
      <4>1. \A a \in activities' : \E b \in list : a.handle = b.handle
        BY <3>3, <3>4, ShowActivityHandles
      <4> QED BY <1>1, <3>2, <3>3, <4>1 DEF worldVars
    <3>6. chosen' < nextHandle'
      BY <1>1, <3>4 DEF ShowActivity, HandlesInv, GivenOut, worldVars
    <3>7. PICK output \in (IF "topic" \in Pages THEN TopicOutputs(panels["topic"], reported) ELSE {0}) :
            panels' = [i \in Pages |-> IF i = "topic" THEN [panels[i] EXCEPT !.output = output]
                                       ELSE panels[i]]
      BY <2>1 DEF CollectPoll, reported
    <3>8. output < nextHandle
      BY <1>1, <3>1, <3>7 DEF TopicOutputs, OfHeldSubscription, HandlesInv, GivenOut
    <3>9. \A i \in Pages : panels'[i].subscription < nextHandle' /\ panels'[i].output < nextHandle'
      BY <1>1, <3>7, <3>8 DEF HandlesInv, GivenOut, Panels, worldVars
    <3> QED BY <3>5, <3>6, <3>9
  <2>2. CASE NoPollToCollect
    BY <1>1, <2>2 DEF NoPollToCollect, listVars, HandlesInv, GivenOut, worldVars
  <2> QED BY <2>1, <2>2 DEF TickEnds
<1> QED
  BY <1>1, <1>3, <1>4, <1>5, <1>6 DEF HandlesInv, GivenOut, worldVars

-----------------------------------------------------------------------------
(* The user's steps that send something: a page submits a command, and may *)
(* clear its panel first; or panels are cleared, and what they held is     *)
(* given up.                                                               *)

ClearedTo(i) ==
  /\ panels'[i].subscription = 0 /\ panels'[i].output = 0
  /\ panels'[i].shown = Nothing /\ ~panels'[i].dirty

Submits(c) ==
  /\ c.from \in Pages /\ ~Busy(c.from)
  /\ c.op # "Poll" /\ c.handle < nextHandle
  /\ c.op \in {"Subscribe", "Unsubscribe"} => c.from = "topic"
  /\ c.from = "topic" => panels' = panels
  /\ c.op = "Subscribe" => panels[c.from].subscription = 0 /\ gui.at = "idle"
  /\ c.op = "Unsubscribe" => c.handle = panels[c.from].subscription
  /\ c.op # "Cancel" => c.endpoint = panels'[c.from].selected
  /\ Send(c)
  /\ SubmittedBy(c.from, c)
  /\ \A k \in DOMAIN pending : pending'[k] = pending[k]
  /\ \A i \in Pages : i # c.from => panels'[i] = panels[i]
  /\ panels'[c.from] = panels[c.from] \/ ClearedTo(c.from)

GivesUp(P, held) ==
  /\ \/ held = 0 /\ UNCHANGED <<inbox, futures>>
     \/ held # 0 /\ Send(Command("cleanup", "Unsubscribe", Nothing, held))
  /\ held # 0 => held \in {panels[i].subscription : i \in P}
  /\ \A i \in P : i = "topic" => panels[i].subscription = held
  /\ DOMAIN pending' = DOMAIN pending
  /\ \A k \in DOMAIN pending :
       Marked(pending'[k], pending[k], P)
  /\ \A i \in Pages : IF i \in P THEN ClearedTo(i) ELSE panels'[i] = panels[i]

Sends ==
  /\ UNCHANGED <<worldVars, netVars, configuration, snapVars, gui, polling, activities, chosen>>
  /\ panels' \in [Pages -> Panels]
  /\ \/ \E c \in Commands : Submits(c)
     \/ \E P \in SUBSET Pages, held \in Nat : held < nextHandle /\ GivesUp(P, held)

LEMMA UserSends ==
  ASSUME TypeInv,
         \/ \E i \in Pages, e \in Endpoints : SelectEndpoint(i, e)
         \/ \E i \in Pages, op \in Ops : Asked(i, op)
         \/ \E a \in activities : "action" \in Pages /\ CancelGoal(a)
         \/ \E h \in Hosts \cup {Local} : ShowHost(h)
  PROVE  Sends
<1>1. /\ panels \in [Pages -> Panels] /\ pending \in Seq(Requests) /\ activities \subseteq Goals
      /\ nextHandle \in Nat /\ 0 < nextHandle
      /\ \A i \in Pages : panels[i].subscription < nextHandle
      /\ \A a \in activities : a.handle < nextHandle
      /\ \A k \in DOMAIN pending : pending[k] \in Requests
  BY ElementOfSeq, LenProperties
     DEF TypeInv, Types, RuntimeTypes, FormTypes, HandlesInv, GivenOut
<1>2. /\ \A i \in Pages : panels[i].subscription \in Nat /\ panels[i].selected \in EndpointOrNone
      /\ Pages \subseteq Senders /\ Pages \subseteq Waiters
  BY <1>1 DEF Panels, Senders, Waiters
<1>3. ASSUME NEW i \in Pages, NEW e \in Endpoints, SelectEndpoint(i, e) PROVE Sends
  <2> DEFINE fetch == Command(i, Fetch(i), e, 0)
             held == panels[i].subscription
             cleanup == Command("cleanup", "Unsubscribe", Nothing, held)
  <2>1. /\ panels' = [panels EXCEPT ![i] = [EmptyPanel EXCEPT !.selected = e]]
        /\ UNCHANGED <<worldVars, netVars, configuration, snapVars, gui, polling, activities, chosen>>
    BY <1>3 DEF SelectEndpoint, listVars
  <2>2. /\ panels' \in [Pages -> Panels] /\ ClearedTo(i) /\ panels'[i].selected = e
        /\ \A j \in Pages : j # i => panels'[j] = panels[j]
    <3>1. [EmptyPanel EXCEPT !.selected = e] \in Panels
      BY EmptyPanelType DEF Panels, EndpointOrNone
    <3> QED BY <1>1, <2>1, <3>1 DEF ClearedTo, EmptyPanel
  <2>3. CASE Send(fetch) /\ ~Busy(i) /\ i # "topic" /\ pending' = Submitted(Revised(pending, {i}), i, fetch)
    <3>1. fetch \in Commands /\ fetch.from = i /\ fetch.op \in {"Get", "Prepare"} /\ fetch.handle = 0
          /\ fetch.endpoint = e
      BY <1>2, CommandTypes DEF Command, Fetch, Ops, EndpointOrNone
    <3> HIDE DEF fetch
    <3>2. SubmittedBy(i, fetch)
      BY <2>3, <3>1, SubmittedPointwise
    <3>3. \A k \in DOMAIN pending : pending'[k] = pending[k]
      <4> DEFINE s == Revised(pending, {i})
      <4>1. s \in Seq(Requests) /\ DOMAIN s = DOMAIN pending /\ \A k \in DOMAIN pending :
              s[k] = [pending[k] EXCEPT !.unrevised = pending[k].unrevised /\ pending[k].page \notin {i}]
        BY <1>1, RevisedRequests
      <4>2. \A k \in DOMAIN pending : s[k] = pending[k]
        <5>1. \A x \in Requests : [x EXCEPT !.unrevised = x.unrevised /\ x.page \notin {i}] =
                                  IF x.page = i THEN [x EXCEPT !.unrevised = FALSE] ELSE x
          BY DEF Requests
        <5>2. \A k \in DOMAIN pending : pending[k].page # i
          BY <2>3 DEF Busy
        <5> HIDE DEF s
        <5> QED BY <1>1, <4>1, <5>1, <5>2
      <4> DEFINE new == [page |-> i, op |-> fetch.op, endpoint |-> fetch.endpoint, same |-> TRUE,
                         unrevised |-> TRUE]
      <4>3. new \in Requests
        BY <3>1 DEF Requests, Ops, Commands
      <4>4. pending' = Append(s, new)
        BY <2>3 DEF Submitted
      <4> HIDE DEF s, new
      <4> QED BY <4>1, <4>2, <4>3, <4>4, AppendedTo
    <3>4. Submits(fetch)
      BY <1>1, <2>2, <2>3, <3>1, <3>2, <3>3 DEF Submits
    <3> QED BY <2>1, <2>2, <3>1, <3>4 DEF Sends
  <2>4. CASE /\ pending' = Revised(pending, {i})
             /\ IF held # 0 THEN Send(cleanup) ELSE UNCHANGED <<inbox, futures>>
    <3>1. GivesUp({i}, held)
      BY <1>1, <2>2, <2>4, RevisedMarked DEF GivesUp
    <3> QED BY <1>1, <1>2, <2>1, <2>2, <3>1 DEF Sends
  <2> QED BY <1>3, <2>3, <2>4 DEF SelectEndpoint
<1>4. ASSUME NEW i \in Pages, NEW c \in Commands, c.from = i, ~Busy(i), c.op # "Poll",
             c.handle < nextHandle,
             c.op \in {"Subscribe", "Unsubscribe"} => c.from = "topic",
             c.op = "Subscribe" => panels[i].subscription = 0 /\ gui.at = "idle",
             c.op = "Unsubscribe" => c.handle = panels[i].subscription,
             c.op # "Cancel" => c.endpoint = panels[i].selected,
             Send(c), pending' = Submitted(pending, i, c), UNCHANGED panels,
             UNCHANGED <<worldVars, netVars, configuration, snapVars, gui, polling, activities, chosen>>
      PROVE  Sends
  <2>1. SubmittedBy(i, c)
    BY <1>4, SubmittedPointwise
  <2>2. \A k \in DOMAIN pending : pending'[k] = pending[k]
    <3>1. [page |-> i, op |-> c.op, endpoint |-> c.endpoint, same |-> TRUE,
           unrevised |-> TRUE] \in Requests
      BY <1>4 DEF Requests, Commands
    <3> QED BY <1>1, <1>4, <3>1, AppendedTo DEF Submitted
  <2>3. Submits(c)
    BY <1>4, <2>1, <2>2 DEF Submits
  <2> QED BY <1>1, <1>4, <2>3 DEF Sends
<1>5. ASSUME NEW i \in Pages, NEW op \in Ops, Asked(i, op) PROVE Sends
  <2> DEFINE c == Command(i, op, panels[i].selected, panels[i].subscription)
  <2>1. /\ c \in Commands /\ c.from = i /\ c.op = op /\ op \notin {"Poll", "Cancel"}
        /\ c.endpoint = panels[i].selected /\ c.handle = panels[i].subscription
    BY <1>2, <1>5, CommandTypes DEF Asked, Command
  <2>2. /\ Send(c) /\ pending' = Submitted(pending, i, c) /\ ~Busy(i) /\ UNCHANGED panels
        /\ UNCHANGED <<worldVars, netVars, configuration, snapVars, gui, polling, activities, chosen>>
        /\ op \in {"Subscribe", "Unsubscribe"} => i = "topic"
        /\ op = "Subscribe" => panels[i].subscription = 0 /\ gui.at = "idle"
    BY <1>5 DEF Asked, SendRequest, formVars, listVars
  <2> HIDE DEF c
  <2> QED BY <1>1, <1>4, <2>1, <2>2
<1>6. ASSUME NEW a \in activities, "action" \in Pages, CancelGoal(a) PROVE Sends
  <2> DEFINE c == Command("action", "Cancel", a.endpoint, a.handle)
  <2>1. c \in Commands /\ c.from = "action" /\ c.op = "Cancel" /\ c.handle < nextHandle
    BY <1>1, <1>2, <1>6, CommandTypes DEF Command, Goals, Ops, EndpointOrNone
  <2>2. /\ Send(c) /\ pending' = Submitted(pending, "action", c) /\ ~Busy("action") /\ UNCHANGED panels
        /\ UNCHANGED <<worldVars, netVars, configuration, snapVars, gui, polling, activities, chosen>>
    BY <1>6 DEF CancelGoal, formVars, listVars
  <2> HIDE DEF c
  <2> QED BY <1>4, <1>6, <2>1, <2>2
<1>7. ASSUME NEW h \in Hosts \cup {Local}, ShowHost(h) PROVE Sends
  <2> DEFINE held == IF "topic" \in Pages THEN panels["topic"].subscription ELSE 0
  <2>1. /\ IF held # 0 THEN Send(Command("cleanup", "Unsubscribe", Nothing, held))
           ELSE UNCHANGED <<inbox, futures>>
        /\ pending' = Revised(pending, Pages)
        /\ panels' = [i \in Pages |-> EmptyPanel]
        /\ UNCHANGED <<worldVars, netVars, configuration, snapVars, gui, polling, activities, chosen>>
    BY <1>7 DEF ShowHost, listVars
  <2>2. panels' \in [Pages -> Panels] /\ \A i \in Pages : ClearedTo(i)
    BY <2>1, EmptyPanelType DEF ClearedTo, EmptyPanel
  <2>3. held \in Nat /\ held < nextHandle /\ (held # 0 => held \in {panels[i].subscription : i \in Pages})
        /\ \A i \in Pages : i = "topic" => panels[i].subscription = held
    BY <1>1, <1>2
  <2> HIDE DEF held
  <2>4. GivesUp(Pages, held)
    BY <1>1, <2>1, <2>2, <2>3, RevisedMarked DEF GivesUp
  <2> QED BY <2>1, <2>2, <2>3, <2>4 DEF Sends
<1> QED
  BY <1>3, <1>5, <1>6, <1>7

LEMMA StepHandles ==
  ASSUME TypeInv, StepOf, FormTypes'
  PROVE  HandlesInv'
<1>1. /\ OneCommandEach /\ HandlesInv /\ GivenOut /\ HandleOfRequest
      /\ inbox \in Seq(Commands) /\ futures \in [Waiters -> Replies]
      /\ pending \in Seq(Requests) /\ panels \in [Pages -> Panels] /\ activities \subseteq Goals
      /\ nextHandle \in Nat /\ chosen \in Nat /\ panels' \in [Pages -> Panels]
      /\ \A k \in DOMAIN pending : pending[k] \in Requests /\ pending[k].page \in Waiters
  <2>1. /\ OneCommandEach /\ HandlesInv /\ GivenOut /\ HandleOfRequest
        /\ inbox \in Seq(Commands) /\ futures \in [Waiters -> Replies]
        /\ pending \in Seq(Requests) /\ panels \in [Pages -> Panels] /\ activities \subseteq Goals
        /\ nextHandle \in Nat /\ chosen \in Nat /\ panels' \in [Pages -> Panels]
    BY DEF TypeInv, Types, RuntimeTypes, FormTypes, GuiTypes, HandlesInv
  <2>2. \A k \in DOMAIN pending : pending[k] \in Requests
    BY <2>1, ElementOfSeq, LenProperties
  <2> QED BY <2>1, <2>2, NamesApart DEF Requests
<1>2. ASSUME UNCHANGED <<inbox, futures, worldVars>>, SameRequests,
             floor' = floor \/ floor' = nextHandle,
             \A i \in Pages : /\ panels'[i].subscription \in {panels[i].subscription, 0}
                              /\ panels'[i].output \in {panels[i].output, 0},
             \A a \in activities' : \E b \in activities : a.handle = b.handle,
             chosen' < nextHandle
      PROVE  HandlesInv'
  <2>1. HandleOfRequest'
    BY <1>1, <1>2 DEF HandleOfRequest, SameRequests
  <2>2. floor' > 0 /\ floor' <= nextHandle'
    BY <1>1, <1>2 DEF GivenOut, worldVars
  <2>3. \A i \in Pages : panels'[i].subscription < nextHandle' /\ panels'[i].output < nextHandle'
    BY <1>1, <1>2 DEF GivenOut, worldVars
  <2>4. \A a \in activities' : 0 < a.handle /\ a.handle < nextHandle'
    BY <1>1, <1>2 DEF GivenOut, worldVars
  <2> QED
    BY <1>1, <1>2, <2>1, <2>2, <2>3, <2>4 DEF HandlesInv, GivenOut, worldVars
<1>3. ASSUME pending' = pending PROVE SameRequests
  BY <1>3 DEF SameRequests
<1>4. chosen < nextHandle /\ \A i \in Pages : panels[i] = panels[i]
  BY <1>1 DEF GivenOut
<1>5. ASSUME activities' = activities PROVE \A a \in activities' : \E b \in activities : a.handle = b.handle
  BY <1>5
<1>6. CASE Execute /\ UNCHANGED workspaceVars
  BY <1>6, ExecuteKeepsHandles
<1>7. CASE DiscoveryChanges /\ UNCHANGED workspaceVars
  BY <1>1, <1>7 DEF DiscoveryChanges, workspaceVars, netVars, formVars, listVars,
                    HandlesInv, GivenOut, HandleOfRequest
<1>8. CASE ActionFinishes /\ UNCHANGED workspaceVars
  <2>1. \A h \in finished' : h \in finished \cup Handles(actions)
    BY <1>8 DEF ActionFinishes
  <2>2. UNCHANGED <<inbox, futures, subscriptions, actions, acked, nextHandle, floor, panels, pending,
                    activities, chosen>>
    BY <1>8 DEF ActionFinishes, workspaceVars, netVars, formVars, listVars
  <2> QED BY <1>1, <2>1, <2>2 DEF HandlesInv, GivenOut, HandleOfRequest
<1>9. CASE TakeNetwork \/ ObserverUp \/ Quiet
  <2>1. UNCHANGED <<inbox, futures, worldVars, pending, panels, activities, chosen, floor>>
    BY <1>9 DEF TakeNetwork, ObserverUp, Quiet, runtimeVars, worldVars, formVars, listVars, netVars
  <2> QED BY <1>2, <1>3, <1>4, <1>5, <2>1
<1>10. CASE ReplaceNetwork
  <2>1. \A w \in Waiters : futures'[w] \in {futures[w], Failed}
    BY <1>10 DEF ReplaceNetwork
  <2>2. \A w \in Waiters : /\ futures'[w].handle \in {futures[w].handle, 0}
                           /\ futures'[w].activities \in {futures[w].activities, {}}
    BY <2>1, ReplyTypes
  <2>3. inbox' = <<>> /\ subscriptions' = {} /\ actions' = {}
        /\ UNCHANGED <<finished, acked, nextHandle, floor, panels, pending, activities, chosen>>
    BY <1>10 DEF ReplaceNetwork, formVars, listVars
  <2>4. GivenOut'
    <3>1. Handles(subscriptions') = {} /\ Handles(actions') = {}
      BY <2>3 DEF Handles
    <3>2. \A w \in Waiters : /\ futures'[w].handle < nextHandle'
                             /\ \A v \in futures'[w].activities : 0 < v.handle /\ v.handle < nextHandle'
      BY <1>1, <2>2, <2>3 DEF GivenOut
    <3> QED BY <1>1, <2>3, <3>1, <3>2 DEF GivenOut
  <2>5. HandleOfRequest'
    BY <1>1, <2>2, <2>3, NamesApart DEF HandleOfRequest
  <2> QED BY <2>4, <2>5 DEF HandlesInv
<1>11. CASE ReadSnapshot
  <2>1. PICK P : /\ pending' = Revised(pending, P)
                 /\ panels' = [i \in Pages |-> IF i \in P THEN Cleared(panels[i]) ELSE panels[i]]
    BY <1>11 DEF ReadSnapshot
  <2>2. \A i \in Pages : /\ panels'[i].subscription \in {panels[i].subscription, 0}
                         /\ panels'[i].output \in {panels[i].output, 0}
    BY <2>1 DEF Cleared, EmptyPanel
  <2>3. /\ UNCHANGED <<inbox, futures, worldVars, floor>> /\ ShowActivity(activities, chosen)
    BY <1>11 DEF ReadSnapshot, runtimeVars, worldVars, netVars
  <2>4. chosen' < nextHandle /\ \A a \in activities' : \E b \in activities : a.handle = b.handle
    <3>1. chosen' = chosen
      BY <2>3 DEF ShowActivity
    <3> QED BY <1>1, <1>4, <2>3, <3>1, ShowActivityHandles
  <2> QED BY <1>2, <2>1, <2>2, <2>3, <2>4, RevisedSame
<1>12. CASE VisitReply
  BY <1>12, VisitKeepsHandles
<1>13. CASE TickEnds
  BY <1>13, TickEndsKeepsHandles
<1>14. CASE Restart
  <2>1. PICK shutdown, start \in BOOLEAN : StartConfiguration(shutdown, start)
    BY <1>14 DEF Restart
  <2>2. /\ floor' = nextHandle /\ panels' = [i \in Pages |-> EmptyPanel]
        /\ \A a \in activities' : \E b \in activities : a.handle = b.handle
    <3>1. \A b \in activities : [b EXCEPT !.lost = TRUE, !.unknown = ~b.terminal].handle = b.handle
      BY <1>1 DEF Goals
    <3>2. activities' = {[b EXCEPT !.lost = TRUE, !.unknown = ~b.terminal] : b \in activities}
      BY <2>1 DEF StartConfiguration
    <3>3. \A a \in activities' : \E b \in activities : a.handle = b.handle
      BY <3>1, <3>2
    <3>4. floor' = nextHandle /\ panels' = [i \in Pages |-> EmptyPanel]
      BY <2>1 DEF StartConfiguration
    <3> QED BY <3>3, <3>4
  <2>3. \A i \in Pages : panels'[i].subscription = 0 /\ panels'[i].output = 0
    BY <2>2 DEF EmptyPanel
  <2>4. UNCHANGED <<inbox, futures, worldVars, chosen>>
    BY <1>14 DEF Restart, runtimeVars, worldVars
  <2> QED BY <1>2, <1>4, <1>14, <2>2, <2>3, <2>4, RestartSame
<1>15. CASE \E i \in Pages : Edit(i)
  <2>1. UNCHANGED <<inbox, futures, worldVars, pending, activities, chosen, floor>>
    BY <1>15 DEF Edit, runtimeVars, worldVars, listVars, netVars
  <2>2. \A i \in Pages : panels'[i].subscription = panels[i].subscription /\ panels'[i].output = panels[i].output
    BY <1>1, <1>15 DEF Edit, Panels
  <2> QED BY <1>2, <1>3, <1>4, <1>5, <2>1, <2>2
<1>16. CASE Sends
  <2>1. UNCHANGED <<worldVars, floor, activities, chosen>>
    BY <1>16 DEF Sends, netVars
  <2>2. ASSUME NEW c \in Commands, Submits(c) PROVE HandlesInv'
    <3>1. \A i \in Pages : panels'[i] = panels[i] \/ (panels'[i].subscription = 0 /\ panels'[i].output = 0)
      BY <2>2 DEF Submits, ClearedTo
    <3> QED BY <1>1, <2>1, <2>2, <3>1, SendKeepsHandles DEF Submits
  <2>3. ASSUME NEW P \in SUBSET Pages, NEW held \in Nat, held < nextHandle, GivesUp(P, held)
        PROVE  HandlesInv'
    <3> DEFINE c == Command("cleanup", "Unsubscribe", Nothing, held)
    <3>1. c \in Commands /\ c.from = "cleanup" /\ c.handle = held
      BY CommandTypes DEF Command, Senders, Ops, EndpointOrNone
    <3>2. \A i \in Pages : panels'[i] = panels[i] \/ (panels'[i].subscription = 0 /\ panels'[i].output = 0)
      BY <2>3 DEF GivesUp, ClearedTo
    <3>3. SameRequests
      BY <1>1, <2>3 DEF GivesUp, SameRequests, Marked
    <3>4. Send(c) \/ UNCHANGED <<inbox, futures>>
      BY <2>3 DEF GivesUp
    <3> HIDE DEF c
    <3> QED BY <1>1, <2>1, <2>3, <3>1, <3>2, <3>3, <3>4, SendKeepsHandles
  <2> QED BY <1>16, <2>2, <2>3 DEF Sends
<1>17. CASE \E h : Shown(h)
  <2>1. PICK h : Shown(h)
    BY <1>17
  <2>2. /\ UNCHANGED <<inbox, futures, worldVars, panels, pending, floor>> /\ ShowActivity(activities, h)
        /\ h \in {a.handle : a \in activities}
    BY <2>1 DEF Shown, runtimeVars, worldVars, netVars
  <2>3. chosen' < nextHandle /\ \A a \in activities' : \E b \in activities : a.handle = b.handle
    <3>1. chosen' = h
      BY <2>2 DEF ShowActivity
    <3> QED BY <1>1, <2>2, <3>1, ShowActivityHandles DEF GivenOut
  <2> QED BY <1>2, <1>3, <2>2, <2>3
<1> QED
  BY <1>6, <1>7, <1>8, <1>9, <1>10, <1>11, <1>12, <1>13, <1>14, <1>15, <1>16, <1>17, UserSends
     DEF StepOf

-----------------------------------------------------------------------------
LEMMA InitTypeInv ==
  ASSUME Init
  PROVE  TypeInv
<1>1. Types
  <2>1. inbox \in Seq(Commands) /\ pending \in Seq(Requests)
    BY EmptySeq DEF Init, RuntimeInit
  <2>2. futures \in [Waiters -> Replies]
    BY ReplyTypes DEF Init, RuntimeInit
  <2>3. panels \in [Pages -> Panels]
    BY EmptyPanelType DEF Init
  <2> QED
    BY <2>1, <2>2, <2>3
       DEF Init, RuntimeInit, Types, RuntimeTypes, GuiTypes, FormTypes, Networks, Idle, NoPoll, Resting
<1>2. inbox = <<>> /\ pending = <<>> /\ DOMAIN inbox = {} /\ DOMAIN pending = {}
  BY DEF Init, RuntimeInit
<1>3. AskingInv
  BY DEF Init, AskingInv
<1>4. OneCommandEach
  <2>1. \A w \in Waiters : futures[w] = Unready
    BY DEF Init, RuntimeInit
  <2> QED
    BY <1>2, <2>1, NamesApart
       DEF OneCommandEach, OnePerPage, OnePerWaiter, Purposes, QueuedOrAnswered, AnswersExpected
<1>5. HandlesInv
  <2>1. Handles(subscriptions) = {} /\ Handles(actions) = {}
    BY DEF Init, RuntimeInit, Handles
  <2>2. \A w \in Waiters : futures[w].handle = 0 /\ futures[w].activities = {}
    BY ReplyTypes DEF Init, RuntimeInit
  <2>3. \A i \in Pages : panels[i].subscription = 0 /\ panels[i].output = 0
    BY DEF Init, EmptyPanel
  <2> QED
    BY <1>2, <2>1, <2>2, <2>3, NamesApart
       DEF Init, RuntimeInit, HandlesInv, GivenOut, HandleOfRequest
<1> QED
  BY <1>1, <1>3, <1>4, <1>5 DEF TypeInv

LEMMA StepTypeInv ==
  ASSUME TypeInv, [Next]_vars
  PROVE  TypeInv' /\ StepOf
<1>1. StepOf
  BY StepCases DEF TypeInv
<1>2. RuntimeTypes' /\ FormTypes'
  BY <1>1, StepTypes
<1>3. GuiTypes' /\ AskingInv'
  BY <1>1, StepGui
<1> QED
  BY <1>1, <1>2, <1>3, StepOne, StepHandles DEF TypeInv, Types

LEMMA Typed ==
  ASSUME TypeInv
  PROVE  TypeOK
<1>1. Types /\ GivenOut
  BY DEF TypeInv, HandlesInv
<1>2. Handles(subscriptions) \cup Handles(actions) \cup finished \cup acked \subseteq 1..(nextHandle - 1)
  <2>1. Handles(subscriptions) \cup Handles(actions) \cup finished \cup acked \subseteq Nat
    BY <1>1 DEF Types, RuntimeTypes, Handles, Entries
  <2> QED BY <1>1, <2>1 DEF GivenOut, Types, RuntimeTypes
<1>3. panels \in [Pages -> [selected : EndpointOrNone, subscription : 0..(nextHandle - 1),
                            dirty : BOOLEAN, shown : EndpointOrNone, output : 0..(nextHandle - 1)]]
  <2>1. \A h \in Nat : h < nextHandle => h \in 0..(nextHandle - 1)
    BY <1>1 DEF Types, RuntimeTypes
  <2>2. \A i \in Pages : panels[i].subscription \in 0..(nextHandle - 1) /\ panels[i].output \in 0..(nextHandle - 1)
    BY <1>1, <2>1 DEF Types, FormTypes, Panels, GivenOut
  <2> QED BY <1>1, <2>2 DEF Types, FormTypes, Panels
<1>4. activities \subseteq [handle : 1..(nextHandle - 1), endpoint : Endpoints,
                            terminal : BOOLEAN, lost : BOOLEAN, unknown : BOOLEAN]
  <2>1. \A a \in activities : a.handle \in 1..(nextHandle - 1)
    BY <1>1 DEF Types, RuntimeTypes, FormTypes, Goals, GivenOut
  <2> QED BY <1>1, <2>1 DEF Types, FormTypes, Goals
<1>5. chosen \in 0..(nextHandle - 1)
  BY <1>1 DEF Types, RuntimeTypes, GuiTypes, GivenOut
<1>6. \A k \in DOMAIN pending : pending[k].page \in Pages /\ pending[k].endpoint \in EndpointOrNone
  <2>1. \A k \in DOMAIN pending : pending[k] \in Requests
    BY <1>1, ElementOfSeq, LenProperties DEF Types, FormTypes
  <2> QED BY <2>1 DEF Requests
<1> QED
  BY <1>1, <1>2, <1>3, <1>4, <1>5, <1>6
     DEF TypeOK, Types, RuntimeTypes, GuiTypes, FormTypes, Networks, GivenOut

(* Every field, queue and handle of the workspace keeps its type, and every*)
(* handle the workspace keeps was given out by the runtime.                *)
THEOREM TypeCorrect == Spec => []TypeOK
<1>1. Init => TypeInv
  BY InitTypeInv
<1>2. TypeInv /\ [Next]_vars => TypeInv'
  BY StepTypeInv
<1>3. TypeInv => TypeOK
  BY Typed
<1> QED
  BY <1>1, <1>2, <1>3, PTL DEF Spec

-----------------------------------------------------------------------------
(* What a form shows.                                                      *)

(* The steps that leave the panels and what they wait for as they are.     *)
LEMMA FormsKept ==
  ASSUME TypeInv, StepOf
  PROVE  \/ UNCHANGED <<panels, pending>>
         \/ ReadSnapshot \/ VisitReply \/ TickEnds \/ Restart
         \/ \E i \in Pages : Edit(i)
         \/ Sends
BY UserSends
   DEF StepOf, DiscoveryChanges, ActionFinishes, TakeNetwork, ReplaceNetwork, ObserverUp, Quiet, Shown,
       workspaceVars, formVars

LEMMA Typical ==
  ASSUME TypeInv
  PROVE  /\ inbox \in Seq(Commands) /\ futures \in [Waiters -> Replies]
         /\ pending \in Seq(Requests) /\ panels \in [Pages -> Panels] /\ activities \subseteq Goals
         /\ nextHandle \in Nat /\ floor \in Nat /\ live \subseteq Endpoints /\ finished \subseteq Nat
         /\ subscriptions \subseteq Entries /\ actions \subseteq Entries
         /\ \A k \in DOMAIN pending : pending[k] \in Requests
         /\ \A k \in DOMAIN inbox : inbox[k] \in Commands
         /\ \A k \in DOMAIN pending : pending[k].page \in Pages /\ pending[k].page \in Waiters
         /\ \A i \in Pages : panels[i] \in Panels /\ i \in Waiters
         /\ \A w \in Waiters : futures[w] \in Replies
<1>1. /\ inbox \in Seq(Commands) /\ futures \in [Waiters -> Replies]
      /\ pending \in Seq(Requests) /\ panels \in [Pages -> Panels] /\ activities \subseteq Goals
      /\ nextHandle \in Nat /\ floor \in Nat /\ live \subseteq Endpoints /\ finished \subseteq Nat
      /\ subscriptions \subseteq Entries /\ actions \subseteq Entries
  BY DEF TypeInv, Types, RuntimeTypes, GuiTypes, FormTypes
<1>2. (\A k \in DOMAIN pending : pending[k] \in Requests) /\ \A k \in DOMAIN inbox : inbox[k] \in Commands
  BY <1>1, ElementOfSeq, LenProperties
<1>3. \A q \in Requests : q.page \in Pages
  BY DEF Requests
<1>4. Pages \subseteq Waiters
  BY DEF Waiters
<1> QED
  BY <1>1, <1>2, <1>3, <1>4

(* The visit of a reply that has come, pointwise.                          *)
Visited(q, r) ==
  /\ q.page \in Pages /\ q \in Requests /\ r \in Replies
  /\ \E k \in DOMAIN pending : q = pending[k]
  /\ r = futures[q.page] /\ r # Unready
  /\ futures' = [futures EXCEPT ![q.page] = Unready]
  /\ \A j \in DOMAIN pending' : \E l \in DOMAIN pending :
       pending'[j] = pending[l] /\ pending[l].page # q.page
  /\ activities' = History(q, r)
  /\ GiveUpOrphan(q, r)
  /\ panels' = IF Applicable(q) /\ ~r.error
               THEN [panels EXCEPT ![q.page] = Applied(@, q, r)] ELSE panels

LEMMA VisitPointwise ==
  ASSUME TypeInv, VisitReply
  PROVE  \/ UNCHANGED <<inbox, futures, panels, pending, activities>>
         \/ \E q, r : Visited(q, r) /\ UNCHANGED gui
<1> DEFINE k == gui.next
           q == pending[k]
           r == futures[q.page]
<1>1. CASE UNCHANGED <<inbox, futures, panels, pending, activities>>
  BY <1>1
<1>2. CASE ~UNCHANGED <<inbox, futures, panels, pending, activities>>
  <2>1. /\ k \in DOMAIN pending
        /\ r # Unready
        /\ futures' = [futures EXCEPT ![q.page] = Unready]
        /\ pending' = Forget(k)
        /\ activities' = History(q, r)
        /\ GiveUpOrphan(q, r)
        /\ panels' = IF Applicable(q) /\ ~r.error
                     THEN [panels EXCEPT ![q.page] = Applied(@, q, r)] ELSE panels
        /\ UNCHANGED gui
    BY <1>2 DEF VisitReply
  <2>2. \A j \in DOMAIN pending' : \E l \in DOMAIN pending :
          pending'[j] = pending[l] /\ pending[l].page # q.page
    BY <2>1, ForgottenPointwise
  <2>3. q \in Requests /\ q.page \in Pages /\ r \in Replies
    BY <2>1, Typical
  <2>4. Visited(q, r)
    BY <2>1, <2>2, <2>3 DEF Visited
  <2> QED BY <2>1, <2>4
<1> QED
  BY <1>1, <1>2

(* A tick's end changes no more of a panel than its output.                *)
LEMMA TickEndsForms ==
  ASSUME TypeInv, TickEnds
  PROVE  /\ pending' = pending
         /\ \A i \in Pages : /\ panels'[i].selected = panels[i].selected
                             /\ panels'[i].subscription = panels[i].subscription
                             /\ panels'[i].shown = panels[i].shown
<1>1. panels \in [Pages -> Panels]
  BY Typical
<1>2. CASE CollectPoll
  <2>1. PICK output : panels' = [i \in Pages |-> IF i = "topic" THEN [panels[i] EXCEPT !.output = output]
                                                 ELSE panels[i]]
    BY <1>2 DEF CollectPoll
  <2> QED BY <1>1, <2>1 DEF TickEnds, Panels
<1>3. CASE NoPollToCollect
  BY <1>3 DEF NoPollToCollect, TickEnds
<1> QED
  BY <1>2, <1>3 DEF TickEnds

LEMMA StepShown ==
  ASSUME TypeInv, ShownInv, StepOf
  PROVE  ShownInv'
<1>1. /\ panels \in [Pages -> Panels] /\ pending \in Seq(Requests)
      /\ \A k \in DOMAIN pending : pending[k] \in Requests /\ pending[k].page \in Pages
  BY Typical
<1>2. CASE UNCHANGED <<panels, pending>>
  BY <1>2 DEF ShownInv, ShownBelongsToSelection, ValueOnItsWay
<1>3. ASSUME NEW P,
             DOMAIN pending' = DOMAIN pending,
             \A k \in DOMAIN pending :
               Marked(pending'[k], pending[k], P),
             \A i \in Pages : IF i \in P THEN panels'[i].shown = Nothing ELSE panels'[i] = panels[i]
      PROVE  ShownInv'
  <2>1. ShownBelongsToSelection'
    BY <1>3 DEF ShownInv, ShownBelongsToSelection
  <2>2. ASSUME NEW k \in DOMAIN pending
        PROVE  /\ pending'[k].page = pending[k].page /\ pending'[k].op = pending[k].op
               /\ pending'[k].endpoint = pending[k].endpoint
               /\ pending'[k].same = pending[k].same
               /\ pending'[k].unrevised => pending[k].unrevised /\ pending[k].page \notin P
    BY <1>1, <1>3 DEF Marked
  <2>3. ValueOnItsWay'
    BY <1>1, <1>3, <2>2 DEF ShownInv, ValueOnItsWay
  <2> QED BY <2>1, <2>3 DEF ShownInv
<1>4. CASE ReadSnapshot
  <2>1. PICK P : /\ pending' = Revised(pending, P)
                 /\ panels' = [i \in Pages |-> IF i \in P THEN Cleared(panels[i]) ELSE panels[i]]
    BY <1>4 DEF ReadSnapshot
  <2>2. \A i \in Pages : IF i \in P THEN panels'[i].shown = Nothing ELSE panels'[i] = panels[i]
    BY <2>1 DEF Cleared, EmptyPanel
  <2> QED BY <1>1, <1>3, <2>1, <2>2, RevisedMarked
<1>5. CASE VisitReply
  <2>1. CASE UNCHANGED <<panels, pending>>
    BY <1>2, <2>1
  <2>2. ASSUME NEW q, NEW r, Visited(q, r) PROVE ShownInv'
    <3>1. \A p \in Panels : Applied(p, q, r).selected = p.selected
      BY <2>2 DEF Visited, Applied, Panels, Requests, Ops
    <3>2. \A p \in Panels : \/ Applied(p, q, r).shown \in {p.shown, Nothing}
                            \/ q.op \in {"Get", "Prepare", "Set"} /\ Applied(p, q, r).shown = q.endpoint
      BY <2>2 DEF Visited, Applied, Panels, Requests, Ops
    <3>3. Applicable(q) /\ q.op \in {"Get", "Prepare", "Set"} => panels[q.page].selected = q.endpoint
      BY <1>1, <2>2 DEF Visited, Applicable, ShownInv, ValueOnItsWay
    <3>4. \A i \in Pages : panels'[i].selected = panels[i].selected
      BY <1>1, <2>2, <3>1 DEF Visited
    <3>5. \A i \in Pages : panels'[i].shown \in {panels[i].shown, Nothing, panels[i].selected}
      BY <1>1, <2>2, <3>2, <3>3 DEF Visited
    <3>6. ShownBelongsToSelection'
      BY <3>4, <3>5 DEF ShownInv, ShownBelongsToSelection
    <3>7. ValueOnItsWay'
      BY <1>1, <2>2, <3>4 DEF ShownInv, ValueOnItsWay, Visited
    <3> QED BY <3>6, <3>7 DEF ShownInv
  <2> QED BY <1>5, <2>1, <2>2, VisitPointwise
<1>6. CASE TickEnds
  BY <1>1, <1>6, TickEndsForms DEF ShownInv, ShownBelongsToSelection, ValueOnItsWay
<1>7. CASE Restart
  <2>1. PICK shutdown, start \in BOOLEAN : StartConfiguration(shutdown, start)
    BY <1>7 DEF Restart
  <2>2. \A i \in Pages : panels'[i].shown = Nothing
    BY <2>1 DEF StartConfiguration, EmptyPanel
  <2>3. \A k \in DOMAIN pending' : ~pending'[k].same
    BY <1>1, <2>1 DEF StartConfiguration, Requests
  <2> QED BY <2>2, <2>3 DEF ShownInv, ShownBelongsToSelection, ValueOnItsWay
<1>8. CASE \E i \in Pages : Edit(i)
  <2>1. /\ pending' = pending
        /\ \A i \in Pages : panels'[i].selected = panels[i].selected /\ panels'[i].shown = panels[i].shown
    BY <1>1, <1>8 DEF Edit, Panels
  <2> QED BY <1>1, <2>1 DEF ShownInv, ShownBelongsToSelection, ValueOnItsWay
<1>9. CASE Sends
  <2>1. ASSUME NEW c \in Commands, Submits(c) PROVE ShownInv'
    <3>1. ShownBelongsToSelection'
      BY <2>1 DEF Submits, ClearedTo, ShownInv, ShownBelongsToSelection
    <3>2. \A k \in DOMAIN pending : /\ pending'[k] = pending[k] /\ pending[k].page # c.from
                                    /\ panels'[pending[k].page] = panels[pending[k].page]
      BY <1>1, <2>1 DEF Submits, Busy
    <3>3. \A k \in DOMAIN pending' : \/ k \in DOMAIN pending
                                     \/ /\ pending'[k].page = c.from /\ pending'[k].op = c.op
                                        /\ pending'[k].endpoint = c.endpoint
      BY <2>1 DEF Submits, SubmittedBy
    <3>4. c.op \in {"Get", "Prepare", "Set"} => panels'[c.from].selected = c.endpoint
      BY <2>1 DEF Submits
    <3>5. ValueOnItsWay'
      BY <3>2, <3>3, <3>4 DEF ShownInv, ValueOnItsWay
    <3> QED BY <3>1, <3>5 DEF ShownInv
  <2>2. ASSUME NEW P, NEW held, GivesUp(P, held) PROVE ShownInv'
    BY <1>3, <2>2 DEF GivesUp, ClearedTo
  <2> QED BY <1>9, <2>1, <2>2 DEF Sends
<1> QED
  BY <1>2, <1>4, <1>5, <1>6, <1>7, <1>8, <1>9, FormsKept

(* What a form shows was fetched from the endpoint that is selected now,   *)
(* however late replies come and whatever was selected in between.         *)
THEOREM ShownIsSelected == Spec => []ShownBelongsToSelection
<1>1. Init => TypeInv /\ ShownInv
  <2>1. Init => DOMAIN pending = {} /\ \A i \in Pages : panels[i].shown = Nothing
    BY DEF Init, EmptyPanel
  <2> QED BY <2>1, InitTypeInv DEF ShownInv, ShownBelongsToSelection, ValueOnItsWay
<1>2. TypeInv /\ ShownInv /\ [Next]_vars => (TypeInv /\ ShownInv)'
  BY StepTypeInv, StepShown
<1>3. ShownInv => ShownBelongsToSelection
  BY DEF ShownInv
<1> QED
  BY <1>1, <1>2, <1>3, PTL DEF Spec

-----------------------------------------------------------------------------
(* The topic value.                                                        *)

LEMMA StepHeld ==
  ASSUME TypeInv, HeldInv, StepOf
  PROVE  HeldInv'
<1>1. /\ panels \in [Pages -> Panels] /\ pending \in Seq(Requests)
      /\ \A k \in DOMAIN pending : pending[k] \in Requests /\ pending[k].page \in Pages
      /\ ValueOfHeldSubscription /\ SubscribesOnce
  BY Typical DEF HeldInv
<1>2. CASE UNCHANGED <<panels, pending>>
  BY <1>2 DEF HeldInv, ValueOfHeldSubscription, SubscribesOnce
<1>3. ASSUME NEW P,
             DOMAIN pending' = DOMAIN pending,
             \A k \in DOMAIN pending :
               Marked(pending'[k], pending[k], P),
             \A i \in Pages : \/ panels'[i] = panels[i]
                              \/ /\ panels'[i].subscription \in {0, panels[i].subscription}
                                 /\ panels'[i].output = 0
      PROVE  HeldInv'
  <2>1. ASSUME NEW k \in DOMAIN pending
        PROVE  pending'[k].page = pending[k].page /\ pending'[k].op = pending[k].op
    BY <1>1, <1>3 DEF Marked
  <2>2. ValueOfHeldSubscription'
    BY <1>1, <1>3 DEF ValueOfHeldSubscription
  <2>3. SubscribesOnce'
    BY <1>1, <1>3, <2>1 DEF SubscribesOnce
  <2> QED BY <2>2, <2>3 DEF HeldInv
<1>4. CASE ReadSnapshot
  <2>1. PICK P : /\ pending' = Revised(pending, P)
                 /\ panels' = [i \in Pages |-> IF i \in P THEN Cleared(panels[i]) ELSE panels[i]]
    BY <1>4 DEF ReadSnapshot
  <2>2. \A i \in Pages : \/ panels'[i] = panels[i]
                         \/ /\ panels'[i].subscription \in {0, panels[i].subscription}
                            /\ panels'[i].output = 0
    BY <2>1 DEF Cleared, EmptyPanel
  <2> QED BY <1>1, <1>3, <2>1, <2>2, RevisedMarked
<1>5. CASE VisitReply
  <2>1. CASE UNCHANGED <<panels, pending>>
    BY <1>2, <2>1
  <2>2. ASSUME NEW q, NEW r, Visited(q, r) PROVE HeldInv'
    <3>1. \A p \in Panels :
             \/ Applied(p, q, r).subscription = p.subscription /\ Applied(p, q, r).output = p.output
             \/ q.op = "Subscribe" /\ Applied(p, q, r).output = p.output
             \/ Applied(p, q, r).output = 0
      BY <2>2 DEF Visited, Applied, Panels, Requests, Ops
    <3>2. q.op = "Subscribe" => panels[q.page].output = 0
      BY <1>1, <2>2 DEF Visited, ValueOfHeldSubscription, SubscribesOnce
    <3>3. \A i \in Pages : i # q.page => panels'[i] = panels[i]
      BY <1>1, <2>2 DEF Visited
    <3>4. \/ panels'[q.page] = panels[q.page]
          \/ panels'[q.page] = Applied(panels[q.page], q, r)
      BY <1>1, <2>2 DEF Visited
    <3>5. panels[q.page] \in Panels /\ q.page \in Pages
      BY <1>1, <2>2 DEF Visited
    <3>6. ValueOfHeldSubscription'
      BY <1>1, <3>1, <3>2, <3>3, <3>4, <3>5 DEF ValueOfHeldSubscription
    <3>7. SubscribesOnce'
      BY <1>1, <2>2, <3>3 DEF SubscribesOnce, Visited
    <3> QED BY <3>6, <3>7 DEF HeldInv
  <2> QED BY <1>5, <2>1, <2>2, VisitPointwise
<1>6. CASE TickEnds
  <2>1. SubscribesOnce'
    BY <1>1, <1>6, TickEndsForms DEF SubscribesOnce
  <2>2. \A i \in Pages : panels'[i].output \in {panels[i].output, 0, panels[i].subscription}
    <3>1. CASE CollectPoll
      <4>1. PICK reported : \E output \in IF "topic" \in Pages
                                          THEN TopicOutputs(panels["topic"], reported) ELSE {0} :
              panels' = [i \in Pages |-> IF i = "topic" THEN [panels[i] EXCEPT !.output = output]
                                         ELSE panels[i]]
        BY <3>1 DEF CollectPoll
      <4>2. PICK output \in (IF "topic" \in Pages THEN TopicOutputs(panels["topic"], reported) ELSE {0}) :
              panels' = [i \in Pages |-> IF i = "topic" THEN [panels[i] EXCEPT !.output = output]
                                         ELSE panels[i]]
        BY <4>1
      <4>3. "topic" \in Pages => output \in {panels["topic"].output, 0, panels["topic"].subscription}
        BY <4>2 DEF TopicOutputs, OfHeldSubscription
      <4>4. \A p \in Panels : [p EXCEPT !.output = output].output = output
        BY DEF Panels
      <4> QED BY <1>1, <4>2, <4>3, <4>4
    <3>2. CASE NoPollToCollect
      BY <3>2 DEF NoPollToCollect
    <3> QED BY <1>6, <3>1, <3>2 DEF TickEnds
  <2>3. ValueOfHeldSubscription'
    BY <1>1, <1>6, <2>2, TickEndsForms DEF ValueOfHeldSubscription
  <2> QED BY <2>1, <2>3 DEF HeldInv
<1>7. CASE Restart
  <2>1. PICK shutdown, start \in BOOLEAN : StartConfiguration(shutdown, start)
    BY <1>7 DEF Restart
  <2>2. \A i \in Pages : panels'[i].subscription = 0 /\ panels'[i].output = 0
    BY <2>1 DEF StartConfiguration, EmptyPanel
  <2>3. SameRequests
    BY <1>7, RestartSame
  <2> QED BY <1>1, <2>2, <2>3 DEF HeldInv, ValueOfHeldSubscription, SubscribesOnce, SameRequests
<1>8. CASE \E i \in Pages : Edit(i)
  <2>1. /\ pending' = pending
        /\ \A i \in Pages : panels'[i].subscription = panels[i].subscription /\ panels'[i].output = panels[i].output
    BY <1>1, <1>8 DEF Edit, Panels
  <2> QED BY <1>1, <2>1 DEF HeldInv, ValueOfHeldSubscription, SubscribesOnce
<1>9. CASE Sends
  <2>1. ASSUME NEW c \in Commands, Submits(c) PROVE HeldInv'
    <3>1. ValueOfHeldSubscription'
      BY <1>1, <2>1 DEF Submits, ClearedTo, ValueOfHeldSubscription
    <3>2. \A k \in DOMAIN pending : /\ pending'[k] = pending[k]
                                    /\ panels'[pending[k].page] = panels[pending[k].page]
      BY <1>1, <2>1 DEF Submits, Busy
    <3>3. \A k \in DOMAIN pending' : \/ k \in DOMAIN pending
                                     \/ pending'[k].page = c.from /\ pending'[k].op = c.op
      BY <2>1 DEF Submits, SubmittedBy
    <3>4. c.op = "Subscribe" => panels'[c.from].subscription = 0
      BY <2>1 DEF Submits
    <3>5. SubscribesOnce'
      BY <1>1, <3>2, <3>3, <3>4 DEF SubscribesOnce
    <3> QED BY <3>1, <3>5 DEF HeldInv
  <2>2. ASSUME NEW P, NEW held, GivesUp(P, held) PROVE HeldInv'
    BY <1>3, <2>2 DEF GivesUp, ClearedTo
  <2> QED BY <1>9, <2>1, <2>2 DEF Sends
<1> QED
  BY <1>2, <1>4, <1>5, <1>6, <1>7, <1>8, <1>9, FormsKept

(* The topic value on display is one of the subscription the panel holds,  *)
(* never of an earlier one whose report was still under way.               *)
THEOREM ValueIsHeld == Spec => []ValueOfHeldSubscription
<1>1. Init => TypeInv /\ HeldInv
  <2>1. Init => DOMAIN pending = {} /\ \A i \in Pages : panels[i].output = 0
    BY DEF Init, EmptyPanel
  <2> QED BY <2>1, InitTypeInv DEF HeldInv, ValueOfHeldSubscription, SubscribesOnce
<1>2. TypeInv /\ HeldInv /\ [Next]_vars => (TypeInv /\ HeldInv)'
  BY StepTypeInv, StepHeld
<1>3. HeldInv => ValueOfHeldSubscription
  BY DEF HeldInv
<1> QED
  BY <1>1, <1>2, <1>3, PTL DEF Spec

-----------------------------------------------------------------------------
(* The history of goals.                                                   *)

(* What a network change makes of the history and of what is on its way.   *)
LEMMA RestartPointwise ==
  ASSUME TypeInv, Restart
  PROVE  /\ floor' = nextHandle /\ ~polling'.same /\ configuration'.state = "requested"
         /\ UNCHANGED <<inbox, futures, worldVars, net, seen, status, gui, chosen>>
         /\ \A a \in activities' : \E b \in activities :
              /\ a.handle = b.handle /\ a.terminal = b.terminal
              /\ a.lost /\ a.unknown = ~b.terminal
         /\ \A k \in DOMAIN pending' : ~pending'[k].same
         /\ \A i \in Pages : ClearedTo(i)
<1>1. PICK shutdown, start \in BOOLEAN : StartConfiguration(shutdown, start)
  BY DEF Restart
<1>2. \A k \in DOMAIN pending' : ~pending'[k].same
  BY <1>1, Typical DEF StartConfiguration, Requests
<1>3. \A a \in activities' : \E b \in activities :
        /\ a.handle = b.handle /\ a.terminal = b.terminal
        /\ a.lost /\ a.unknown = ~b.terminal
  <2>1. activities' = {[b EXCEPT !.lost = TRUE, !.unknown = ~b.terminal] : b \in activities}
    BY <1>1 DEF StartConfiguration
  <2>2. \A b \in Goals : LET a == [b EXCEPT !.lost = TRUE, !.unknown = ~b.terminal] IN
          /\ a.handle = b.handle /\ a.terminal = b.terminal
          /\ a.lost /\ a.unknown = ~b.terminal
    BY DEF Goals
  <2>3. ASSUME NEW a \in activities'
        PROVE  \E b \in activities : /\ a.handle = b.handle /\ a.terminal = b.terminal
                                     /\ a.lost /\ a.unknown = ~b.terminal
    <3>1. PICK b \in activities : a = [b EXCEPT !.lost = TRUE, !.unknown = ~b.terminal]
      BY <2>1
    <3>2. b \in Goals
      BY Typical
    <3> QED BY <2>2, <3>1, <3>2
  <2> QED BY <2>3
<1>4. floor' = nextHandle /\ ~polling'.same /\ configuration'.state = "requested"
  BY <1>1 DEF StartConfiguration, TypeInv, Types, GuiTypes
<1>5. \A i \in Pages : ClearedTo(i)
  BY <1>1 DEF StartConfiguration, ClearedTo, EmptyPanel
<1> QED
  BY <1>2, <1>3, <1>4, <1>5 DEF Restart, runtimeVars, worldVars, snapVars

(* The futures and the history after a step: a reply that was executed, a  *)
(* refusal, or one that was read; what ShowActivity makes of the history.  *)
LEMMA StepEnded ==
  ASSUME TypeInv, EndedInv, StepOf
  PROVE  EndedInv'
<1>1. /\ futures \in [Waiters -> Replies] /\ activities \subseteq Goals
      /\ NoFalseCompletion /\ ReportedEnds
  BY Typical DEF EndedInv
<1>2. ASSUME finished \subseteq finished',
             \A w \in Waiters : futures'[w] = futures[w] \/ futures'[w].activities = {},
             \A a \in activities' : a.terminal =>
                \E b \in activities : b.terminal /\ a.handle = b.handle
      PROVE  EndedInv'
  <2>1. NoFalseCompletion'
    BY <1>1, <1>2 DEF NoFalseCompletion
  <2>2. ReportedEnds'
    BY <1>1, <1>2 DEF ReportedEnds
  <2> QED BY <2>1, <2>2 DEF EndedInv
<1>3. ASSUME activities' = activities
      PROVE  \A a \in activities' : a.terminal => \E b \in activities : b.terminal /\ a.handle = b.handle
  BY <1>3
<1>4. CASE Execute /\ UNCHANGED workspaceVars
  <2> DEFINE c == Head(inbox)
  <2>1. PICK r : Executes(c, r)
    BY <1>4, Executed
  <2> HIDE DEF c
  <2>2. finished' = finished /\ activities' = activities
    BY <1>4, Executed DEF workspaceVars, listVars
  <2>3. \A w \in Waiters : futures'[w] \in {futures[w], r}
    BY <1>1, <2>1 DEF Executes
  <2>4. \A v \in r.activities : v.terminal => v.handle \in finished
    <3>1. r.activities \in {{}, Activities}
      BY <2>1 DEF Executes
    <3>2. ASSUME NEW v \in Activities, v.terminal PROVE v.handle \in finished
      <4>1. CASE \E a \in actions : v = [topic |-> FALSE, handle |-> a.handle, endpoint |-> a.endpoint,
                                         terminal |-> a.handle \in finished, lost |-> a.endpoint \notin live]
        <5>1. PICK a \in actions : v = [topic |-> FALSE, handle |-> a.handle, endpoint |-> a.endpoint,
                                        terminal |-> a.handle \in finished, lost |-> a.endpoint \notin live]
          BY <4>1
        <5>2. v.terminal = (a.handle \in finished) /\ v.handle = a.handle
          BY <5>1
        <5> QED BY <3>2, <5>2
      <4>2. CASE \E a \in subscriptions : v = [topic |-> TRUE, handle |-> a.handle, endpoint |-> a.endpoint,
                                               terminal |-> FALSE, lost |-> a.endpoint \notin live]
        BY <3>2, <4>2
      <4> QED BY <4>1, <4>2 DEF Activities
    <3> QED BY <3>1, <3>2
  <2>5. ReportedEnds'
    BY <1>1, <2>2, <2>3, <2>4 DEF ReportedEnds
  <2> QED BY <1>1, <2>2, <2>5 DEF EndedInv, NoFalseCompletion
<1>5. CASE ActionFinishes /\ UNCHANGED workspaceVars
  BY <1>2, <1>3, <1>5 DEF ActionFinishes, workspaceVars, listVars
<1>6. CASE UNCHANGED <<futures, finished, activities>>
  BY <1>2, <1>3, <1>6
<1>7. CASE ReplaceNetwork
  <2>1. \A w \in Waiters : futures'[w] = futures[w] \/ futures'[w].activities = {}
    BY <1>7, ReplyTypes DEF ReplaceNetwork
  <2> QED BY <1>2, <1>3, <1>7, <2>1 DEF ReplaceNetwork, listVars
<1>8. CASE ReadSnapshot \/ \E h : Shown(h)
  <2>1. (\E h : ShowActivity(activities, h)) /\ UNCHANGED <<futures, finished>>
    BY <1>8 DEF ReadSnapshot, Shown, runtimeVars
  <2> QED BY <1>1, <1>2, <2>1, ShowActivityHandles
<1>9. CASE VisitReply
  <2>1. finished' = finished
    BY <1>9 DEF VisitReply, worldVars
  <2>2. ASSUME NEW q, NEW r, Visited(q, r) PROVE EndedInv'
    <3>1. \A a \in activities' : a.terminal => \E b \in activities : b.terminal /\ a.handle = b.handle
      BY <2>2 DEF Visited, History
    <3>2. \A w \in Waiters : futures'[w] = futures[w] \/ futures'[w].activities = {}
      BY <1>1, <2>2, ReplyTypes DEF Visited
    <3> QED BY <1>2, <2>1, <3>1, <3>2
  <2> QED BY <1>6, <1>9, <2>1, <2>2, VisitPointwise
<1>10. CASE TickEnds
  <2>1. finished' = finished
    BY <1>10 DEF TickEnds, worldVars
  <2>2. \A w \in Waiters : futures'[w] = futures[w] \/ futures'[w].activities = {}
    BY <1>1, <1>10, ReplyTypes DEF TickEnds, SubmitPoll
  <2>3. CASE CollectPoll
    <3> DEFINE reported == IF PollCounts THEN futures["poll"].activities ELSE {}
               list == Evicted(Merged(reported))
    <3>1. reported \subseteq Reports /\ \A v \in reported : v.terminal => v.handle \in finished
      BY <1>1, NamesApart DEF Replies, ReportedEnds
    <3>2. \E h : ShowActivity(list, h)
      BY <2>3 DEF CollectPoll
    <3> HIDE DEF reported
    <3>3. list \subseteq Goals /\ list \subseteq Merged(reported)
      BY <1>1, <3>1, MergedTypes
    <3>4. \A a \in Merged(reported) : a.terminal => a.handle \in finished
      BY <1>1, <3>1 DEF Merged, NoFalseCompletion
    <3> HIDE DEF list
    <3>5. NoFalseCompletion'
      BY <2>1, <3>2, <3>3, <3>4, ShowActivityHandles DEF NoFalseCompletion
    <3>6. ReportedEnds'
      BY <1>1, <2>1, <2>2 DEF ReportedEnds
    <3> QED BY <3>5, <3>6 DEF EndedInv
  <2>4. CASE NoPollToCollect
    BY <1>2, <1>3, <2>1, <2>2, <2>4 DEF NoPollToCollect, listVars
  <2> QED BY <1>10, <2>3, <2>4 DEF TickEnds
<1>11. CASE Restart
  <2>1. UNCHANGED <<futures, finished>>
    BY <1>11, RestartPointwise DEF worldVars
  <2> QED BY <1>2, <1>11, <2>1, RestartPointwise
<1>12. CASE Sends
  <2>1. UNCHANGED <<finished, activities>>
    BY <1>12 DEF Sends, worldVars
  <2>2. \A w \in Waiters : futures'[w] = futures[w] \/ futures'[w].activities = {}
    <3>1. CASE UNCHANGED futures
      BY <3>1
    <3>2. ASSUME NEW c \in Commands, Send(c)
          PROVE  \A w \in Waiters : futures'[w] = futures[w] \/ futures'[w].activities = {}
      BY <3>2, SendPointwise, ReplyTypes
    <3>3. ASSUME NEW P, NEW held \in Nat, GivesUp(P, held)
          PROVE  UNCHANGED futures \/ \E c \in Commands : Send(c)
      <4>1. Command("cleanup", "Unsubscribe", Nothing, held) \in Commands
        BY CommandTypes DEF Senders, Ops, EndpointOrNone
      <4> QED BY <3>3, <4>1 DEF GivesUp
    <3> QED BY <1>12, <3>1, <3>2, <3>3 DEF Sends, Submits
  <2> QED BY <1>2, <1>3, <2>1, <2>2
<1>13. CASE DiscoveryChanges /\ UNCHANGED workspaceVars
  BY <1>6, <1>13 DEF DiscoveryChanges, workspaceVars, listVars
<1>14. CASE TakeNetwork \/ ObserverUp \/ Quiet \/ \E i \in Pages : Edit(i)
  <2>1. UNCHANGED <<futures, finished, activities>>
    BY <1>14 DEF TakeNetwork, ObserverUp, Quiet, Edit, runtimeVars, listVars
  <2> QED BY <1>6, <2>1
<1> QED
  BY <1>4, <1>5, <1>7, <1>8, <1>9, <1>10, <1>11, <1>12, <1>13, <1>14, UserSends DEF StepOf

(* A goal is shown as ended only when the framework reported it terminal:  *)
(* an acknowledged Cancel does not end it, nor does a lost endpoint.       *)
THEOREM EndedHasFinished == Spec => []NoFalseCompletion
<1>1. Init => TypeInv /\ EndedInv
  <2>1. Init => activities = {} /\ \A w \in Waiters : futures[w].activities = {}
    BY ReplyTypes DEF Init, RuntimeInit
  <2> QED BY <2>1, InitTypeInv DEF EndedInv, NoFalseCompletion, ReportedEnds
<1>2. TypeInv /\ EndedInv /\ [Next]_vars => (TypeInv /\ EndedInv)'
  BY StepTypeInv, StepEnded
<1>3. EndedInv => NoFalseCompletion
  BY DEF EndedInv
<1> QED
  BY <1>1, <1>2, <1>3, PTL DEF Spec

-----------------------------------------------------------------------------
(* Across a change of the network settings.                                *)

LEMMA ExecuteKeepsDetached ==
  ASSUME TypeInv, DetachedInv, Execute, UNCHANGED workspaceVars
  PROVE  DetachedInv'
<1> USE DEF GoalsOnTheirWay, PollOnItsWay, ActionsSince
<1>1. /\ futures \in [Waiters -> Replies] /\ floor \in Nat /\ nextHandle \in Nat /\ floor <= nextHandle
      /\ UnknownAfterDetach /\ GoalsOnTheirWay /\ PollOnItsWay /\ ActionsSince
      /\ \A k \in DOMAIN pending : pending[k].page \in Waiters
  BY Typical DEF DetachedInv, TypeInv, HandlesInv, GivenOut
<1>2. UNCHANGED <<floor, pending, polling, configuration, activities>>
  BY DEF workspaceVars, netVars, listVars
<1> DEFINE c == Head(inbox)
<1>3. PICK r : Executes(c, r)
  BY Executed
<1>4. c.from = "poll" => c.op = "Poll"
  <2>1. inbox # <<>>
    BY Executed
  <2>2. c = inbox[1] /\ 1 \in DOMAIN inbox
    BY <2>1, Typical, TailOf
  <2> QED BY <2>2 DEF TypeInv, OneCommandEach, Purposes
<1> HIDE DEF c
<1>5. \A w \in Waiters : futures'[w] = futures[w] \/ (futures'[w] = r /\ w = c.from)
  BY <1>1, <1>3 DEF Executes
<1>6. r.handle = 0 \/ r.handle >= floor
  BY <1>1, <1>3 DEF Executes
<1>7. GoalsOnTheirWay'
  <2> SUFFICES ASSUME NEW k \in DOMAIN pending, pending[k].same, futures'[pending[k].page].handle # 0
               PROVE  futures'[pending[k].page].handle >= floor
    BY <1>2
  <2> QED BY <1>1, <1>5, <1>6
<1>8. ActionsSince'
  <2>1. \A h \in Handles(actions') : h \in Handles(actions) \/ h = nextHandle
    BY <1>3 DEF Executes, Handles
  <2> QED BY <1>1, <1>2, <2>1
<1>9. PollOnItsWay'
  <2> SUFFICES ASSUME polling.same, NEW v \in futures'["poll"].activities, ~v.topic
               PROVE  v.handle >= floor
    BY <1>1, <1>2
  <2>1. CASE v \in futures["poll"].activities
    BY <1>1, <2>1
  <2>2. CASE v \notin futures["poll"].activities
    <3>1. v \in r.activities
      BY <1>5, <2>2, NamesApart
    <3>2. v \in Activities
      BY <1>3, <3>1 DEF Executes
    <3>3. v.handle \in Handles(actions)
      BY <3>2 DEF Activities, Handles
    <3> QED BY <1>1, <3>3
  <2> QED BY <2>1, <2>2
<1>10. UnknownAfterDetach'
  BY <1>1, <1>2 DEF UnknownAfterDetach
<1> QED
  BY <1>7, <1>8, <1>9, <1>10 DEF DetachedInv

LEMMA TickEndsKeepsDetached ==
  ASSUME TypeInv, DetachedInv, TickEnds
  PROVE  DetachedInv'
<1> USE DEF GoalsOnTheirWay, PollOnItsWay, ActionsSince
<1>1. /\ futures \in [Waiters -> Replies] /\ floor \in Nat /\ activities \subseteq Goals
      /\ UnknownAfterDetach /\ GoalsOnTheirWay /\ PollOnItsWay /\ ActionsSince
      /\ \A k \in DOMAIN pending : pending[k].page \in Pages /\ pending[k].page \in Waiters
      /\ futures["poll"] # Unready => polling.valid
  BY Typical DEF DetachedInv, TypeInv, OneCommandEach, AnswersExpected
<1>2. UNCHANGED <<floor, pending, configuration, actions>>
  BY DEF TickEnds, worldVars, netVars
<1> DEFINE ready == polling.valid /\ futures["poll"] # Unready
           asks == /\ gui.due /\ (ready \/ ~polling.valid) /\ status = "up"
                   /\ ~Configuring /\ closing = "no"
<1>3. /\ polling' = IF asks THEN [valid |-> TRUE, same |-> TRUE] ELSE IF ready THEN NoPoll ELSE polling
      /\ \A w \in Waiters : w # "poll" => futures'[w] = futures[w]
      /\ futures'["poll"] \in {futures["poll"], Unready, Failed}
      /\ asks \/ ready => futures'["poll"] \in {Unready, Failed}
  BY <1>1, NamesApart DEF TickEnds, SubmitPoll
<1>4. GoalsOnTheirWay'
  BY <1>1, <1>2, <1>3, NamesApart
<1>5. PollOnItsWay'
  <2>1. CASE asks
    <3>1. configuration.state = "none"
      BY <2>1 DEF Configuring
    <3>2. futures'["poll"].activities = {}
      BY <1>3, <2>1, ReplyTypes
    <3> QED BY <1>2, <3>1, <3>2
  <2>2. CASE ~asks /\ ready
    <3>1. ~polling'.same
      BY <1>3, <2>2 DEF NoPoll
    <3> QED BY <3>1
  <2>3. CASE ~asks /\ ~ready
    <3>1. polling' = polling /\ futures'["poll"].activities \in {futures["poll"].activities, {}}
      BY <1>3, <2>3, ReplyTypes
    <3> QED BY <1>1, <1>2, <3>1
  <2> QED BY <2>1, <2>2, <2>3
<1>6. ActionsSince'
  BY <1>1, <1>2
<1>7. UnknownAfterDetach'
  <2>1. CASE CollectPoll
    <3> DEFINE reported == IF PollCounts THEN futures["poll"].activities ELSE {}
               list == Evicted(Merged(reported))
    <3>1. reported \subseteq Reports
      BY <1>1, NamesApart DEF Replies
    <3>2. \A v \in reported : v.topic \/ ~(v.handle < floor)
      <4>1. \A v \in reported : ~v.topic => v.handle >= floor
        BY <1>1 DEF PollCounts
      <4> QED BY <1>1, <3>1, <4>1 DEF Reports
    <3>3. \E h : ShowActivity(list, h)
      BY <2>1 DEF CollectPoll
    <3> HIDE DEF reported
    <3>4. list \subseteq Goals /\ list \subseteq Merged(reported)
      BY <1>1, <3>1, MergedTypes
    <3>5. \A a \in Merged(reported) : a.handle < floor => a.terminal \/ (a.lost /\ a.unknown)
      BY <1>1, <3>2 DEF Merged, UnknownAfterDetach
    <3> HIDE DEF list
    <3> QED BY <1>2, <3>3, <3>4, <3>5, ShowActivityHandles DEF UnknownAfterDetach
  <2>2. CASE NoPollToCollect
    BY <1>1, <1>2, <2>2 DEF NoPollToCollect, listVars, UnknownAfterDetach
  <2> QED BY <2>1, <2>2 DEF TickEnds
<1> QED
  BY <1>4, <1>5, <1>6, <1>7 DEF DetachedInv

LEMMA StepDetached ==
  ASSUME TypeInv, DetachedInv, StepOf
  PROVE  DetachedInv'
<1> USE DEF GoalsOnTheirWay, PollOnItsWay, ActionsSince
<1>1. /\ futures \in [Waiters -> Replies] /\ activities \subseteq Goals
      /\ UnknownAfterDetach /\ GoalsOnTheirWay /\ PollOnItsWay /\ ActionsSince
      /\ \A k \in DOMAIN pending : pending[k] \in Requests /\ pending[k].page \in Waiters
  BY Typical DEF DetachedInv
<1>2. ASSUME UNCHANGED <<floor, polling, actions>>,
             \/ configuration' = configuration
             \/ configuration.state = "done" /\ configuration' = Idle,
             \A w \in Waiters : futures'[w] = futures[w]
                                  \/ (futures'[w].handle = 0 /\ futures'[w].activities = {}),
             \A k \in DOMAIN pending' :
                \/ futures'[pending'[k].page].handle = 0
                \/ \E l \in DOMAIN pending : /\ pending'[k].page = pending[l].page
                                             /\ pending'[k].same = pending[l].same,
             \A a \in activities' :
                \/ ~(a.handle < floor)
                \/ \E b \in activities : /\ a.handle = b.handle /\ a.terminal = b.terminal
                                         /\ a.unknown = b.unknown /\ (b.lost => a.lost)
      PROVE  DetachedInv'
  <2>1. UnknownAfterDetach'
    BY <1>1, <1>2 DEF UnknownAfterDetach
  <2>2. GoalsOnTheirWay'
    <3> SUFFICES ASSUME NEW k \in DOMAIN pending', pending'[k].same,
                        futures'[pending'[k].page].handle # 0
                 PROVE  futures'[pending'[k].page].handle >= floor
      BY <1>2
    <3>1. PICK l \in DOMAIN pending : pending'[k].page = pending[l].page /\ pending'[k].same = pending[l].same
      BY <1>2
    <3> QED BY <1>1, <1>2, <3>1
  <2>3. PollOnItsWay'
    <3>1. configuration.state = "none" => configuration'.state = "none"
      BY <1>2
    <3>2. futures'["poll"].activities \in {futures["poll"].activities, {}}
      BY <1>2, NamesApart
    <3> QED BY <1>1, <1>2, <3>1, <3>2
  <2>4. ActionsSince'
    BY <1>1, <1>2
  <2> QED BY <2>1, <2>2, <2>3, <2>4 DEF DetachedInv
<1>3. ASSUME activities' = activities
      PROVE  \A a \in activities' :
                \/ ~(a.handle < floor)
                \/ \E b \in activities : /\ a.handle = b.handle /\ a.terminal = b.terminal
                                         /\ a.unknown = b.unknown /\ (b.lost => a.lost)
  BY <1>3
<1>4. ASSUME pending' = pending
      PROVE  \A k \in DOMAIN pending' :
                \/ futures'[pending'[k].page].handle = 0
                \/ \E l \in DOMAIN pending : /\ pending'[k].page = pending[l].page
                                             /\ pending'[k].same = pending[l].same
  BY <1>4
<1>5. CASE Execute /\ UNCHANGED workspaceVars
  BY <1>5, ExecuteKeepsDetached
<1>6. CASE (DiscoveryChanges \/ ActionFinishes) /\ UNCHANGED workspaceVars
  <2>1. UNCHANGED <<floor, polling, actions, configuration, futures, pending, activities>>
    BY <1>6 DEF DiscoveryChanges, ActionFinishes, workspaceVars, netVars, listVars
  <2> QED BY <1>2, <1>3, <1>4, <2>1
<1>7. CASE TakeNetwork
  <2>1. /\ UNCHANGED <<floor, polling, actions, futures, pending, activities>>
        /\ configuration.state = "requested" /\ configuration'.state = "stopping"
    BY <1>7 DEF TakeNetwork, runtimeVars, listVars, TypeInv, Types, GuiTypes
  <2> QED BY <1>1, <2>1 DEF DetachedInv, UnknownAfterDetach
<1>8. CASE ReplaceNetwork
  <2>1. /\ UNCHANGED <<floor, polling, pending, activities>> /\ Handles(actions') = {}
        /\ configuration.state = "stopping"
        /\ \A w \in Waiters : futures'[w] \in {futures[w], Failed}
    BY <1>8 DEF ReplaceNetwork, listVars, Handles
  <2>2. \A w \in Waiters : futures'[w].handle \in {futures[w].handle, 0}
    BY <2>1, ReplyTypes
  <2> QED BY <1>1, <2>1, <2>2 DEF DetachedInv, UnknownAfterDetach
<1>9. CASE ObserverUp \/ Quiet \/ \E i \in Pages : Edit(i)
  <2>1. /\ UNCHANGED <<floor, polling, actions, futures, pending, activities>>
        /\ \/ configuration' = configuration
           \/ configuration.state = "done" /\ configuration' = Idle
    BY <1>9 DEF ObserverUp, Quiet, Edit, runtimeVars, listVars, netVars
  <2> QED BY <1>2, <1>3, <1>4, <2>1
<1>10. CASE ReadSnapshot
  <2>1. /\ UNCHANGED <<floor, polling, actions, futures>>
        /\ \/ configuration' = configuration
           \/ configuration.state = "done" /\ configuration' = Idle
        /\ ShowActivity(activities, chosen)
    BY <1>10 DEF ReadSnapshot, runtimeVars, netVars
  <2>2. PICK P : pending' = Revised(pending, P)
    BY <1>10 DEF ReadSnapshot
  <2>3. \A k \in DOMAIN pending' : \E l \in DOMAIN pending :
           pending'[k].page = pending[l].page /\ pending'[k].same = pending[l].same
    <3>1. pending \in Seq(Requests)
      BY Typical
    <3>2. /\ DOMAIN pending' = DOMAIN pending
          /\ \A k \in DOMAIN pending :
               Marked(pending'[k], pending[k], P)
      BY <2>2, <3>1, RevisedMarked
    <3> QED BY <1>1, <3>2 DEF Marked
  <2>4. \A a \in activities' : \E b \in activities :
           /\ a.handle = b.handle /\ a.terminal = b.terminal
           /\ a.unknown = b.unknown /\ (b.lost => a.lost)
    BY <1>1, <2>1, ShowActivityHandles
  <2> QED BY <1>2, <2>1, <2>3, <2>4
<1>11. CASE \E h : Shown(h)
  <2>1. UNCHANGED <<floor, polling, actions, configuration, futures, pending>>
        /\ \E h : ShowActivity(activities, h)
    BY <1>11 DEF Shown, runtimeVars, netVars
  <2>2. \A a \in activities' : \E b \in activities :
           /\ a.handle = b.handle /\ a.terminal = b.terminal
           /\ a.unknown = b.unknown /\ (b.lost => a.lost)
    BY <1>1, <2>1, ShowActivityHandles
  <2> QED BY <1>2, <1>4, <2>1, <2>2
<1>12. CASE VisitReply
  <2>1. UNCHANGED <<floor, polling, actions, configuration>>
    BY <1>12 DEF VisitReply, worldVars, netVars
  <2>2. CASE UNCHANGED <<inbox, futures, panels, pending, activities>>
    BY <1>2, <1>3, <1>4, <2>1, <2>2
  <2>3. ASSUME NEW q, NEW r, Visited(q, r) PROVE DetachedInv'
    <3>1. \A w \in Waiters : futures'[w] = futures[w]
                               \/ (futures'[w].handle = 0 /\ futures'[w].activities = {})
      BY <1>1, <2>3, ReplyTypes DEF Visited
    <3>2. \A k \in DOMAIN pending' : \E l \in DOMAIN pending :
             pending'[k].page = pending[l].page /\ pending'[k].same = pending[l].same
      BY <2>3 DEF Visited
    <3>3. q.same /\ r.handle # 0 => r.handle >= floor
      BY <1>1, <2>3 DEF Visited
    <3>4. q.same /\ r.handle # 0 => ~(r.handle < floor)
      BY <2>3, <3>3, Typical DEF Visited, Replies
    <3>5. \A a \in activities' : a \in activities \/ ~(a.handle < floor)
      BY <2>3, <3>4 DEF Visited, History
    <3> QED BY <1>2, <2>1, <3>1, <3>2, <3>5
  <2> QED BY <1>12, <2>2, <2>3, VisitPointwise
<1>13. CASE TickEnds
  BY <1>13, TickEndsKeepsDetached
<1>14. CASE Restart
  BY <1>14, RestartPointwise DEF DetachedInv, UnknownAfterDetach
<1>15. CASE Sends
  <2>1. UNCHANGED <<floor, polling, actions, configuration, activities>>
    BY <1>15 DEF Sends, worldVars, netVars
  <2>2. ASSUME NEW c \in Commands, Submits(c) PROVE DetachedInv'
    <3>1. \A w \in Waiters : futures'[w] = futures[w] \/ (w = c.from /\ futures'[w] = Failed)
      BY <2>2, SendPointwise DEF Submits
    <3>2. futures'[c.from].handle = 0
      <4>1. futures[c.from] = Unready
        BY <2>2 DEF Submits, TypeInv, OneCommandEach, AnswersExpected
      <4> QED BY <2>2, <3>1, <4>1, ReplyTypes, NamesApart DEF Submits
    <3>3. \A k \in DOMAIN pending' : \/ pending'[k].page = c.from
                                     \/ k \in DOMAIN pending /\ pending'[k] = pending[k]
      BY <2>2 DEF Submits, SubmittedBy
    <3> QED BY <1>2, <1>3, <2>1, <3>1, <3>2, <3>3, ReplyTypes
  <2>3. ASSUME NEW P, NEW held \in Nat, GivesUp(P, held) PROVE DetachedInv'
    <3> DEFINE c == Command("cleanup", "Unsubscribe", Nothing, held)
    <3>1. c \in Commands /\ c.from = "cleanup"
      BY CommandTypes DEF Command, Senders, Ops, EndpointOrNone
    <3>2. Send(c) \/ UNCHANGED <<inbox, futures>>
      BY <2>3 DEF GivesUp
    <3> HIDE DEF c
    <3>3. \A w \in Waiters : futures'[w] = futures[w]
      BY <3>1, <3>2, SendPointwise, NamesApart
    <3>4. \A k \in DOMAIN pending' : \E l \in DOMAIN pending :
             pending'[k].page = pending[l].page /\ pending'[k].same = pending[l].same
      BY <1>1, <2>3  DEF GivesUp, Marked
    <3> QED BY <1>2, <1>3, <2>1, <3>3, <3>4
  <2> QED BY <1>15, <2>2, <2>3 DEF Sends
<1> QED
  BY <1>5, <1>6, <1>7, <1>8, <1>9, <1>10, <1>11, <1>12, <1>13, <1>14, <1>15, UserSends DEF StepOf

(* A goal started before the network settings were last changed is shown   *)
(* as ended, or as lost with its execution unknown: no report and no reply *)
(* that was under way at that time revives it.                             *)
THEOREM DetachedStaysUnknown == Spec => []UnknownAfterDetach
<1>1. Init => TypeInv /\ DetachedInv
  <2>1. Init => /\ activities = {} /\ DOMAIN pending = {} /\ ~polling.same /\ Handles(actions) = {}
    BY DEF Init, RuntimeInit, NoPoll, Handles
  <2> QED BY <2>1, InitTypeInv
          DEF DetachedInv, UnknownAfterDetach, GoalsOnTheirWay, PollOnItsWay, ActionsSince
<1>2. TypeInv /\ DetachedInv /\ [Next]_vars => (TypeInv /\ DetachedInv)'
  BY StepTypeInv, StepDetached
<1>3. DetachedInv => UnknownAfterDetach
  BY DEF DetachedInv
<1> QED
  BY <1>1, <1>2, <1>3, PTL DEF Spec

-----------------------------------------------------------------------------
(* The queue.                                                              *)

(* A queue in which no two commands have the same sender is no longer than *)
(* there are senders.                                                      *)
LEMMA FiniteWaiters == IsFiniteSet(Waiters)
<1>1. IsFiniteSet({"topic", "parameter", "service", "action", "poll"})
  <2>1. IsFiniteSet({"topic"})
    BY FS_Singleton
  <2>2. IsFiniteSet({"topic"} \cup {"parameter"})
    BY <2>1, FS_AddElement
  <2>3. IsFiniteSet(({"topic"} \cup {"parameter"}) \cup {"service"})
    BY <2>2, FS_AddElement
  <2>4. IsFiniteSet((({"topic"} \cup {"parameter"}) \cup {"service"}) \cup {"action"})
    BY <2>3, FS_AddElement
  <2>5. IsFiniteSet(((({"topic"} \cup {"parameter"}) \cup {"service"}) \cup {"action"}) \cup {"poll"})
    BY <2>4, FS_AddElement
  <2>6. {"topic", "parameter", "service", "action", "poll"} =
          ((({"topic"} \cup {"parameter"}) \cup {"service"}) \cup {"action"}) \cup {"poll"}
    OBVIOUS
  <2> QED BY <2>5, <2>6
<1>2. Waiters \subseteq {"topic", "parameter", "service", "action", "poll"}
  BY RuntimeAssumption DEF Waiters, PageNames
<1> QED
  BY <1>1, <1>2, FS_Subset

LEMMA OneEach ==
  ASSUME TypeInv, NEW S, IsFiniteSet(S),
         \A k \in DOMAIN inbox : inbox[k].from \in S,
         \A k, l \in DOMAIN inbox : inbox[k].from = inbox[l].from => k = l
  PROVE  Len(inbox) <= Cardinality(S) /\ Len(inbox) \in Nat /\ Cardinality(S) \in Nat
<1>1. Len(inbox) \in Nat /\ DOMAIN inbox = 1..Len(inbox)
  BY Typical, LenProperties
<1> DEFINE f == [k \in 1..Len(inbox) |-> inbox[k].from]
<1>2. f \in Injection(1..Len(inbox), S)
  BY <1>1 DEF Injection, IsInjective
<1>3. Cardinality(1..Len(inbox)) <= Cardinality(S)
  BY <1>2, FS_Injection
<1>4. Cardinality(1..Len(inbox)) = Len(inbox)
  <2>1. Cardinality(1..Len(inbox)) = IF 1 > Len(inbox) THEN 0 ELSE Len(inbox) - 1 + 1
    BY <1>1, FS_Interval
  <2> QED BY <1>1, <2>1
<1> QED
  BY <1>1, <1>3, <1>4, FS_CardinalityType

(* Without a cleanup the queue holds at most one command of each waiter,   *)
(* so it has room for one more.                                            *)
LEMMA RoomForCleanup ==
  ASSUME TypeInv, \A k \in DOMAIN inbox : inbox[k].from # "cleanup"
  PROVE  Len(inbox) < Capacity
<1>1. \A k \in DOMAIN inbox : inbox[k].from \in Waiters
  BY Typical DEF Commands, Senders
<1>2. \A k, l \in DOMAIN inbox : inbox[k].from = inbox[l].from => k = l
  BY <1>1 DEF TypeInv, OneCommandEach, OnePerWaiter
<1>3. Len(inbox) <= Cardinality(Waiters) /\ Len(inbox) \in Nat /\ Cardinality(Waiters) \in Nat
  BY <1>1, <1>2, FiniteWaiters, OneEach
<1> QED
  BY <1>3, WorkspaceAssumption

Joined(c) ==
  /\ c \in Commands
  /\ Len(inbox) \in Nat /\ DOMAIN inbox = 1..Len(inbox) /\ DOMAIN inbox' = 1..(Len(inbox) + 1)
  /\ \A k \in DOMAIN inbox : inbox'[k] = inbox[k] /\ k < Len(inbox) + 1
  /\ inbox'[Len(inbox) + 1] = c

LEMMA JoinedTo ==
  ASSUME TypeInv, NEW c \in Commands, inbox' = Append(inbox, c)
  PROVE  Joined(c)
<1>1. /\ Len(inbox) \in Nat /\ DOMAIN inbox = 1..Len(inbox) /\ DOMAIN inbox' = 1..(Len(inbox) + 1)
      /\ \A k \in DOMAIN inbox : inbox'[k] = inbox[k]
      /\ inbox'[Len(inbox) + 1] = c
  BY Typical, AppendedTo
<1> QED
  BY <1>1 DEF Joined

LEMMA SendQueue ==
  ASSUME TypeInv, NEW c \in Commands, Send(c)
  PROVE  \/ ~Accepts /\ inbox' = inbox
         \/ Accepts /\ Joined(c) /\ futures' = futures
BY JoinedTo DEF Send

(* What a step makes of the queue.                                         *)
QueueCases ==
  \/ inbox' = inbox
  \/ Execute /\ UNCHANGED workspaceVars
  \/ ReplaceNetwork
  \/ \E q, r : Visited(q, r) /\ GiveUpOrphan(q, r) /\ net = "up"
               /\ q.same /\ ~q.unrevised /\ q.op = "Subscribe" /\ r.handle # 0
               /\ Joined(Command("cleanup", "Unsubscribe", Nothing, r.handle))
  \/ TickEnds /\ net = "up" /\ Joined(Command("poll", "Poll", Nothing, 0))
  \/ Sends /\ net = "up" /\ \E c : Submits(c) /\ Joined(c) /\ futures' = futures
  \/ Sends /\ net = "up" /\ \E P \in SUBSET Pages, held \in Nat :
                               /\ held # 0 /\ GivesUp(P, held) /\ futures' = futures
                               /\ Joined(Command("cleanup", "Unsubscribe", Nothing, held))

LEMMA StepQueue ==
  ASSUME TypeInv, StepOf
  PROVE  QueueCases
<1>1. CASE VisitReply
  <2>1. CASE inbox' = inbox
    BY <2>1 DEF QueueCases
  <2>2. ASSUME NEW q, NEW r, Visited(q, r), inbox' # inbox PROVE QueueCases
    <3> DEFINE c == Command("cleanup", "Unsubscribe", Nothing, r.handle)
    <3>1. /\ Accepts /\ q.same /\ ~q.unrevised /\ q.op = "Subscribe" /\ r.handle # 0
          /\ inbox' = Append(inbox, c) /\ GiveUpOrphan(q, r)
      BY <2>2 DEF Visited, GiveUpOrphan
    <3>2. c \in Commands
      BY <2>2, CommandTypes DEF Visited, Replies, Senders, Ops, EndpointOrNone
    <3>3. Joined(c)
      BY <3>1, <3>2, JoinedTo
    <3> QED BY <2>2, <3>1, <3>3 DEF QueueCases, Accepts
  <2> QED BY <1>1, <2>1, <2>2, VisitPointwise
<1>2. CASE TickEnds
  <2> DEFINE c == Command("poll", "Poll", Nothing, 0)
  <2>1. inbox' = inbox \/ (Accepts /\ inbox' = Append(inbox, c))
    BY <1>2 DEF TickEnds, SubmitPoll
  <2>2. c \in Commands
    BY CommandTypes, NamesApart DEF Senders, Ops, EndpointOrNone
  <2> QED BY <1>2, <2>1, <2>2, JoinedTo DEF QueueCases, Accepts
<1>3. CASE Sends
  <2>1. ASSUME NEW c \in Commands, Submits(c) PROVE QueueCases
    BY <1>3, <2>1, SendQueue DEF Submits, QueueCases, Accepts
  <2>2. ASSUME NEW P \in SUBSET Pages, NEW held \in Nat, GivesUp(P, held) PROVE QueueCases
    <3> DEFINE c == Command("cleanup", "Unsubscribe", Nothing, held)
    <3>1. c \in Commands
      BY CommandTypes DEF Senders, Ops, EndpointOrNone
    <3>2. inbox' = inbox \/ (held # 0 /\ Accepts /\ Joined(c) /\ futures' = futures)
      BY <2>2, <3>1, SendQueue DEF GivesUp
    <3> QED BY <1>3, <2>2, <3>2 DEF QueueCases, Accepts
  <2> QED BY <1>3, <2>1, <2>2 DEF Sends
<1>4. CASE \/ DiscoveryChanges \/ ActionFinishes \/ TakeNetwork \/ ObserverUp \/ ReadSnapshot
           \/ Quiet \/ Restart \/ (\E i \in Pages : Edit(i)) \/ \E h : Shown(h)
  <2>1. inbox' = inbox
    BY <1>4 DEF DiscoveryChanges, ActionFinishes, TakeNetwork, ObserverUp, ReadSnapshot, Quiet, Restart,
                Edit, Shown, runtimeVars
  <2> QED BY <2>1 DEF QueueCases
<1> QED
  BY <1>1, <1>2, <1>3, <1>4, UserSends DEF StepOf, QueueCases

-----------------------------------------------------------------------------
(* What a step makes of the requests, the futures and the subscriptions    *)
(* the panels hold.                                                        *)

Kept(k) ==
  \E l \in DOMAIN pending :
    /\ pending'[k].page = pending[l].page /\ pending'[k].op = pending[l].op
    /\ pending'[k].endpoint = pending[l].endpoint
    /\ pending'[k].same => pending[l].same
    /\ configuration'.state # "requested" => pending'[k].same = pending[l].same
    /\ pending'[k].unrevised => pending[l].unrevised

Added(k) ==
  \E c \in Commands :
    /\ Submits(c)
    /\ pending'[k].page = c.from /\ pending'[k].op = c.op /\ pending'[k].endpoint = c.endpoint
    /\ pending'[k].same /\ pending'[k].unrevised

LEMMA StepRequests ==
  ASSUME TypeInv, StepOf
  PROVE  \A k \in DOMAIN pending' : Kept(k) \/ (Added(k) /\ Sends)
<1>1. pending \in Seq(Requests) /\ \A k \in DOMAIN pending : pending[k] \in Requests
  BY Typical
<1>2. ASSUME NEW P, DOMAIN pending' = DOMAIN pending,
             \A k \in DOMAIN pending :
               Marked(pending'[k], pending[k], P)
      PROVE  \A k \in DOMAIN pending' : Kept(k)
  <2> SUFFICES ASSUME NEW k \in DOMAIN pending PROVE Kept(k)
    BY <1>2
  <2> QED BY <1>2 DEF Kept, Marked
<1>3. CASE UNCHANGED <<panels, pending>>
  BY <1>3 DEF Kept
<1>4. CASE ReadSnapshot
  <2>1. PICK P : pending' = Revised(pending, P)
    BY <1>4 DEF ReadSnapshot
  <2> QED BY <1>1, <1>2, <2>1, RevisedMarked
<1>5. CASE VisitReply
  <2>1. \A j \in DOMAIN pending' : \E l \in DOMAIN pending : pending'[j] = pending[l]
    BY <1>5, VisitPointwise DEF Visited
  <2> QED BY <2>1 DEF Kept
<1>6. CASE TickEnds \/ \E i \in Pages : Edit(i)
  BY <1>6, TickEndsForms DEF Kept, Edit
<1>7. CASE Restart
  <2>1. SameRequests
    BY <1>7, RestartSame
  <2>2. PICK shutdown, start \in BOOLEAN : StartConfiguration(shutdown, start)
    BY <1>7 DEF Restart
  <2>3. configuration'.state = "requested" /\ \A k \in DOMAIN pending : ~pending'[k].same /\ ~pending'[k].unrevised
    BY <1>1, <2>2 DEF StartConfiguration, Requests
  <2> QED BY <2>1, <2>3 DEF Kept, SameRequests
<1>8. CASE Sends
  <2>1. ASSUME NEW c \in Commands, Submits(c) PROVE \A k \in DOMAIN pending' : Kept(k) \/ Added(k)
    <3>1. \A k \in DOMAIN pending' : \/ k \in DOMAIN pending /\ pending'[k] = pending[k]
                                     \/ /\ pending'[k].page = c.from /\ pending'[k].op = c.op
                                        /\ pending'[k].endpoint = c.endpoint
                                        /\ pending'[k].same /\ pending'[k].unrevised
      BY <2>1 DEF Submits, SubmittedBy
    <3> QED BY <2>1, <3>1 DEF Kept, Added
  <2>2. ASSUME NEW P, NEW held, GivesUp(P, held) PROVE \A k \in DOMAIN pending' : Kept(k)
    BY <1>2, <2>2 DEF GivesUp
  <2> QED BY <1>8, <2>1, <2>2 DEF Sends
<1> QED
  BY <1>3, <1>4, <1>5, <1>6, <1>7, <1>8, FormsKept

(* The page that submits was free: nothing of it was queued or answered.   *)
LEMMA SubmitterIsFree ==
  ASSUME TypeInv, NEW c \in Commands, Submits(c)
  PROVE  /\ futures[c.from] = Unready /\ futures'[c.from] \in {Unready, Failed}
         /\ \A k \in DOMAIN inbox : inbox[k].from # c.from
         /\ \A k \in DOMAIN pending : pending[k].page # c.from
         /\ \A w \in Waiters : w # c.from => futures'[w] = futures[w]
<1>1. futures[c.from] = Unready /\ c.from \in Waiters
  BY NamesApart DEF Submits, TypeInv, OneCommandEach, AnswersExpected
<1>2. \A w \in Waiters : futures'[w] = futures[w] \/ (w = c.from /\ futures'[w] = Failed)
  BY SendPointwise DEF Submits
<1>3. \A k \in DOMAIN pending : pending[k].page # c.from
  BY DEF Submits, Busy
<1>4. \A k \in DOMAIN inbox : inbox[k].from # c.from
  BY <1>3 DEF Submits, TypeInv, OneCommandEach, Purposes
<1> QED
  BY <1>1, <1>2, <1>3, <1>4

LEMMA GivingUpKeepsFutures ==
  ASSUME TypeInv, NEW P, NEW held \in Nat, GivesUp(P, held)
  PROVE  futures' = futures
<1> DEFINE c == Command("cleanup", "Unsubscribe", Nothing, held)
<1>1. c.from = "cleanup"
  BY DEF Command
<1>2. (Send(c) \/ UNCHANGED <<inbox, futures>>)
  BY DEF GivesUp
<1> QED
  BY <1>1, <1>2, NamesApart DEF Send, Answer

LEMMA StepFutures ==
  ASSUME TypeInv, StepOf
  PROVE  \/ Execute /\ UNCHANGED workspaceVars
         \/ \A w \in Waiters : futures'[w] \in {futures[w], Unready, Failed}
<1>1. futures \in [Waiters -> Replies]
  BY Typical
<1>2. CASE VisitReply
  BY <1>1, <1>2, VisitPointwise DEF Visited
<1>3. CASE TickEnds
  BY <1>1, <1>3 DEF TickEnds, SubmitPoll
<1>4. CASE Sends
  BY <1>4, SubmitterIsFree, GivingUpKeepsFutures DEF Sends
<1>5. CASE ReplaceNetwork
  BY <1>5 DEF ReplaceNetwork
<1>6. CASE \/ DiscoveryChanges \/ ActionFinishes \/ TakeNetwork \/ ObserverUp \/ ReadSnapshot
           \/ Quiet \/ Restart \/ (\E i \in Pages : Edit(i)) \/ \E h : Shown(h)
  BY <1>6 DEF DiscoveryChanges, ActionFinishes, TakeNetwork, ObserverUp, ReadSnapshot, Quiet, Restart,
              Edit, Shown, runtimeVars
<1> QED
  BY <1>2, <1>3, <1>4, <1>5, <1>6, UserSends DEF StepOf

(* A panel's subscription changes when the panel is cleared or a reply is  *)
(* applied to it.                                                          *)
LEMMA StepSubscriptions ==
  ASSUME TypeInv, StepOf
  PROVE  \A i \in Pages :
           \/ panels'[i].subscription \in {panels[i].subscription, 0}
           \/ \E q, r : /\ Visited(q, r) /\ Applicable(q) /\ ~r.error
                        /\ q.page = i /\ q.op = "Subscribe" /\ panels'[i].subscription = r.handle
<1>1. panels \in [Pages -> Panels] /\ \A i \in Pages : panels[i] \in Panels
  BY Typical
<1>2. CASE UNCHANGED <<panels, pending>>
  BY <1>2
<1>3. CASE ReadSnapshot
  BY <1>1, <1>3 DEF ReadSnapshot, Cleared, EmptyPanel
<1>4. CASE VisitReply
  <2>1. ASSUME NEW q, NEW r, Visited(q, r)
        PROVE  \A i \in Pages :
                 \/ panels'[i].subscription \in {panels[i].subscription, 0}
                 \/ /\ Visited(q, r) /\ Applicable(q) /\ ~r.error
                    /\ q.page = i /\ q.op = "Subscribe" /\ panels'[i].subscription = r.handle
    <3>1. \A p \in Panels :
             \/ Applied(p, q, r).subscription \in {p.subscription, 0}
             \/ q.op = "Subscribe" /\ Applied(p, q, r).subscription = r.handle
      BY <2>1 DEF Visited, Applied, Panels, Requests, Ops
    <3> QED BY <1>1, <2>1, <3>1 DEF Visited
  <2> QED BY <1>2, <1>4, <2>1, VisitPointwise
<1>5. CASE TickEnds
  BY <1>5, TickEndsForms
<1>6. CASE Restart
  BY <1>6, RestartPointwise DEF ClearedTo
<1>7. CASE \E i \in Pages : Edit(i)
  BY <1>1, <1>7 DEF Edit, Panels
<1>8. CASE Sends
  <2>1. ASSUME NEW c \in Commands, Submits(c)
        PROVE  \A i \in Pages : panels'[i].subscription \in {panels[i].subscription, 0}
    BY <2>1 DEF Submits, ClearedTo
  <2>2. ASSUME NEW P, NEW held, GivesUp(P, held)
        PROVE  \A i \in Pages : panels'[i].subscription \in {panels[i].subscription, 0}
    BY <2>2 DEF GivesUp, ClearedTo
  <2> QED BY <1>8, <2>1, <2>2 DEF Sends
<1> QED
  BY <1>2, <1>3, <1>4, <1>5, <1>6, <1>7, <1>8, FormsKept

-----------------------------------------------------------------------------
(* Owners of subscriptions.                                                *)

LEMMA StepTopicOnly ==
  ASSUME TypeInv, TopicOnly, StepOf
  PROVE  TopicOnly'
<1>1. \A i \in Pages : panels'[i].subscription # 0 => i = "topic"
  <2>1. \A q, r : Visited(q, r) /\ q.op = "Subscribe" => q.page = "topic"
    BY DEF Visited, TopicOnly
  <2> QED BY <2>1, StepSubscriptions DEF TopicOnly
<1>2. \A k \in DOMAIN pending' :
        pending'[k].op \in {"Subscribe", "Unsubscribe"} => pending'[k].page = "topic"
  BY StepRequests DEF Kept, Added, Submits, TopicOnly
<1> QED
  BY <1>1, <1>2 DEF TopicOnly

LEMMA StepNetwork ==
  ASSUME TypeInv, NetworkInv, StepOf
  PROVE  NetworkInv'
<1>1. CASE Execute /\ UNCHANGED workspaceVars
  <2>1. net \notin {"starting", "off"}
    BY <1>1 DEF Execute, NetworkInv
  <2> QED BY <1>1, <2>1 DEF workspaceVars, netVars, NetworkInv
<1>2. CASE ReplaceNetwork
  BY <1>2 DEF ReplaceNetwork, NetworkInv
<1>3. CASE TakeNetwork
  BY <1>3 DEF TakeNetwork, runtimeVars, NetworkInv, TypeInv, Types, GuiTypes
<1>4. CASE ObserverUp
  BY <1>4 DEF ObserverUp, runtimeVars, NetworkInv
<1>5. ASSUME subscriptions' = subscriptions, net' = net,
             configuration'.state \in {"none", "requested", configuration.state},
             configuration.state = "stopping" => configuration'.state = "stopping",
             inbox' = inbox \/ net = "up"
      PROVE  NetworkInv'
  BY <1>5 DEF NetworkInv
<1>6. CASE VisitReply \/ TickEnds \/ Sends
  <2>1. UNCHANGED <<subscriptions, net, configuration>>
    BY <1>6 DEF VisitReply, TickEnds, Sends, worldVars, netVars
  <2>2. inbox' = inbox \/ net = "up"
    <3>1. QueueCases
      BY <1>6, StepQueue
    <3>2. inbox # <<>> => net \notin {"starting", "off"}
      BY DEF NetworkInv
    <3>3. ASSUME Execute PROVE inbox # <<>> /\ inbox' = Tail(inbox)
      BY <3>3, Executed
    <3>4. CASE VisitReply
      <4>1. ASSUME NEW q, NEW r, Visited(q, r) PROVE inbox' = inbox \/ net = "up"
        BY <4>1 DEF Visited, GiveUpOrphan, Accepts
      <4> QED BY <3>4, <4>1, VisitPointwise
    <3>5. CASE TickEnds
      BY <3>5 DEF TickEnds, SubmitPoll, Accepts
    <3>6. CASE Sends
      BY <3>6 DEF Sends, Submits, GivesUp, Send, Accepts
    <3> QED BY <1>6, <3>4, <3>5, <3>6
  <2> QED BY <1>5, <2>1, <2>2
<1>7. CASE \/ DiscoveryChanges /\ UNCHANGED workspaceVars
           \/ ActionFinishes /\ UNCHANGED workspaceVars
           \/ (\E i \in Pages : Edit(i)) \/ \E h : Shown(h)
  <2>1. UNCHANGED <<inbox, subscriptions, net, configuration>>
    BY <1>7 DEF DiscoveryChanges, ActionFinishes, Edit, Shown, workspaceVars, runtimeVars, netVars
  <2> QED BY <1>5, <2>1
<1>8. CASE ReadSnapshot \/ Quiet
  <2>1. /\ UNCHANGED <<inbox, subscriptions, net>>
        /\ configuration' = configuration \/ (configuration.state = "done" /\ configuration' = Idle)
    BY <1>8 DEF ReadSnapshot, Quiet, runtimeVars, netVars
  <2> QED BY <1>5, <2>1 DEF Idle
<1>9. CASE Restart
  <2>1. UNCHANGED <<inbox, subscriptions, net>> /\ configuration'.state = "requested"
    BY <1>9, RestartPointwise DEF worldVars
  <2> QED BY <1>5, <1>9, <2>1 DEF Restart
<1> QED
  BY <1>1, <1>2, <1>3, <1>4, <1>6, <1>7, <1>8, <1>9, UserSends DEF StepOf

LEMMA StepCleanup ==
  ASSUME TypeInv, HeldInv, TopicOnly, CleanupInv, StepOf
  PROVE  CleanupInv'
<1>1. /\ \A k \in DOMAIN inbox : inbox[k] \in Commands
      /\ inbox \in Seq(Commands) /\ futures \in [Waiters -> Replies]
      /\ SubscribesOnce /\ OnePerPage /\ Purposes /\ QueuedOrAnswered
      /\ \A k \in DOMAIN pending : pending[k].page \in Pages
  BY Typical DEF HeldInv, TypeInv, OneCommandEach
<1> DEFINE GivenUp ==
      /\ \A i \in Pages : panels[i].subscription = 0
      /\ \A l \in DOMAIN pending : pending[l].op = "Subscribe" => futures[pending[l].page].handle = 0
(* While a cleanup is queued no subscription comes to a panel ...          *)
<1>2. ASSUME \E k \in DOMAIN inbox : inbox[k].from = "cleanup"
      PROVE  GivenUp'
  <2>1. GivenUp
    BY <1>2 DEF CleanupInv
  <2>2. \A i \in Pages : panels'[i].subscription = 0
    <3>1. \A q, r : Visited(q, r) /\ q.op = "Subscribe" => r.handle = 0
      BY <2>1 DEF Visited
    <3> QED BY <2>1, <3>1, StepSubscriptions
  <2>3. \A w \in Waiters : futures'[w].handle # 0 =>
           \/ futures'[w].handle = futures[w].handle
           \/ \A l \in DOMAIN pending : pending[l].page = w => pending[l].op # "Subscribe"
    <3>1. CASE \A w \in Waiters : futures'[w] \in {futures[w], Unready, Failed}
      BY <3>1, ReplyTypes
    <3>2. CASE Execute
      <4> DEFINE c == Head(inbox)
      <4>1. inbox # <<>> /\ \E r : Executes(c, r)
        BY <3>2, Executed
      <4>2. c = inbox[1] /\ 1 \in DOMAIN inbox
        BY <1>1, <4>1, TailOf
      <4> HIDE DEF c
      <4>3. PICK r : Executes(c, r)
        BY <4>1
      <4>4. c.op # "Subscribe"
        BY <1>1, <1>2, <4>2, LenProperties DEF CleanupInv
      <4>5. \A l \in DOMAIN pending : pending[l].page = c.from => pending[l].op = c.op
        BY <1>1, <4>2 DEF Purposes, OnePerPage
      <4>6. \A w \in Waiters : futures'[w] = futures[w] \/ w = c.from
        BY <1>1, <4>3 DEF Executes
      <4> QED BY <4>4, <4>5, <4>6
    <3> QED BY <3>1, <3>2, StepFutures
  <2>4. \A l \in DOMAIN pending' : pending'[l].op = "Subscribe" => futures'[pending'[l].page].handle = 0
    <3> SUFFICES ASSUME NEW l \in DOMAIN pending', pending'[l].op = "Subscribe",
                        futures'[pending'[l].page].handle # 0
                 PROVE  FALSE
      OBVIOUS
    <3>1. CASE Kept(l)
      <4>1. PICK m \in DOMAIN pending : pending'[l].page = pending[m].page /\ pending'[l].op = pending[m].op
        BY <3>1 DEF Kept
      <4>2. pending[m].page \in Waiters /\ futures[pending[m].page].handle = 0
        BY <1>1, <2>1, <4>1, NamesApart
      <4> QED BY <2>3, <4>1, <4>2
    <3>2. CASE Added(l)
      <4>1. PICK c \in Commands : Submits(c) /\ pending'[l].page = c.from
        BY <3>2 DEF Added
      <4> QED BY <4>1, SubmitterIsFree, ReplyTypes
    <3> QED BY <3>1, <3>2, StepRequests
  <2> QED BY <2>2, <2>4
<1> DEFINE Ordered(s) ==
      \A k \in DOMAIN s : s[k].from = "cleanup" =>
        /\ \A l \in DOMAIN s : s[l].op = "Subscribe" => k < l
        /\ \A l \in DOMAIN s : s[l].from = "cleanup" => k = l
<1>3. Ordered(inbox)
  BY DEF CleanupInv
<1>4. ASSUME NEW l \in DOMAIN inbox, inbox[l].op = "Subscribe"
      PROVE  \E m \in DOMAIN pending : /\ pending[m].op = "Subscribe" /\ pending[m].page = "topic"
                                       /\ inbox[l].from = "topic" /\ futures["topic"] = Unready
  <2>1. inbox[l].from \in Pages
    BY <1>1, <1>4 DEF Purposes, Commands, Senders, Waiters
  <2>2. PICK m \in DOMAIN pending : pending[m].page = inbox[l].from /\ pending[m].op = "Subscribe"
    BY <1>1, <1>4, <2>1 DEF Purposes
  <2> QED BY <1>1, <2>1, <2>2 DEF TopicOnly, QueuedOrAnswered, Waiters
(* ... and a new one is queued only when its panel lets go of one.         *)
<1>5. ASSUME NEW c, Joined(c), c.from # "cleanup"
      PROVE  Ordered(inbox') /\ \A k \in DOMAIN inbox' : inbox'[k].from = "cleanup" =>
                                  \E l \in DOMAIN inbox : inbox[l].from = "cleanup"
  <2>1. \A k \in DOMAIN inbox' : \/ k \in DOMAIN inbox /\ inbox'[k] = inbox[k] /\ k < Len(inbox) + 1
                                 \/ k = Len(inbox) + 1 /\ inbox'[k] = c
    BY <1>5 DEF Joined
  <2> QED BY <1>3, <1>5, <2>1
<1>6. ASSUME NEW c, Joined(c), c.op # "Subscribe",
             \A k \in DOMAIN inbox : inbox[k].from # "cleanup" /\ inbox[k].op # "Subscribe"
      PROVE  Ordered(inbox')
  <2>1. \A k \in DOMAIN inbox' : \/ k \in DOMAIN inbox /\ inbox'[k] = inbox[k]
                                 \/ k = Len(inbox) + 1 /\ inbox'[k] = c
    BY <1>6 DEF Joined
  <2> QED BY <1>6, <2>1
<1> HIDE DEF Ordered, GivenUp
<1>7. ASSUME Ordered(inbox'),
             (\E k \in DOMAIN inbox' : inbox'[k].from = "cleanup") => GivenUp'
      PROVE  CleanupInv'
  BY <1>7 DEF CleanupInv, Ordered, GivenUp
<1>8. CASE inbox' = inbox
  BY <1>2, <1>3, <1>7, <1>8
<1>9. CASE Execute
  <2>1. inbox # <<>> /\ inbox' = Tail(inbox)
    BY <1>9, Executed
  <2>2. \A k \in DOMAIN inbox' : k + 1 \in DOMAIN inbox /\ inbox'[k] = inbox[k + 1] /\ k \in Nat
    BY <1>1, <2>1, TailOf
  <2>3. Ordered(inbox')
    <3>1. \A k, l \in DOMAIN inbox' : /\ (k + 1 < l + 1 => k < l)
                                      /\ (k + 1 = l + 1 => k = l)
      BY <2>2
    <3> QED BY <1>3, <2>2, <3>1 DEF Ordered
  <2> QED BY <1>2, <1>7, <2>2, <2>3
<1>10. CASE ReplaceNetwork
  <2>1. DOMAIN inbox' = {}
    BY <1>10 DEF ReplaceNetwork
  <2> QED BY <1>7, <2>1 DEF Ordered
<1>11. ASSUME NEW c, Joined(c), c.from # "cleanup" PROVE CleanupInv'
  BY <1>2, <1>5, <1>7, <1>11
<1>12. ASSUME NEW q, NEW r, Visited(q, r), q.same, ~q.unrevised, q.op = "Subscribe", r.handle # 0,
              Joined(Command("cleanup", "Unsubscribe", Nothing, r.handle))
       PROVE  CleanupInv'
  <2>1. PICK k \in DOMAIN pending : q = pending[k]
    BY <1>12 DEF Visited
  <2>2. q.page = "topic" /\ r = futures["topic"] /\ r # Unready /\ "topic" \in Pages
    BY <1>12, <2>1 DEF Visited, TopicOnly
  <2>3. \A l \in DOMAIN inbox : inbox[l].from # "cleanup" /\ inbox[l].op # "Subscribe"
    BY <1>4, <1>12, <2>1, <2>2 DEF CleanupInv
  <2>4. Ordered(inbox')
    BY <1>6, <1>12, <2>3 DEF Command
  <2>5. panels' = panels /\ \A i \in Pages : panels[i].subscription = 0
    BY <1>1, <1>12, <2>1, <2>2 DEF Visited, Applicable, SubscribesOnce, TopicOnly
  <2>6. \A l \in DOMAIN pending' : pending'[l].op # "Subscribe"
    BY <1>12, <2>2 DEF Visited, TopicOnly
  <2> QED BY <1>7, <2>4, <2>5, <2>6 DEF GivenUp
<1>13. ASSUME NEW P \in SUBSET Pages, NEW held \in Nat, held # 0, GivesUp(P, held),
              Joined(Command("cleanup", "Unsubscribe", Nothing, held))
       PROVE  CleanupInv'
  <2>1. "topic" \in P /\ panels["topic"].subscription # 0 /\ "topic" \in Pages
    <3>1. PICK i \in P : panels[i].subscription = held
      BY <1>13 DEF GivesUp
    <3> QED BY <1>13, <3>1 DEF TopicOnly, GivesUp
  <2>2. \A m \in DOMAIN pending : pending[m].op # "Subscribe"
    BY <1>1, <2>1 DEF SubscribesOnce, TopicOnly
  <2>3. \A l \in DOMAIN inbox : inbox[l].from # "cleanup" /\ inbox[l].op # "Subscribe"
    BY <1>4, <2>1, <2>2 DEF CleanupInv
  <2>4. Ordered(inbox')
    BY <1>6, <1>13, <2>3 DEF Command
  <2>5. \A i \in Pages : panels'[i].subscription = 0
    BY <1>13, <2>1 DEF GivesUp, ClearedTo, TopicOnly
  <2>6. \A l \in DOMAIN pending' : pending'[l].op # "Subscribe"
    BY <1>13, <2>2 DEF GivesUp, Marked
  <2> QED BY <1>7, <2>4, <2>5, <2>6 DEF GivenUp
<1>14. CASE \E c : Submits(c) /\ Joined(c)
  BY <1>11, <1>14, NamesApart DEF Submits, Waiters
<1>15. CASE Joined(Command("poll", "Poll", Nothing, 0))
  BY <1>11, <1>15 DEF Command
<1> QED
  BY <1>8, <1>9, <1>10, <1>12, <1>13, <1>14, <1>15, StepQueue DEF QueueCases

(* The command that is executed, what waits for it, and what its handle    *)
(* becomes.                                                                *)
Answered(c, r) ==
  /\ c \in Commands /\ 1 \in DOMAIN inbox /\ c = inbox[1]
  /\ Executes(c, r)
  /\ c.from \in Waiters => futures[c.from] = Unready /\ futures'[c.from] = r
  /\ \A w \in Waiters : w # c.from => futures'[w] = futures[w]
  /\ \A k \in DOMAIN pending :
       pending[k].page = c.from => pending[k].op = c.op /\ pending[k].endpoint = c.endpoint
  /\ \A k \in DOMAIN inbox' : k + 1 \in DOMAIN inbox /\ inbox'[k] = inbox[k + 1] /\ k + 1 # 1
  /\ \A k \in DOMAIN inbox : k = 1 \/ \E m \in DOMAIN inbox' : inbox'[m] = inbox[k]
  /\ \A k \in DOMAIN inbox' : inbox'[k].from = c.from => c.from \notin Waiters
  /\ nextHandle \notin Handles(subscriptions) /\ 0 \notin Handles(subscriptions)
  /\ nextHandle # 0
  /\ \/ /\ r.handle = 0
        /\ \A h : h \in Handles(subscriptions') <=>
             h \in Handles(subscriptions) /\ ~(c.op = "Unsubscribe" /\ h = c.handle)
     \/ /\ r.handle = nextHandle /\ c.op = "Subscribe" /\ ~r.error /\ c.endpoint \in live
        /\ Handles(subscriptions') = Handles(subscriptions) \cup {nextHandle}
     \/ /\ r.handle = nextHandle /\ c.op = "Goal" /\ c.endpoint \in live
        /\ Handles(subscriptions') = Handles(subscriptions)

LEMMA ExecuteAnswers ==
  ASSUME TypeInv, Execute
  PROVE  \E c, r : Answered(c, r)
<1> DEFINE c == Head(inbox)
<1>1. inbox # <<>> /\ inbox' = Tail(inbox) /\ \E r : Executes(c, r)
  BY Executed
<1>2. /\ c = inbox[1] /\ 1 \in DOMAIN inbox /\ c \in Commands
      /\ \A k \in DOMAIN inbox' : k + 1 \in DOMAIN inbox /\ inbox'[k] = inbox[k + 1] /\ k + 1 # 1
  BY <1>1, Typical, TailOf
<1> HIDE DEF c
<1>3. PICK r : Executes(c, r)
  BY <1>1
<1>4. c.from \in Waiters => futures[c.from] = Unready /\ futures'[c.from] = r
  BY <1>2, <1>3, Typical DEF Executes, TypeInv, OneCommandEach, QueuedOrAnswered
<1>5. \A w \in Waiters : w # c.from => futures'[w] = futures[w]
  BY <1>3, Typical DEF Executes
<1>6. \A k \in DOMAIN pending :
        pending[k].page = c.from => pending[k].op = c.op /\ pending[k].endpoint = c.endpoint
  BY <1>2, Typical DEF TypeInv, OneCommandEach, Purposes, OnePerPage
<1>7. /\ \A k \in DOMAIN inbox' : inbox'[k].from = c.from => c.from \notin Waiters
      /\ \A k \in DOMAIN inbox : k = 1 \/ \E m \in DOMAIN inbox' : inbox'[m] = inbox[k]
  <2>1. \A k \in DOMAIN inbox' : inbox'[k].from = c.from => c.from \notin Waiters
    BY <1>2 DEF TypeInv, OneCommandEach, OnePerWaiter
  <2>2. inbox \in Seq(Commands)
    BY Typical
  <2>3. \A k \in DOMAIN inbox : k = 1 \/ \E m \in DOMAIN inbox' : inbox'[m] = inbox[k]
    BY <1>1, <2>2, TailOf
  <2> QED BY <2>1, <2>3
<1>8. /\ nextHandle \notin Handles(subscriptions) /\ 0 \notin Handles(subscriptions)
      /\ nextHandle # 0
  BY Typical DEF TypeInv, HandlesInv, GivenOut
<1>9. \/ /\ r.handle = 0
         /\ \A h : h \in Handles(subscriptions') <=>
              h \in Handles(subscriptions) /\ ~(c.op = "Unsubscribe" /\ h = c.handle)
      \/ /\ r.handle = nextHandle /\ c.op = "Subscribe" /\ ~r.error /\ c.endpoint \in live
         /\ Handles(subscriptions') = Handles(subscriptions) \cup {nextHandle}
      \/ /\ r.handle = nextHandle /\ c.op = "Goal" /\ c.endpoint \in live
         /\ Handles(subscriptions') = Handles(subscriptions)
  <2>1. CASE r.handle = 0 /\ subscriptions' = Unsubscribed(c.handle) /\ c.op = "Unsubscribe"
    BY <2>1 DEF Handles, Unsubscribed
  <2>2. CASE r.handle = 0 /\ subscriptions' = subscriptions /\ c.op # "Unsubscribe"
    BY <2>2 DEF Handles
  <2>3. CASE /\ r.handle = nextHandle /\ c.op = "Subscribe" /\ ~r.error /\ c.endpoint \in live
             /\ subscriptions' = subscriptions \cup {[handle |-> nextHandle, endpoint |-> c.endpoint]}
    <3> DEFINE new == [handle |-> nextHandle, endpoint |-> c.endpoint]
    <3>1. new.handle = nextHandle
      OBVIOUS
    <3> HIDE DEF new
    <3>2. \A h : h \in Handles(subscriptions \cup {new}) <=> h \in Handles(subscriptions) \/ h = nextHandle
      BY <3>1 DEF Handles
    <3> QED BY <2>3, <3>2 DEF new
  <2>4. CASE r.handle = nextHandle /\ subscriptions' = subscriptions
    <3>1. nextHandle \notin Handles(subscriptions')
      BY <1>8, <2>4
    <3>2. \A h : [handle |-> h, endpoint |-> c.endpoint] \in subscriptions' => h \in Handles(subscriptions')
      BY DEF Handles
    <3> QED BY <1>3, <1>8, <2>4, <3>1, <3>2 DEF Executes, Handles
  <2> QED BY <1>3, <2>1, <2>2, <2>3, <2>4 DEF Executes
<1> QED
  BY <1>2, <1>3, <1>4, <1>5, <1>6, <1>7, <1>8, <1>9 DEF Answered

(* Every other step leaves the subscriptions as they are, or ends them all.*)
LEMMA StepWorld ==
  ASSUME TypeInv, StepOf
  PROVE  \/ Execute /\ UNCHANGED workspaceVars
         \/ /\ churn' = 0 => churn = 0 /\ live' = live
            /\ ReplaceNetwork \/ UNCHANGED subscriptions
<1>1. CASE DiscoveryChanges /\ UNCHANGED workspaceVars
  <2>1. churn' # 0
    BY <1>1 DEF DiscoveryChanges, TypeInv, Types, RuntimeTypes
  <2> QED BY <1>1, <2>1 DEF DiscoveryChanges
<1>2. CASE \/ (ActionFinishes /\ UNCHANGED workspaceVars)
           \/ TakeNetwork \/ ObserverUp \/ ReadSnapshot \/ VisitReply \/ TickEnds \/ Quiet \/ Restart
           \/ (\E i \in Pages : Edit(i)) \/ Sends \/ \E h : Shown(h)
  BY <1>2 DEF ActionFinishes, TakeNetwork, ObserverUp, ReadSnapshot, VisitReply, TickEnds, Quiet, Restart,
              Edit, Sends, Shown, runtimeVars, worldVars
<1>3. CASE ReplaceNetwork
  BY <1>3 DEF ReplaceNetwork
<1> QED
  BY <1>1, <1>2, <1>3, UserSends DEF StepOf

LEMMA StepReplies ==
  ASSUME TypeInv, RepliesInv, StepOf
  PROVE  RepliesInv'
<1>1. CASE Execute /\ UNCHANGED workspaceVars
  <2>1. PICK c, r : Answered(c, r)
    BY <1>1, ExecuteAnswers
  <2>2. UNCHANGED <<pending, live, churn>>
    BY <1>1 DEF Execute, workspaceVars
  <2> SUFFICES ASSUME NEW k \in DOMAIN pending
               PROVE  LET q == pending[k]
                          f == futures'[q.page]
                      IN /\ f.handle \in Handles(subscriptions') => q.op = "Subscribe"
                         /\ f.handle # 0 /\ q.op = "Subscribe" => ~f.error
                         /\ f.handle # 0 /\ churn = 0 => q.endpoint \in live
    BY <2>2 DEF RepliesInv
  <2>3. pending[k].page \in Waiters
    BY Typical
  <2>4. CASE pending[k].page = c.from
    BY <2>1, <2>3, <2>4 DEF Answered
  <2>5. CASE pending[k].page # c.from
    <3>1. futures[pending[k].page].handle # nextHandle
      BY <2>3, Typical DEF TypeInv, HandlesInv, GivenOut
    <3>2. futures'[pending[k].page] = futures[pending[k].page]
      BY <2>1, <2>3, <2>5 DEF Answered
    <3>3. futures[pending[k].page].handle \in Handles(subscriptions') =>
            futures[pending[k].page].handle \in Handles(subscriptions)
      BY <2>1, <3>1 DEF Answered
    <3> QED BY <3>2, <3>3 DEF RepliesInv
  <2> QED BY <2>4, <2>5
<1>2. CASE ~(Execute /\ UNCHANGED workspaceVars)
  <2>1. \A w \in Waiters : futures'[w] \in {futures[w], Unready, Failed}
    BY <1>2, StepFutures
  <2>2. /\ \A h \in Handles(subscriptions') : h \in Handles(subscriptions) /\ h # 0
        /\ churn' = 0 => churn = 0 /\ live' = live
    <3>1. \A h \in Handles(subscriptions) : h # 0
      BY Typical DEF TypeInv, HandlesInv, GivenOut
    <3>2. Handles({}) = {}
      BY DEF Handles
    <3> QED BY <1>2, <3>1, <3>2, StepWorld DEF ReplaceNetwork
  <2> SUFFICES ASSUME NEW k \in DOMAIN pending', futures'[pending'[k].page].handle # 0
               PROVE  LET q == pending'[k]
                          f == futures'[q.page]
                      IN /\ f.handle \in Handles(subscriptions') => q.op = "Subscribe"
                         /\ q.op = "Subscribe" => ~f.error
                         /\ churn' = 0 => q.endpoint \in live'
    BY <2>2 DEF RepliesInv
  <2>3. CASE Kept(k)
    <3>1. PICK l \in DOMAIN pending : /\ pending'[k].page = pending[l].page
                                     /\ pending'[k].op = pending[l].op
                                     /\ pending'[k].endpoint = pending[l].endpoint
      BY <2>3 DEF Kept
    <3>2. pending[l].page \in Waiters
      BY Typical
    <3>3. futures'[pending[l].page] = futures[pending[l].page]
      BY <2>1, <3>1, <3>2, ReplyTypes
    <3> QED BY <2>2, <3>1, <3>3 DEF RepliesInv
  <2>4. CASE Added(k)
    BY <2>4, SubmitterIsFree, ReplyTypes DEF Added
  <2> QED BY <2>3, <2>4, StepRequests
<1> QED
  BY <1>1, <1>2

(* What is in the queue after a step was there before, unless it was just  *)
(* submitted or concerns no page.                                          *)
LEMMA StepInbox ==
  ASSUME TypeInv, StepOf
  PROVE  \A m \in DOMAIN inbox' :
           \/ \E l \in DOMAIN inbox : inbox'[m] = inbox[l]
           \/ inbox'[m].from \notin Pages /\ inbox'[m].op # "Subscribe"
           \/ \E c : Submits(c) /\ inbox'[m] = c
<1>1. ASSUME NEW c, Joined(c)
      PROVE  \A m \in DOMAIN inbox' : (\E l \in DOMAIN inbox : inbox'[m] = inbox[l]) \/ inbox'[m] = c
  BY <1>1 DEF Joined
<1>2. ASSUME NEW h, Joined(Command("cleanup", "Unsubscribe", Nothing, h))
      PROVE  \A m \in DOMAIN inbox' : \/ \E l \in DOMAIN inbox : inbox'[m] = inbox[l]
                                      \/ inbox'[m].from \notin Pages /\ inbox'[m].op # "Subscribe"
  BY <1>1, <1>2, NamesApart DEF Command
<1>3. CASE Joined(Command("poll", "Poll", Nothing, 0))
  BY <1>1, <1>3, NamesApart DEF Command
<1>4. CASE Execute
  BY <1>4, ExecuteAnswers DEF Answered
<1>5. CASE ReplaceNetwork
  BY <1>5 DEF ReplaceNetwork
<1> QED
  BY <1>1, <1>2, <1>3, <1>4, <1>5, StepQueue DEF QueueCases

(* A panel whose request is neither detached nor revised holds what it     *)
(* held.                                                                   *)
LEMMA StepHolds ==
  ASSUME TypeInv, StepOf, NEW k \in DOMAIN pending', NEW l \in DOMAIN pending,
         pending'[k].page = pending[l].page, pending'[k].same, pending'[k].unrevised
  PROVE  panels'[pending[l].page].subscription = panels[pending[l].page].subscription
<1> DEFINE i == pending[l].page
<1>1. panels \in [Pages -> Panels] /\ i \in Pages /\ \A j \in Pages : panels[j] \in Panels
  BY Typical
<1>2. CASE ReadSnapshot
  BY <1>1, <1>2 DEF ReadSnapshot, Cleared, EmptyPanel
<1>3. CASE VisitReply
  <2>1. ASSUME NEW q, NEW r, Visited(q, r) PROVE panels'[i] = panels[i]
    <3>1. q.page # i
      BY <2>1 DEF Visited
    <3> QED BY <1>1, <2>1, <3>1 DEF Visited
  <2> QED BY <1>3, <2>1, VisitPointwise
<1>4. CASE TickEnds
  BY <1>1, <1>4, TickEndsForms
<1>5. CASE Restart
  BY <1>5, RestartPointwise
<1>6. CASE \E j \in Pages : Edit(j)
  BY <1>1, <1>6 DEF Edit, Panels
<1>7. CASE Sends
  <2>1. ASSUME NEW c \in Commands, Submits(c) PROVE panels'[i].subscription = panels[i].subscription
    <3>1. i # c.from
      BY <2>1, SubmitterIsFree
    <3> QED BY <1>1, <2>1, <3>1 DEF Submits
  <2>2. ASSUME NEW P, NEW held, GivesUp(P, held) PROVE panels'[i].subscription = panels[i].subscription
    <3>1. i \notin P
      BY <2>2 DEF GivesUp, Marked
    <3> QED BY <1>1, <2>2, <3>1 DEF GivesUp
  <2> QED BY <1>7, <2>1, <2>2 DEF Sends
<1> QED
  BY <1>2, <1>3, <1>4, <1>5, <1>6, <1>7, FormsKept

LEMMA StepUnsubscribe ==
  ASSUME TypeInv, UnsubscribeInv, StepOf
  PROVE  UnsubscribeInv'
<1>1. CASE Execute /\ UNCHANGED workspaceVars
  <2>1. PICK c, r : Answered(c, r)
    BY <1>1, ExecuteAnswers
  <2>2. UNCHANGED <<pending, panels>>
    BY <1>1 DEF workspaceVars, formVars
  <2> SUFFICES ASSUME NEW k \in DOMAIN pending,
                      pending[k].op = "Unsubscribe", pending[k].same, pending[k].unrevised
               PROVE  LET i == pending[k].page
                      IN /\ \A l \in DOMAIN inbox' :
                              inbox'[l].from = i => inbox'[l].handle = panels[i].subscription
                         /\ futures'[i] # Unready /\ ~futures'[i].error =>
                              panels[i].subscription \notin Handles(subscriptions')
    BY <2>2 DEF UnsubscribeInv
  <2> DEFINE i == pending[k].page
  <2>3. i \in Waiters /\ panels[i].subscription < nextHandle /\ panels[i].subscription \in Nat /\ nextHandle \in Nat
    BY Typical DEF TypeInv, HandlesInv, GivenOut, Panels
  <2>4. /\ \A l \in DOMAIN inbox : inbox[l].from = i => inbox[l].handle = panels[i].subscription
        /\ futures[i] # Unready /\ ~futures[i].error => panels[i].subscription \notin Handles(subscriptions)
    BY DEF UnsubscribeInv
  <2>5. \A l \in DOMAIN inbox' : inbox'[l].from = i => inbox'[l].handle = panels[i].subscription
    BY <2>1, <2>4 DEF Answered
  <2>6. CASE i = c.from
    BY <2>1, <2>3, <2>4, <2>5, <2>6 DEF Answered
  <2>7. CASE i # c.from
    <3>1. futures'[i] = futures[i]
      BY <2>1, <2>3, <2>7 DEF Answered
    <3>2. panels[i].subscription \in Handles(subscriptions') => panels[i].subscription \in Handles(subscriptions)
      BY <2>1, <2>3 DEF Answered
    <3> QED BY <2>4, <2>5, <3>1, <3>2
  <2> QED BY <2>6, <2>7
<1>2. CASE ~(Execute /\ UNCHANGED workspaceVars)
  <2>1. \A w \in Waiters : futures'[w] \in {futures[w], Unready, Failed}
    BY <1>2, StepFutures
  <2>2. \A h \in Handles(subscriptions') : h \in Handles(subscriptions)
    BY <1>2, StepWorld DEF ReplaceNetwork, Handles
  <2> SUFFICES ASSUME NEW k \in DOMAIN pending',
                      pending'[k].op = "Unsubscribe", pending'[k].same, pending'[k].unrevised
               PROVE  LET i == pending'[k].page
                      IN /\ \A m \in DOMAIN inbox' :
                              inbox'[m].from = i => inbox'[m].handle = panels'[i].subscription
                         /\ futures'[i] # Unready /\ ~futures'[i].error =>
                              panels'[i].subscription \notin Handles(subscriptions')
    BY DEF UnsubscribeInv
  <2> DEFINE i == pending'[k].page
  <2>3. CASE Kept(k)
    <3>1. PICK l \in DOMAIN pending : /\ pending'[k].page = pending[l].page
                                     /\ pending'[k].op = pending[l].op
                                     /\ pending[l].same /\ pending[l].unrevised
      BY <2>3 DEF Kept
    <3>2. i \in Pages /\ i \in Waiters
      BY <3>1, Typical
    <3>3. panels'[i].subscription = panels[i].subscription
      BY <3>1, StepHolds
    <3>4. /\ \A m \in DOMAIN inbox : inbox[m].from = i => inbox[m].handle = panels[i].subscription
          /\ futures[i] # Unready /\ ~futures[i].error => panels[i].subscription \notin Handles(subscriptions)
      BY <3>1 DEF UnsubscribeInv
    <3>5. \A c : Submits(c) => c.from # i
      BY <3>1 DEF Submits, Busy
    <3>6. \A m \in DOMAIN inbox' : inbox'[m].from = i => inbox'[m].handle = panels[i].subscription
      BY <3>2, <3>4, <3>5, StepInbox
    <3>7. futures'[i] # Unready /\ ~futures'[i].error => futures'[i] = futures[i]
      BY <2>1, <3>2, ReplyTypes
    <3> QED BY <2>2, <3>3, <3>4, <3>6, <3>7
  <2>4. CASE Added(k) /\ Sends
    <3>1. PICK c \in Commands : Submits(c) /\ i = c.from /\ c.op = "Unsubscribe"
      BY <2>4 DEF Added
    <3>2. panels' = panels /\ i \in Pages
      BY <3>1 DEF Submits
    <3>3. \A d : Submits(d) => d.op = "Unsubscribe" /\ d.from = i
      BY <3>1 DEF Submits, SubmittedBy
    <3>4. \A d : Submits(d) => d.handle = panels[i].subscription
      BY <3>3 DEF Submits
    <3>5. \A m \in DOMAIN inbox : inbox[m].from # i
      BY <3>1, SubmitterIsFree
    <3>6. \A m \in DOMAIN inbox' : inbox'[m].from = i => inbox'[m].handle = panels[i].subscription
      BY <3>2, <3>4, <3>5, StepInbox
    <3>7. futures'[i] = Unready \/ futures'[i].error
      BY <3>1, SubmitterIsFree, ReplyTypes
    <3> QED BY <3>2, <3>6, <3>7
  <2> QED BY <2>3, <2>4, StepRequests
<1> QED
  BY <1>1, <1>2

(* A configuration only moves on, or starts over.                          *)
LEMMA StepConfiguration ==
  ASSUME TypeInv, StepOf
  PROVE  \/ UNCHANGED configuration /\ (net' = net \/ ObserverUp)
         \/ configuration.state = "done" /\ configuration'.state = "none" /\ net' = net
         \/ Restart \/ TakeNetwork \/ ReplaceNetwork
<1>1. CASE \/ ((Execute \/ DiscoveryChanges \/ ActionFinishes) /\ UNCHANGED workspaceVars)
           \/ ObserverUp \/ ReadSnapshot \/ VisitReply \/ TickEnds \/ Quiet
           \/ (\E i \in Pages : Edit(i)) \/ Sends \/ \E h : Shown(h)
  BY <1>1 DEF ObserverUp, ReadSnapshot, VisitReply, TickEnds, Quiet, Edit, Sends, Shown, Idle,
              workspaceVars, netVars
<1> QED
  BY <1>1, UserSends DEF StepOf

LEMMA StepDetachedRequests ==
  ASSUME TypeInv, DetachedRequests, StepOf
  PROVE  DetachedRequests'
<1>1. CASE Execute /\ UNCHANGED workspaceVars
  <2>1. PICK c, r : Answered(c, r)
    BY <1>1, ExecuteAnswers
  <2>2. UNCHANGED <<pending, configuration>>
    BY <1>1 DEF workspaceVars
  <2> SUFFICES ASSUME configuration.state \in {"none", "done"}, NEW k \in DOMAIN pending, ~pending[k].same
               PROVE  /\ \A l \in DOMAIN inbox' : inbox'[l].from # pending[k].page
                      /\ futures'[pending[k].page].handle \notin Handles(subscriptions')
    BY <2>2 DEF DetachedRequests
  <2>3. /\ \A l \in DOMAIN inbox : inbox[l].from # pending[k].page
        /\ futures[pending[k].page].handle \notin Handles(subscriptions)
    BY DEF DetachedRequests
  <2>4. futures'[pending[k].page] = futures[pending[k].page] /\ futures[pending[k].page].handle # nextHandle
    BY <2>1, <2>3, Typical DEF Answered, TypeInv, HandlesInv, GivenOut
  <2> QED BY <2>1, <2>3, <2>4 DEF Answered
<1>2. CASE ReplaceNetwork
  <2>1. DOMAIN inbox' = {} /\ Handles(subscriptions') = {}
    BY <1>2 DEF ReplaceNetwork, Handles
  <2> QED BY <2>1 DEF DetachedRequests
<1>3. CASE Restart \/ TakeNetwork
  <2>1. configuration'.state \in {"requested", "stopping"}
    BY <1>3, RestartPointwise DEF TakeNetwork, TypeInv, Types, GuiTypes
  <2> QED BY <2>1 DEF DetachedRequests
<1>4. CASE /\ ~(Execute /\ UNCHANGED workspaceVars) /\ ~ReplaceNetwork
           /\ \/ UNCHANGED configuration
              \/ configuration.state = "done" /\ configuration'.state = "none"
  <2>1. subscriptions' = subscriptions
    BY <1>4, StepWorld
  <2>2. \A w \in Waiters : futures'[w] \in {futures[w], Unready, Failed}
    BY <1>4, StepFutures
  <2> SUFFICES ASSUME configuration'.state \in {"none", "done"}, NEW k \in DOMAIN pending', ~pending'[k].same
               PROVE  /\ \A m \in DOMAIN inbox' : inbox'[m].from # pending'[k].page
                      /\ futures'[pending'[k].page].handle \notin Handles(subscriptions')
    BY DEF DetachedRequests
  <2>3. PICK l \in DOMAIN pending : pending'[k].page = pending[l].page /\ ~pending[l].same
    BY StepRequests DEF Kept, Added
  <2> DEFINE i == pending[l].page
  <2>4. i \in Pages /\ i \in Waiters
    BY Typical
  <2>5. /\ \A m \in DOMAIN inbox : inbox[m].from # i
        /\ futures[i].handle \notin Handles(subscriptions)
    BY <1>4, <2>3 DEF DetachedRequests
  <2>6. \A c : Submits(c) => c.from # i
    BY DEF Submits, Busy
  <2>7. \A m \in DOMAIN inbox' : inbox'[m].from # i
    BY <2>4, <2>5, <2>6, StepInbox
  <2>8. 0 \notin Handles(subscriptions)
    BY Typical DEF TypeInv, HandlesInv, GivenOut
  <2>9. futures'[i].handle \notin Handles(subscriptions')
    BY <2>1, <2>2, <2>4, <2>5, <2>8, ReplyTypes
  <2> QED BY <2>3, <2>7, <2>9
<1> QED
  BY <1>1, <1>2, <1>3, <1>4, StepConfiguration

LEMMA StepSeen ==
  ASSUME TypeInv, NetworkInv, SeenInv, StepOf
  PROVE  SeenInv'
<1>1. CASE Execute /\ UNCHANGED workspaceVars
  <2>1. PICK c, r : Answered(c, r)
    BY <1>1, ExecuteAnswers
  <2>2. UNCHANGED <<churn, live, net, configuration, gui, seen>>
    BY <1>1 DEF Execute, workspaceVars, netVars, snapVars
  <2>3. ASSUME subscriptions = {}, \A k \in DOMAIN inbox : inbox[k].op # "Subscribe"
        PROVE  subscriptions' = {} /\ \A k \in DOMAIN inbox' : inbox'[k].op # "Subscribe"
    <3>1. c.op # "Subscribe"
      BY <2>1, <2>3 DEF Answered
    <3>2. subscriptions' = {}
      BY <2>1, <2>3, <3>1 DEF Answered, Executes, Unsubscribed
    <3> QED BY <2>1, <2>3, <3>2 DEF Answered
  <2> QED BY <2>2, <2>3 DEF SeenInv, Settled
<1>2. CASE \/ (DiscoveryChanges /\ UNCHANGED workspaceVars) \/ Restart \/ TakeNetwork \/ ReplaceNetwork
           \/ TickEnds
  <2>1. \/ churn' # 0 \/ configuration'.state \notin {"none", "done"} \/ net' # "up" \/ gui'.at # "replies"
    BY <1>2, RestartPointwise
       DEF DiscoveryChanges, TakeNetwork, ReplaceNetwork, TickEnds, Resting, TypeInv, Types, RuntimeTypes, GuiTypes
  <2> QED BY <2>1 DEF SeenInv, Settled
<1>3. CASE ObserverUp
  <2>1. subscriptions' = {} /\ inbox' = <<>>
    BY <1>3 DEF ObserverUp, NetworkInv, runtimeVars
  <2> QED BY <2>1 DEF SeenInv
<1>4. CASE ReadSnapshot
  BY <1>4 DEF ReadSnapshot, SeenInv, Settled, netVars, runtimeVars
<1>5. ASSUME UNCHANGED <<churn, live, net, seen, subscriptions>>,
             UNCHANGED configuration \/ configuration.state = "done",
             gui'.at = "replies" => gui.at = "replies",
             gui.at = "replies" => \A k \in DOMAIN inbox' : \/ \E l \in DOMAIN inbox : inbox'[k] = inbox[l]
                                                            \/ inbox'[k].op # "Subscribe"
      PROVE  SeenInv'
  BY <1>5 DEF SeenInv, Settled
<1>6. gui.at = "replies" => \A k \in DOMAIN inbox' : \/ \E l \in DOMAIN inbox : inbox'[k] = inbox[l]
                                                     \/ inbox'[k].op # "Subscribe"
  BY StepInbox DEF Submits
<1>7. CASE \/ (ActionFinishes /\ UNCHANGED workspaceVars)
           \/ VisitReply \/ (\E i \in Pages : Edit(i)) \/ Sends \/ \E h : Shown(h)
  <2>1. UNCHANGED <<churn, live, net, seen, subscriptions, configuration>>
    BY <1>7 DEF ActionFinishes, VisitReply, Edit, Sends, Shown, workspaceVars, worldVars, runtimeVars,
                netVars, snapVars
  <2>2. gui'.at = gui.at
    BY <1>7 DEF VisitReply, Edit, Sends, Shown, workspaceVars, TypeInv, Types, GuiTypes
  <2> QED BY <1>5, <1>6, <2>1, <2>2
<1>8. CASE Quiet
  BY <1>5, <1>6, <1>8 DEF Quiet, runtimeVars, netVars, snapVars, TypeInv, Types, GuiTypes
<1> QED
  BY <1>1, <1>2, <1>3, <1>4, <1>7, <1>8, UserSends DEF StepOf

(* But for execution and replacement the queue only grows.                 *)
LEMMA StepGrows ==
  ASSUME TypeInv, StepOf, ~(Execute /\ UNCHANGED workspaceVars), ~ReplaceNetwork
  PROVE  \A k \in DOMAIN inbox : k \in DOMAIN inbox' /\ inbox'[k] = inbox[k]
<1>1. \A c : Joined(c) => \A k \in DOMAIN inbox : k \in DOMAIN inbox' /\ inbox'[k] = inbox[k]
  BY DEF Joined
<1> QED
  BY <1>1, StepQueue DEF QueueCases

(* The owner of a subscription hands it over or keeps it.                  *)
LEMMA ExecuteKeepsOwners ==
  ASSUME TypeInv, Execute /\ UNCHANGED workspaceVars, \A h \in Handles(subscriptions) : Owned(h)
  PROVE  \A h \in Handles(subscriptions') : Owned(h)'
<1>1. PICK c, r : Answered(c, r)
  BY ExecuteAnswers
<1>2. panels' = panels /\ r # Unready
  <2>1. r.ready /\ ~Unready.ready
    BY <1>1 DEF Answered, Executes, Unready, Done, Reply
  <2> QED BY <2>1 DEF workspaceVars, formVars
<1> SUFFICES ASSUME NEW h \in Handles(subscriptions') PROVE Owned(h)'
  OBVIOUS
<1>3. CASE c.op = "Subscribe" /\ r.handle = h
  <2>1. c.from \in Waiters
    BY <1>1, <1>3 DEF Answered, Commands, Senders, TypeInv, OneCommandEach, Purposes
  <2> QED BY <1>1, <1>2, <1>3, <2>1 DEF Answered, Owned
<1>4. CASE h \in Handles(subscriptions) /\ ~(c.op = "Unsubscribe" /\ h = c.handle)
  <2>1. Owned(h)
    BY <1>4
  <2>2. CASE \E i \in Pages : panels[i].subscription = h
    BY <1>2, <2>2 DEF Owned
  <2>3. CASE \E w \in Waiters : futures[w] # Unready /\ futures[w].handle = h
    BY <1>1, <2>3 DEF Answered, Owned
  <2>4. CASE \E k \in DOMAIN inbox : inbox[k].op = "Unsubscribe" /\ inbox[k].handle = h
    BY <1>1, <1>4, <2>4 DEF Answered, Owned
  <2> QED BY <2>1, <2>2, <2>3, <2>4 DEF Owned
<1> QED
  BY <1>1, <1>3, <1>4 DEF Answered

LEMMA VisitKeepsOwners ==
  ASSUME TypeInv, HeldInv, OrphanInv, VisitReply, NEW q, NEW r, Visited(q, r),
         churn = 0, net = "up", configuration.state \in {"none", "done"},
         NEW h \in Handles(subscriptions)
  PROVE  Owned(h)'
<1>1. /\ panels \in [Pages -> Panels] /\ futures \in [Waiters -> Replies]
      /\ h # 0 /\ Owned(h) /\ q.page \in Pages /\ q.page \in Waiters
      /\ SubscribesOnce /\ TopicOnly /\ CleanupInv /\ RepliesInv /\ UnsubscribeInv
      /\ DetachedRequests /\ SeenInv
  BY Typical DEF TypeInv, HandlesInv, GivenOut, OrphanInv, NoOrphanSubscription, HeldInv, Visited
<1>2. PICK k \in DOMAIN pending : q = pending[k]
  BY DEF Visited
<1>3. r = futures[q.page] /\ r # Unready
  BY DEF Visited
<1>4. ASSUME NEW i \in Pages, panels[i].subscription = h PROVE Owned(h)'
  <2>1. panels'[i].subscription = h
    <3>1. CASE i # q.page \/ ~Applicable(q) \/ r.error
      BY <1>1, <1>4, <3>1 DEF Visited
    <3>2. CASE i = q.page /\ Applicable(q) /\ ~r.error
      <4>1. q.op # "Subscribe"
        BY <1>1, <1>2, <1>4, <3>2 DEF SubscribesOnce
      <4>2. q.op # "Unsubscribe"
        BY <1>1, <1>2, <1>3, <1>4, <3>2 DEF UnsubscribeInv, Applicable
      <4>3. \A p \in Panels : Applied(p, q, r).subscription = p.subscription
        BY <4>1, <4>2 DEF Applied, Panels, Visited, Requests, Ops
      <4> QED BY <1>1, <1>4, <3>2, <4>3 DEF Visited
    <3> QED BY <3>1, <3>2
  <2> QED BY <2>1 DEF Owned
<1>5. ASSUME NEW w \in Waiters, w # q.page, futures[w] # Unready, futures[w].handle = h PROVE Owned(h)'
  BY <1>1, <1>5 DEF Visited, Owned
<1>6. CASE r.handle = h
  <2>1. q.op = "Subscribe" /\ ~r.error /\ q.endpoint \in live
    BY <1>1, <1>2, <1>3, <1>6 DEF RepliesInv
  <2>2. q.same
    BY <1>1, <1>2, <1>3, <1>6 DEF DetachedRequests
  <2>3. CASE q.unrevised
    <3>1. seen = live
      BY <1>1 DEF SeenInv, Settled, VisitReply, Handles
    <3>2. Applicable(q)
      BY <2>1, <2>2, <2>3, <3>1 DEF Applicable
    <3>3. \A p \in Panels : Applied(p, q, r).subscription = r.handle
      BY <2>1 DEF Applied, Panels
    <3>4. panels'[q.page].subscription = h
      BY <1>1, <1>6, <2>1, <3>2, <3>3 DEF Visited
    <3> QED BY <1>1, <3>4 DEF Owned
  <2>4. CASE ~q.unrevised
    <3> DEFINE c == Command("cleanup", "Unsubscribe", Nothing, h)
    <3>1. \A l \in DOMAIN inbox : inbox[l].from # "cleanup"
      BY <1>1, <1>2, <1>3, <1>6, <2>1 DEF CleanupInv
    <3>2. Accepts
      BY <3>1, RoomForCleanup DEF Accepts
    <3>3. inbox' = Append(inbox, c)
      BY <1>1, <1>6, <2>1, <2>2, <2>4, <3>2 DEF Visited, GiveUpOrphan
    <3>4. c \in Commands
      BY <1>6, CommandTypes DEF Visited, Replies, Senders, Ops, EndpointOrNone
    <3>5. Joined(c)
      BY <3>3, <3>4, JoinedTo
    <3>6. Len(inbox) + 1 \in DOMAIN inbox' /\ inbox'[Len(inbox) + 1] = c
      BY <3>5 DEF Joined
    <3> QED BY <3>6 DEF Owned, Command
  <2> QED BY <2>3, <2>4
<1>7. ASSUME NEW l \in DOMAIN inbox, inbox[l].op = "Unsubscribe", inbox[l].handle = h PROVE Owned(h)'
  <2>1. StepOf /\ ~(Execute /\ UNCHANGED workspaceVars) /\ ~ReplaceNetwork
    <3>1. UNCHANGED workspaceVars => pending' = pending
      BY DEF workspaceVars
    <3>2. \A j \in DOMAIN pending' : pending'[j].page # q.page
      BY DEF Visited
    <3>3. ~ReplaceNetwork
      BY DEF ReplaceNetwork, VisitReply, TypeInv, Types, GuiTypes
    <3> QED BY <1>2, <3>1, <3>2, <3>3 DEF StepOf
  <2> QED BY <1>7, <2>1, StepGrows DEF Owned
<1> QED
  BY <1>1, <1>3, <1>4, <1>5, <1>6, <1>7 DEF Owned

LEMMA SendsKeepsOwners ==
  ASSUME TypeInv, TopicOnly, CleanupInv, Sends, NEW h \in Handles(subscriptions), Owned(h), net = "up",
         \A k \in DOMAIN inbox : k \in DOMAIN inbox' /\ inbox'[k] = inbox[k]
  PROVE  Owned(h)'
<1>1. h # 0
  BY Typical DEF TypeInv, HandlesInv, GivenOut
<1>2. CASE \E k \in DOMAIN inbox : inbox[k].op = "Unsubscribe" /\ inbox[k].handle = h
  BY <1>2 DEF Owned
<1>3. ASSUME NEW c \in Commands, Submits(c) PROVE Owned(h)'
  <2>1. CASE \E w \in Waiters : futures[w] # Unready /\ futures[w].handle = h
    <3>1. PICK w \in Waiters : futures[w] # Unready /\ futures[w].handle = h
      BY <2>1
    <3>2. w # c.from
      BY <1>3, <3>1, SubmitterIsFree
    <3>3. futures'[w] = futures[w]
      BY <1>3, <3>2, SubmitterIsFree
    <3> QED BY <3>1, <3>3 DEF Owned
  <2>2. CASE \E i \in Pages : panels[i].subscription = h
    <3>1. PICK i \in Pages : panels[i].subscription = h
      BY <2>2
    <3>2. panels'[i] = panels[i]
      BY <1>1, <1>3, <3>1 DEF Submits, TopicOnly
    <3> QED BY <3>1, <3>2 DEF Owned
  <2> QED BY <1>2, <2>1, <2>2 DEF Owned
<1>4. ASSUME NEW P \in SUBSET Pages, NEW held \in Nat, GivesUp(P, held) PROVE Owned(h)'
  <2>1. CASE \E w \in Waiters : futures[w] # Unready /\ futures[w].handle = h
    BY <1>4, <2>1, GivingUpKeepsFutures DEF Owned
  <2>2. CASE \E i \in Pages \ P : panels[i].subscription = h
    BY <1>4, <2>2 DEF GivesUp, Owned
  <2>3. CASE \E i \in P : panels[i].subscription = h
    <3> DEFINE c == Command("cleanup", "Unsubscribe", Nothing, held)
    <3>1. held = h
      BY <1>1, <1>4, <2>3 DEF TopicOnly, GivesUp
    <3>2. Send(c)
      BY <1>1, <1>4, <3>1 DEF GivesUp
    <3>3. \A l \in DOMAIN inbox : inbox[l].from # "cleanup"
      BY <1>1, <2>3 DEF CleanupInv
    <3>4. Accepts
      BY <3>3, RoomForCleanup DEF Accepts
    <3>5. c \in Commands
      BY CommandTypes DEF Senders, Ops, EndpointOrNone
    <3>6. Joined(c)
      BY <3>2, <3>4, <3>5, SendQueue
    <3>7. Len(inbox) + 1 \in DOMAIN inbox' /\ inbox'[Len(inbox) + 1] = c
      BY <3>6 DEF Joined
    <3> QED BY <3>1, <3>7 DEF Owned, Command
  <2> QED BY <1>2, <2>1, <2>2, <2>3 DEF Owned
<1> QED
  BY <1>3, <1>4 DEF Sends

LEMMA StepOwners ==
  ASSUME TypeInv, HeldInv, OrphanInv, StepOf
  PROVE  NoOrphanSubscription'
<1>1. /\ panels \in [Pages -> Panels] /\ futures \in [Waiters -> Replies]
      /\ futures["poll"].handle = 0 /\ 0 \notin Handles(subscriptions)
      /\ NetworkInv /\ TopicOnly /\ CleanupInv
  BY Typical DEF TypeInv, HandlesInv, HandleOfRequest, GivenOut, OrphanInv
<1> SUFFICES ASSUME churn' = 0, net' = "up", configuration'.state # "requested"
             PROVE  \A h \in Handles(subscriptions') : Owned(h)'
  BY DEF NoOrphanSubscription
<1>2. CASE (DiscoveryChanges /\ UNCHANGED workspaceVars) \/ Restart \/ TakeNetwork \/ ReplaceNetwork
  BY <1>2, RestartPointwise
     DEF DiscoveryChanges, TakeNetwork, ReplaceNetwork, TypeInv, Types, RuntimeTypes
<1>3. CASE ObserverUp
  <2>1. subscriptions' = {}
    BY <1>1, <1>3 DEF ObserverUp, NetworkInv, runtimeVars
  <2> QED BY <2>1 DEF Handles
<1>4. ASSUME net' = net,
             UNCHANGED configuration \/ configuration.state = "done"
      PROVE  churn = 0 => /\ configuration.state \in {"none", "done"}
                          /\ \A h \in Handles(subscriptions) : Owned(h)
  <2>1. configuration.state \in {"none", "done"}
    BY <1>1, <1>4 DEF NetworkInv, TypeInv, Types, GuiTypes
  <2> QED BY <1>4, <2>1 DEF OrphanInv, NoOrphanSubscription
<1>5. CASE Execute /\ UNCHANGED workspaceVars
  <2>1. UNCHANGED <<churn, net, configuration>>
    BY <1>5 DEF Execute, workspaceVars, netVars
  <2> QED BY <1>4, <1>5, <2>1, ExecuteKeepsOwners
<1>6. CASE /\ ~(Execute /\ UNCHANGED workspaceVars) /\ ~ReplaceNetwork
           /\ UNCHANGED <<churn, net, subscriptions>>
           /\ UNCHANGED configuration \/ configuration.state = "done"
  <2>1. \A k \in DOMAIN inbox : k \in DOMAIN inbox' /\ inbox'[k] = inbox[k]
    BY <1>6, StepGrows
  <2>2. configuration.state \in {"none", "done"} /\ \A h \in Handles(subscriptions) : Owned(h)
    BY <1>4, <1>6
  <2> SUFFICES ASSUME NEW h \in Handles(subscriptions) PROVE Owned(h)'
    BY <1>6
  <2>3. ASSUME \A i \in Pages : panels'[i].subscription = panels[i].subscription,
               \A w \in Waiters : w # "poll" => futures'[w] = futures[w]
        PROVE  Owned(h)'
    BY <1>1, <2>1, <2>2, <2>3 DEF Owned
  <2>4. CASE VisitReply
    <3>1. CASE UNCHANGED <<inbox, futures, panels, pending, activities>>
      BY <2>3, <3>1
    <3>2. ASSUME NEW q, NEW r, Visited(q, r) PROVE Owned(h)'
      BY <1>6, <2>2, <2>4, <3>2, VisitKeepsOwners
    <3> QED BY <2>4, <3>1, <3>2, VisitPointwise
  <2>5. CASE TickEnds
    <3>1. \A w \in Waiters : w # "poll" => futures'[w] = futures[w]
      BY <1>1, <2>5 DEF TickEnds, SubmitPoll
    <3> QED BY <2>3, <2>5, <3>1, TickEndsForms
  <2>6. CASE Sends
    BY <1>1, <1>6, <2>1, <2>2, <2>6, SendsKeepsOwners
  <2>7. CASE ReadSnapshot
    <3>1. \A i \in Pages : panels'[i].subscription = panels[i].subscription
      BY <1>1, <2>7 DEF ReadSnapshot, Cleared, EmptyPanel
    <3> QED BY <2>3, <2>7, <3>1 DEF ReadSnapshot, runtimeVars
  <2>8. CASE \E i \in Pages : Edit(i)
    <3>1. \A i \in Pages : panels'[i].subscription = panels[i].subscription
      BY <1>1, <2>8 DEF Edit, Panels
    <3> QED BY <2>3, <2>8, <3>1 DEF Edit, runtimeVars
  <2>9. CASE (ActionFinishes /\ UNCHANGED workspaceVars) \/ Quiet \/ \E g : Shown(g)
    BY <2>3, <2>9 DEF ActionFinishes, Quiet, Shown, runtimeVars, workspaceVars, formVars
  <2>10. CASE (DiscoveryChanges /\ UNCHANGED workspaceVars) \/ ObserverUp \/ TakeNetwork \/ Restart
    BY <1>2, <1>3, <1>6, <2>10
  <2> QED BY <1>6, <2>4, <2>5, <2>6, <2>7, <2>8, <2>9, <2>10, UserSends DEF StepOf
<1>7. CASE /\ ~(Execute /\ UNCHANGED workspaceVars)
           /\ ~(DiscoveryChanges /\ UNCHANGED workspaceVars) /\ ~Restart
           /\ ~TakeNetwork /\ ~ReplaceNetwork /\ ~ObserverUp
  <2>1. UNCHANGED <<churn, net, subscriptions>>
    BY <1>7, UserSends
       DEF StepOf, ActionFinishes, ReadSnapshot, VisitReply, TickEnds, Quiet, Edit, Sends, Shown,
           runtimeVars, worldVars, workspaceVars, netVars
  <2>2. UNCHANGED configuration \/ configuration.state = "done"
    BY <1>7, StepConfiguration
  <2> QED BY <1>6, <1>7, <2>1, <2>2
<1> QED
  BY <1>2, <1>3, <1>5, <1>7

(* While discovery does not change, every subscription of the current      *)
(* runtime has an owner: its panel, a reply on its way to the panel, or a  *)
(* queued Unsubscribe.  Giving one up is never refused: the queue has room *)
(* whenever a panel lets go of a subscription.                             *)
THEOREM SubscriptionsHaveOwners == Spec => []NoOrphanSubscription
<1>1. Init => TypeInv /\ HeldInv /\ OrphanInv
  <2>1. Init => DOMAIN pending = {} /\ DOMAIN inbox = {} /\ \A i \in Pages : panels[i].subscription = 0
                /\ panels[i].output = 0
    BY DEF Init, RuntimeInit, EmptyPanel
  <2>2. Init => subscriptions = {} /\ inbox = <<>> /\ net = "up" /\ configuration.state = "none" /\ gui.at = "idle"
    BY DEF Init, RuntimeInit, Idle, Resting
  <2>3. Handles({}) = {}
    BY DEF Handles
  <2>4. Init => HeldInv
    BY <2>1 DEF HeldInv, ValueOfHeldSubscription, SubscribesOnce
  <2>5. Init => OrphanInv
    BY <2>1, <2>2, <2>3
       DEF OrphanInv, NoOrphanSubscription, TopicOnly, NetworkInv, CleanupInv, RepliesInv, UnsubscribeInv,
           DetachedRequests, SeenInv
  <2> QED BY <2>4, <2>5, InitTypeInv
<1>2. TypeInv /\ HeldInv /\ OrphanInv /\ [Next]_vars => (TypeInv /\ HeldInv /\ OrphanInv)'
  <2> SUFFICES ASSUME TypeInv, HeldInv, OrphanInv, [Next]_vars PROVE (TypeInv /\ HeldInv /\ OrphanInv)'
    OBVIOUS
  <2>1. TypeInv' /\ StepOf
    BY StepTypeInv
  <2>2. HeldInv' /\ NoOrphanSubscription'
    BY <2>1, StepHeld, StepOwners
  <2>3. TopicOnly' /\ NetworkInv' /\ CleanupInv' /\ RepliesInv'
    BY <2>1, StepTopicOnly, StepNetwork, StepCleanup, StepReplies DEF OrphanInv
  <2>4. UnsubscribeInv' /\ DetachedRequests' /\ SeenInv'
    BY <2>1, StepUnsubscribe, StepDetachedRequests, StepSeen DEF OrphanInv
  <2> QED BY <2>1, <2>2, <2>3, <2>4 DEF OrphanInv
<1>3. OrphanInv => NoOrphanSubscription
  BY DEF OrphanInv
<1> QED
  BY <1>1, <1>2, <1>3, PTL DEF Spec

(* The queue holds at most one command of each waiter and one that gives a *)
(* subscription up, so that the workspace never meets the queue's limit.   *)
QueueIsShort == Len(inbox) <= Cardinality(Waiters) + 1

LEMMA ShortQueue ==
  ASSUME TypeInv, CleanupInv
  PROVE  QueueIsShort
<1>1. IsFiniteSet(Senders) /\ Cardinality(Senders) = Cardinality(Waiters) + 1
  BY FiniteWaiters, NamesApart, FS_AddElement DEF Senders
<1>2. \A k \in DOMAIN inbox : inbox[k].from \in Senders
  BY Typical DEF Commands
<1>3. \A k, l \in DOMAIN inbox : inbox[k].from = inbox[l].from => k = l
  BY <1>2 DEF Senders, CleanupInv, TypeInv, OneCommandEach, OnePerWaiter
<1> QED
  BY <1>1, <1>2, <1>3, OneEach DEF QueueIsShort

(* However the user clicks and discovery changes, the queue stays short:   *)
(* six commands at most, where SubmitRemote takes 32.                      *)
THEOREM QueueStaysShort == Spec => []QueueIsShort
<1>1. Init => TypeInv /\ HeldInv /\ TopicOnly /\ CleanupInv
  <2>1. Init => /\ DOMAIN pending = {} /\ DOMAIN inbox = {}
                /\ \A i \in Pages : panels[i].subscription = 0 /\ panels[i].output = 0
    BY DEF Init, RuntimeInit, EmptyPanel
  <2> QED BY <2>1, InitTypeInv DEF HeldInv, ValueOfHeldSubscription, SubscribesOnce, TopicOnly, CleanupInv
<1>2. TypeInv /\ HeldInv /\ TopicOnly /\ CleanupInv /\ [Next]_vars =>
        (TypeInv /\ HeldInv /\ TopicOnly /\ CleanupInv)'
  BY StepTypeInv, StepHeld, StepTopicOnly, StepCleanup
<1>3. TypeInv /\ CleanupInv => QueueIsShort
  BY ShortQueue
<1> QED
  BY <1>1, <1>2, <1>3, PTL DEF Spec

=============================================================================
