------------------------ MODULE SessionLifecycle_proofs ------------------------
(***************************************************************************)
(* The events of SessionLifecycle reach the services, for any number of    *)
(* clients, connections, gateways and services, any capacity of the queues *)
(* and any number of failed deliveries and broken streams.                 *)
(***************************************************************************)
EXTENDS SessionLifecycle, TLAPS

\* The connection has a session.
Bound(c) == pc[c] # "open"

\* c is the connection that the event is about.
Subject(c, e) == Bound(c) /\ Owner[c] = e.client /\ epoch[c] = e.epoch

\* Every epoch of a session belongs to one connection, and the record names the
\* connection of the last one until disconnect swaps it.
SessionsOK ==
  /\ \A c \in Conn : Bound(c) => epoch[c] \in 1 .. record[Owner[c]].epoch
  /\ \A c, d \in Conn :
       Bound(c) /\ Bound(d) /\ Owner[c] = Owner[d] /\ epoch[c] = epoch[d] => c = d
  /\ \A k \in Client :
       record[k].epoch > 0 => \E c \in Conn : /\ Bound(c) /\ Owner[c] = k
                                              /\ epoch[c] = record[k].epoch
  /\ \A c \in Conn :
       Bound(c) /\ epoch[c] = record[Owner[c]].epoch =>
         record[Owner[c]].conn = IF pc[c] \in {"notice", "gone"} THEN NoConn ELSE c

\* A connection's events are published in order, each at its step, and none about
\* a connection that did not get to it.
PublishedOK ==
  /\ \A e \in published :
       \E c \in Conn : /\ Subject(c, e) /\ pc[c] # "login"
                       /\ e.type = "disconnected" => pc[c] = "gone"
  /\ \A c \in Conn :
       Bound(c) /\ pc[c] # "login" =>
         \E e \in published : Subject(c, e) /\ e.type # "disconnected"
  /\ \A c \in Conn :
       pc[c] = "gone" /\ epoch[c] = record[Owner[c]].epoch =>
         EventOf(c, "disconnected") \in published

\* Gateway g is the one that published the event.
Home(g, e) == e \in published /\ \A c \in Conn : Subject(c, e) => Host[c] = g

\* The events that a gateway has, in its publisher or on its streams.
Carried(g) ==
  Range(queue[g]) \cup ({current[g]} \ {NoEvent}) \cup UNION {Range(wire[g][s]) : s \in Service}

\* Events come from the gateway of their connection and nowhere else.
PlacesOK ==
  /\ \A g \in Gateway : \A e \in Carried(g) : Home(g, e)
  /\ \A s \in Service : stale[s] \subseteq published /\ eventIDs[s] \subseteq published

\* The event accepted last has the highest epoch.
ConsumerOK ==
  /\ \A s \in Service, k \in Client :
       \/ latest[s][k] = NoEvent /\ latestEpoch[s][k] = 0
       \/ /\ latest[s][k] \in eventIDs[s]
          /\ latest[s][k].client = k /\ latest[s][k].epoch = latestEpoch[s][k]
  /\ \A s \in Service : \A e \in eventIDs[s] : e.epoch <= latestEpoch[s][e.client]

\* deliver is done with the event for service s: it has reported an outcome and,
\* unless that was a failure, the event is on its way, accepted or outdated.
Sent(e, s) ==
  \/ <<e, s, "failed">> \in report
  \/ \E g \in Gateway : e \in Range(wire[g][s])
  \/ e \in stale[s] \union eventIDs[s]
  \/ latestEpoch[s][e.client] > e.epoch
Reported(e, s) == \E r \in report : r[1] = e /\ r[2] = s
Given(e, s) == Reported(e, s) /\ Sent(e, s)

DeliveryOK ==
  /\ \A g \in Gateway :
       current[g] # NoEvent => \A i \in 1 .. at[g] - 1 : Given(current[g], Targets[i])
  /\ \A e \in published :
       \/ e \in Pending \union ignored
       \/ <<e, "queue", "dropped">> \in report
       \/ \A s \in Service : Given(e, s)

\* l and d are the events of one epoch, its beginning and its end.
Ends(l, d) ==
  /\ l \in Event /\ d \in Event /\ l.client = d.client /\ l.epoch = d.epoch
  /\ l.type # "disconnected" /\ d.type = "disconnected"

\* In the queue or stream q, l does not come after d.
InOrder(q, l, d) == \A i, j \in DOMAIN q : i < j => ~(q[i] = d /\ q[j] = l)

\* The beginning of an epoch is nowhere behind its end.
PublisherOrder(g, l, d) ==
  /\ InOrder(queue[g], l, d)
  /\ current[g] = d => l \notin Range(queue[g])
WireOrder(g, s, l, d) ==
  /\ InOrder(wire[g][s], l, d)
  /\ d \in Range(wire[g][s]) => l \notin Range(queue[g]) /\ l # current[g]
ConsumerOrder(s, l, d) ==
  d \in eventIDs[s] =>
    /\ l # latest[s][l.client]
    /\ \A g \in Gateway :
         l \notin Range(queue[g]) /\ l # current[g] /\ l \notin Range(wire[g][s])

Ordered(l, d) ==
  /\ \A g \in Gateway : PublisherOrder(g, l, d)
  /\ \A g \in Gateway, s \in Service : WireOrder(g, s, l, d)
  /\ \A s \in Service : ConsumerOrder(s, l, d)

OrderOK ==
  breaks = 0 =>
    /\ \A s \in Service : stale[s] = {}
    /\ \A l, d \in Event : Ends(l, d) => Ordered(l, d)

LifecycleInv ==
  TypeOK /\ SessionsOK /\ PublishedOK /\ PlacesOK /\ ConsumerOK /\ DeliveryOK /\ OrderOK

-----------------------------------------------------------------------------
(* Queues and streams *)

LEMMA RangeEmpty == Range(<<>>) = {}
BY DEF Range

LEMMA RangeOfAppend ==
    ASSUME NEW S, NEW q \in Seq(S), NEW e \in S
    PROVE  Range(Append(q, e)) = Range(q) \cup {e}
<1>1. /\ DOMAIN Append(q, e) = 1 .. Len(q) + 1 /\ DOMAIN q = 1 .. Len(q) /\ Len(q) \in Nat
      /\ Append(q, e)[Len(q) + 1] = e
      /\ \A i \in 1 .. Len(q) : Append(q, e)[i] = q[i]
  OBVIOUS
<1>2. ASSUME NEW x \in Range(Append(q, e)) PROVE x \in Range(q) \cup {e}
  BY <1>1, <1>2 DEF Range
<1>3. ASSUME NEW x \in Range(q) PROVE x \in Range(Append(q, e))
  BY <1>1, <1>3 DEF Range
<1>4. e \in Range(Append(q, e))
  BY <1>1 DEF Range
<1> QED BY <1>2, <1>3, <1>4

LEMMA RangeOfQueued ==
    ASSUME NEW q \in Seq(Event), NEW e \in Event PROVE Range(Append(q, e)) = Range(q) \cup {e}
BY RangeOfAppend

LEMMA RangeOfTail ==
    ASSUME NEW S, NEW q \in Seq(S), q # <<>>
    PROVE  /\ Range(q) = {Head(q)} \cup Range(Tail(q))
           /\ Tail(q) \in Seq(S) /\ Head(q) \in S /\ Len(Tail(q)) = Len(q) - 1
<1>1. /\ DOMAIN q = 1 .. Len(q) /\ Len(q) \in Nat \ {0} /\ Tail(q) \in Seq(S)
      /\ Len(Tail(q)) = Len(q) - 1 /\ DOMAIN Tail(q) = 1 .. Len(q) - 1
      /\ \A i \in 1 .. Len(q) - 1 : Tail(q)[i] = q[i + 1]
      /\ Head(q) = q[1]
  OBVIOUS
<1>2. ASSUME NEW x \in Range(q) PROVE x \in {Head(q)} \cup Range(Tail(q))
  <2>1. PICK i \in 1 .. Len(q) : x = q[i]
    BY <1>1, <1>2 DEF Range
  <2>2. CASE i = 1
    BY <1>1, <2>1, <2>2
  <2>3. CASE i # 1
    <3>1. i - 1 \in 1 .. Len(q) - 1 /\ Tail(q)[i - 1] = x
      BY <1>1, <2>1, <2>3
    <3> QED BY <1>1, <3>1, Zenon DEF Range
  <2> QED BY <2>2, <2>3
<1>3. ASSUME NEW x \in Range(Tail(q)) PROVE x \in Range(q)
  BY <1>1, <1>3 DEF Range
<1>4. Head(q) \in Range(q)
  BY <1>1 DEF Range
<1> QED BY <1>1, <1>2, <1>3, <1>4

LEMMA RangeType == ASSUME NEW S, NEW q \in Seq(S) PROVE Range(q) \subseteq S
BY DEF Range

LEMMA OrderOfAppend ==
    ASSUME NEW S, NEW q \in Seq(S), NEW e \in S, NEW l, NEW d,
           InOrder(q, l, d), e = l => d \notin Range(q)
    PROVE  InOrder(Append(q, e), l, d)
<1>1. /\ DOMAIN Append(q, e) = 1 .. Len(q) + 1 /\ DOMAIN q = 1 .. Len(q) /\ Len(q) \in Nat
      /\ Append(q, e)[Len(q) + 1] = e
      /\ \A i \in 1 .. Len(q) : Append(q, e)[i] = q[i]
  OBVIOUS
<1>2. \A i \in 1 .. Len(q) : q[i] \in Range(q)
  BY <1>1 DEF Range
<1> QED BY <1>1, <1>2 DEF InOrder

LEMMA OrderOfTail ==
    ASSUME NEW S, NEW q \in Seq(S), q # <<>>, NEW l, NEW d, l # d, InOrder(q, l, d)
    PROVE  /\ InOrder(Tail(q), l, d)
           /\ Head(q) = d => l \notin Range(Tail(q))
<1>1. /\ DOMAIN q = 1 .. Len(q) /\ Len(q) \in Nat \ {0}
      /\ DOMAIN Tail(q) = 1 .. Len(q) - 1
      /\ \A i \in 1 .. Len(q) - 1 : Tail(q)[i] = q[i + 1]
      /\ Head(q) = q[1]
  OBVIOUS
<1>2. InOrder(Tail(q), l, d)
  BY <1>1 DEF InOrder
<1>3. ASSUME Head(q) = d, l \in Range(Tail(q)) PROVE FALSE
  <2>1. PICK i \in 1 .. Len(q) - 1 : q[i + 1] = l
    BY <1>1, <1>3 DEF Range
  <2> QED BY <1>1, <1>3, <2>1 DEF InOrder
<1> QED BY <1>2, <1>3

LEMMA OrderOfEmpty == ASSUME NEW l, NEW d PROVE InOrder(<<>>, l, d)
BY DEF InOrder

-----------------------------------------------------------------------------
(* Types *)

\* The variables of the publisher and of the streams, group by group.
SessionType ==
  /\ record \in [Client -> [epoch : Nat, conn : Conn \union {NoConn}]]
  /\ pc \in [Conn -> {"open", "login", "bound", "detach", "notice", "gone"}]
  /\ epoch \in [Conn -> Nat]
PublisherType ==
  /\ queue \in [Gateway -> Seq(Event)]
  /\ \A g \in Gateway : Len(queue[g]) <= QueueCap
  /\ current \in [Gateway -> Event \union {NoEvent}]
  /\ at \in [Gateway -> 1..Len(Targets)]
  /\ attempt \in [Gateway -> 1..MaxAttempts]
  /\ run \in [Gateway -> {"running", "cancelled", "done"}]
TransportType ==
  /\ wire \in [Gateway -> [Service -> Seq(Event)]]
  /\ stale \in [Service -> SUBSET Event]
  /\ faults \in 0..MaxFaults /\ breaks \in 0..faults
ConsumerType ==
  /\ eventIDs \in [Service -> SUBSET Event]
  /\ latestEpoch \in [Service -> [Client -> Nat]]
  /\ latest \in [Service -> [Client -> Event \union {NoEvent}]]
HistoryType == published \subseteq Event /\ ignored \subseteq published

LEMMA TypeParts ==
    TypeOK <=> SessionType /\ PublisherType /\ TransportType /\ ConsumerType /\ HistoryType
BY DEF TypeOK, SessionType, PublisherType, TransportType, ConsumerType, HistoryType

LEMMA TypeJoined ==
    ASSUME SessionType', PublisherType', TransportType', ConsumerType', HistoryType'
    PROVE  TypeOK'
BY DEF TypeOK, SessionType, PublisherType, TransportType, ConsumerType, HistoryType

LEMMA SessionTypeKept == ASSUME SessionType, UNCHANGED sessions PROVE SessionType'
BY DEF SessionType, sessions
LEMMA PublisherTypeKept == ASSUME PublisherType, UNCHANGED publisher PROVE PublisherType'
BY DEF PublisherType, publisher
LEMMA TransportTypeKept == ASSUME TransportType, UNCHANGED transport PROVE TransportType'
BY DEF TransportType, transport
LEMMA ConsumerTypeKept == ASSUME ConsumerType, UNCHANGED consumer PROVE ConsumerType'
BY DEF ConsumerType, consumer
LEMMA HistoryTypeKept == ASSUME HistoryType, UNCHANGED <<published, ignored>> PROVE HistoryType'
BY DEF HistoryType

LEMMA ConsumerKept == ASSUME ConsumerOK, UNCHANGED <<eventIDs, latestEpoch,
latest>> PROVE ConsumerOK'
BY DEF ConsumerOK

LEMMA WireIs ==
    ASSUME TransportType, NEW g \in Gateway, NEW s \in Service
    PROVE  /\ wire[g][s] \in Seq(Event)
           /\ \A e \in Event : Range(Append(wire[g][s], e)) = Range(wire[g][s]) \cup {e}
<1>1. wire[g][s] \in Seq(Event)
  BY Zenon DEF TransportType
<1> QED BY <1>1, RangeOfAppend

LEMMA TargetsAre ==
    /\ Len(Targets) \in Nat \ {0}
    /\ \A i \in 1 .. Len(Targets) : Targets[i] \in Service
    /\ \A s \in Service : \E i \in 1 .. Len(Targets) : Targets[i] = s
<1>1. Targets \in Seq(Service) /\ Targets # <<>>
  BY WiringAssumption DEF Service
<1>2. Len(Targets) \in Nat \ {0} /\ DOMAIN Targets = 1 .. Len(Targets)
  BY <1>1
<1>3. \A s \in Service : \E i \in DOMAIN Targets : Targets[i] = s
  BY DEF Service, Range
<1> QED BY <1>1, <1>2, <1>3

LEMMA BelowNext ==
    ASSUME NEW n \in 1 .. Len(Targets), NEW i \in 1 .. (n + 1) - 1 PROVE i \in 1 .. n
BY TargetsAre

LEMMA EventOfType ==
    ASSUME SessionType, NEW c \in Conn, NEW t \in {"connected", "resumed", "disconnected"}
    PROVE  /\ EventOf(c, t) \in Event
           /\ EventOf(c, t).client = Owner[c] /\ EventOf(c, t).epoch = epoch[c]
           /\ EventOf(c, t).type = t
BY WiringAssumption DEF SessionType, EventOf, Event

LEMMA LoginIs ==
    ASSUME SessionType, NEW c \in Conn, Login(c)
    PROVE  /\ SessionType' /\ pc[c] = "open" /\ pc'[c] = "login"
           /\ record'[Owner[c]].epoch = record[Owner[c]].epoch + 1 /\ record'[Owner[c]].conn = c
           /\ \A k \in Client : k # Owner[c] => record'[k] = record[k]
           /\ epoch'[c] = record[Owner[c]].epoch + 1
           /\ \A d \in Conn : d # c => pc'[d] = pc[d] /\ epoch'[d] = epoch[d]
           /\ record[Owner[c]].epoch \in Nat /\ Owner[c] \in Client
           /\ UNCHANGED <<publisher, transport, consumer, history>>
<1>1. Owner[c] \in Client
  BY WiringAssumption
<1>2. record[Owner[c]].epoch \in Nat /\ record[Owner[c]].epoch + 1 \in Nat
  BY <1>1 DEF SessionType
<1> QED BY <1>1, <1>2 DEF Login, Goto, SessionType

\* A step of connection c that goes from one step of its handler to another.
LEMMA GotoIs ==
    ASSUME SessionType, NEW c \in Conn, NEW t \in {"bound", "detach", "notice", "gone"}, Goto(c, t)
    PROVE  /\ pc' \in [Conn -> {"open", "login", "bound", "detach", "notice", "gone"}]
           /\ pc'[c] = t /\ \A d \in Conn : d # c => pc'[d] = pc[d]
BY DEF Goto, SessionType

LEMMA PublishIs ==
    ASSUME PublisherType, HistoryType, NEW g \in Gateway, NEW e \in Event, Publish(g, e),
           UNCHANGED <<current, at, attempt, run>>
    PROVE  /\ PublisherType' /\ HistoryType' /\ published' = published \cup {e}
           /\ \A h \in Gateway : h # g => queue'[h] = queue[h]
           /\ \/ /\ queue'[g] = Append(queue[g], e)
                 /\ report' = report /\ ignored' = ignored
              \/ /\ queue' = queue
                 /\ report' = report \cup {<<e, "queue", "dropped">>} /\ ignored' = ignored
              \/ queue' = queue /\ report' = report /\ ignored' = ignored \cup {e}
<1>1. queue[g] \in Seq(Event) /\ Len(queue[g]) \in Nat
  BY DEF PublisherType
<1>2. CASE ~Full(g) /\ queue' = [queue EXCEPT ![g] = Append(@, e)]
           /\ UNCHANGED <<report, ignored>>
  <2>1. Append(queue[g], e) \in Seq(Event) /\ Len(Append(queue[g], e)) <= QueueCap
    BY <1>1, <1>2, CapacityAssumption DEF Full
  <2>2. queue'[g] = Append(queue[g], e) /\ \A h \in Gateway : h # g => queue'[h] = queue[h]
    BY <1>2 DEF PublisherType
  <2>3. PublisherType'
    BY <1>2, <2>1, <2>2 DEF PublisherType
  <2> QED BY <1>2, <2>2, <2>3 DEF Publish, HistoryType
<1>3. CASE queue' = queue
  <2>1. PublisherType'
    BY <1>3 DEF PublisherType
  <2> QED BY <1>2, <1>3, <2>1 DEF Publish, HistoryType
<1> QED BY <1>2, <1>3 DEF Publish

LEMMA TakeIs ==
    ASSUME PublisherType, NEW g \in Gateway, Take(g)
    PROVE  /\ PublisherType' /\ current[g] = NoEvent
           /\ queue[g] \in Seq(Event) /\ queue[g] # <<>>
           /\ queue'[g] = Tail(queue[g]) /\ current'[g] = Head(queue[g]) /\ at'[g] = 1
           /\ Head(queue[g]) \in Event
           /\ \A h \in Gateway :
                h # g => queue'[h] = queue[h] /\ current'[h] = current[h] /\ at'[h] = at[h]
           /\ UNCHANGED <<sessions, transport, consumer, history>>
<1>1. queue[g] \in Seq(Event) /\ queue[g] # <<>> /\ Len(queue[g]) \in Nat
  BY DEF PublisherType, Take
<1>2. Tail(queue[g]) \in Seq(Event) /\ Head(queue[g]) \in Event /\ Len(Tail(queue[g])) = Len(queue[g]) - 1
  BY <1>1, RangeOfTail
<1>3. 1 \in 1 .. Len(Targets) /\ 1 \in 1 .. MaxAttempts
  BY TargetsAre, CapacityAssumption
<1>4. /\ queue' = [queue EXCEPT ![g] = Tail(queue[g])] /\ current' = [current EXCEPT ![g] = Head(queue[g])]
      /\ at' = [at EXCEPT ![g] = 1] /\ attempt' = [attempt EXCEPT ![g] = 1] /\ run' = run
      /\ current[g] = NoEvent /\ UNCHANGED <<sessions, transport, consumer, history>>
  BY DEF Take, Idle
<1>5. queue'[g] = Tail(queue[g]) /\ \A h \in Gateway : h # g => queue'[h] = queue[h]
  BY <1>4 DEF PublisherType
<1>6. \A h \in Gateway : Len(queue'[h]) <= QueueCap
  <2>1. Len(queue[g]) <= QueueCap /\ Len(Tail(queue[g])) \in Int
    BY <1>1, <1>2 DEF PublisherType
  <2>2. Len(Tail(queue[g])) <= QueueCap
    BY <1>1, <1>2, <2>1, CapacityAssumption
  <2> QED BY <1>5, <2>2, Zenon DEF PublisherType
<1>7. PublisherType'
  BY <1>2, <1>3, <1>4, <1>6 DEF PublisherType
<1> QED BY <1>1, <1>2, <1>4, <1>7 DEF PublisherType

LEMMA NextTargetIs ==
    ASSUME PublisherType, NEW g \in Gateway, NEW result, NextTarget(g, result),
           UNCHANGED <<queue, run>>
    PROVE  /\ PublisherType'
           /\ \/ at[g] = Len(Targets) /\ at'[g] = 1 /\ current'[g] = NoEvent
              \/ at'[g] = at[g] + 1 /\ current'[g] = current[g]
           /\ \A h \in Gateway : h # g => current'[h] = current[h] /\ at'[h] = at[h]
<1>1. at[g] \in 1 .. Len(Targets) /\ Len(Targets) \in Nat \ {0}
  BY TargetsAre DEF PublisherType
<1>2. 1 \in 1 .. MaxAttempts
  BY CapacityAssumption
<1>3. CASE at[g] = Len(Targets)
  <2>1. /\ at' = [at EXCEPT ![g] = 1] /\ current' = [current EXCEPT ![g] = NoEvent]
        /\ attempt' = [attempt EXCEPT ![g] = 1]
    BY <1>3 DEF NextTarget
  <2> QED BY <1>1, <1>2, <1>3, <2>1 DEF PublisherType
<1>4. CASE at[g] # Len(Targets)
  <2>1. at[g] + 1 \in 1 .. Len(Targets)
    BY <1>1, <1>4
  <2>2. at' = [at EXCEPT ![g] = at[g] + 1] /\ attempt' = [attempt EXCEPT ![g] = 1]
    BY <1>4 DEF NextTarget
  <2>3. current' = [current EXCEPT ![g] = current[g]]
    BY <1>4 DEF NextTarget
  <2> QED BY <1>2, <2>1, <2>2, <2>3 DEF PublisherType
<1> QED BY <1>3, <1>4

\* The stream from g to s has a new content and the others are as they were.
Rewired(g, s, q) ==
  /\ wire'[g][s] = q
  /\ \A h \in Gateway, t \in Service : <<h, t>> # <<g, s>> => wire'[h][t] = wire[h][t]

LEMMA RewireIs ==
    ASSUME wire \in [Gateway -> [Service -> Seq(Event)]],
           NEW g \in Gateway, NEW s \in Service, NEW q \in Seq(Event),
           wire' = [wire EXCEPT ![g][s] = q]
    PROVE  Rewired(g, s, q) /\ wire' \in [Gateway -> [Service -> Seq(Event)]]
<1>1. wire' = [wire EXCEPT ![g] = [wire[g] EXCEPT ![s] = q]]
  OBVIOUS
<1> QED BY <1>1 DEF Rewired

\* Event e is put on the stream from g to s.
Pushed(g, s, e) == Rewired(g, s, Append(wire[g][s], e))

LEMMA PushIs ==
    ASSUME wire \in [Gateway -> [Service -> Seq(Event)]],
           NEW g \in Gateway, NEW s \in Service, NEW e \in Event,
           wire' = [wire EXCEPT ![g][s] = Append(@, e)]
    PROVE  Pushed(g, s, e) /\ wire' \in [Gateway -> [Service -> Seq(Event)]]
<1>1. Append(wire[g][s], e) \in Seq(Event)
  OBVIOUS
<1>2. wire' = [wire EXCEPT ![g][s] = Append(wire[g][s], e)]
  OBVIOUS
<1> QED BY <1>1, <1>2, RewireIs, Zenon DEF Pushed

\* deliver has told service s of event e, or given up.
Finished(g, s, e, result) ==
  /\ report' = report \cup {<<e, s, result>>}
  /\ \/ at[g] = Len(Targets) /\ at'[g] = 1 /\ current'[g] = NoEvent
     \/ at'[g] = at[g] + 1 /\ current'[g] = e

\* Both outcomes of an attempt.
LEMMA AttemptIs ==
    ASSUME PublisherType, TransportType, NEW g \in Gateway, Deliver(g) \/ DeliverFails(g)
    PROVE  LET e == current[g]
               s == Targets[at[g]]
           IN  /\ PublisherType' /\ TransportType' /\ e \in Event /\ s \in Service
               /\ queue' = queue /\ at[g] \in 1 .. Len(Targets)
               /\ wire' = wire \/ Pushed(g, s, e)
               /\ \A h \in Gateway : h # g => current'[h] = current[h] /\ at'[h] = at[h]
               /\ \/ Finished(g, s, e, "delivered") /\ Pushed(g, s, e)
                  \/ Finished(g, s, e, "failed")
                  \/ report' = report /\ current' = current /\ at' = at
               /\ UNCHANGED <<sessions, stale, breaks, consumer, published, ignored>>
<1> DEFINE e == current[g]
           s == Targets[at[g]]
<1>1. e \in Event /\ s \in Service /\ at[g] \in 1 .. Len(Targets)
  BY TargetsAre DEF PublisherType, Deliver, DeliverFails
<1>2. wire \in [Gateway -> [Service -> Seq(Event)]]
  BY Zenon DEF TransportType
<1>3. CASE Deliver(g)
  <2>1. /\ wire' = [wire EXCEPT ![g][s] = Append(@, e)] /\ NextTarget(g, "delivered")
        /\ report' = report \cup {<<e, s, "delivered">>}
        /\ UNCHANGED <<sessions, queue, run, stale, breaks, faults, consumer, published, ignored>>
    BY <1>3, Zenon DEF Deliver, Observe
  <2>2. Pushed(g, s, e) /\ wire' \in [Gateway -> [Service -> Seq(Event)]]
    BY <1>1, <1>2, <2>1, PushIs, ZenonT(40)
  <2>3. TransportType'
    BY <2>1, <2>2 DEF TransportType
  <2>4. /\ PublisherType'
        /\ \/ at[g] = Len(Targets) /\ at'[g] = 1 /\ current'[g] = NoEvent
           \/ at'[g] = at[g] + 1 /\ current'[g] = current[g]
        /\ \A h \in Gateway : h # g => current'[h] = current[h] /\ at'[h] = at[h]
    BY <2>1, NextTargetIs
  <2> QED BY <1>1, <2>1, <2>2, <2>3, <2>4, Zenon DEF Finished
<1>4. CASE DeliverFails(g)
  <2>1. /\ wire' = wire \/ wire' = [wire EXCEPT ![g][s] = Append(@, e)]
        /\ faults < MaxFaults /\ faults' = faults + 1
        /\ UNCHANGED <<sessions, queue, run, stale, breaks, consumer, published, ignored>>
    BY <1>4, ZenonT(40) DEF DeliverFails
  <2>2. wire' = wire \/ (Pushed(g, s, e) /\ wire' \in [Gateway -> [Service -> Seq(Event)]])
    BY <1>1, <1>2, <2>1, PushIs, Zenon
  <2>3. TransportType'
    <3>1. faults' \in 0 .. MaxFaults /\ breaks \in 0 .. faults'
      BY <2>1, CapacityAssumption DEF TransportType
    <3> QED BY <2>1, <2>2, <3>1 DEF TransportType
  <2>5. CASE attempt[g] < MaxAttempts /\ attempt' = [attempt EXCEPT ![g] = @ + 1]
             /\ UNCHANGED <<current, at, report>>
    <3>1. attempt[g] + 1 \in 1 .. MaxAttempts
      BY <2>5, CapacityAssumption DEF PublisherType
    <3>2. PublisherType'
      BY <2>1, <2>5, <3>1, Zenon DEF PublisherType
    <3> QED BY <1>1, <2>1, <2>2, <2>3, <2>5, <3>2
  <2>6. CASE report' = report \cup {<<e, s, "failed">>} /\ NextTarget(g, "failed")
    <3>1. /\ PublisherType'
          /\ \/ at[g] = Len(Targets) /\ at'[g] = 1 /\ current'[g] = NoEvent
             \/ at'[g] = at[g] + 1 /\ current'[g] = current[g]
          /\ \A h \in Gateway : h # g => current'[h] = current[h] /\ at'[h] = at[h]
      BY <2>1, <2>6, NextTargetIs
    <3> QED BY <1>1, <2>1, <2>2, <2>3, <2>6, <3>1, Zenon DEF Finished
  <2> QED BY <1>4, <2>5, <2>6, Zenon DEF DeliverFails, Observe
<1> QED BY <1>3, <1>4, Zenon

LEMMA BreakIs ==
    ASSUME TransportType, NEW g \in Gateway, NEW s \in Service, BreakStream(g, s)
    PROVE  /\ TransportType' /\ Rewired(g, s, <<>>)
           /\ stale'[s] = stale[s] \cup Range(wire[g][s])
           /\ \A t \in Service : t # s => stale'[t] = stale[t]
           /\ breaks' # 0
           /\ UNCHANGED <<sessions, publisher, consumer, history>>
<1>1. /\ wire' = [wire EXCEPT ![g][s] = <<>>] /\ faults < MaxFaults /\ faults' = faults + 1
      /\ breaks' = breaks + 1 /\ stale' = [stale EXCEPT ![s] = stale[s] \cup Range(wire[g][s])]
      /\ UNCHANGED <<sessions, publisher, consumer, history>>
  BY DEF BreakStream
<1>2. Rewired(g, s, <<>>) /\ wire' \in [Gateway -> [Service -> Seq(Event)]]
  <2>1. wire \in [Gateway -> [Service -> Seq(Event)]] /\ <<>> \in Seq(Event)
    BY DEF TransportType
  <2> QED BY <1>1, <2>1, RewireIs, Zenon
<1>3. Range(wire[g][s]) \subseteq Event
  BY RangeType DEF TransportType
<1>4. faults' \in 0 .. MaxFaults /\ breaks' \in 0 .. faults' /\ breaks' # 0
  BY <1>1, CapacityAssumption DEF TransportType
<1>5. stale' \in [Service -> SUBSET Event]
  BY <1>1, <1>3 DEF TransportType
<1>6. TransportType'
  BY <1>2, <1>4, <1>5 DEF TransportType
<1> QED BY <1>1, <1>2, <1>4, <1>6 DEF TransportType

\* Accept takes the event, as the last one about its client ...
Taken(s, e) ==
  /\ e \notin eventIDs[s] /\ e.epoch >= latestEpoch[s][e.client]
  /\ eventIDs'[s] = eventIDs[s] \cup {e}
  /\ latestEpoch'[s][e.client] = e.epoch /\ latest'[s][e.client] = e
  /\ \A t \in Service : t # s => eventIDs'[t] = eventIDs[t]
  /\ \A t \in Service, k \in Client :
       <<t, k>> # <<s, e.client>> =>
         latestEpoch'[t][k] = latestEpoch[t][k] /\ latest'[t][k] = latest[t][k]

\* ... or refuses it.
Refused(s, e) ==
  /\ e \in eventIDs[s] \/ e.epoch < latestEpoch[s][e.client]
  /\ UNCHANGED <<eventIDs, latestEpoch, latest>>

LEMMA AcceptIs ==
    ASSUME ConsumerType, NEW s \in Service, NEW e \in Event, Accept(s, e)
    PROVE  ConsumerType' /\ (Taken(s, e) \/ Refused(s, e))
<1> DEFINE k == e.client
<1>1. k \in Client /\ e.epoch \in Nat /\ latestEpoch[s][k] \in Nat
  BY DEF Event, ConsumerType
<1>2. CASE ~Acceptable(s, e)
  <2>1. Refused(s, e)
    BY <1>1, <1>2 DEF Accept, Acceptable, consumer, Refused
  <2> QED BY <2>1 DEF Refused, ConsumerType
<1>3. CASE Acceptable(s, e)
  <2>1. e \notin eventIDs[s] /\ e.epoch >= latestEpoch[s][k]
    BY <1>3 DEF Acceptable
  <2>2. (IF e.epoch > latestEpoch[s][k] THEN e.epoch ELSE latestEpoch[s][k]) = e.epoch
    BY <1>1, <2>1
  <2>3. /\ eventIDs' = [eventIDs EXCEPT ![s] = eventIDs[s] \cup {e}]
        /\ latestEpoch' = [latestEpoch EXCEPT ![s] = [latestEpoch[s] EXCEPT ![k] = e.epoch]]
        /\ latest' = [latest EXCEPT ![s] = [latest[s] EXCEPT ![k] = e]]
    BY <1>3, <2>2 DEF Accept
  <2> HIDE DEF k
  <2>4. ConsumerType'
    BY <1>1, <2>3 DEF ConsumerType
  <2>5. /\ eventIDs'[s] = eventIDs[s] \cup {e}
        /\ \A t \in Service : t # s => eventIDs'[t] = eventIDs[t]
    BY <2>3 DEF ConsumerType
  <2>6. /\ latestEpoch'[s][k] = e.epoch
        /\ \A t \in Service, j \in Client :
             <<t, j>> # <<s, k>> => latestEpoch'[t][j] = latestEpoch[t][j]
    BY <1>1, <2>3 DEF ConsumerType
  <2>7. /\ latest'[s][k] = e
        /\ \A t \in Service, j \in Client : <<t, j>> # <<s, k>> => latest'[t][j] = latest[t][j]
    BY <1>1, <2>3 DEF ConsumerType
  <2>8. Taken(s, e)
    BY <2>1, <2>5, <2>6, <2>7 DEF Taken, k
  <2> QED BY <2>4, <2>8
<1> QED BY <1>2, <1>3

LEMMA ReceiveIs ==
    ASSUME TransportType, ConsumerType, NEW g \in Gateway, NEW s \in Service, Receive(g, s)
    PROVE  /\ TransportType' /\ ConsumerType'
           /\ wire[g][s] \in Seq(Event) /\ wire[g][s] # <<>> /\ Head(wire[g][s]) \in Event
           /\ Rewired(g, s, Tail(wire[g][s]))
           /\ Taken(s, Head(wire[g][s])) \/ Refused(s, Head(wire[g][s]))
           /\ UNCHANGED <<sessions, publisher, stale, breaks, history>>
<1>1. /\ wire[g][s] # <<>> /\ wire' = [wire EXCEPT ![g][s] = Tail(wire[g][s])]
      /\ Accept(s, Head(wire[g][s]))
      /\ UNCHANGED <<sessions, publisher, stale, breaks, faults, history>>
  BY DEF Receive
<1>2. wire[g][s] \in Seq(Event) /\ wire \in [Gateway -> [Service -> Seq(Event)]]
  BY DEF TransportType
<1>3. Tail(wire[g][s]) \in Seq(Event) /\ Head(wire[g][s]) \in Event
  BY <1>1, <1>2, RangeOfTail
<1>4. Rewired(g, s, Tail(wire[g][s])) /\ wire' \in [Gateway -> [Service -> Seq(Event)]]
  BY <1>1, <1>2, <1>3, RewireIs, Zenon
<1>5. ConsumerType' /\ (Taken(s, Head(wire[g][s])) \/ Refused(s, Head(wire[g][s])))
  BY <1>1, <1>3, AcceptIs
<1>6. TransportType'
  BY <1>1, <1>4 DEF TransportType
<1> QED BY <1>1, <1>2, <1>3, <1>4, <1>5, <1>6

LEMMA ReceiveStaleIs ==
    ASSUME TransportType, ConsumerType, NEW s \in Service, NEW e \in stale[s], ReceiveStale(s, e)
    PROVE  /\ TransportType' /\ ConsumerType' /\ e \in Event
           /\ stale'[s] = stale[s] \ {e} /\ \A t \in Service : t # s => stale'[t] = stale[t]
           /\ Taken(s, e) \/ Refused(s, e)
           /\ UNCHANGED <<sessions, publisher, wire, breaks, history>>
<1>1. /\ stale' = [stale EXCEPT ![s] = stale[s] \ {e}] /\ Accept(s, e)
      /\ UNCHANGED <<sessions, publisher, wire, breaks, faults, history>>
  BY DEF ReceiveStale
<1>2. e \in Event
  BY DEF TransportType
<1>3. TransportType'
  BY <1>1 DEF TransportType
<1> QED BY <1>1, <1>2, <1>3, AcceptIs DEF TransportType

-----------------------------------------------------------------------------
(* Sessions and the events they publish *)

LEMMA MineIs ==
    ASSUME SessionType, SessionsOK, NEW c \in Conn, Bound(c), pc[c] \notin {"notice", "gone"}
    PROVE  Mine(c) <=> epoch[c] = record[Owner[c]].epoch
<1>1. Owner[c] \in Client
  BY WiringAssumption
<1>2. record[Owner[c]] \in [epoch : Nat, conn : Conn \union {NoConn}]
  BY <1>1 DEF SessionType
<1>3. epoch[c] = record[Owner[c]].epoch => record[Owner[c]].conn = c
  BY DEF SessionsOK
<1> QED BY <1>2, <1>3 DEF Mine

LEMMA LoginSessions ==
    ASSUME SessionType, SessionsOK, PublishedOK, NEW c \in Conn, Login(c)
    PROVE  SessionsOK' /\ PublishedOK' /\ \A e \in published : ~Subject(c, e)'
<1> DEFINE k == Owner[c]
           n == record[k].epoch
<1>1. /\ pc[c] = "open" /\ pc'[c] = "login" /\ k \in Client /\ n \in Nat
      /\ record'[k].epoch = n + 1 /\ record'[k].conn = c
      /\ \A j \in Client : j # k => record'[j] = record[j]
      /\ epoch'[c] = n + 1
      /\ \A d \in Conn : d # c => pc'[d] = pc[d] /\ epoch'[d] = epoch[d]
      /\ published' = published
  BY LoginIs DEF history
<1>2. \A d \in Conn : Owner[d] \in Client
  BY WiringAssumption
<1> HIDE DEF n
<1>3. \A d \in Conn : Bound(d) /\ Owner[d] = k => d # c /\ epoch[d] \in 1 .. n
  BY <1>1 DEF SessionsOK, Bound, n
<1>4. \A d \in Conn : Bound(d)' => d = c \/ (Bound(d) /\ epoch'[d] = epoch[d])
  BY <1>1 DEF Bound
<1>5. \A d \in Conn : Bound(d)' => epoch'[d] \in 1 .. record'[Owner[d]].epoch
  <2> SUFFICES ASSUME NEW d \in Conn, Bound(d)' PROVE epoch'[d] \in 1 .. record'[Owner[d]].epoch
    OBVIOUS
  <2>1. CASE d = c
    BY <1>1, <2>1
  <2>2. CASE d # c /\ Owner[d] = k
    BY <1>1, <1>3, <1>4, <2>2
  <2>3. CASE d # c /\ Owner[d] # k
    BY <1>1, <1>2, <1>4, <2>3 DEF SessionsOK
  <2> QED BY <2>1, <2>2, <2>3
<1>6. \A d, b \in Conn :
        Bound(d)' /\ Bound(b)' /\ Owner[d] = Owner[b] /\ epoch'[d] = epoch'[b] => d = b
  <2> SUFFICES ASSUME NEW d \in Conn, NEW b \in Conn, Bound(d)', Bound(b)',
                      Owner[d] = Owner[b], epoch'[d] = epoch'[b], d # b
               PROVE  FALSE
    OBVIOUS
  <2>1. CASE d = c
    <3>1. epoch'[b] \in 1 .. n
      BY <1>3, <1>4, <2>1
    <3> QED BY <1>1, <2>1, <3>1
  <2>2. CASE b = c
    <3>1. epoch'[d] \in 1 .. n
      BY <1>3, <1>4, <2>2
    <3> QED BY <1>1, <2>2, <3>1
  <2>3. CASE d # c /\ b # c
    BY <1>4, <2>3 DEF SessionsOK
  <2> QED BY <2>1, <2>2, <2>3
<1>7. \A j \in Client :
        record'[j].epoch > 0 => \E d \in Conn : /\ Bound(d)' /\ Owner[d] = j
                                                /\ epoch'[d] = record'[j].epoch
  <2>1. Bound(c)' /\ Owner[c] = k /\ epoch'[c] = record'[k].epoch
    BY <1>1 DEF Bound
  <2>2. ASSUME NEW j \in Client, j # k, record'[j].epoch > 0
        PROVE  \E d \in Conn : Bound(d)' /\ Owner[d] = j /\ epoch'[d] = record'[j].epoch
    <3>1. PICK d \in Conn : Bound(d) /\ Owner[d] = j /\ epoch[d] = record[j].epoch
      BY <1>1, <2>2 DEF SessionsOK
    <3>2. d # c
      BY <2>2, <3>1
    <3> QED BY <1>1, <2>2, <3>1, <3>2 DEF Bound
  <2> QED BY <2>1, <2>2
<1>8. \A d \in Conn :
        Bound(d)' /\ epoch'[d] = record'[Owner[d]].epoch =>
          record'[Owner[d]].conn = IF pc'[d] \in {"notice", "gone"} THEN NoConn ELSE d
  <2> SUFFICES ASSUME NEW d \in Conn, Bound(d)', epoch'[d] = record'[Owner[d]].epoch
               PROVE  record'[Owner[d]].conn = IF pc'[d] \in {"notice", "gone"} THEN NoConn ELSE d
    OBVIOUS
  <2>1. CASE d = c
    BY <1>1, <2>1
  <2>2. CASE d # c /\ Owner[d] = k
    BY <1>1, <1>3, <1>4, <2>2
  <2>3. CASE d # c /\ Owner[d] # k
    BY <1>1, <1>2, <1>4, <2>3 DEF SessionsOK
  <2> QED BY <2>1, <2>2, <2>3
<1>9. \A e \in published : ~Subject(c, e)'
  <2> SUFFICES ASSUME NEW e \in published, Subject(c, e)' PROVE FALSE
    OBVIOUS
  <2>1. PICK d \in Conn : Subject(d, e)
    BY DEF PublishedOK
  <2>2. Owner[d] = k /\ epoch[d] = n + 1 /\ Bound(d)
    BY <1>1, <2>1, Zenon DEF Subject
  <2> QED BY <1>1, <1>3, <2>2
<1>10. PublishedOK'
  <2>1. \A d \in Conn, e \in published : Subject(d, e) => d # c /\ Subject(d, e)' /\ pc'[d] = pc[d]
    BY <1>1 DEF Subject, Bound
  <2>2. \A e \in published' :
          \E d \in Conn : /\ Subject(d, e)' /\ pc'[d] # "login"
                          /\ e.type = "disconnected" => pc'[d] = "gone"
    <3>1. ASSUME NEW e \in published'
          PROVE  \E d \in Conn : /\ Subject(d, e)' /\ pc'[d] # "login"
                                 /\ e.type = "disconnected" => pc'[d] = "gone"
      <4>1. e \in published
        BY <1>1, <3>1, Zenon
      <4>2. PICK d \in Conn : /\ Subject(d, e) /\ pc[d] # "login"
                              /\ e.type = "disconnected" => pc[d] = "gone"
        BY <4>1, Zenon DEF PublishedOK
      <4>3. Subject(d, e)' /\ pc'[d] = pc[d]
        BY <2>1, <4>1, <4>2, Zenon
      <4> QED BY <4>2, <4>3, Zenon
    <3> QED BY <3>1, Zenon
  <2>3. ASSUME NEW d \in Conn, Bound(d)', pc'[d] # "login"
        PROVE  \E e \in published' : Subject(d, e)' /\ e.type # "disconnected"
    <3>1. d # c /\ Bound(d) /\ pc[d] # "login"
      BY <1>1, <2>3 DEF Bound
    <3>2. PICK e \in published : Subject(d, e) /\ e.type # "disconnected"
      BY <3>1 DEF PublishedOK
    <3> QED BY <1>1, <2>1, <3>2
  <2>4. ASSUME NEW d \in Conn, pc'[d] = "gone", epoch'[d] = record'[Owner[d]].epoch
        PROVE  EventOf(d, "disconnected")' \in published'
    <3>1. d # c /\ pc[d] = "gone" /\ epoch'[d] = epoch[d] /\ Bound(d)
      BY <1>1, <2>4 DEF Bound
    <3>2. ASSUME Owner[d] = k PROVE FALSE
      <4>1. epoch[d] \in 1 .. n
        BY <1>3, <3>1, <3>2
      <4>2. epoch[d] = n + 1
        BY <1>1, <2>4, <3>1, <3>2, Zenon
      <4> QED BY <1>1, <4>1, <4>2
    <3>3. record'[Owner[d]] = record[Owner[d]]
      BY <1>1, <1>2, <3>2
    <3>4. EventOf(d, "disconnected")' = EventOf(d, "disconnected")
      BY <3>1, SMTT(20) DEF EventOf
    <3> QED BY <1>1, <2>4, <3>1, <3>3, <3>4, Zenon DEF PublishedOK
  <2> QED BY <2>2, <2>3, <2>4, SMTT(20) DEF PublishedOK
<1>11. SessionsOK'
  BY <1>5, <1>6, <1>7, <1>8, SMTT(20) DEF SessionsOK
<1> QED BY <1>9, <1>10, <1>11

\* The handler of c goes on to step t.
Goes(c, t) ==
  /\ t \in {"bound", "detach", "notice", "gone"} /\ Bound(c) /\ pc'[c] = t
  /\ \A d \in Conn : d # c => pc'[d] = pc[d]
  /\ epoch' = epoch

LEMMA SubjectKept ==
    ASSUME NEW c \in Conn, NEW t, Goes(c, t)
    PROVE  /\ \A d \in Conn : Bound(d)' <=> Bound(d)
           /\ \A d \in Conn : \A e : Subject(d, e)' <=> Subject(d, e)
           /\ \A d \in Conn : \A type : EventOf(d, type)' = EventOf(d, type)
BY DEF Goes, Subject, Bound, EventOf

LEMMA HandlerSessions ==
    ASSUME SessionType, SessionsOK, NEW c \in Conn, NEW t, Goes(c, t),
           \/ /\ record' = record
              /\ \/ pc[c] \in {"notice", "gone"} <=> t \in {"notice", "gone"}
                 \/ epoch[c] # record[Owner[c]].epoch
           \/ /\ record' = [record EXCEPT ![Owner[c]].conn = NoConn]
              /\ t = "notice" /\ epoch[c] = record[Owner[c]].epoch
    PROVE  SessionsOK' /\ \A k \in Client : record'[k].epoch = record[k].epoch
<1>1. \A d \in Conn : Owner[d] \in Client
  BY WiringAssumption
<1>2. \A k \in Client : record'[k].epoch = record[k].epoch
  BY <1>1 DEF SessionType
<1>3. \A d \in Conn : (Bound(d)' <=> Bound(d)) /\ epoch'[d] = epoch[d]
  BY SubjectKept DEF Goes
<1>4. \A d \in Conn : Bound(d)' => epoch'[d] \in 1 .. record'[Owner[d]].epoch
  BY <1>1, <1>2, <1>3 DEF SessionsOK
<1>5. \A d, b \in Conn :
        Bound(d)' /\ Bound(b)' /\ Owner[d] = Owner[b] /\ epoch'[d] = epoch'[b] => d = b
  BY <1>3 DEF SessionsOK
<1>6. \A j \in Client :
        record'[j].epoch > 0 => \E d \in Conn : /\ Bound(d)' /\ Owner[d] = j
                                                /\ epoch'[d] = record'[j].epoch
  BY <1>2, <1>3 DEF SessionsOK
<1>7. ASSUME NEW d \in Conn, Bound(d)', epoch'[d] = record'[Owner[d]].epoch
      PROVE  record'[Owner[d]].conn = IF pc'[d] \in {"notice", "gone"} THEN NoConn ELSE d
  <2>1. Bound(d) /\ epoch[d] = record[Owner[d]].epoch
    BY <1>1, <1>2, <1>3, <1>7
  <2>2. record[Owner[d]].conn = IF pc[d] \in {"notice", "gone"} THEN NoConn ELSE d
    BY <2>1 DEF SessionsOK
  <2>3. CASE /\ record' = record
             /\ \/ pc[c] \in {"notice", "gone"} <=> t \in {"notice", "gone"}
                \/ epoch[c] # record[Owner[c]].epoch
    <3>1. CASE d = c
      <4>1. pc[c] \in {"notice", "gone"} <=> pc'[c] \in {"notice", "gone"}
        BY <2>1, <2>3, <3>1 DEF Goes
      <4> QED BY <2>2, <2>3, <3>1, <4>1
    <3>2. CASE d # c
      BY <2>2, <2>3, <3>2 DEF Goes
    <3> QED BY <3>1, <3>2
  <2>4. CASE record' = [record EXCEPT ![Owner[c]].conn = NoConn] /\ t = "notice"
             /\ epoch[c] = record[Owner[c]].epoch
    <3>1. CASE Owner[d] = Owner[c]
      <4>1. d = c
        BY <2>1, <2>4, <3>1 DEF SessionsOK, Goes
      <4>2. record'[Owner[c]].conn = NoConn
        BY <1>1, <2>4 DEF SessionType
      <4> QED BY <2>4, <4>1, <4>2 DEF Goes
    <3>2. CASE Owner[d] # Owner[c]
      <4>1. record'[Owner[d]] = record[Owner[d]] /\ pc'[d] = pc[d]
        BY <1>1, <2>4, <3>2, Zenon DEF SessionType, Goes
      <4> QED BY <2>2, <4>1
    <3> QED BY <3>1, <3>2
  <2> QED BY <2>3, <2>4
<1> QED BY <1>2, <1>4, <1>5, <1>6, <1>7 DEF SessionsOK

LEMMA HandlerPublished ==
    ASSUME PublishedOK, NEW c \in Conn, NEW t, Goes(c, t), pc[c] # "gone",
           \A k \in Client : record'[k].epoch = record[k].epoch,
           published \subseteq published',
           \A e \in published' \ published : Subject(c, e) /\ (e.type = "disconnected" => t = "gone"),
           pc[c] = "login" => \E e \in published' : Subject(c, e) /\ e.type # "disconnected",
           t = "gone" /\ epoch[c] = record[Owner[c]].epoch => EventOf(c,
           "disconnected") \in published'
    PROVE  PublishedOK'
<1>1. /\ \A d \in Conn : Bound(d)' <=> Bound(d)
      /\ \A d \in Conn : \A e : Subject(d, e)' <=> Subject(d, e)
      /\ \A d \in Conn : EventOf(d, "disconnected")' = EventOf(d, "disconnected")
  BY SubjectKept, Zenon
<1>2. /\ pc'[c] = t /\ t # "login" /\ \A d \in Conn : d # c => pc'[d] = pc[d]
      /\ epoch' = epoch
  BY DEF Goes
<1>3. ASSUME NEW e \in published'
      PROVE  \E d \in Conn : /\ Subject(d, e)' /\ pc'[d] # "login"
                             /\ e.type = "disconnected" => pc'[d] = "gone"
  <2>1. CASE e \in published
    <3>1. PICK d \in Conn : /\ Subject(d, e) /\ pc[d] # "login"
                            /\ e.type = "disconnected" => pc[d] = "gone"
      BY <2>1 DEF PublishedOK
    <3>2. pc'[d] # "login" /\ (e.type = "disconnected" => pc'[d] = "gone")
      BY <1>2, <3>1, Zenon
    <3> QED BY <1>1, <3>1, <3>2, Zenon
  <2>2. CASE e \notin published
    BY <1>1, <1>2, <2>2, Zenon
  <2> QED BY <2>1, <2>2
<1>4. ASSUME NEW d \in Conn, Bound(d)', pc'[d] # "login"
      PROVE  \E e \in published' : Subject(d, e)' /\ e.type # "disconnected"
  <2>1. \E e \in published' : Subject(d, e) /\ e.type # "disconnected"
    <3>1. CASE d = c /\ pc[c] = "login"
      BY <3>1
    <3>2. CASE ~(d = c /\ pc[c] = "login")
      <4>1. Bound(d) /\ pc[d] # "login"
        BY <1>1, <1>2, <1>4, <3>2
      <4> QED BY <4>1 DEF PublishedOK
    <3> QED BY <3>1, <3>2
  <2> QED BY <1>1, <2>1, SMTT(20)
<1>5. ASSUME NEW d \in Conn, pc'[d] = "gone", epoch'[d] = record'[Owner[d]].epoch
      PROVE  EventOf(d, "disconnected")' \in published'
  <2>1. epoch[d] = record[Owner[d]].epoch
    <3>1. Owner[d] \in Client
      BY WiringAssumption
    <3> QED BY <1>2, <1>5, <3>1
  <2>2. CASE d = c
    BY <1>1, <1>2, <1>5, <2>1, <2>2, Zenon
  <2>3. CASE d # c
    BY <1>1, <1>2, <1>5, <2>1, <2>3 DEF PublishedOK
  <2> QED BY <2>2, <2>3, Zenon
<1> QED BY <1>3, <1>4, <1>5, Zenon DEF PublishedOK

-----------------------------------------------------------------------------
(* Where events are *)

LEMMA CarriedIs ==
    ASSUME NEW g \in Gateway, NEW e
    PROVE  e \in Carried(g) <=> \/ e \in Range(queue[g])
                                \/ e = current[g] /\ e # NoEvent
                                \/ \E s \in Service : e \in Range(wire[g][s])
BY Zenon DEF Carried

\* Events move, and no connection becomes the subject of an event that was published.
LEMMA PlacesMoved ==
    ASSUME PlacesOK, published' = published,
           \A c \in Conn, e \in published : Subject(c, e)' => Subject(c, e),
           \A g \in Gateway : Carried(g)' \subseteq Carried(g),
           \A s \in Service : \A e \in stale'[s] \cup eventIDs'[s] :
             \/ e \in stale[s] \cup eventIDs[s]
             \/ \E g \in Gateway : e \in Carried(g)
    PROVE  PlacesOK'
<1>1. /\ \A g \in Gateway : \A e \in Carried(g) : Home(g, e)
      /\ \A s \in Service : stale[s] \subseteq published /\ eventIDs[s] \subseteq published
  BY DEF PlacesOK
<1>2. \A g \in Gateway : \A e : Home(g, e) => Home(g, e)'
  BY DEF Home
<1>3. \A g \in Gateway : \A e \in Carried(g)' : Home(g, e)'
  BY <1>1, <1>2
<1>4. \A g \in Gateway : \A e \in Carried(g) : e \in published
  BY <1>1, Zenon DEF Home
<1>5. \A s \in Service : stale'[s] \subseteq published' /\ eventIDs'[s] \subseteq published'
  BY <1>1, <1>4
<1>6. /\ \A g \in Gateway : \A e \in Carried(g)' : Home(g, e)'
      /\ \A s \in Service : stale'[s] \subseteq published' /\ eventIDs'[s] \subseteq published'
  BY <1>3, <1>5, Zenon
<1> QED BY <1>6, ZenonT(40) DEF PlacesOK

\* Event e is published by connection c.
LEMMA PlacesPublished ==
    ASSUME PlacesOK, SessionsOK, PublisherType, NEW c \in Conn, NEW e \in Event, Subject(c, e),
           published' = published \cup {e},
           \A d \in Conn : \A f : Subject(d, f)' <=> Subject(d, f),
           \A h \in Gateway : h # Host[c] => queue'[h] = queue[h],
           queue'[Host[c]] = Append(queue[Host[c]], e) \/ queue'[Host[c]] = queue[Host[c]],
           UNCHANGED <<current, wire, stale, eventIDs>>
    PROVE  PlacesOK'
<1>1. /\ \A g \in Gateway : \A f \in Carried(g) : Home(g, f)
      /\ \A s \in Service : stale[s] \subseteq published /\ eventIDs[s] \subseteq published
  BY Zenon DEF PlacesOK
<1>2. \A g \in Gateway : \A f : Home(g, f) => Home(g, f)'
  BY Zenon DEF Home
<1>3. Home(Host[c], e)'
  BY DEF Home, SessionsOK, Subject
<1>4. Host[c] \in Gateway /\ queue[Host[c]] \in Seq(Event)
  BY WiringAssumption, Zenon DEF PublisherType
<1>5. ASSUME NEW g \in Gateway, NEW f \in Carried(g)' PROVE f \in Carried(g) \/ (f = e /\ g = Host[c])
  <2>1. f \in Range(queue'[g]) => f \in Range(queue[g]) \/ (f = e /\ g = Host[c])
    <3>1. Range(Append(queue[Host[c]], e)) = Range(queue[Host[c]]) \cup {e}
      BY <1>4, RangeOfQueued, Zenon
    <3> QED BY <3>1, Zenon
  <2>2. \/ f \in Range(queue'[g])
        \/ f = current'[g] /\ f # NoEvent
        \/ \E s \in Service : f \in Range(wire'[g][s])
    BY <1>5, SMTT(20) DEF Carried
  <2> QED BY <2>1, <2>2, CarriedIs, Zenon
<1>6. /\ \A g \in Gateway : \A f \in Carried(g)' : Home(g, f)'
      /\ \A s \in Service : stale'[s] \subseteq published' /\ eventIDs'[s] \subseteq published'
  BY <1>1, <1>2, <1>3, <1>5
<1> QED BY <1>6, Zenon DEF PlacesOK

\* What each kind of step does to the events that the gateways have.
LEMMA CarriedTake ==
    ASSUME PublisherType, NEW g \in Gateway, Take(g)
    PROVE  \A h \in Gateway : Carried(h)' \subseteq Carried(h)
<1> SUFFICES ASSUME NEW h \in Gateway, NEW f \in Carried(h)' PROVE f \in Carried(h)
  OBVIOUS
<1>1. /\ queue[g] \in Seq(Event) /\ queue[g] # <<>> /\ queue'[g] = Tail(queue[g])
      /\ current'[g] = Head(queue[g]) /\ Head(queue[g]) \in Event /\ wire' = wire
      /\ h # g => queue'[h] = queue[h] /\ current'[h] = current[h]
  BY TakeIs DEF transport
<1>2. Range(queue[g]) = {Head(queue[g])} \cup Range(Tail(queue[g]))
  BY <1>1, RangeOfTail
<1>3. \/ f \in Range(queue'[h])
      \/ f = current'[h] /\ f # NoEvent
      \/ \E s \in Service : f \in Range(wire'[h][s])
  BY Zenon DEF Carried
<1> QED BY <1>1, <1>2, <1>3, CarriedIs

LEMMA CarriedAttempt ==
    ASSUME PublisherType, TransportType, NEW g \in Gateway, Deliver(g) \/ DeliverFails(g)
    PROVE  \A h \in Gateway : Carried(h)' \subseteq Carried(h)
<1> SUFFICES ASSUME NEW h \in Gateway, NEW f \in Carried(h)' PROVE f \in Carried(h)
  BY Zenon
<1> DEFINE e == current[g]
           s == Targets[at[g]]
<1>1. /\ e \in Event /\ s \in Service /\ queue' = queue
      /\ wire' = wire \/ Pushed(g, s, e)
      /\ current'[g] = NoEvent \/ current'[g] = current[g]
      /\ h # g => current'[h] = current[h]
  BY AttemptIs, ZenonT(40) DEF Finished
<1>2. e # NoEvent
  BY <1>1, NoEventAssumption, Zenon
<1> HIDE DEF s
<1>3. ASSUME NEW t \in Service, f \in Range(wire'[h][t])
      PROVE  f \in Range(wire[h][t]) \/ (h = g /\ f = e)
  <2>1. wire[g][s] \in Seq(Event)
    BY <1>1 DEF TransportType
  <2> HIDE DEF e
  <2>2. Range(Append(wire[g][s], e)) = Range(wire[g][s]) \cup {e}
    BY <1>1, <2>1, RangeOfAppend
  <2>3. wire'[h][t] = wire[h][t] \/ (h = g /\ t = s /\ wire'[h][t] = Append(wire[g][s], e))
    BY <1>1 DEF Pushed, Rewired
  <2> QED BY <1>3, <2>2, <2>3, Zenon
<1>4. \/ f \in Range(queue'[h])
      \/ f = current'[h] /\ f # NoEvent
      \/ \E t \in Service : f \in Range(wire'[h][t])
  BY DEF Carried
<1> QED BY <1>1, <1>2, <1>3, <1>4, CarriedIs

LEMMA CarriedRewired ==
    ASSUME NEW g \in Gateway, NEW s \in Service, NEW q, Rewired(g, s, q),
           Range(q) \subseteq Range(wire[g][s]), UNCHANGED publisher
    PROVE  \A h \in Gateway : Carried(h)' \subseteq Carried(h)
<1> SUFFICES ASSUME NEW h \in Gateway, NEW f \in Carried(h)' PROVE f \in Carried(h)
  OBVIOUS
<1>1. queue' = queue /\ current' = current
  BY DEF publisher
<1>2. \A t \in Service : f \in Range(wire'[h][t]) => f \in Range(wire[h][t])
  BY DEF Rewired
<1>3. \/ f \in Range(queue'[h])
      \/ f = current'[h] /\ f # NoEvent
      \/ \E t \in Service : f \in Range(wire'[h][t])
  BY DEF Carried
<1> QED BY <1>1, <1>2, <1>3, CarriedIs

\* Accept only adds to what a consumer knows, and afterwards the event is known.
LEMMA ConsumerGrows ==
    ASSUME ConsumerType, ConsumerOK, NEW s \in Service, NEW e \in Event, Taken(s, e) \/ Refused(s, e)
    PROVE  /\ ConsumerOK'
           /\ \A t \in Service : eventIDs[t] \subseteq eventIDs'[t]
           /\ \A t \in Service : eventIDs'[t] \subseteq eventIDs[t] \cup (IF t = s THEN {e} ELSE {})
           /\ \A t \in Service, k \in Client : latestEpoch'[t][k] >= latestEpoch[t][k]
           /\ e \in eventIDs'[s] \/ latestEpoch'[s][e.client] > e.epoch
<1>1. e.client \in Client /\ e.epoch \in Nat
  BY DEF Event
<1>2. \A t \in Service, k \in Client : latestEpoch[t][k] \in Nat
  BY Zenon DEF ConsumerType
<1>3. CASE Refused(s, e)
  BY <1>1, <1>2, <1>3, SMTT(20) DEF Refused, ConsumerOK
<1>4. CASE Taken(s, e)
  <2>1. /\ e.epoch >= latestEpoch[s][e.client] /\ eventIDs'[s] = eventIDs[s] \cup {e}
        /\ latestEpoch'[s][e.client] = e.epoch /\ latest'[s][e.client] = e
        /\ \A t \in Service : t # s => eventIDs'[t] = eventIDs[t]
        /\ \A t \in Service, k \in Client :
             <<t, k>> # <<s, e.client>> =>
               latestEpoch'[t][k] = latestEpoch[t][k] /\ latest'[t][k] = latest[t][k]
    BY <1>4, Zenon DEF Taken
  <2>2. \A t \in Service : eventIDs[t] \subseteq eventIDs'[t]
    BY <2>1, Zenon
  <2>3. \A t \in Service, k \in Client : latestEpoch'[t][k] >= latestEpoch[t][k]
    BY <1>1, <1>2, <2>1, SMTT(20)
  <2>4. ASSUME NEW t \in Service, NEW k \in Client
        PROVE  \/ latest'[t][k] = NoEvent /\ latestEpoch'[t][k] = 0
               \/ /\ latest'[t][k] \in eventIDs'[t]
                  /\ latest'[t][k].client = k /\ latest'[t][k].epoch = latestEpoch'[t][k]
    <3>1. CASE t = s /\ k = e.client
      BY <2>1, <3>1, Zenon
    <3>2. CASE ~(t = s /\ k = e.client)
      BY <2>1, <2>2, <3>2, SMTT(20) DEF ConsumerOK
    <3> QED BY <3>1, <3>2, Zenon
  <2>5. ASSUME NEW t \in Service, NEW f \in eventIDs'[t] PROVE f.epoch <= latestEpoch'[t][f.client]
    <3>1. CASE t = s /\ f = e
      BY <1>1, <2>1, <3>1, SMTT(20)
    <3>2. CASE f \in eventIDs[t]
      <4>1. f.epoch \in Nat /\ f.client \in Client
        BY <3>2 DEF ConsumerType, Event
      <4>2. f.epoch <= latestEpoch[t][f.client]
        BY <3>2, Zenon DEF ConsumerOK
      <4>3. latestEpoch'[t][f.client] \in Nat
        BY <1>1, <1>2, <2>1, <4>1, Zenon
      <4> QED BY <1>2, <2>3, <4>1, <4>2, <4>3, SMTT(20)
    <3> QED BY <2>1, <2>5, <3>1, <3>2
  <2>6. ConsumerOK'
    BY <2>4, <2>5, Zenon DEF ConsumerOK
  <2> QED BY <2>1, <2>2, <2>3, <2>6, Zenon
<1> QED BY <1>3, <1>4

-----------------------------------------------------------------------------
(* What becomes of an event *)

LEMMA SentKept ==
    ASSUME NEW e, NEW s \in Service, Sent(e, s), report \subseteq report',
           \A g \in Gateway : e \in Range(wire[g][s]) => Sent(e, s)',
           e \in stale[s] => Sent(e, s)',
           eventIDs[s] \subseteq eventIDs'[s],
           latestEpoch[s][e.client] > e.epoch => latestEpoch'[s][e.client] > e.epoch
    PROVE  Sent(e, s)'
BY Zenon DEF Sent

LEMMA PendingIs ==
    ASSUME NEW e
    PROVE  e \in Pending <=> \E g \in Gateway : e \in Range(queue[g]) \/ (e = current[g] /\ e # NoEvent)
BY ZenonT(40) DEF Pending

LEMMA DeliveryMoved ==
    ASSUME DeliveryOK, HistoryType, published' = published, ignored' = ignored, report \subseteq report',
           \A e \in Event, s \in Service : Sent(e, s) => Sent(e, s)',
           \A g \in Gateway :
             current'[g] # NoEvent => \A i \in 1 .. at'[g] - 1 : Given(current[g], Targets[i])',
           \A e \in Pending : e \in Pending' \/ \A s \in Service : Given(e, s)'
    PROVE  DeliveryOK'
<1>1. \A e \in Event, s \in Service : Given(e, s) => Given(e, s)'
  BY DEF Given, Reported
<1>2. published \subseteq Event
  BY Zenon DEF HistoryType
<1>3. ASSUME NEW e \in published'
      PROVE  \/ e \in Pending' \union ignored'
             \/ <<e, "queue", "dropped">> \in report'
             \/ \A s \in Service : Given(e, s)'
  <2>1. \/ e \in Pending \union ignored
        \/ <<e, "queue", "dropped">> \in report
        \/ \A s \in Service : Given(e, s)
    BY <1>3, Zenon DEF DeliveryOK
  <2> QED BY <1>1, <1>2, <1>3, <2>1, Zenon
<1> QED BY <1>3, Zenon DEF DeliveryOK

\* The publisher and what it has reported stay as they are.
LEMMA DeliveryCarried ==
    ASSUME DeliveryOK, PublisherType, HistoryType, UNCHANGED <<queue, current, at, history>>,
           \A e \in Event, s \in Service : Sent(e, s) => Sent(e, s)'
    PROVE  DeliveryOK'
<1>1. UNCHANGED <<report, published, ignored, queue, current, at>>
  BY Zenon DEF history
<1>2. ASSUME NEW g \in Gateway, current'[g] # NoEvent, NEW i \in 1 .. at'[g] - 1
      PROVE  Given(current[g], Targets[i])'
  <2>1. current[g] \in Event /\ Targets[i] \in Service
    <3>1. i \in 1 .. Len(Targets) /\ current[g] \in Event
      BY <1>1, <1>2, TargetsAre, SMTT(20) DEF PublisherType
    <3> QED BY <3>1, TargetsAre
  <2>2. Given(current[g], Targets[i])
    BY <1>1, <1>2 DEF DeliveryOK
  <2> QED BY <1>1, <2>1, <2>2, Zenon DEF Given, Reported
<1>3. Pending' = Pending
  BY <1>1, Zenon DEF Pending
<1> QED BY <1>1, <1>2, <1>3, DeliveryMoved, Zenon

LEMMA DeliveryTake ==
    ASSUME DeliveryOK, PublisherType, HistoryType, NEW g \in Gateway, Take(g)
    PROVE  DeliveryOK'
<1>1. /\ queue[g] \in Seq(Event) /\ queue[g] # <<>> /\ queue'[g] = Tail(queue[g])
      /\ current'[g] = Head(queue[g]) /\ Head(queue[g]) \in Event /\ at'[g] = 1
      /\ current[g] = NoEvent
      /\ \A h \in Gateway :
           h # g => queue'[h] = queue[h] /\ current'[h] = current[h] /\ at'[h] = at[h]
      /\ UNCHANGED <<wire, stale, eventIDs, latestEpoch, report, published, ignored>>
  BY TakeIs, ZenonT(40) DEF transport, consumer, history
<1>2. Range(queue[g]) = {Head(queue[g])} \cup Range(Tail(queue[g]))
  BY <1>1, RangeOfTail, Zenon
<1>3. Head(queue[g]) # NoEvent
  BY <1>1, NoEventAssumption
<1>4. \A e \in Event, s \in Service : (Sent(e, s) <=> Sent(e, s)') /\ (Given(e, s) <=> Given(e, s)')
  BY <1>1 DEF Sent, Given, Reported
<1>5. ASSUME NEW h \in Gateway, current'[h] # NoEvent, NEW i \in 1 .. at'[h] - 1
      PROVE  Given(current[h], Targets[i])'
  <2>1. CASE h = g
    <3>1. i \in 1 .. 0
      BY <1>1, <1>5, <2>1
    <3> QED BY <3>1, SMTT(20)
  <2>2. CASE h # g
    <3>1. i \in 1 .. Len(Targets) /\ current[h] \in Event
      BY <1>1, <1>5, <2>2, TargetsAre DEF PublisherType
    <3>2. Given(current[h], Targets[i])
      BY <1>1, <1>5, <2>2, Zenon DEF DeliveryOK
    <3>3. Given(current[h], Targets[i])' <=> Given(current[h], Targets[i])
      BY <1>1, <2>2, Zenon DEF Given, Sent, Reported
    <3> QED BY <3>2, <3>3
  <2> QED BY <2>1, <2>2
<1>6. ASSUME NEW e \in Pending PROVE e \in Pending'
  <2>1. PICK h \in Gateway : e \in Range(queue[h]) \/ (e = current[h] /\ e # NoEvent)
    BY <1>6, PendingIs, Zenon
  <2>2. e \in Range(queue'[h]) \/ (e = current'[h] /\ e # NoEvent)
    BY <1>1, <1>2, <1>3, <2>1, ZenonT(40)
  <2> QED BY <2>2 DEF Pending
<1> QED BY <1>1, <1>4, <1>5, <1>6, DeliveryMoved, ZenonT(40)

LEMMA DeliveryAttempt ==
    ASSUME DeliveryOK, PublisherType, TransportType, HistoryType, NEW g \in Gateway,
           Deliver(g) \/ DeliverFails(g)
    PROVE  DeliveryOK'
<1>0. PICK e, s : e = current[g] /\ s = Targets[at[g]]
  BY Zenon
<1>1. /\ e \in Event /\ s \in Service /\ queue' = queue /\ at[g] \in 1 .. Len(Targets)
      /\ wire' = wire \/ Pushed(g, s, e)
      /\ \A h \in Gateway : h # g => current'[h] = current[h] /\ at'[h] = at[h]
      /\ \/ Finished(g, s, e, "delivered") /\ Pushed(g, s, e)
         \/ Finished(g, s, e, "failed")
         \/ report' = report /\ current' = current /\ at' = at
      /\ UNCHANGED <<stale, eventIDs, latestEpoch, published, ignored>>
  BY <1>0, AttemptIs, Zenon DEF consumer
<1>2. report \subseteq report' /\ e # NoEvent
  BY <1>1, NoEventAssumption, Zenon DEF Finished
<1>3. ASSUME Pushed(g, s, e)
      PROVE  /\ e \in Range(wire'[g][s])
             /\ \A h \in Gateway, t \in Service : Range(wire[h][t]) \subseteq Range(wire'[h][t])
  <2>1. Range(Append(wire[g][s], e)) = Range(wire[g][s]) \cup {e}
    BY <1>1, RangeOfAppend DEF TransportType
  <2> QED BY <1>3, <2>1, ZenonT(40) DEF Pushed, Rewired
<1>4. ASSUME NEW f \in Event, NEW t \in Service, Sent(f, t) PROVE Sent(f, t)'
  BY <1>1, <1>2, <1>3, <1>4, Zenon DEF Sent
<1>5. \A f \in Event, t \in Service : Given(f, t) => Given(f, t)'
  BY <1>2, <1>4 DEF Given, Reported
<1>6. ASSUME NEW result, Finished(g, s, e, result), result = "failed" \/ Pushed(g, s, e)
      PROVE  Given(e, s)'
  <2>1. <<e, s, result>> \in report'
    BY <1>6 DEF Finished
  <2>2. Reported(e, s)'
    BY <2>1, Zenon DEF Reported
  <2>3. Sent(e, s)'
    BY <1>1, <1>3, <1>6, <2>1, ZenonT(40) DEF Sent
  <2> QED BY <2>2, <2>3 DEF Given
<1>7. \A i \in 1 .. at[g] - 1 : Given(e, Targets[i])' /\ Targets[i] \in Service
  <2> SUFFICES ASSUME NEW i \in 1 .. at[g] - 1 PROVE Given(e, Targets[i])' /\ Targets[i] \in Service
    OBVIOUS
  <2>1. i \in 1 .. Len(Targets)
    BY <1>1, TargetsAre
  <2>2. Given(e, Targets[i])
    BY <1>0, <1>2 DEF DeliveryOK
  <2> QED BY <1>1, <1>5, <2>1, <2>2, TargetsAre, Zenon
<1>8. ASSUME Given(e, s)', NEW i \in 1 .. at[g] PROVE Given(e, Targets[i])'
  <2>1. i = at[g] \/ i \in 1 .. at[g] - 1
    BY <1>1, TargetsAre, SMTT(20)
  <2> QED BY <1>0, <1>7, <1>8, <2>1, Zenon
<1>9. ASSUME NEW h \in Gateway, current'[h] # NoEvent, NEW i \in 1 .. at'[h] - 1
      PROVE  Given(current[h], Targets[i])'
  <2>1. CASE h # g \/ (current' = current /\ at' = at)
    <3>1. i \in 1 .. at[h] - 1 /\ current'[h] = current[h] /\ current[h] # NoEvent
      BY <1>1, <1>9, <2>1, SMTT(20)
    <3>2. i \in 1 .. Len(Targets) /\ current[h] \in Event
      BY <3>1, TargetsAre DEF PublisherType
    <3>3. PICK f : f = current[h]
      OBVIOUS
    <3>4. Given(f, Targets[i])
      BY <3>1, <3>3, ZenonT(40) DEF DeliveryOK
    <3>5. Given(f, Targets[i])'
      BY <1>5, <3>2, <3>3, <3>4, TargetsAre, Zenon
    <3>6. f = current'[h]
      BY <3>1, <3>3
    <3> QED BY <3>5, <3>6, SMTT(20)
  <2>2. CASE h = g /\ at'[g] = at[g] + 1 /\ current'[g] = e /\ Given(e, s)'
    <3>1. i \in 1 .. at[g]
      BY <1>1, <1>9, <2>2, BelowNext, Zenon
    <3>2. Given(e, Targets[i])'
      BY <1>8, <2>2, <3>1, ZenonT(40)
    <3> QED BY <2>2, <3>2, ZenonT(40)
  <2> QED BY <1>1, <1>6, <1>9, <2>1, <2>2, ZenonT(40) DEF Finished
<1>10. ASSUME NEW f \in Pending PROVE f \in Pending' \/ \A t \in Service : Given(f, t)'
  <2>1. PICK h \in Gateway : f \in Range(queue[h]) \/ (f = current[h] /\ f # NoEvent)
    BY <1>10, PendingIs
  <2>2. CASE f \in Range(queue'[h]) \/ (f = current'[h] /\ f # NoEvent)
    BY <2>2 DEF Pending
  <2>3. CASE ~(f \in Range(queue'[h]) \/ (f = current'[h] /\ f # NoEvent))
    <3>1. f = e /\ at[g] = Len(Targets) /\ Given(e, s)'
      BY <1>0, <1>1, <1>6, <2>1, <2>3, ZenonT(40) DEF Finished
    <3> QED BY <1>8, <3>1, TargetsAre, Zenon
  <2> QED BY <2>2, <2>3, Zenon
<1> QED BY <1>1, <1>2, <1>4, <1>9, <1>10, DeliveryMoved, Zenon

LEMMA DeliveryPublish ==
    ASSUME DeliveryOK, PublisherType, HistoryType, NEW g \in Gateway, NEW e \in Event, Publish(g, e),
           UNCHANGED <<current, at, attempt, run, wire, stale, eventIDs, latestEpoch>>
    PROVE  DeliveryOK'
<1>1. /\ published' = published \cup {e}
      /\ \A h \in Gateway : h # g => queue'[h] = queue[h]
      /\ \/ /\ queue'[g] = Append(queue[g], e)
            /\ report' = report /\ ignored' = ignored
         \/ /\ queue' = queue
            /\ report' = report \cup {<<e, "queue", "dropped">>} /\ ignored' = ignored
         \/ queue' = queue /\ report' = report /\ ignored' = ignored \cup {e}
  BY PublishIs
<1>2. report \subseteq report' /\ ignored \subseteq ignored' /\ published \subseteq Event
  BY <1>1 DEF HistoryType
<1>3. Range(Append(queue[g], e)) = Range(queue[g]) \cup {e}
  BY RangeOfAppend DEF PublisherType
<1>4. \A h \in Gateway : Range(queue[h]) \subseteq Range(queue'[h])
  BY <1>1, <1>3, Zenon
<1>5. \A f \in Event, s \in Service : Given(f, s) => Given(f, s)'
  BY <1>2, ZenonT(40) DEF Given, Sent, Reported
<1>6. ASSUME NEW h \in Gateway, current'[h] # NoEvent, NEW i \in 1 .. at'[h] - 1
      PROVE  Given(current[h], Targets[i])'
  <2>1. i \in 1 .. Len(Targets) /\ current[h] \in Event
    BY <1>6, TargetsAre DEF PublisherType
  <2>2. PICK f : f = current[h]
    BY Zenon
  <2>3. Given(f, Targets[i])
    BY <1>6, <2>2, ZenonT(40) DEF DeliveryOK
  <2>4. Given(f, Targets[i])'
    BY <1>5, <2>1, <2>2, <2>3, TargetsAre, ZenonT(40)
  <2> QED BY <2>2, <2>4, Zenon
<1>7. \A f : f \in Pending => f \in Pending'
  BY <1>4 DEF Pending
<1>8. e \in Pending' \cup ignored' \/ <<e, "queue", "dropped">> \in report'
  <2>1. CASE queue'[g] = Append(queue[g], e)
    <3>1. e \in Range(queue'[g])
      BY <1>3, <2>1, Zenon
    <3> QED BY <3>1 DEF Pending
  <2> QED BY <1>1, <2>1
<1>9. ASSUME NEW f \in published'
      PROVE  \/ f \in Pending' \union ignored'
             \/ <<f, "queue", "dropped">> \in report'
             \/ \A s \in Service : Given(f, s)'
  <2>1. CASE f = e
    BY <1>8, <2>1
  <2>2. CASE f # e
    <3>1. f \in published /\ f \in Event
      BY <1>1, <1>2, <1>9, <2>2, Zenon
    <3>2. \/ f \in Pending \union ignored
          \/ <<f, "queue", "dropped">> \in report
          \/ \A s \in Service : Given(f, s)
      BY <3>1, Zenon DEF DeliveryOK
    <3> QED BY <1>2, <1>5, <1>7, <3>1, <3>2
  <2> QED BY <2>1, <2>2, Zenon
<1> QED BY <1>6, <1>9, Zenon DEF DeliveryOK

LEMMA DeliveryBreak ==
    ASSUME DeliveryOK, PublisherType, HistoryType, TransportType,
           NEW g \in Gateway, NEW s \in Service, BreakStream(g, s)
    PROVE  DeliveryOK'
<1>1. /\ Rewired(g, s, <<>>) /\ stale'[s] = stale[s] \cup Range(wire[g][s])
      /\ \A t \in Service : t # s => stale'[t] = stale[t]
      /\ UNCHANGED <<eventIDs, latestEpoch, queue, current, at, history, report>>
  BY BreakIs, ZenonT(40) DEF consumer, publisher, history
<1>2. ASSUME NEW e \in Event, NEW t \in Service, Sent(e, t) PROVE Sent(e, t)'
  <2>1. ASSUME NEW h \in Gateway, e \in Range(wire[h][t]) PROVE Sent(e, t)'
    <3>1. CASE h = g /\ t = s
      BY <1>1, <2>1, <3>1, ZenonT(40) DEF Sent
    <3>2. CASE ~(h = g /\ t = s)
      <4>1. wire'[h][t] = wire[h][t]
        BY <1>1, <3>2, Zenon DEF Rewired
      <4> QED BY <2>1, <4>1, Zenon DEF Sent
    <3> QED BY <3>1, <3>2, Zenon
  <2>2. e \in stale[t] => Sent(e, t)'
    BY <1>1, ZenonT(40) DEF Sent
  <2> QED BY <1>1, <1>2, <2>1, <2>2, SentKept, Zenon
<1> QED BY <1>1, <1>2, DeliveryCarried, ZenonT(40)

LEMMA DeliveryReceive ==
    ASSUME DeliveryOK, ConsumerOK, PublisherType, HistoryType, TransportType, ConsumerType,
           NEW g \in Gateway, NEW s \in Service, Receive(g, s)
    PROVE  DeliveryOK'
<1>0. PICK q, f : q = wire[g][s] /\ f = Head(q)
  BY Zenon
<1>1. /\ q \in Seq(Event) /\ q # <<>> /\ f \in Event /\ Rewired(g, s, Tail(q))
      /\ Taken(s, f) \/ Refused(s, f)
      /\ UNCHANGED <<stale, queue, current, at, history, report>>
  BY <1>0, ReceiveIs, ZenonT(40) DEF publisher, history
<1>2. /\ \A t \in Service : eventIDs[t] \subseteq eventIDs'[t]
      /\ \A t \in Service, k \in Client : latestEpoch'[t][k] >= latestEpoch[t][k]
      /\ f \in eventIDs'[s] \/ latestEpoch'[s][f.client] > f.epoch
  BY <1>1, ConsumerGrows, ZenonT(40)
<1>3. Range(q) = {f} \cup Range(Tail(q))
  BY <1>0, <1>1, RangeOfTail, ZenonT(40)
<1>4. ASSUME NEW e \in Event, NEW t \in Service, Sent(e, t) PROVE Sent(e, t)'
  <2>1. ASSUME NEW h \in Gateway, e \in Range(wire[h][t]) PROVE Sent(e, t)'
    <3>1. CASE h = g /\ t = s /\ e = f
      BY <1>2, <3>1, Zenon DEF Sent
    <3>2. CASE ~(h = g /\ t = s /\ e = f)
      <4>1. e \in Range(wire'[h][t])
        BY <1>0, <1>1, <1>3, <2>1, <3>2, ZenonT(40) DEF Rewired
      <4> QED BY <4>1, Zenon DEF Sent
    <3> QED BY <3>1, <3>2, Zenon
  <2>2. e \in stale[t] => Sent(e, t)'
    BY <1>1, Zenon DEF Sent
  <2>3. latestEpoch[t][e.client] > e.epoch => latestEpoch'[t][e.client] > e.epoch
    <3>1. e.client \in Client /\ e.epoch \in Nat
      BY Zenon DEF Event
    <3>2. latestEpoch[t][e.client] \in Nat /\ latestEpoch'[t][e.client] \in Nat
      BY <3>1, ReceiveIs, ZenonT(40) DEF ConsumerType
    <3> QED BY <1>2, <3>1, <3>2
  <2> QED BY <1>1, <1>2, <1>4, <2>1, <2>2, <2>3, SentKept, Zenon
<1> QED BY <1>1, <1>4, DeliveryCarried

LEMMA DeliveryReceiveStale ==
    ASSUME DeliveryOK, ConsumerOK, PublisherType, HistoryType, TransportType, ConsumerType,
           NEW s \in Service, NEW f \in stale[s], ReceiveStale(s, f)
    PROVE  DeliveryOK'
<1>1. /\ f \in Event /\ stale'[s] = stale[s] \ {f} /\ \A t \in Service : t # s => stale'[t] = stale[t]
      /\ Taken(s, f) \/ Refused(s, f)
      /\ UNCHANGED <<wire, queue, current, at, history, report>>
  BY ReceiveStaleIs, ZenonT(40) DEF publisher, history
<1>2. /\ \A t \in Service : eventIDs[t] \subseteq eventIDs'[t]
      /\ \A t \in Service, k \in Client : latestEpoch'[t][k] >= latestEpoch[t][k]
      /\ f \in eventIDs'[s] \/ latestEpoch'[s][f.client] > f.epoch
  BY <1>1, ConsumerGrows, ZenonT(40)
<1>3. ASSUME NEW e \in Event, NEW t \in Service, Sent(e, t) PROVE Sent(e, t)'
  <2>1. \A h \in Gateway : e \in Range(wire[h][t]) => Sent(e, t)'
    BY <1>1, Zenon DEF Sent
  <2>2. ASSUME e \in stale[t] PROVE Sent(e, t)'
    <3>1. CASE t = s /\ e = f
      BY <1>2, <3>1, ZenonT(40) DEF Sent
    <3>2. CASE ~(t = s /\ e = f)
      BY <1>1, <2>2, <3>2, Zenon DEF Sent
    <3> QED BY <3>1, <3>2, Zenon
  <2>3. latestEpoch[t][e.client] > e.epoch => latestEpoch'[t][e.client] > e.epoch
    <3>1. e.client \in Client /\ e.epoch \in Nat
      BY Zenon DEF Event
    <3>2. latestEpoch[t][e.client] \in Nat /\ latestEpoch'[t][e.client] \in Nat
      BY <3>1, ReceiveStaleIs DEF ConsumerType
    <3> QED BY <1>2, <3>1, <3>2
  <2> QED BY <1>1, <1>2, <1>3, <2>1, <2>2, <2>3, SentKept, ZenonT(40)
<1> QED BY <1>1, <1>3, DeliveryCarried, ZenonT(40)

-----------------------------------------------------------------------------
(* The order of the events of an epoch *)

LEMMA EndsDiffer ==
    ASSUME NEW l, NEW d, Ends(l, d) PROVE l # d /\ l # NoEvent /\ d # NoEvent
BY NoEventAssumption, Zenon DEF Ends

\* A step that leaves breaks and stale alone keeps the order if it keeps it for
\* any two events.
LEMMA OrderKept ==
    ASSUME OrderOK, UNCHANGED <<stale, breaks>>,
           \A l, d \in Event : Ends(l, d) /\ Ordered(l, d) => Ordered(l, d)'
    PROVE  OrderOK'
<1>1. \A l, d : Ends(l, d)' <=> Ends(l, d)
  BY DEF Ends
<1> QED BY <1>1 DEF OrderOK

LEMMA OrderSilent ==
    ASSUME OrderOK, UNCHANGED <<queue, current, wire, stale, breaks, eventIDs, latest>>
    PROVE  OrderOK'
<1>1. ASSUME NEW l, NEW d, Ordered(l, d) PROVE Ordered(l, d)'
  BY <1>1, ZenonT(40) DEF Ordered, PublisherOrder, WireOrder, ConsumerOrder
<1> QED BY <1>1, OrderKept

\* The end of an epoch is not published before its beginning.
LEMMA OrderPublish ==
    ASSUME OrderOK, PlacesOK, PublisherType, NEW g \in Gateway, NEW e \in Event,
           \A d : Ends(e, d) => d \notin published,
           \A h \in Gateway : h # g => queue'[h] = queue[h],
           queue'[g] = Append(queue[g], e) \/ queue'[g] = queue[g],
           UNCHANGED <<current, wire, stale, breaks, eventIDs, latest>>
    PROVE  OrderOK'
<1> SUFFICES ASSUME NEW l \in Event, NEW d \in Event, Ends(l, d), Ordered(l, d)
             PROVE  Ordered(l, d)'
  BY OrderKept
<1>1. l # d /\ d # NoEvent
  BY EndsDiffer, Zenon
<1>2. l = e => /\ \A h \in Gateway : d \notin Carried(h)
               /\ \A s \in Service : d \notin eventIDs[s]
  BY Zenon DEF PlacesOK, Home
<1>3. queue[g] \in Seq(Event) /\ Range(Append(queue[g], e)) = Range(queue[g]) \cup {e}
  BY RangeOfAppend, SMTT(20) DEF PublisherType
<1>4. \A h \in Gateway : Range(queue'[h]) \subseteq Range(queue[h]) \cup {e}
  BY <1>3, ZenonT(40)
<1>5. ASSUME NEW h \in Gateway PROVE PublisherOrder(h, l, d)'
  <2>1. InOrder(queue[h], l, d) /\ (current[h] = d => l \notin Range(queue[h]))
    BY ZenonT(40) DEF Ordered, PublisherOrder
  <2>2. l = e => d \notin Range(queue[h]) /\ current[h] # d
    BY <1>1, <1>2, CarriedIs, ZenonT(40)
  <2>3. InOrder(queue'[h], l, d)
    <3>1. CASE queue'[h] = queue[h]
      BY <2>1, <3>1, Zenon
    <3>2. CASE h = g /\ queue'[h] = Append(queue[g], e)
      BY <1>3, <2>1, <2>2, <3>2, OrderOfAppend
    <3> QED BY <3>1, <3>2, Zenon
  <2>4. current'[h] = d => l \notin Range(queue'[h])
    BY <1>4, <2>1, <2>2, Zenon
  <2> QED BY <2>3, <2>4, Zenon DEF PublisherOrder
<1>6. ASSUME NEW h \in Gateway, NEW s \in Service PROVE WireOrder(h, s, l, d)'
  <2>1. l = e => d \notin Range(wire[h][s])
    BY <1>2, CarriedIs, ZenonT(40)
  <2>2. WireOrder(h, s, l, d)
    BY ZenonT(40) DEF Ordered
  <2> QED BY <1>4, <2>1, <2>2, ZenonT(40) DEF WireOrder
<1>7. ASSUME NEW s \in Service PROVE ConsumerOrder(s, l, d)'
  <2>1. ConsumerOrder(s, l, d)
    BY Zenon DEF Ordered
  <2> QED BY <1>2, <1>4, <2>1, ZenonT(40) DEF ConsumerOrder
<1> QED BY <1>5, <1>6, <1>7, Zenon DEF Ordered

LEMMA OrderTake ==
    ASSUME OrderOK, PublisherType, NEW g \in Gateway, Take(g)
    PROVE  OrderOK'
<1>1. /\ queue[g] \in Seq(Event) /\ queue[g] # <<>> /\ queue'[g] = Tail(queue[g])
      /\ current'[g] = Head(queue[g])
      /\ \A h \in Gateway : h # g => queue'[h] = queue[h] /\ current'[h] = current[h]
      /\ UNCHANGED <<wire, stale, breaks, eventIDs, latest>>
  BY TakeIs, ZenonT(40) DEF transport, consumer
<1> SUFFICES ASSUME NEW l \in Event, NEW d \in Event, Ends(l, d), Ordered(l, d)
             PROVE  Ordered(l, d)'
  BY <1>1, OrderKept, Zenon
<1>2. l # d /\ Range(queue[g]) = {Head(queue[g])} \cup Range(Tail(queue[g]))
  BY <1>1, EndsDiffer, RangeOfTail, ZenonT(40)
<1>3. ASSUME NEW h \in Gateway, l \notin Range(queue[h]), l # current[h]
      PROVE  l \notin Range(queue'[h]) /\ l # current'[h]
  BY <1>1, <1>2, <1>3, Zenon
<1>4. ASSUME NEW h \in Gateway PROVE PublisherOrder(h, l, d)'
  <2>1. InOrder(queue[h], l, d) /\ (current[h] = d => l \notin Range(queue[h]))
    BY ZenonT(40) DEF Ordered, PublisherOrder
  <2>2. CASE h = g
    <3>1. InOrder(Tail(queue[g]), l, d) /\ (Head(queue[g]) = d => l \notin Range(Tail(queue[g])))
      BY <1>1, <1>2, <2>1, <2>2, OrderOfTail, ZenonT(40)
    <3> QED BY <1>1, <2>2, <3>1, Zenon DEF PublisherOrder
  <2>3. CASE h # g
    BY <1>1, <2>1, <2>3, ZenonT(40) DEF PublisherOrder
  <2> QED BY <2>2, <2>3, Zenon
<1>5. ASSUME NEW h \in Gateway, NEW s \in Service PROVE WireOrder(h, s, l, d)'
  <2>1. WireOrder(h, s, l, d)
    BY Zenon DEF Ordered
  <2> QED BY <1>1, <1>3, <2>1, Zenon DEF WireOrder
<1>6. ASSUME NEW s \in Service PROVE ConsumerOrder(s, l, d)'
  <2>1. ConsumerOrder(s, l, d)
    BY DEF Ordered
  <2> QED BY <1>1, <1>3, <2>1, Zenon DEF ConsumerOrder
<1> QED BY <1>4, <1>5, <1>6, Zenon DEF Ordered

LEMMA OrderAttempt ==
    ASSUME OrderOK, PublisherType, TransportType, NEW g \in Gateway, Deliver(g) \/ DeliverFails(g)
    PROVE  OrderOK'
<1>0. PICK e, s : e = current[g] /\ s = Targets[at[g]]
  BY Zenon
<1>1. /\ e \in Event /\ s \in Service /\ queue' = queue
      /\ wire' = wire \/ Pushed(g, s, e)
      /\ current'[g] = NoEvent \/ current'[g] = e
      /\ \A h \in Gateway : h # g => current'[h] = current[h]
      /\ UNCHANGED <<stale, breaks, eventIDs, latest>>
  BY <1>0, AttemptIs, ZenonT(40) DEF consumer, Finished
<1> SUFFICES ASSUME NEW l \in Event, NEW d \in Event, Ends(l, d), Ordered(l, d)
             PROVE  Ordered(l, d)'
  BY <1>1, OrderKept, Zenon
<1>2. l # d /\ l # NoEvent /\ d # NoEvent
  BY EndsDiffer, ZenonT(40)
<1>3. wire[g][s] \in Seq(Event) /\ Range(Append(wire[g][s], e)) = Range(wire[g][s]) \cup {e}
  <2>1. e \in Event /\ s \in Service
    BY <1>1, Zenon
  <2>2. \A f \in Event : Range(Append(wire[g][s], f)) = Range(wire[g][s]) \cup {f}
    BY <2>1, WireIs, Zenon
  <2>3. wire[g][s] \in Seq(Event)
    BY <2>1, WireIs, Zenon
  <2> QED BY <2>1, <2>2, <2>3, Zenon
<1>4. ASSUME NEW h \in Gateway, NEW t \in Service
      PROVE  \/ wire'[h][t] = wire[h][t]
             \/ h = g /\ t = s /\ wire'[h][t] = Append(wire[g][s], e)
  BY <1>1, Zenon DEF Pushed, Rewired
<1>5. \A h \in Gateway : current'[h] = current[h] \/ (h = g /\ current'[h] = NoEvent)
  BY <1>0, <1>1, ZenonT(40)
<1>6. ASSUME NEW h \in Gateway PROVE PublisherOrder(h, l, d)'
  <2>1. PublisherOrder(h, l, d)
    BY Zenon DEF Ordered
  <2> QED BY <1>1, <1>2, <1>5, <2>1, Zenon DEF PublisherOrder
<1>7. ASSUME NEW h \in Gateway, NEW t \in Service PROVE WireOrder(h, t, l, d)'
  <2>1. WireOrder(h, t, l, d) /\ PublisherOrder(h, l, d)
    BY Zenon DEF Ordered
  <2>2. l # current[h] => l # current'[h]
    BY <1>2, <1>5, Zenon
  <2>3. CASE wire'[h][t] = wire[h][t]
    BY <1>1, <2>1, <2>2, <2>3, ZenonT(40) DEF WireOrder
  <2>4. CASE h = g /\ t = s /\ wire'[h][t] = Append(wire[g][s], e)
    <3>1. e = l => d \notin Range(wire[g][s])
      BY <1>0, <2>1, <2>4, ZenonT(40) DEF WireOrder
    <3>2. InOrder(wire[g][s], l, d)
      BY <2>1, <2>4, ZenonT(40) DEF WireOrder
    <3>3. InOrder(wire'[h][t], l, d)
      BY <1>1, <1>3, <2>4, <3>1, <3>2, OrderOfAppend, ZenonT(40)
    <3>4. ASSUME d \in Range(wire'[h][t]) PROVE l \notin Range(queue'[h]) /\ l # current'[h]
      <4>1. CASE d \in Range(wire[g][s])
        BY <1>1, <2>1, <2>2, <2>4, <4>1, ZenonT(40) DEF WireOrder
      <4>2. CASE d = e
        BY <1>0, <1>1, <1>2, <2>1, <2>2, <2>4, <4>2, ZenonT(40) DEF PublisherOrder
      <4> QED BY <1>3, <2>4, <3>4, <4>1, <4>2, ZenonT(40)
    <3> QED BY <3>3, <3>4, ZenonT(40) DEF WireOrder
  <2> QED BY <1>4, <2>3, <2>4, Zenon
<1>8. ASSUME NEW t \in Service PROVE ConsumerOrder(t, l, d)'
  <2>1. ConsumerOrder(t, l, d)
    BY Zenon DEF Ordered
  <2>2. ASSUME d \in eventIDs[t], NEW h \in Gateway
        PROVE  l \notin Range(queue'[h]) /\ l # current'[h] /\ l \notin Range(wire'[h][t])
    <3>1. l \notin Range(queue[h]) /\ l # current[h] /\ l \notin Range(wire[h][t])
      BY <2>1, <2>2, ZenonT(40) DEF ConsumerOrder
    <3>2. l \notin Range(wire'[h][t])
      BY <1>0, <1>3, <1>4, <3>1, Zenon
    <3> QED BY <1>1, <1>2, <1>5, <3>1, <3>2, ZenonT(40)
  <2> QED BY <1>1, <2>1, <2>2, Zenon DEF ConsumerOrder
<1> QED BY <1>6, <1>7, <1>8 DEF Ordered

LEMMA OrderReceive ==
    ASSUME OrderOK, PublishedOK, PlacesOK, TransportType, ConsumerType,
           NEW g \in Gateway, NEW s \in Service, Receive(g, s)
    PROVE  OrderOK'
<1>0. PICK q, f : q = wire[g][s] /\ f = Head(q)
  BY Zenon
<1>1. /\ q \in Seq(Event) /\ q # <<>> /\ f \in Event /\ Rewired(g, s, Tail(q))
      /\ Taken(s, f) \/ Refused(s, f)
      /\ UNCHANGED <<stale, breaks, queue, current>>
  BY <1>0, ReceiveIs, Zenon DEF publisher
<1> SUFFICES ASSUME NEW l \in Event, NEW d \in Event, Ends(l, d), Ordered(l, d)
             PROVE  Ordered(l, d)'
  BY <1>1, OrderKept
<1>2. l # d /\ l # NoEvent /\ d # NoEvent /\ l.client = d.client /\ l.epoch = d.epoch /\ l.client \in Client
  BY EndsDiffer, Zenon DEF Ends, Event
<1>3. Range(q) = {f} \cup Range(Tail(q))
  BY <1>0, <1>1, RangeOfTail, ZenonT(40)
<1>4. \A h \in Gateway, t \in Service :
        \/ wire'[h][t] = wire[h][t]
        \/ h = g /\ t = s /\ wire'[h][t] = Tail(q)
  BY <1>1, Zenon DEF Rewired
<1>5. \A h \in Gateway, t \in Service : Range(wire'[h][t]) \subseteq Range(wire[h][t])
  BY <1>0, <1>3, <1>4, Zenon
<1>6. ASSUME NEW h \in Gateway PROVE PublisherOrder(h, l, d)'
  BY <1>1, ZenonT(40) DEF Ordered, PublisherOrder
<1>7. InOrder(q, l, d)
  BY <1>0, ZenonT(40) DEF Ordered, WireOrder
<1>8. InOrder(Tail(q), l, d) /\ (f = d => l \notin Range(Tail(q)))
  BY <1>0, <1>1, <1>2, <1>7, OrderOfTail, ZenonT(40)
<1>9. ASSUME NEW h \in Gateway, NEW t \in Service PROVE WireOrder(h, t, l, d)'
  <2>1. WireOrder(h, t, l, d)
    BY Zenon DEF Ordered
  <2>2. InOrder(wire'[h][t], l, d)
    BY <1>4, <1>8, <2>1, Zenon DEF WireOrder
  <2> QED BY <1>1, <1>5, <2>1, <2>2, Zenon DEF WireOrder
<1>10. ASSUME f = d, NEW h \in Gateway, l \in Carried(h) PROVE h = g
  <2>1. d \in Carried(g)
    BY <1>0, <1>3, <1>10, CarriedIs, ZenonT(40)
  <2>2. Home(g, d) /\ Home(h, l)
    BY <1>10, <2>1, ZenonT(40) DEF PlacesOK
  <2>3. PICK c \in Conn : Subject(c, d)
    BY <2>2, ZenonT(40) DEF PublishedOK, Home
  <2>4. Subject(c, l)
    BY <1>2, <2>3, Zenon DEF Subject
  <2> QED BY <2>2, <2>3, <2>4, SMTT(20) DEF Home
<1>11. ASSUME NEW t \in Service PROVE ConsumerOrder(t, l, d)'
  <2>1. ConsumerOrder(t, l, d)
    BY Zenon DEF Ordered
  <2>2. CASE t # s \/ Refused(s, f)
    <3>1. eventIDs'[t] = eventIDs[t] /\ latest'[t][l.client] = latest[t][l.client]
      BY <1>1, <1>2, <2>2, ZenonT(40) DEF Refused, Taken
    <3> QED BY <1>1, <1>5, <2>1, <3>1, ZenonT(40) DEF ConsumerOrder
  <2>3. CASE t = s /\ Taken(s, f) /\ d # f
    <3> SUFFICES ASSUME d \in eventIDs'[s] PROVE ConsumerOrder(s, l, d)'
      BY <2>3, ZenonT(40) DEF ConsumerOrder
    <3>1. d \in eventIDs[s]
      BY <2>3, ZenonT(40) DEF Taken
    <3>2. /\ l # latest[s][l.client]
          /\ \A h \in Gateway :
               l \notin Range(queue[h]) /\ l # current[h] /\ l \notin Range(wire[h][s])
      BY <2>1, <2>3, <3>1, ZenonT(40) DEF ConsumerOrder
    <3>3. l # f
      BY <1>0, <1>3, <3>2, ZenonT(40)
    <3>4. l # latest'[s][l.client]
      BY <1>2, <2>3, <3>2, <3>3, ZenonT(40) DEF Taken
    <3> QED BY <1>1, <1>5, <3>2, <3>4, ZenonT(40) DEF ConsumerOrder
  <2>4. CASE t = s /\ Taken(s, f) /\ d = f
    <3>1. l # latest'[s][l.client]
      BY <1>2, <2>4, ZenonT(40) DEF Taken
    <3>2. ASSUME NEW h \in Gateway
          PROVE  l \notin Range(queue[h]) /\ l # current[h] /\ l \notin Range(wire'[h][s])
      <4>1. CASE h = g
        <5>1. l \notin Range(queue[g]) /\ l # current[g]
          BY <1>0, <1>3, <2>4, ZenonT(40) DEF Ordered, WireOrder
        <5>2. wire'[g][s] = Tail(q)
          BY <1>1, ZenonT(40) DEF Rewired
        <5> QED BY <1>8, <2>4, <4>1, <5>1, <5>2, ZenonT(40)
      <4>2. CASE h # g
        <5>1. l \notin Carried(h)
          BY <1>10, <2>4, <4>2
        <5> QED BY <1>2, <1>5, <5>1, CarriedIs, Zenon
      <4> QED BY <4>1, <4>2, ZenonT(40)
    <3> QED BY <1>1, <2>4, <3>1, <3>2, ZenonT(40) DEF ConsumerOrder
  <2> QED BY <1>1, <2>2, <2>3, <2>4
<1> QED BY <1>6, <1>9, <1>11 DEF Ordered

-----------------------------------------------------------------------------
(* The theorems *)

LEMMA LifecycleInit == Init => LifecycleInv
<1> SUFFICES ASSUME Init PROVE LifecycleInv
  BY Zenon
<1>1. \A g \in Gateway : queue[g] = <<>> /\ current[g] = NoEvent /\ \A s \in Service : wire[g][s] = <<>>
  BY DEF Init
<1>2. \A g \in Gateway : /\ Carried(g) = {} /\ Range(queue[g]) = {}
                         /\ \A s \in Service : Range(wire[g][s]) = {}
  BY <1>1, RangeEmpty DEF Carried
<1>3. TypeOK
  <2>1. SessionType
    BY Zenon DEF Init, SessionType
  <2>2. PublisherType
    <3>1. 1 \in 1 .. Len(Targets) /\ 1 \in 1 .. MaxAttempts /\ <<>> \in Seq(Event)
      BY TargetsAre, CapacityAssumption
    <3>2. \A g \in Gateway : Len(queue[g]) <= QueueCap
      <4>1. Len(<<>>) = 0 /\ 0 <= QueueCap
        BY CapacityAssumption, SMTT(20)
      <4> QED BY <1>1, <4>1
    <3> QED BY <3>1, <3>2 DEF Init, PublisherType
  <2>3. TransportType
    <3>1. faults \in 0 .. MaxFaults /\ breaks \in 0 .. faults
      BY CapacityAssumption DEF Init
    <3>2. <<>> \in Seq(Event)
      OBVIOUS
    <3>3. wire \in [Gateway -> [Service -> Seq(Event)]]
      BY <3>2, Zenon DEF Init
    <3> QED BY <3>1, <3>3, Zenon DEF Init, TransportType
  <2>4. ConsumerType /\ HistoryType
    BY Zenon DEF Init, ConsumerType, HistoryType
  <2> QED BY <2>1, <2>2, <2>3, <2>4, TypeParts, Zenon
<1>4. SessionsOK /\ PublishedOK
  BY DEF Init, SessionsOK, PublishedOK, Bound
<1>5. PlacesOK /\ ConsumerOK
  BY <1>2, Zenon DEF Init, PlacesOK, ConsumerOK
<1>6. DeliveryOK
  BY <1>1, Zenon DEF Init, DeliveryOK
<1>7. OrderOK
  <2>1. \A s \in Service : stale[s] = {} /\ eventIDs[s] = {}
    BY DEF Init
  <2>2. ASSUME NEW l \in Event, NEW d \in Event, Ends(l, d) PROVE Ordered(l, d)
    <3>1. d # NoEvent
      BY <2>2, EndsDiffer, Zenon
    <3>2. \A g \in Gateway : PublisherOrder(g, l, d)
      BY <1>1, <3>1, OrderOfEmpty, Zenon DEF PublisherOrder
    <3>3. \A g \in Gateway, s \in Service : WireOrder(g, s, l, d)
      BY <1>1, <1>2, OrderOfEmpty, ZenonT(40) DEF WireOrder
    <3>4. \A s \in Service : ConsumerOrder(s, l, d)
      BY <2>1, Zenon DEF ConsumerOrder
    <3> QED BY <3>2, <3>3, <3>4 DEF Ordered
  <2> QED BY <2>1, <2>2, Zenon DEF OrderOK
<1> QED BY <1>3, <1>4, <1>5, <1>6, <1>7 DEF LifecycleInv

\* The sessions and what they have published stay as they are.
LEMMA SessionsStay ==
    ASSUME LifecycleInv, UNCHANGED <<sessions, published>>
    PROVE  /\ SessionType' /\ SessionsOK' /\ PublishedOK'
           /\ \A c \in Conn, e \in published : Subject(c, e)' => Subject(c, e)
<1>1. SessionType /\ SessionsOK /\ PublishedOK
  BY TypeParts, Zenon DEF LifecycleInv
<1>2. record' = record /\ pc' = pc /\ epoch' = epoch /\ published' = published
  BY Zenon DEF sessions
<1>3. /\ \A c : Bound(c)' <=> Bound(c)
      /\ \A c, e : Subject(c, e)' <=> Subject(c, e)
      /\ \A c : EventOf(c, "disconnected")' = EventOf(c, "disconnected")
  BY <1>2, Zenon DEF Bound, Subject, EventOf
<1>4. SessionType'
  BY <1>1, SessionTypeKept, Zenon
<1>5. SessionsOK'
  BY <1>1, <1>2, <1>3, ZenonT(40) DEF SessionsOK
<1>6. PublishedOK'
  BY <1>1, <1>2, <1>3, ZenonT(40) DEF PublishedOK
<1> QED BY <1>3, <1>4, <1>5, <1>6, Zenon

\* Nothing but the sessions and the flags of the publishers changes.
LEMMA Still ==
    ASSUME LifecycleInv, UNCHANGED <<queue, current, at, transport, consumer, history>>,
           \A c \in Conn, e \in published : Subject(c, e)' => Subject(c, e)
    PROVE  PlacesOK' /\ ConsumerOK' /\ DeliveryOK' /\ OrderOK'
<1>1. /\ PlacesOK /\ ConsumerOK /\ DeliveryOK /\ OrderOK
      /\ PublisherType /\ HistoryType
  BY TypeParts DEF LifecycleInv
<1>2. UNCHANGED <<queue, current, at, wire, stale, breaks, eventIDs, latestEpoch, latest, report,
                  published, ignored>>
  BY DEF transport, consumer, history
<1>3. \A g \in Gateway : Carried(g)' = Carried(g)
  BY <1>2, Zenon DEF Carried
<1>4. PlacesOK'
  BY <1>1, <1>2, <1>3, PlacesMoved, ZenonT(40)
<1>5. ConsumerOK'
  BY <1>1, <1>2, Zenon DEF ConsumerOK
<1>6. DeliveryOK'
  <2>1. \A e \in Event, s \in Service : Sent(e, s) => Sent(e, s)'
    BY <1>2, Zenon DEF Sent
  <2> QED BY <1>1, <1>2, <2>1, DeliveryCarried, Zenon
<1>7. OrderOK'
  BY <1>1, <1>2, OrderSilent, Zenon
<1> QED BY <1>4, <1>5, <1>6, <1>7

LEMMA FlagStep ==
    ASSUME LifecycleInv, NEW g \in Gateway, Close(g) \/ RunEnds(g) PROVE LifecycleInv'
<1>1. /\ UNCHANGED <<sessions, queue, current, at, attempt, transport, consumer, history>>
      /\ run' = [run EXCEPT ![g] = "cancelled"] \/ run' = [run EXCEPT ![g] = "done"]
  BY DEF Close, RunEnds
<1>2. UNCHANGED <<sessions, published>>
  BY <1>1, Zenon DEF history
<1>3. TypeOK
  BY Zenon DEF LifecycleInv
<1>4. TypeOK'
  <2>1. PublisherType'
    BY <1>1, <1>3, TypeParts, Zenon DEF PublisherType
  <2>2. SessionType /\ TransportType /\ ConsumerType /\ HistoryType
    BY <1>3, TypeParts, Zenon
  <2>3. SessionType' /\ TransportType' /\ ConsumerType'
    BY <1>1, <2>2, SessionTypeKept, TransportTypeKept, ConsumerTypeKept, Zenon
  <2>4. HistoryType'
    BY <1>1, <2>2, HistoryTypeKept, Zenon DEF history
  <2> QED BY <2>1, <2>3, <2>4, TypeJoined, Zenon
<1>5. /\ SessionsOK' /\ PublishedOK'
      /\ \A c \in Conn, e \in published : Subject(c, e)' => Subject(c, e)
  BY <1>2, SessionsStay, Zenon
<1> QED BY <1>1, <1>4, <1>5, Still, Zenon DEF LifecycleInv

LEMMA LoginStep ==
    ASSUME LifecycleInv, NEW c \in Conn, Login(c) PROVE LifecycleInv'
<1>1. SessionType /\ PublisherType /\ TransportType /\ ConsumerType /\ HistoryType
  BY TypeParts DEF LifecycleInv
<1>2. SessionsOK /\ PublishedOK
  BY Zenon DEF LifecycleInv
<1>3. /\ SessionType' /\ UNCHANGED <<publisher, transport, consumer, history>>
      /\ \A d \in Conn : d # c => pc'[d] = pc[d] /\ epoch'[d] = epoch[d]
  BY <1>1, LoginIs, ZenonT(40)
<1>4. TypeOK'
  BY <1>1, <1>3, TypeJoined, PublisherTypeKept, TransportTypeKept, ConsumerTypeKept,
     HistoryTypeKept, Zenon
     DEF history
<1>5. SessionsOK' /\ PublishedOK' /\ \A e \in published : ~Subject(c, e)'
  BY <1>1, <1>2, LoginSessions, Zenon
<1>6. \A d \in Conn, e \in published : Subject(d, e)' => Subject(d, e)
  BY <1>3, <1>5, ZenonT(40) DEF Subject, Bound
<1>7. UNCHANGED <<queue, current, at>>
  BY <1>3, Zenon DEF publisher
<1> QED BY <1>3, <1>4, <1>5, <1>6, <1>7, Still, Zenon DEF LifecycleInv

LEMMA DisconnectStep ==
    ASSUME LifecycleInv, NEW c \in Conn, DisconnectGet(c) \/ DisconnectSwap(c) PROVE LifecycleInv'
<1>1. SessionType /\ PublisherType /\ TransportType /\ ConsumerType /\ HistoryType
  BY TypeParts DEF LifecycleInv
<1>2. SessionsOK /\ PublishedOK /\ Owner[c] \in Client
  BY WiringAssumption DEF LifecycleInv
<1>3. UNCHANGED <<epoch, publisher, transport, consumer, history, published, queue, current, at>>
  BY Zenon DEF DisconnectGet, DisconnectSwap, publisher, history
<1>4. ASSUME NEW t \in {"detach", "notice", "gone"}, Goto(c, t), Bound(c), pc[c] # "login", pc[c] # "gone",
             record' \in [Client -> [epoch : Nat, conn : Conn \union {NoConn}]],
             \/ /\ record' = record
                /\ \/ pc[c] \in {"notice", "gone"} <=> t \in {"notice", "gone"}
                   \/ epoch[c] # record[Owner[c]].epoch
             \/ /\ record' = [record EXCEPT ![Owner[c]].conn = NoConn]
                /\ t = "notice" /\ epoch[c] = record[Owner[c]].epoch,
             t = "gone" => epoch[c] # record[Owner[c]].epoch
      PROVE  LifecycleInv'
  <2>1. /\ pc' \in [Conn -> {"open", "login", "bound", "detach", "notice", "gone"}]
        /\ Goes(c, t)
    BY <1>1, <1>3, <1>4, GotoIs DEF Goes
  <2>2. SessionType'
    BY <1>1, <1>3, <1>4, <2>1, Zenon DEF SessionType
  <2>3. TypeOK'
    BY <1>1, <1>3, <2>2, TypeJoined, PublisherTypeKept, TransportTypeKept, ConsumerTypeKept,
       HistoryTypeKept DEF history
  <2>4. SessionsOK' /\ \A k \in Client : record'[k].epoch = record[k].epoch
    BY <1>1, <1>2, <1>4, <2>1, HandlerSessions, Zenon
  <2>5. PublishedOK'
    BY <1>2, <1>3, <1>4, <2>1, <2>4, HandlerPublished
  <2>6. \A d \in Conn, e \in published : Subject(d, e)' => Subject(d, e)
    BY <2>1, SubjectKept
  <2> QED BY <1>3, <2>3, <2>4, <2>5, <2>6, Still, Zenon DEF LifecycleInv
<1>5. CASE DisconnectGet(c)
  <2>1. pc[c] = "bound" /\ record' = record /\ Bound(c)
    BY <1>5, Zenon DEF DisconnectGet, Bound
  <2>2. Mine(c) <=> epoch[c] = record[Owner[c]].epoch
    BY <1>1, <1>2, <2>1, MineIs
  <2>3. record' \in [Client -> [epoch : Nat, conn : Conn \union {NoConn}]]
    BY <1>1, <2>1 DEF SessionType
  <2>4. CASE Mine(c) /\ Goto(c, "detach")
    BY <1>4, <2>1, <2>3, <2>4
  <2>5. CASE ~Mine(c) /\ Goto(c, "gone")
    BY <1>4, <2>1, <2>2, <2>3, <2>5
  <2> QED BY <1>5, <2>4, <2>5 DEF DisconnectGet
<1>6. CASE DisconnectSwap(c)
  <2>1. pc[c] = "detach" /\ Bound(c) /\ Goto(c, "notice")
    BY <1>6, Zenon DEF DisconnectSwap, Bound
  <2>2. Mine(c) <=> epoch[c] = record[Owner[c]].epoch
    BY <1>1, <1>2, <2>1, MineIs
  <2>3. CASE Mine(c) /\ record' = [record EXCEPT ![Owner[c]].conn = NoConn]
    <3>1. record' \in [Client -> [epoch : Nat, conn : Conn \union {NoConn}]]
      BY <1>1, <1>2, <2>3 DEF SessionType
    <3> QED BY <1>4, <2>1, <2>2, <2>3, <3>1
  <2>4. CASE ~Mine(c) /\ record' = record
    <3>1. record' \in [Client -> [epoch : Nat, conn : Conn \union {NoConn}]]
      BY <1>1, <2>4, Zenon DEF SessionType
    <3> QED BY <1>4, <2>1, <2>2, <2>4, <3>1
  <2> QED BY <1>6, <2>3, <2>4 DEF DisconnectSwap
<1> QED BY <1>5, <1>6

LEMMA EmitStep ==
    ASSUME LifecycleInv, NEW c \in Conn, EmitLogin(c) \/ EmitDisconnected(c) PROVE LifecycleInv'
<1>1. SessionType /\ PublisherType /\ TransportType /\ ConsumerType /\ HistoryType
  BY TypeParts DEF LifecycleInv
<1>2. /\ SessionsOK /\ PublishedOK /\ PlacesOK /\ ConsumerOK /\ DeliveryOK /\ OrderOK
      /\ Host[c] \in Gateway
  BY WiringAssumption, Zenon DEF LifecycleInv
<1>3. UNCHANGED <<record, epoch, current, at, attempt, run, transport, consumer, wire, stale, breaks,
                  eventIDs, latestEpoch, latest>>
  BY Zenon DEF EmitLogin, EmitDisconnected, transport, consumer
<1>4. PICK type \in {"connected", "resumed", "disconnected"} :
        /\ Publish(Host[c], EventOf(c, type))
        /\ \/ pc[c] = "login" /\ type # "disconnected" /\ Goto(c, "bound")
           \/ pc[c] = "notice" /\ type = "disconnected" /\ Goto(c, "gone")
  BY Zenon DEF EmitLogin, EmitDisconnected
<1>5. PICK e : e = EventOf(c, type)
  BY Zenon
<1>6. /\ e \in Event /\ e.client = Owner[c] /\ e.epoch = epoch[c] /\ e.type = type
      /\ Publish(Host[c], e)
  BY <1>1, <1>4, <1>5, EventOfType, Zenon
<1>7. PICK t \in {"bound", "gone"} :
        /\ Goto(c, t) /\ pc[c] # "gone" /\ Bound(c)
        /\ pc[c] \in {"notice", "gone"} <=> t \in {"notice", "gone"}
        /\ pc[c] = "login" <=> type # "disconnected"
        /\ t = "gone" <=> type = "disconnected"
  BY <1>4, Zenon DEF Bound
<1>8. Goes(c, t) /\ Subject(c, e) /\ pc' \in [Conn -> {"open", "login", "bound", "detach", "notice", "gone"}]
  BY <1>1, <1>3, <1>6, <1>7, GotoIs, ZenonT(40) DEF Goes, Subject
<1>9. /\ PublisherType' /\ HistoryType' /\ published' = published \cup {e}
      /\ \A h \in Gateway : h # Host[c] => queue'[h] = queue[h]
      /\ queue'[Host[c]] = Append(queue[Host[c]], e) \/ queue'[Host[c]] = queue[Host[c]]
  BY <1>1, <1>2, <1>3, <1>6, PublishIs, ZenonT(40)
<1>10. TypeOK'
  <2>1. SessionType'
    BY <1>1, <1>3, <1>8 DEF SessionType
  <2> QED BY <1>1, <1>3, <1>9, <2>1, TypeJoined, TransportTypeKept, ConsumerTypeKept, Zenon
<1>11. SessionsOK' /\ \A k \in Client : record'[k].epoch = record[k].epoch
  BY <1>1, <1>2, <1>3, <1>7, <1>8, HandlerSessions, ZenonT(40)
<1>12. PublishedOK'
  <2>1. published \subseteq published' /\ e \in published'
    BY <1>9, Zenon
  <2>2. \A f \in published' \ published : Subject(c, f) /\ (f.type = "disconnected" => t = "gone")
    BY <1>6, <1>7, <1>8, <1>9, ZenonT(40)
  <2>3. pc[c] = "login" => \E f \in published' : Subject(c, f) /\ f.type # "disconnected"
    BY <1>6, <1>7, <1>8, <2>1, ZenonT(40)
  <2>4. t = "gone" /\ epoch[c] = record[Owner[c]].epoch => EventOf(c, "disconnected") \in published'
    BY <1>5, <1>7, <2>1, ZenonT(40)
  <2> QED BY <1>2, <1>7, <1>8, <1>11, <2>1, <2>2, <2>3, <2>4, HandlerPublished, Zenon
<1>13. PlacesOK'
  BY <1>1, <1>2, <1>3, <1>6, <1>8, <1>9, SubjectKept, PlacesPublished, ZenonT(40)
<1>14. ConsumerOK'
  BY <1>2, <1>3, ZenonT(40) DEF ConsumerOK
<1>15. DeliveryOK'
  BY <1>1, <1>2, <1>3, <1>6, DeliveryPublish, Zenon
<1>16. OrderOK'
  <2>1. ASSUME NEW d, Ends(e, d), d \in published PROVE FALSE
    <3>1. PICK b \in Conn : Subject(b, d) /\ pc[b] = "gone"
      BY <1>2, <2>1, ZenonT(40) DEF PublishedOK, Ends
    <3>2. b = c
      BY <1>2, <1>8, <2>1, <3>1, ZenonT(40) DEF SessionsOK, Subject, Ends
    <3> QED BY <1>7, <3>1, <3>2, Zenon
  <2> QED BY <1>1, <1>2, <1>3, <1>6, <1>9, <2>1, OrderPublish, Zenon
<1> QED BY <1>10, <1>11, <1>12, <1>13, <1>14, <1>15, <1>16 DEF LifecycleInv

LEMMA PublisherMoves ==
    ASSUME LifecycleInv, NEW g \in Gateway, Take(g) \/ Deliver(g) \/ DeliverFails(g)
    PROVE  LifecycleInv'
<1>1. /\ SessionType /\ PublisherType /\ TransportType /\ ConsumerType /\ HistoryType
      /\ PlacesOK /\ ConsumerOK /\ DeliveryOK /\ OrderOK
  BY TypeParts DEF LifecycleInv
<1>2. UNCHANGED <<sessions, consumer, published, ignored, stale, eventIDs, latestEpoch, latest>>
  BY Zenon DEF Take, Deliver, DeliverFails, history, transport, consumer
<1>3. SessionType' /\ SessionsOK' /\ PublishedOK'
      /\ \A c \in Conn, e \in published : Subject(c, e)' => Subject(c, e)
  BY <1>2, SessionsStay
<1>4. PublisherType' /\ TransportType'
  <2>1. CASE Take(g)
    BY <1>1, <2>1, TakeIs, TransportTypeKept, ZenonT(40)
  <2>2. CASE Deliver(g) \/ DeliverFails(g)
    BY <1>1, <2>2, AttemptIs, Zenon
  <2> QED BY <2>1, <2>2, Zenon
<1>5. TypeOK'
  BY <1>1, <1>2, <1>3, <1>4, TypeJoined, ConsumerTypeKept, HistoryTypeKept
<1>6. \A h \in Gateway : Carried(h)' \subseteq Carried(h)
  BY <1>1, CarriedTake, CarriedAttempt, Zenon
<1>7. PlacesOK'
  BY <1>1, <1>2, <1>3, <1>6, PlacesMoved, ZenonT(40)
<1>8. ConsumerOK'
  BY <1>1, <1>2, Zenon DEF ConsumerOK
<1>9. DeliveryOK' /\ OrderOK'
  BY <1>1, DeliveryTake, DeliveryAttempt, OrderTake, OrderAttempt
<1> QED BY <1>3, <1>5, <1>7, <1>8, <1>9 DEF LifecycleInv

LEMMA StreamStep ==
    ASSUME LifecycleInv, NEW g \in Gateway, NEW s \in Service, BreakStream(g, s) \/ Receive(g, s)
    PROVE  LifecycleInv'
<1>1. /\ SessionType /\ PublisherType /\ TransportType /\ ConsumerType /\ HistoryType
      /\ PublishedOK /\ PlacesOK /\ ConsumerOK /\ DeliveryOK /\ OrderOK
  BY TypeParts DEF LifecycleInv
<1>2. UNCHANGED <<sessions, publisher, history, published, ignored>>
  BY DEF BreakStream, Receive, history
<1>3. SessionType' /\ SessionsOK' /\ PublishedOK'
      /\ \A c \in Conn, e \in published : Subject(c, e)' => Subject(c, e)
  BY <1>2, SessionsStay
<1>4. PublisherType' /\ HistoryType'
  BY <1>1, <1>2, PublisherTypeKept, HistoryTypeKept
<1>5. wire[g][s] \in Seq(Event)
  BY <1>1 DEF TransportType
<1>6. CASE BreakStream(g, s)
  <2>1. /\ TransportType' /\ Rewired(g, s, <<>>) /\ stale'[s] = stale[s] \cup Range(wire[g][s])
        /\ \A t \in Service : t # s => stale'[t] = stale[t]
        /\ breaks' # 0 /\ UNCHANGED <<consumer, eventIDs, latestEpoch, latest>>
    BY <1>1, <1>6, BreakIs, ZenonT(40) DEF consumer
  <2>2. TypeOK'
    BY <1>1, <1>3, <1>4, <2>1, TypeJoined, ConsumerTypeKept, ZenonT(40)
  <2>3. \A h \in Gateway : Carried(h)' \subseteq Carried(h)
    BY <1>2, <2>1, RangeEmpty, CarriedRewired, ZenonT(40)
  <2>4. \A e \in Range(wire[g][s]) : e \in Carried(g)
    BY CarriedIs, Zenon
  <2>5. PlacesOK'
    BY <1>1, <1>2, <1>3, <2>1, <2>3, <2>4, PlacesMoved, ZenonT(40)
  <2>6. ConsumerOK'
    BY <1>1, <2>1, ConsumerKept, Zenon
  <2>7. OrderOK'
    BY <2>1, Zenon DEF OrderOK
  <2> QED BY <1>1, <1>3, <1>6, <2>2, <2>5, <2>6, <2>7, DeliveryBreak, Zenon DEF LifecycleInv
<1>7. CASE Receive(g, s)
  <2>0. PICK f : f = Head(wire[g][s])
    OBVIOUS
  <2>1. /\ TransportType' /\ ConsumerType' /\ f \in Event /\ Rewired(g, s, Tail(wire[g][s]))
        /\ Taken(s, f) \/ Refused(s, f)
        /\ wire[g][s] # <<>> /\ stale' = stale
    BY <1>1, <1>7, <2>0, ReceiveIs, ZenonT(40)
  <2>2. TypeOK'
    BY <1>3, <1>4, <2>1, TypeJoined, ZenonT(40)
  <2>3. Range(wire[g][s]) = {f} \cup Range(Tail(wire[g][s]))
    BY <1>5, <2>0, <2>1, RangeOfTail, ZenonT(40)
  <2>4. \A h \in Gateway : Carried(h)' \subseteq Carried(h)
    BY <1>2, <2>1, <2>3, CarriedRewired, ZenonT(40)
  <2>5. f \in Carried(g)
    BY <2>3, CarriedIs, ZenonT(40)
  <2>6. /\ ConsumerOK'
        /\ \A t \in Service : eventIDs'[t] \subseteq eventIDs[t] \cup (IF t = s THEN {f} ELSE {})
    BY <1>1, <2>1, ConsumerGrows, ZenonT(40)
  <2>7. PlacesOK'
    BY <1>1, <1>2, <1>3, <2>1, <2>4, <2>5, <2>6, PlacesMoved, Zenon
  <2>8. DeliveryOK' /\ OrderOK'
    BY <1>1, <1>7, DeliveryReceive, OrderReceive, ZenonT(40)
  <2> QED BY <1>3, <2>2, <2>6, <2>7, <2>8, Zenon DEF LifecycleInv
<1> QED BY <1>6, <1>7

LEMMA StaleStep ==
    ASSUME LifecycleInv, NEW s \in Service, NEW f \in stale[s], ReceiveStale(s, f)
    PROVE  LifecycleInv'
<1>1. /\ SessionType /\ PublisherType /\ TransportType /\ ConsumerType /\ HistoryType
      /\ PlacesOK /\ ConsumerOK /\ DeliveryOK /\ OrderOK
  BY TypeParts DEF LifecycleInv
<1>2. UNCHANGED <<sessions, publisher, history, published, ignored, queue, current, wire, breaks>>
  BY Zenon DEF ReceiveStale, history, publisher
<1>3. SessionType' /\ SessionsOK' /\ PublishedOK'
      /\ \A c \in Conn, e \in published : Subject(c, e)' => Subject(c, e)
  BY <1>2, SessionsStay, Zenon
<1>4. /\ TransportType' /\ ConsumerType' /\ f \in Event /\ stale'[s] = stale[s] \ {f}
      /\ \A t \in Service : t # s => stale'[t] = stale[t]
      /\ Taken(s, f) \/ Refused(s, f)
  BY <1>1, ReceiveStaleIs, ZenonT(40)
<1>5. TypeOK'
  BY <1>1, <1>2, <1>3, <1>4, TypeJoined, PublisherTypeKept, HistoryTypeKept, Zenon
<1>6. \A h \in Gateway : Carried(h)' = Carried(h)
  BY <1>2, Zenon DEF Carried
<1>7. /\ ConsumerOK'
      /\ \A t \in Service : eventIDs'[t] \subseteq eventIDs[t] \cup (IF t = s THEN {f} ELSE {})
  BY <1>1, <1>4, ConsumerGrows, ZenonT(40)
<1>8. PlacesOK'
  BY <1>1, <1>2, <1>3, <1>4, <1>6, <1>7, PlacesMoved, Zenon
<1>9. DeliveryOK'
  BY <1>1, DeliveryReceiveStale, Zenon
<1>10. OrderOK'
  BY <1>1, <1>2, Zenon DEF OrderOK
<1> QED BY <1>3, <1>5, <1>7, <1>8, <1>9, <1>10, Zenon DEF LifecycleInv

\* The inductive invariant.
THEOREM LifecycleInvHolds == Spec => []LifecycleInv
<1>1. LifecycleInv /\ [Next]_vars => LifecycleInv'
  <2> SUFFICES ASSUME LifecycleInv, [Next]_vars PROVE LifecycleInv'
    OBVIOUS
  <2>1. CASE UNCHANGED vars
    <3>1. UNCHANGED <<sessions, published, transport, consumer, history, publisher, queue, current, at>>
      BY <2>1 DEF vars, history, publisher
    <3>2. /\ SessionType' /\ SessionsOK' /\ PublishedOK'
          /\ \A c \in Conn, e \in published : Subject(c, e)' => Subject(c, e)
      BY <3>1, SessionsStay
    <3>3. PublisherType /\ TransportType /\ ConsumerType /\ HistoryType
      BY TypeParts DEF LifecycleInv
    <3>4. TypeOK'
      BY <3>1, <3>2, <3>3, TypeJoined, PublisherTypeKept, TransportTypeKept, ConsumerTypeKept,
         HistoryTypeKept DEF history
    <3> QED BY <3>1, <3>2, <3>4, Still DEF LifecycleInv
  <2>2. ASSUME NEW c \in Conn,
               \/ Login(c) \/ EmitLogin(c) \/ DisconnectGet(c)
               \/ DisconnectSwap(c) \/ EmitDisconnected(c)
        PROVE  LifecycleInv'
    BY <2>2, LoginStep, EmitStep, DisconnectStep
  <2>3. ASSUME NEW g \in Gateway, Close(g) \/ PublisherStep(g) PROVE LifecycleInv'
    BY <2>3, FlagStep, PublisherMoves DEF PublisherStep
  <2>4. ASSUME NEW g \in Gateway, NEW s \in Service, BreakStream(g, s) \/ Receive(g, s)
        PROVE  LifecycleInv'
    BY <2>4, StreamStep
  <2>5. ASSUME NEW s \in Service, NEW e \in stale[s], ReceiveStale(s, e) PROVE LifecycleInv'
    BY <2>5, StaleStep
  <2> QED BY <2>1, <2>2, <2>3, <2>4, <2>5, Zenon DEF Next
<1> QED BY <1>1, LifecycleInit, PTL DEF Spec

\* No event disappears: it waits, was dropped or ignored, or its outcome was
\* reported for every service (Publish, run, deliver).
THEOREM EventsAccountedHolds == Spec => []EventsAccounted
<1>1. LifecycleInv => EventsAccounted
  BY ZenonT(40) DEF LifecycleInv, DeliveryOK, EventsAccounted, Given, Reported
<1> QED BY <1>1, LifecycleInvHolds, PTL

\* A service that has been told everything knows the epoch of the session and,
\* if no stream broke, whether the client is connected (deliver, Accept).
THEOREM ConsumersCatchUpHolds == Spec => []ConsumersCatchUp
<1>1. LifecycleInv => ConsumersCatchUp
  <2> SUFFICES ASSUME LifecycleInv, NEW s \in Service, NEW k \in Client, Told(s, k)
               PROVE  /\ latestEpoch[s][k] = record[k].epoch
                      /\ breaks = 0 /\ record[k].epoch > 0
                           => (latest[s][k].type = "disconnected" <=> record[k].conn = NoConn)
    BY Zenon DEF ConsumersCatchUp
  <2>1. /\ SessionType /\ ConsumerType /\ HistoryType
        /\ SessionsOK /\ PublishedOK /\ PlacesOK /\ ConsumerOK /\ DeliveryOK /\ OrderOK
    BY TypeParts DEF LifecycleInv
  <2>2. PICK n : n = record[k].epoch
    OBVIOUS
  <2>3. n \in Nat /\ latestEpoch[s][k] \in Nat
    BY <2>1, <2>2 DEF SessionType, ConsumerType
  <2>4. latestEpoch[s][k] <= n
    <3>1. CASE latestEpoch[s][k] = 0
      BY <2>3, <3>1, SMTT(20)
    <3>2. CASE latestEpoch[s][k] # 0
      <4>1. PICK e \in eventIDs[s] : e.client = k /\ e.epoch = latestEpoch[s][k]
        BY <2>1, <3>2, Zenon DEF ConsumerOK
      <4>2. PICK c \in Conn : Subject(c, e)
        BY <2>1, <4>1, ZenonT(40) DEF PlacesOK, PublishedOK
      <4>3. epoch[c] \in 1 .. record[k].epoch /\ epoch[c] = latestEpoch[s][k]
        BY <2>1, <4>1, <4>2, ZenonT(40) DEF SessionsOK, Subject
      <4> QED BY <2>2, <2>3, <4>3, SMTT(20)
    <3> QED BY <3>1, <3>2
  <2>5. ASSUME NEW e \in published, e.client = k PROVE e \in eventIDs[s] \/ latestEpoch[s][k] > e.epoch
    <3>1. e \notin Pending \union ignored \union stale[s]
      BY <2>5, Zenon DEF Told
    <3>2. \A g \in Gateway : e \notin Range(wire[g][s])
      BY <2>5, Zenon DEF Told
    <3>3. \A r \in report :
            r[1].client = k => <<r[2], r[3]>> \notin {<<"queue", "dropped">>, <<s, "failed">>}
      BY DEF Told
    <3>4. <<e, "queue", "dropped">> \notin report /\ <<e, s, "failed">> \notin report
      BY <2>5, <3>3, Zenon
    <3>5. Sent(e, s)
      BY <2>1, <3>1, <3>4, ZenonT(40) DEF DeliveryOK, Given
    <3> QED BY <2>5, <3>1, <3>2, <3>4, <3>5, ZenonT(40) DEF Sent
  <2>6. ASSUME n > 0
        PROVE  \E c \in Conn : /\ Bound(c) /\ Owner[c] = k /\ epoch[c] = n
                               /\ pc[c] \notin {"login", "notice"}
                               /\ record[k].conn = IF pc[c] = "gone" THEN NoConn ELSE c
    <3>1. PICK c \in Conn : Bound(c) /\ Owner[c] = k /\ epoch[c] = n
      BY <2>1, <2>2, <2>6, ZenonT(40) DEF SessionsOK
    <3>2. pc[c] \notin {"login", "notice"}
      BY <3>1, ZenonT(40) DEF Told
    <3>3. record[k].conn = IF pc[c] \in {"notice", "gone"} THEN NoConn ELSE c
      BY <2>1, <2>2, <3>1, Zenon DEF SessionsOK
    <3> QED BY <3>1, <3>2, <3>3, ZenonT(40)
  <2>7. CASE n = 0
    BY <2>2, <2>3, <2>4, <2>7, SMTT(20)
  <2>8. CASE n > 0
    <3>1. PICK c \in Conn : /\ Bound(c) /\ Owner[c] = k /\ epoch[c] = n
                            /\ pc[c] \notin {"login", "notice"}
                            /\ record[k].conn = IF pc[c] = "gone" THEN NoConn ELSE c
      BY <2>6, <2>8, Zenon
    <3>2. PICK e \in published : Subject(c, e)
      BY <2>1, <3>1, Zenon DEF PublishedOK
    <3>3. e.client = k /\ e.epoch = n
      BY <3>1, <3>2, Zenon DEF Subject
    <3>4. e \in eventIDs[s]
      BY <2>3, <2>4, <2>5, <3>3, SMTT(20)
    <3>5. latestEpoch[s][k] = n
      <4>1. n <= latestEpoch[s][k]
        BY <2>1, <3>3, <3>4 DEF ConsumerOK
      <4> QED BY <2>3, <2>4, <4>1, SMTT(20)
    <3>6. PICK m : m = latest[s][k]
      OBVIOUS
    <3>7. m \in eventIDs[s] /\ m \in Event /\ m.client = k /\ m.epoch = n
      <4>1. latestEpoch[s][k] # 0
        BY <2>3, <2>8, <3>5, SMTT(20)
      <4>2. m \in eventIDs[s] /\ m.client = k /\ m.epoch = n
        BY <2>1, <3>5, <3>6, <4>1 DEF ConsumerOK
      <4> QED BY <2>1, <4>2, SMTT(20) DEF ConsumerType
    <3>8. ASSUME breaks = 0, record[k].conn = NoConn PROVE m.type = "disconnected"
      <4>1. pc[c] = "gone"
        BY <3>1, <3>8, WiringAssumption, Zenon
      <4>2. PICK d : d = EventOf(c, "disconnected")
        BY Zenon
      <4>3. d \in Event /\ d.client = k /\ d.epoch = n /\ d.type = "disconnected"
        BY <2>1, <3>1, <4>2, EventOfType, ZenonT(40)
      <4>4. d \in published
        BY <2>1, <2>2, <3>1, <4>1, <4>2, ZenonT(40) DEF PublishedOK
      <4>5. d \in eventIDs[s]
        BY <2>3, <2>4, <2>5, <4>3, <4>4, SMTT(20)
      <4>6. ASSUME m.type # "disconnected" PROVE FALSE
        <5>1. Ends(m, d)
          BY <3>7, <4>3, <4>6, ZenonT(40) DEF Ends
        <5>2. ConsumerOrder(s, m, d)
          BY <2>1, <3>7, <3>8, <4>3, <5>1, ZenonT(40) DEF OrderOK, Ordered
        <5> QED BY <3>6, <3>7, <4>5, <5>2, ZenonT(40) DEF ConsumerOrder
      <4> QED BY <4>6, Zenon
    <3>9. ASSUME m.type = "disconnected" PROVE record[k].conn = NoConn
      <4>1. PICK b \in Conn : Subject(b, m) /\ pc[b] = "gone"
        BY <2>1, <3>7, <3>9, ZenonT(40) DEF PlacesOK, PublishedOK
      <4>2. b = c
        BY <2>1, <3>1, <3>7, <4>1, Zenon DEF SessionsOK, Subject
      <4> QED BY <3>1, <4>1, <4>2, Zenon
    <3> QED BY <2>2, <3>5, <3>6, <3>8, <3>9, Zenon
  <2> QED BY <2>3, <2>7, <2>8
<1> QED BY <1>1, LifecycleInvHolds, PTL
=============================================================================
