--------------------------- MODULE SessionLifecycle ---------------------------
(***************************************************************************)
(* Telling Lobby and Battle who is connected.  The session manager of a    *)
(* gateway hands an event to its sessionLifecyclePublisher whenever a      *)
(* connection logs in, resumes a session or closes; the publisher queues   *)
(* it and sends it to one service after the other; a service keeps what it *)
(* accepts in its SessionLifecycleConsumer (session_lifecycle_publisher.go,*)
(* session.go, services/common/session_lifecycle.go).                      *)
(*                                                                         *)
(* A client has one session, whose record in Redis is [epoch, conn]; epoch *)
(* 0 is a session that does not exist.  GatewaySession has the manager     *)
(* itself, with preemptions, expiries and failures of Redis; here it       *)
(* supplies the events.  A gateway may be stopped at any time, which       *)
(* closes its publisher (GatewayDrain has the rest of the shutdown).       *)
(***************************************************************************)
EXTENDS Naturals, Sequences, Functions

CONSTANTS Conn, Client, Gateway,
          Host,         \* the gateway each connection is made to
          Owner,        \* the client that makes it
          Targets,      \* deliver: the services told, in this order
          Leaving,      \* bound: the gateways that are stopped
          QueueCap,     \* capacity of the publisher's queue
          MaxAttempts,  \* retry_attempts
          MaxFaults,    \* bound on failed deliveries and broken streams
          NoConn, NoEvent

ASSUME WiringAssumption ==
  /\ Host \in [Conn -> Gateway] /\ Owner \in [Conn -> Client]
  /\ NoConn \notin Conn
  /\ Targets \in Seq(Range(Targets)) /\ Targets # <<>>
ASSUME CapacityAssumption ==
  QueueCap \in Nat \ {0} /\ MaxAttempts \in Nat \ {0} /\ MaxFaults \in Nat

Service == Range(Targets)

\* EventID is made of session, epoch and type.
Event == [client : Client, epoch : Nat,
          type : {"connected", "resumed", "disconnected"}]

ASSUME NoEventAssumption == NoEvent \notin Event

VARIABLES
  record,    \* Redis: client -> session record
  pc,        \* the next step of each connection's handler
  epoch,     \* the epoch each connection is bound to
  queue,     \* gateway: the publisher's queue,
  current,   \*   the event deliver has,
  at,        \*   the service it is for
  attempt,   \*   and the attempt of RetryPolicy.Do
  run,       \* gateway: the publisher is "running", "cancelled" or "done"
  wire,      \* gateway, service -> events on the stream between them
  stale,     \* service -> events in the buffers of broken streams
  breaks,    \* broken streams
  faults,
  eventIDs,    \* service: the events its consumer has accepted,
  latestEpoch, \*   the highest epoch of each client's session
  latest,      \*   and the event about each client it accepted last
  report,    \* what ObserveSessionLifecycle was told
  published, \* the events handed to Publish
  ignored    \* the ones a closed publisher did not take

sessions == <<record, pc, epoch>>
publisher == <<queue, current, at, attempt, run>>
transport == <<wire, stale, breaks, faults>>
consumer == <<eventIDs, latestEpoch, latest>>
history == <<report, published, ignored>>
vars == <<sessions, publisher, transport, consumer, history>>

TypeOK ==
  /\ record \in [Client -> [epoch : Nat, conn : Conn \union {NoConn}]]
  /\ pc \in [Conn -> {"open", "login", "bound", "detach", "notice", "gone"}]
  /\ epoch \in [Conn -> Nat]
  /\ queue \in [Gateway -> Seq(Event)]
  /\ \A g \in Gateway : Len(queue[g]) <= QueueCap
  /\ current \in [Gateway -> Event \union {NoEvent}]
  /\ at \in [Gateway -> 1..Len(Targets)]
  /\ attempt \in [Gateway -> 1..MaxAttempts]
  /\ run \in [Gateway -> {"running", "cancelled", "done"}]
  /\ wire \in [Gateway -> [Service -> Seq(Event)]]
  /\ stale \in [Service -> SUBSET Event]
  /\ faults \in 0..MaxFaults /\ breaks \in 0..faults
  /\ eventIDs \in [Service -> SUBSET Event]
  /\ latestEpoch \in [Service -> [Client -> Nat]]
  /\ latest \in [Service -> [Client -> Event \union {NoEvent}]]
  /\ published \subseteq Event /\ ignored \subseteq published

Init ==
  /\ record = [k \in Client |-> [epoch |-> 0, conn |-> NoConn]]
  /\ pc = [c \in Conn |-> "open"]
  /\ epoch = [c \in Conn |-> 0]
  /\ queue = [g \in Gateway |-> <<>>]
  /\ current = [g \in Gateway |-> NoEvent]
  /\ at = [g \in Gateway |-> 1]
  /\ attempt = [g \in Gateway |-> 1]
  /\ run = [g \in Gateway |-> "running"]
  /\ wire = [g \in Gateway |-> [s \in Service |-> <<>>]]
  /\ stale = [s \in Service |-> {}]
  /\ breaks = 0 /\ faults = 0
  /\ eventIDs = [s \in Service |-> {}]
  /\ latestEpoch = [s \in Service |-> [k \in Client |-> 0]]
  /\ latest = [s \in Service |-> [k \in Client |-> NoEvent]]
  /\ report = {} /\ published = {} /\ ignored = {}

-------------------------------------------------------------------------------
(* The session manager                                                     *)

Goto(c, step) == pc' = [pc EXCEPT ![c] = step]

\* Create, for a new session, or Resume, up to the write of the record.  Resume
\* needs the token of the response to the last login.
Login(c) ==
  LET k == Owner[c] IN
  /\ pc[c] = "open"
  /\ \A d \in Conn : Owner[d] = k => pc[d] # "login"
  /\ record' = [record EXCEPT ![k] = [epoch |-> @.epoch + 1, conn |-> c]]
  /\ epoch' = [epoch EXCEPT ![c] = record[k].epoch + 1]
  /\ Goto(c, "login")
  /\ UNCHANGED <<publisher, transport, consumer, history>>

EventOf(c, type) == [client |-> Owner[c], epoch |-> epoch[c], type |-> type]

\* Publish: the queue has no place left.
Full(g) == Len(queue[g]) >= QueueCap

\* Publish: the event is queued, reported as dropped when the queue is full,
\* or ignored when the publisher is closed; a closed publisher with room in
\* its queue does either.
Publish(g, e) ==
  /\ published' = published \union {e}
  /\ \/ /\ ~Full(g)
        /\ queue' = [queue EXCEPT ![g] = Append(@, e)]
        /\ UNCHANGED <<report, ignored>>
     \/ /\ Full(g) /\ run[g] = "running"
        /\ report' = report \union {<<e, "queue", "dropped">>}
        /\ UNCHANGED <<queue, ignored>>
     \/ /\ run[g] # "running"
        /\ ignored' = ignored \union {e}
        /\ UNCHANGED <<queue, report>>

\* The end of Create or Resume: emitLifecycle.
EmitLogin(c) ==
  /\ pc[c] = "login"
  /\ Publish(Host[c], EventOf(c, IF epoch[c] = 1 THEN "connected"
                                 ELSE "resumed"))
  /\ Goto(c, "bound")
  /\ UNCHANGED <<record, epoch, current, at, attempt, run, transport, consumer>>

\* Mine(c): the record is the one connection c wrote.
Mine(c) == record[Owner[c]] = [epoch |-> epoch[c], conn |-> c]

\* The connection is closed: disconnect reads the record and compares it ...
DisconnectGet(c) ==
  /\ pc[c] = "bound"
  /\ Goto(c, IF Mine(c) THEN "detach" ELSE "gone")
  /\ UNCHANGED <<record, epoch, publisher, transport, consumer, history>>

\* ... swaps it, if it is still the same, and does not look at the outcome ...
DisconnectSwap(c) ==
  /\ pc[c] = "detach"
  /\ record' = IF Mine(c) THEN [record EXCEPT ![Owner[c]].conn = NoConn]
               ELSE record
  /\ Goto(c, "notice")
  /\ UNCHANGED <<epoch, publisher, transport, consumer, history>>

\* ... and publishes the event.
EmitDisconnected(c) ==
  /\ pc[c] = "notice"
  /\ Publish(Host[c], EventOf(c, "disconnected"))
  /\ Goto(c, "gone")
  /\ UNCHANGED <<record, epoch, current, at, attempt, run, transport, consumer>>

-------------------------------------------------------------------------------
(* The publisher                                                           *)

\* Module.Stop: lifecycle.Close cancels the context.
Close(g) ==
  /\ g \in Leaving /\ run[g] = "running"
  /\ run' = [run EXCEPT ![g] = "cancelled"]
  /\ UNCHANGED <<sessions, queue, current, at, attempt, transport, consumer,
                 history>>

Idle(g) == current[g] = NoEvent /\ run[g] # "done"

\* run: select takes either case when both are ready.
Take(g) ==
  /\ Idle(g) /\ queue[g] # <<>>
  /\ queue' = [queue EXCEPT ![g] = Tail(@)]
  /\ current' = [current EXCEPT ![g] = Head(queue[g])]
  /\ at' = [at EXCEPT ![g] = 1]
  /\ attempt' = [attempt EXCEPT ![g] = 1]
  /\ UNCHANGED <<sessions, run, transport, consumer, history>>

\* Mutant: run looks at its context only when an event is queued.
RunEndsOnEvent(g) ==
  /\ Idle(g) /\ run[g] = "cancelled" /\ queue[g] # <<>>
  /\ run' = [run EXCEPT ![g] = "done"]
  /\ UNCHANGED <<sessions, queue, current, at, attempt, transport, consumer,
                 history>>

RunEnds(g) ==
  /\ Idle(g) /\ run[g] = "cancelled"
  /\ run' = [run EXCEPT ![g] = "done"]
  /\ UNCHANGED <<sessions, queue, current, at, attempt, transport, consumer,
                 history>>

\* Mutant: a service that cannot be told ends the delivery.
NextTargetStops(g, result) ==
  LET last == at[g] = Len(Targets) \/ result = "failed" IN
  /\ attempt' = [attempt EXCEPT ![g] = 1]
  /\ at' = [at EXCEPT ![g] = IF last THEN 1 ELSE @ + 1]
  /\ current' = [current EXCEPT ![g] = IF last THEN NoEvent ELSE @]

\* deliver goes on with the next service, whatever the result for this one.
NextTarget(g, result) ==
  LET last == at[g] = Len(Targets) IN
  /\ attempt' = [attempt EXCEPT ![g] = 1]
  /\ at' = [at EXCEPT ![g] = IF last THEN 1 ELSE @ + 1]
  /\ current' = [current EXCEPT ![g] = IF last THEN NoEvent ELSE @]

Observe(g, result) ==
  report' = report \union {<<current[g], Targets[at[g]], result>>}

\* SendEvent puts the event on the stream.
Deliver(g) ==
  /\ current[g] # NoEvent
  /\ wire' = [wire EXCEPT ![g][Targets[at[g]]] = Append(@, current[g])]
  /\ Observe(g, "delivered")
  /\ NextTarget(g, "delivered")
  /\ UNCHANGED <<sessions, queue, run, stale, breaks, faults, consumer,
                 published, ignored>>

\* No client, or SendEvent fails (the event may have been sent all the same):
\* RetryPolicy.Do tries again until the attempts are used up or the publisher
\* is cancelled.
DeliverFails(g) ==
  /\ current[g] # NoEvent
  /\ faults < MaxFaults /\ faults' = faults + 1
  /\ wire' \in {wire, [wire EXCEPT ![g][Targets[at[g]]] = Append(@, current[g])]}
  /\ \/ /\ attempt[g] < MaxAttempts
        /\ attempt' = [attempt EXCEPT ![g] = @ + 1]
        /\ UNCHANGED <<current, at, report>>
     \/ /\ attempt[g] = MaxAttempts \/ run[g] = "cancelled"
        /\ Observe(g, "failed")
        /\ NextTarget(g, "failed")
  /\ UNCHANGED <<sessions, queue, run, stale, breaks, consumer, published,
                 ignored>>

-------------------------------------------------------------------------------
(* The streams and the consumers                                           *)

\* A stream breaks; what the service has already read from it is still handled,
\* concurrently with the stream that replaces it.
BreakStream(g, s) ==
  /\ wire[g][s] # <<>>
  /\ faults < MaxFaults /\ faults' = faults + 1
  /\ breaks' = breaks + 1
  /\ stale' = [stale EXCEPT ![s] = @ \union Range(wire[g][s])]
  /\ wire' = [wire EXCEPT ![g][s] = <<>>]
  /\ UNCHANGED <<sessions, publisher, consumer, history>>

\* Mutant: the consumer does not compare epochs.
AcceptableAnyEpoch(s, e) == e \notin eventIDs[s]

\* Accept takes no event twice and none of an epoch that is over.
Acceptable(s, e) ==
  e \notin eventIDs[s] /\ e.epoch >= latestEpoch[s][e.client]

Accept(s, e) ==
  \/ /\ Acceptable(s, e)
     /\ eventIDs' = [eventIDs EXCEPT ![s] = @ \union {e}]
     /\ latestEpoch' = [latestEpoch EXCEPT ![s][e.client] =
                          IF e.epoch > @ THEN e.epoch ELSE @]
     /\ latest' = [latest EXCEPT ![s][e.client] = e]
  \/ ~Acceptable(s, e) /\ UNCHANGED consumer

Receive(g, s) ==
  /\ wire[g][s] # <<>>
  /\ wire' = [wire EXCEPT ![g][s] = Tail(@)]
  /\ Accept(s, Head(wire[g][s]))
  /\ UNCHANGED <<sessions, publisher, stale, breaks, faults, history>>

ReceiveStale(s, e) ==
  /\ e \in stale[s]
  /\ stale' = [stale EXCEPT ![s] = @ \ {e}]
  /\ Accept(s, e)
  /\ UNCHANGED <<sessions, publisher, wire, breaks, faults, history>>

-------------------------------------------------------------------------------
PublisherStep(g) == Take(g) \/ RunEnds(g) \/ Deliver(g) \/ DeliverFails(g)

Next ==
  \/ \E c \in Conn : \/ Login(c) \/ EmitLogin(c) \/ DisconnectGet(c)
                     \/ DisconnectSwap(c) \/ EmitDisconnected(c)
  \/ \E g \in Gateway : Close(g) \/ PublisherStep(g)
  \/ \E g \in Gateway, s \in Service : BreakStream(g, s) \/ Receive(g, s)
  \/ \E s \in Service : \E e \in stale[s] : ReceiveStale(s, e)

Spec == Init /\ [][Next]_vars

\* The goroutine of the publisher that is closed runs.
FairSpec == Spec /\ \A g \in Leaving : WF_vars(PublisherStep(g))

-------------------------------------------------------------------------------
(* Properties                                                              *)

\* What the publishers still have to deliver.
Pending ==
  UNION {Range(queue[g]) \union ({current[g]} \ {NoEvent}) : g \in Gateway}

\* No event disappears: it is queued, being delivered, reported as dropped,
\* ignored by a closed publisher, or reported, delivered or failed, for every
\* service (Publish, run, deliver).
EventsAccounted ==
  \A e \in published :
    \/ e \in Pending \union ignored
    \/ <<e, "queue", "dropped">> \in report
    \/ \A s \in Service : \E r \in report : r[1] = e /\ r[2] = s

\* Every event about client k has reached s.
Told(s, k) ==
  /\ \A c \in Conn : Owner[c] = k => pc[c] \notin {"login", "notice"}
  /\ \A e \in Pending \union ignored \union stale[s] : e.client # k
  /\ \A g \in Gateway : \A e \in Range(wire[g][s]) : e.client # k
  /\ \A r \in report :
       r[1].client = k => <<r[2], r[3]>> \notin {<<"queue", "dropped">>,
                                                <<s, "failed">>}

\* A service that has been told everything knows the session's epoch, however
\* the events of two gateways, repeated deliveries and broken streams were
\* interleaved; and it knows whether the client is connected, unless a stream
\* broke, because only then events of one epoch can overtake each other
\* (deliver, SessionLifecycleConsumer.Accept).
ConsumersCatchUp ==
  \A s \in Service, k \in Client :
    Told(s, k) =>
      /\ latestEpoch[s][k] = record[k].epoch
      /\ breaks = 0 /\ record[k].epoch > 0
           => (latest[s][k].type = "disconnected" <=> record[k].conn = NoConn)

\* sessionLifecyclePublisher.Close waits for the goroutine to end, and it does,
\* whatever the services answer and however many events are queued.
CloseReturns ==
  \A g \in Leaving : run[g] = "cancelled" ~> run[g] = "done"
=============================================================================
