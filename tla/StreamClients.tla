---------------------------- MODULE StreamClients ----------------------------
(***************************************************************************)
(* The streams a service keeps to the instances of another service:        *)
(* common/streaming/manager.go, fed by a registry (common/discovery).      *)
(*                                                                         *)
(* Process 0 is watchService, which discovers the instances and then       *)
(* follows the registry's events; process s is the monitor of stream s.    *)
(* Both run connect: a dial, and then the install under the mutex.  What   *)
(* the code does under one hold of the mutex is one step.                  *)
(*                                                                         *)
(* An instance that starts takes a new address and registers it.  Events   *)
(* are queued only for a watch that is open when they are published; the   *)
(* channel's 16 places are more than the bounds can fill.                  *)
(***************************************************************************)
EXTENDS Naturals, Sequences

CONSTANTS
    Instance,      \* instances of the target service
    MaxAddr,       \* bound on launches: every launch takes a new address
    MaxStreams,    \* bound on streams at a time, so large that none is refused
    MaxFaults      \* bound on faults of all kinds

ASSUME BoundAssumption ==
    MaxAddr \in Nat /\ MaxStreams \in Nat /\ MaxFaults \in Nat
ASSUME InstanceAssumption == Instance # {}

Address == 1 .. MaxAddr
Stream == 1 .. MaxStreams
Proc == 0 .. MaxStreams

VARIABLES
    registry,   \* the address each instance has registered, 0 for none
    alive,      \* the addresses a process listens on
    launches,   \* addresses handed out
    watching,   \* whether the watch is open
    events,     \* its channel
    found,      \* registrations of the last Discover still to be handled
    proc,       \* the watcher and the monitors
    known,      \* m.known
    clients,    \* m.clients: the stream of each instance, 0 for none
    stream,     \* the streams
    breaks,     \* streams that broke between live processes
    dialFails,  \* failed dials to a live process
    outages,    \* failures of the registry
    shut        \* whether the manager was closed

env == <<registry, alive, launches>>
budgets == <<breaks, dialFails, outages>>
streamVars == <<registry, alive, launches, watching, events, found, proc, known,
                clients, stream, breaks, dialFails, outages, shut>>

Event == [type : {"put", "delete"}, inst : Instance, addr : 0 .. MaxAddr]

\* A process: where it is, the registration and the stream it connects, and
\* where connect returns to.
ProcState ==
    [pc : {"none", "discover", "batch", "watch", "events", "wait", "dial", "install", "done"},
     inst : Instance, addr : 0 .. MaxAddr, strm : 0 .. MaxStreams,
     back : {"batch", "events", "done"}]

\* The numbers a new stream may take: of no stream, or of one that is closed
\* and that nobody refers to any more.
Free == {s \in Stream :
           /\ stream[s].state # "open"
           /\ proc[s].pc \in {"none", "done"}
           /\ \A k \in Proc : proc[k].pc = "install" => proc[k].strm # s
           /\ \A i \in Instance : clients[i] # s}

FaultLeft == breaks + dialFails + outages < MaxFaults

SetPc(k, pc) == proc' = [proc EXCEPT ![k].pc = pc]

-----------------------------------------------------------------------------
(* The registry and the instances *)

Publish(e) == events' = IF watching THEN Append(events, e) ELSE events

\* An instance starts at a new address and registers.
Launch(i) ==
    LET a == launches + 1
    IN  /\ launches < MaxAddr
        /\ registry[i] \notin alive
        /\ launches' = a
        /\ alive' = alive \cup {a}
        /\ registry' = [registry EXCEPT ![i] = a]
        /\ Publish([type |-> "put", inst |-> i, addr |-> a])
        /\ UNCHANGED <<watching, found, proc, known, clients, stream, budgets, shut>>

\* It deregisters, or its lease ends.
Withdraw(i) ==
    /\ registry[i] # 0
    /\ registry' = [registry EXCEPT ![i] = 0]
    /\ Publish([type |-> "delete", inst |-> i, addr |-> 0])
    /\ UNCHANGED <<alive, launches, watching, found, proc, known, clients, stream, budgets, shut>>

\* A process stops, with or without having deregistered.
Die(a) ==
    /\ a \in alive
    /\ alive' = alive \ {a}
    /\ UNCHANGED <<registry, launches, watching, events, found, proc, known, clients,
                   stream, budgets, shut>>

\* The transport ends and readLoop closes the client.
BreakStream(s) ==
    /\ stream[s].state = "open"
    /\ \/ (stream[s].addr \notin alive \/ shut) /\ UNCHANGED breaks
       \/ FaultLeft /\ breaks' = breaks + 1
    /\ stream' = [stream EXCEPT ![s].state = "closed"]
    /\ UNCHANGED <<env, watching, events, found, proc, known, clients, dialFails, outages, shut>>

-----------------------------------------------------------------------------
(* watchService *)

\* Discover's result, or nothing when it fails.
Discover ==
    /\ proc[0].pc = "discover"
    /\ \/ /\ found' = {<<i, registry[i]>> : i \in {j \in Instance : registry[j] # 0}}
          /\ UNCHANGED outages
       \/ FaultLeft /\ outages' = outages + 1 /\ found' = {}
    /\ SetPc(0, "batch")
    /\ UNCHANGED <<env, watching, events, known, clients, stream, breaks, dialFails, shut>>

\* upsert: the registration is known; without a client it is connected.
Upsert(i, a, back) ==
    /\ known' = [known EXCEPT ![i] = a]
    /\ proc' = [proc EXCEPT ![0] =
                  IF clients[i] # 0 THEN [@ EXCEPT !.pc = back]
                  ELSE [pc |-> "dial", inst |-> i, addr |-> a, strm |-> 0, back |-> back]]

NextFound ==
    /\ proc[0].pc = "batch"
    /\ \/ \E t \in found :
             /\ Upsert(t[1], t[2], "batch")
             /\ found' = found \ {t}
       \/ found = {} /\ SetPc(0, "watch") /\ UNCHANGED <<known, found>>
    /\ UNCHANGED <<env, watching, events, clients, stream, budgets, shut>>

\* Watch: events published from here on are seen.  A failure starts over.
Watch ==
    /\ proc[0].pc = "watch"
    /\ \/ watching' = TRUE /\ SetPc(0, "events") /\ UNCHANGED outages
       \/ /\ FaultLeft /\ outages' = outages + 1
          /\ SetPc(0, "discover") /\ UNCHANGED watching
    /\ UNCHANGED <<env, events, found, known, clients, stream, breaks, dialFails, shut>>

\* The registry ends the watch; what is in the channel is still read.
WatchEnds ==
    /\ watching
    /\ FaultLeft
    /\ outages' = outages + 1
    /\ watching' = FALSE
    /\ UNCHANGED <<env, events, found, proc, known, clients, stream, breaks, dialFails, shut>>

\* Mutant of Remove: the client leaves the map and stays open.
RemoveKeepsOpen(i) ==
    /\ known' = [known EXCEPT ![i] = 0]
    /\ clients' = [clients EXCEPT ![i] = 0]
    /\ UNCHANGED stream

\* remove: forget the instance and close its client.
Remove(i) ==
    /\ known' = [known EXCEPT ![i] = 0]
    /\ clients' = [clients EXCEPT ![i] = 0]
    /\ stream' = [s \in Stream |-> IF s = clients[i] THEN [stream[s] EXCEPT !.state = "closed"]
                                   ELSE stream[s]]

Receive ==
    /\ proc[0].pc = "events"
    /\ \/ /\ events # <<>>
          /\ events' = Tail(events)
          /\ LET e == Head(events)
             IN  \/ /\ e.type = "put"
                    /\ Upsert(e.inst, e.addr, "events")
                    /\ UNCHANGED <<clients, stream>>
                 \/ e.type = "delete" /\ Remove(e.inst) /\ UNCHANGED proc
       \/ /\ events = <<>> /\ ~watching
          /\ SetPc(0, "discover")
          /\ UNCHANGED <<events, known, clients, stream>>
    /\ UNCHANGED <<env, watching, found, budgets, shut>>

-----------------------------------------------------------------------------
(* connect and monitor *)

\* NewClient opens the stream that process k asked for.
NewClient(k, s) ==
    stream' = [stream EXCEPT
                 ![s] = [inst |-> proc[k].inst, addr |-> proc[k].addr, state |-> "open"]]

\* The dial and NewClient: a new stream, or the attempt is given up.
Dial(k) ==
    /\ proc[k].pc = "dial"
    /\ \/ /\ proc[k].addr \in alive /\ ~shut
          /\ \E s \in Free :
                /\ \A t \in Free : s <= t
                /\ NewClient(k, s)
                /\ proc' = [proc EXCEPT ![k].pc = "install", ![k].strm = s]
          /\ UNCHANGED dialFails
       \/ /\ \/ (proc[k].addr \notin alive \/ shut) /\ UNCHANGED dialFails
             \/ FaultLeft /\ dialFails' = dialFails + 1
          /\ SetPc(k, proc[k].back)
          /\ UNCHANGED stream
    /\ UNCHANGED <<env, watching, events, found, known, clients, breaks, outages, shut>>

\* Mutant of Install: no monitor is started for the new client.
InstallUnmonitored(k) ==
    LET s == proc[k].strm
        i == proc[k].inst
    IN  /\ proc[k].pc = "install"
        /\ SetPc(k, proc[k].back)
        /\ \/ /\ clients[i] # 0
              /\ stream' = [stream EXCEPT ![s].state = "closed"]
              /\ UNCHANGED clients
           \/ clients[i] = 0 /\ clients' = [clients EXCEPT ![i] = s] /\ UNCHANGED stream
        /\ UNCHANGED <<env, watching, events, found, known, budgets, shut>>

\* The second half of connect: the first client wins, another one is closed.
Install(k) ==
    LET s == proc[k].strm
        i == proc[k].inst
    IN  /\ proc[k].pc = "install"
        /\ \/ /\ clients[i] # 0
              /\ stream' = [stream EXCEPT ![s].state = "closed"]
              /\ SetPc(k, proc[k].back)
              /\ UNCHANGED clients
           \/ /\ clients[i] = 0
              /\ clients' = [clients EXCEPT ![i] = s]
              /\ proc' = [proc EXCEPT ![k].pc = proc[k].back,
                                      ![s] = [pc |-> "wait", inst |-> i, addr |-> 0,
                                              strm |-> s, back |-> "done"]]
              /\ UNCHANGED stream
        /\ UNCHANGED <<env, watching, events, found, known, budgets, shut>>

\* Mutant of Notice: the broken client leaves the map and is not replaced.
MonitorGivesUp(s) ==
    LET i == proc[s].inst
    IN  /\ proc[s].pc = "wait"
        /\ stream[s].state = "closed"
        /\ ~shut
        /\ clients' = [clients EXCEPT ![i] = IF @ = s THEN 0 ELSE @]
        /\ SetPc(s, "done")
        /\ UNCHANGED <<env, watching, events, found, known, stream, budgets, shut>>

\* monitor: the client is done; the instance is connected again if it is known.
Monitor(s) ==
    LET i == proc[s].inst
    IN  /\ proc[s].pc = "wait"
        /\ stream[s].state = "closed"
        /\ ~shut
        /\ clients' = [clients EXCEPT ![i] = IF @ = s THEN 0 ELSE @]
        /\ proc' = [proc EXCEPT ![s].pc = IF known[i] # 0 THEN "dial" ELSE "done",
                                ![s].addr = known[i]]
        /\ UNCHANGED <<env, watching, events, found, known, stream, budgets, shut>>

-----------------------------------------------------------------------------
(* Close *)

\* Close cancels the context and closes every client of the map.
CloseManager ==
    /\ ~shut
    /\ shut' = TRUE
    /\ watching' = FALSE
    /\ clients' = [i \in Instance |-> 0]
    /\ stream' = [s \in Stream |-> IF \E i \in Instance : clients[i] = s
                                   THEN [stream[s] EXCEPT !.state = "closed"] ELSE stream[s]]
    /\ UNCHANGED <<env, events, found, proc, known, budgets>>

\* The watcher and the monitors see the cancelled context.
Cancelled(k) ==
    /\ shut
    /\ proc[k].pc \in {"discover", "batch", "watch", "events", "wait"}
    /\ SetPc(k, "done")
    /\ UNCHANGED <<env, watching, events, found, known, clients, stream, budgets, shut>>

-----------------------------------------------------------------------------

StreamInit ==
    /\ registry = [i \in Instance |-> 0]
    /\ alive = {}
    /\ launches = 0
    /\ watching = FALSE
    /\ events = <<>>
    /\ found = {}
    /\ proc = [k \in Proc |-> [pc |-> IF k = 0 THEN "discover" ELSE "none",
                               inst |-> CHOOSE i \in Instance : TRUE, addr |-> 0,
                               strm |-> 0, back |-> "done"]]
    /\ known = [i \in Instance |-> 0]
    /\ clients = [i \in Instance |-> 0]
    /\ stream = [s \in Stream |->
                   [inst |-> CHOOSE i \in Instance : TRUE, addr |-> 0, state |-> "unused"]]
    /\ breaks = 0
    /\ dialFails = 0
    /\ outages = 0
    /\ shut = FALSE

WatchService == ~shut /\ (Discover \/ NextFound \/ Watch \/ Receive)

Connects(k) == Dial(k) \/ Install(k)

StreamNext ==
    \/ \E i \in Instance : Launch(i) \/ Withdraw(i)
    \/ \E a \in Address : Die(a)
    \/ \E s \in Stream : BreakStream(s) \/ Monitor(s)
    \/ \E k \in Proc : Connects(k) \/ Cancelled(k)
    \/ WatchService
    \/ WatchEnds
    \/ CloseManager

StreamSpec == StreamInit /\ [][StreamNext]_streamVars

\* Goroutines are scheduled, dials end, dead connections are noticed.
Fairness ==
    /\ WF_streamVars(WatchService)
    /\ \A k \in Proc : WF_streamVars(Connects(k)) /\ WF_streamVars(Cancelled(k))
    /\ \A s \in Stream :
          /\ WF_streamVars(Monitor(s))
          /\ WF_streamVars(BreakStream(s) /\ (stream[s].addr \notin alive \/ shut))

StreamFairSpec == StreamSpec /\ Fairness

-----------------------------------------------------------------------------
(* Properties *)

\* Every variable keeps its shape.
StreamTypeOK ==
    /\ registry \in [Instance -> 0 .. MaxAddr]
    /\ alive \subseteq Address
    /\ launches \in 0 .. MaxAddr
    /\ watching \in BOOLEAN
    /\ events \in Seq(Event)
    /\ found \subseteq Instance \X Address
    /\ proc \in [Proc -> ProcState]
    /\ known \in [Instance -> 0 .. MaxAddr]
    /\ clients \in [Instance -> 0 .. MaxStreams]
    /\ stream \in [Stream -> [inst : Instance, addr : 0 .. MaxAddr,
                             state : {"unused", "open", "closed"}]]
    /\ breaks \in 0 .. MaxFaults /\ dialFails \in 0 .. MaxFaults /\ outages \in 0 .. MaxFaults
    /\ shut \in BOOLEAN

\* An open stream belongs to someone: it is the client of its instance, or a
\* connect holds it that has not reached the mutex yet.  Nothing leaks when a
\* reconnect, an event and a removal overlap.
OpenStreamsAreOwned ==
    \A s \in Stream :
        stream[s].state = "open" =>
            \/ clients[stream[s].inst] = s
            \/ \E k \in Proc : proc[k].pc = "install" /\ proc[k].strm = s

\* Until the manager is closed, every client has a monitor of its own, so that
\* a stream that breaks leaves the map and is replaced.
ClientsAreMonitored ==
    \A i \in Instance : clients[i] # 0 /\ ~shut =>
        /\ proc[clients[i]].pc = "wait"
        /\ proc[clients[i]].inst = i
        /\ stream[clients[i]].inst = i

Connected(i) == clients[i] # 0 /\ stream[clients[i]].state = "open"

\* An instance the manager knows at an address that answers gets a client, and
\* gets one again after every break, unless a dial to it failed: monitor dials
\* once and gives up.
KnownIsConnected ==
    \A i \in Instance :
        (known[i] \in alive) ~>
            (Connected(i) \/ known[i] \notin alive \/ shut \/ dialFails > 0)
=============================================================================
