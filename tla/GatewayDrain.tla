----------------------------- MODULE GatewayDrain -----------------------------
(***************************************************************************)
(* One Gateway process from start to exit (main.go, common/app/module.go,  *)
(* services/gateway/module.go) and the goroutines of its WebSocket         *)
(* connections (websocket.go).  When the process is told to stop it        *)
(* refuses new connections, deregisters, sends a draining event to its     *)
(* connections, waits, closes them, and stops the gRPC server, the HTTP    *)
(* server and the module.  Meanwhile requests that passed the accepting    *)
(* check become connections, handlers answer messages, and clients leave.  *)
(*                                                                         *)
(* LoginCalls has what happens between a message and its answer,           *)
(* GatewaySession what a login does to the sessions, SessionLifecycle the  *)
(* publisher that the module's Stop waits for.                             *)
(***************************************************************************)
EXTENDS Naturals, Sequences

CONSTANTS Conn,
          SendBuffer   \* capacity of Connection.send

ASSUME BufferAssumption == SendBuffer \in Nat \ {0}

VARIABLES
  phase,      \* what main does next
  signalled,  \* ctx is cancelled
  ready, draining,  \* the module's flags
  expired,    \* the stop context's deadline has passed
  peers,      \* other services have streams to the gRPC server
  snapshot,   \* the connections that were there when Range started
  visited,    \* the ones Range has visited
  handler,    \* the next step of each connection's handler
  closed,     \* Connection.closed
  bound,      \* Connection.sessionID is set
  send,       \* Connection.send
  since,      \* the phase in which the connection was stored
  offered     \* NotifyDraining called Send

main == <<phase, signalled, ready, draining, expired, peers, snapshot, visited>>
handlers == <<handler, bound, since, offered>>
drainVars == <<main, handlers, closed, send>>

Phases == {"starting", "registering", "serving", "deregistering", "notifying",
           "waiting", "closing", "grpc", "http", "stopping", "exited"}

DrainTypeOK ==
  /\ phase \in Phases
  /\ \A flag \in {signalled, ready, draining, expired, peers} : flag \in BOOLEAN
  /\ snapshot \subseteq Conn /\ visited \subseteq Conn
  /\ handler \in [Conn -> {"idle", "accepted", "reading", "dispatch", "ending",
                           "disconnect", "gone"}]
  /\ closed \in [Conn -> BOOLEAN]
  /\ bound \in [Conn -> BOOLEAN]
  /\ send \in [Conn -> Seq({"answer", "draining"})]
  /\ \A c \in Conn : Len(send[c]) <= SendBuffer
  /\ since \in [Conn -> Phases]
  /\ offered \in [Conn -> BOOLEAN]

DrainInit ==
  /\ phase = "starting"
  /\ signalled = FALSE /\ ready = FALSE /\ draining = FALSE /\ expired = FALSE
  /\ peers = TRUE
  /\ snapshot = {} /\ visited = {}
  /\ handler = [c \in Conn |-> "idle"]
  /\ closed = [c \in Conn |-> FALSE]
  /\ bound = [c \in Conn |-> FALSE]
  /\ send = [c \in Conn |-> <<>>]
  /\ since = [c \in Conn |-> "starting"]
  /\ offered = [c \in Conn |-> FALSE]

\* h.connections
Registry == {c \in Conn : handler[c] \in {"reading", "dispatch", "ending"}}

-------------------------------------------------------------------------------
(* main                                                                    *)

\* app.StartEnabled with Module.Start; a module that does not start exits.
Start ==
  /\ phase = "starting"
  /\ \/ phase' = "registering" /\ ready' = TRUE
     \/ phase' = "exited" /\ UNCHANGED ready
  /\ UNCHANGED <<signalled, draining, expired, peers, snapshot, visited,
                 handlers, closed, send>>

\* registerModules, then the HTTP server starts; a registration that fails
\* takes back the others and exits.
Register ==
  /\ phase = "registering"
  /\ phase' \in {"serving", "exited"}
  /\ UNCHANGED <<signalled, ready, draining, expired, peers, snapshot, visited,
                 handlers, closed, send>>

\* SIGTERM, or one of the servers failed.
Signal ==
  /\ phase # "exited" /\ ~signalled
  /\ signalled' = TRUE
  /\ UNCHANGED <<phase, ready, draining, expired, peers, snapshot, visited,
                 handlers, closed, send>>

\* The goroutine of Module.Start that waits for ctx.
ReadyOff ==
  /\ signalled /\ ready /\ phase # "exited"
  /\ ready' = FALSE
  /\ UNCHANGED <<phase, signalled, draining, expired, peers, snapshot, visited,
                 handlers, closed, send>>

BeginDrain ==
  /\ phase = "serving" /\ signalled
  /\ phase' = "deregistering"
  /\ draining' = TRUE /\ ready' = FALSE
  /\ UNCHANGED <<signalled, expired, peers, snapshot, visited, handlers, closed,
                 send>>

\* Range over h.connections starts: sync.Map visits every connection that stays
\* there, and perhaps one that is stored meanwhile.
StartRange == snapshot' = Registry /\ visited' = {}

InRange(c) == c \in Registry \ visited

\* Mutant: Range is over when one connection has been visited.
RangeOverAtFirst == snapshot \intersect Registry = {} \/ visited # {}

RangeOver == snapshot \intersect Registry \subseteq visited

\* The registrations are closed, errors ignored; Drain calls NotifyDraining.
Deregister ==
  /\ phase = "deregistering"
  /\ phase' = "notifying"
  /\ StartRange
  /\ UNCHANGED <<signalled, ready, draining, expired, peers, handlers, closed,
                 send>>

\* Connection.Send: refused by a closed connection and by a full buffer.
CanSend(c) == ~closed[c] /\ Len(send[c]) < SendBuffer

Enqueue(c, m) ==
  send' = IF CanSend(c) THEN [send EXCEPT ![c] = Append(@, m)] ELSE send

\* NotifyDraining, one connection; it ignores an error of Send.
NotifyOne(c) ==
  /\ phase = "notifying" /\ InRange(c)
  /\ visited' = visited \union {c}
  /\ offered' = [offered EXCEPT ![c] = TRUE]
  /\ Enqueue(c, "draining")
  /\ UNCHANGED <<phase, signalled, ready, draining, expired, peers, snapshot,
                 handler, bound, since, closed>>

NotifyOver ==
  /\ phase = "notifying" /\ RangeOver
  /\ phase' = "waiting"
  /\ snapshot' = {} /\ visited' = {}
  /\ UNCHANGED <<signalled, ready, draining, expired, peers, handlers, closed,
                 send>>

\* drain_timeout is over, or the stop context: CloseAll.
DrainTimeout ==
  /\ phase = "waiting"
  /\ phase' = "closing"
  /\ StartRange
  /\ UNCHANGED <<signalled, ready, draining, expired, peers, handlers, closed,
                 send>>

\* Mutant: CloseAll closes the connections that have a session.
CloseOneBound(c) ==
  /\ phase = "closing" /\ InRange(c)
  /\ visited' = visited \union {c}
  /\ closed' = [closed EXCEPT ![c] = @ \/ bound[c]]
  /\ UNCHANGED <<phase, signalled, ready, draining, expired, peers, snapshot,
                 handlers, send>>

\* Connection.Close, whose later calls do nothing.
Close(c) == closed' = [closed EXCEPT ![c] = TRUE]

\* CloseAll, one connection.
CloseOne(c) ==
  /\ phase = "closing" /\ InRange(c)
  /\ visited' = visited \union {c}
  /\ Close(c)
  /\ UNCHANGED <<phase, signalled, ready, draining, expired, peers, snapshot,
                 handlers, send>>

CloseOver ==
  /\ phase = "closing" /\ RangeOver
  /\ phase' = "grpc"
  /\ snapshot' = {} /\ visited' = {}
  /\ UNCHANGED <<signalled, ready, draining, expired, peers, handlers, closed,
                 send>>

\* The deadline of the stop context, app.shutdown_timeout after the signal.
\* The wait of Drain ends by its own timer too: only the later ones need it.
StopDeadline ==
  /\ phase \in {"grpc", "http"} /\ ~expired
  /\ expired' = TRUE
  /\ UNCHANGED <<phase, signalled, ready, draining, peers, snapshot, visited,
                 handlers, closed, send>>

\* The other services close their streams to this process; nothing makes them.
PeersLeave ==
  /\ phase = "grpc" /\ peers
  /\ peers' = FALSE
  /\ UNCHANGED <<phase, signalled, ready, draining, expired, snapshot, visited,
                 handlers, closed, send>>

\* Mutant: stopGRPC waits for GracefulStop only.
StopGRPCGracefully ==
  /\ phase = "grpc" /\ ~peers
  /\ phase' = "http"
  /\ UNCHANGED <<signalled, ready, draining, expired, peers, snapshot, visited,
                 handlers, closed, send>>

\* stopGRPC: GracefulStop waits for the streams, Stop does not.
StopGRPC ==
  /\ phase = "grpc" /\ (~peers \/ expired)
  /\ phase' = "http"
  /\ UNCHANGED <<signalled, ready, draining, expired, peers, snapshot, visited,
                 handlers, closed, send>>

\* srv.Shutdown waits for requests, not for upgraded connections.
ShutdownHTTP ==
  /\ phase = "http"
  /\ expired \/ \A c \in Conn : handler[c] # "accepted"
  /\ phase' = "stopping"
  /\ UNCHANGED <<signalled, ready, draining, expired, peers, snapshot, visited,
                 handlers, closed, send>>

\* app.StopReverse with Module.Stop; main returns and the process ends.
Stop ==
  /\ phase = "stopping"
  /\ phase' = "exited" /\ ready' = FALSE
  /\ UNCHANGED <<signalled, draining, expired, peers, snapshot, visited,
                 handlers, closed, send>>

-------------------------------------------------------------------------------
(* Connections                                                             *)

HandlerGoes(c, step) == handler' = [handler EXCEPT ![c] = step]

IsReady == ready /\ ~draining

\* Handle: the accepting check, in a request to the HTTP server.
Accept(c) ==
  /\ handler[c] = "idle"
  /\ phase \notin {"starting", "registering", "stopping", "exited"}
  /\ IsReady
  /\ HandlerGoes(c, "accepted")
  /\ UNCHANGED <<main, bound, since, offered, closed, send>>

\* Handle: the upgrade and connections.Store; or the upgrade fails.
Store(c) ==
  /\ handler[c] = "accepted" /\ phase # "exited"
  /\ handler' \in {[handler EXCEPT ![c] = "reading"], [handler EXCEPT ![c] = "gone"]}
  /\ since' = [since EXCEPT ![c] = phase]
  /\ UNCHANGED <<main, bound, offered, closed, send>>

\* readPump: ReadMessage returns a message.
Read(c) ==
  /\ handler[c] = "reading" /\ ~closed[c] /\ phase # "exited"
  /\ HandlerGoes(c, "dispatch")
  /\ UNCHANGED <<main, bound, since, offered, closed, send>>

\* Dispatch: a login or a resume binds a session; the answer is sent, or readPump
\* returns the error of Send.  The answer of the rate limiter is sent, too, but
\* its error is ignored.
Answer(c) ==
  /\ handler[c] = "dispatch" /\ phase # "exited"
  /\ \E logs_in, limited \in BOOLEAN :
       /\ ~(logs_in /\ limited)
       /\ bound' = [bound EXCEPT ![c] = @ \/ logs_in]
       /\ HandlerGoes(c, IF CanSend(c) \/ limited THEN "reading" ELSE "ending")
  /\ Enqueue(c, "answer")
  /\ UNCHANGED <<main, since, offered, closed>>

\* writePump writes a message.
Write(c) ==
  /\ send[c] # <<>> /\ ~closed[c] /\ phase # "exited"
  /\ send' = [send EXCEPT ![c] = Tail(@)]
  /\ UNCHANGED <<main, handlers, closed>>

\* writePump cannot write a message or a ping and calls Close.
WriteFails(c) ==
  /\ c \in Registry /\ ~closed[c] /\ phase # "exited"
  /\ Close(c)
  /\ UNCHANGED <<main, handlers, send>>

\* ReadMessage fails, or the message is not binary: readPump returns.
ReadEnds(c) ==
  /\ handler[c] = "reading" /\ phase # "exited"
  /\ HandlerGoes(c, "ending")
  /\ UNCHANGED <<main, bound, since, offered, closed, send>>

\* Handle: Close, then the deferred connections.Delete.
Unregister(c) ==
  /\ handler[c] = "ending" /\ phase # "exited"
  /\ Close(c)
  /\ HandlerGoes(c, IF bound[c] THEN "disconnect" ELSE "gone")
  /\ UNCHANGED <<main, bound, since, offered, send>>

\* Handle: the deferred disconnectSession.
DisconnectSession(c) ==
  /\ handler[c] = "disconnect" /\ phase # "exited"
  /\ HandlerGoes(c, "gone")
  /\ UNCHANGED <<main, bound, since, offered, closed, send>>

-------------------------------------------------------------------------------
MainStep ==
  \/ Start \/ Register \/ BeginDrain \/ Deregister
  \/ \E c \in Conn : NotifyOne(c) \/ CloseOne(c)
  \/ NotifyOver \/ DrainTimeout \/ CloseOver
  \/ StopGRPC \/ ShutdownHTTP \/ Stop

DrainNext ==
  \/ MainStep \/ Signal \/ ReadyOff \/ StopDeadline \/ PeersLeave
  \/ \E c \in Conn : \/ Accept(c) \/ Store(c) \/ Read(c) \/ Answer(c)
                     \/ Write(c) \/ WriteFails(c) \/ ReadEnds(c)
                     \/ Unregister(c) \/ DisconnectSession(c)

DrainSpec == DrainInit /\ [][DrainNext]_drainVars

\* main runs, and the deadline of the stop context comes.
DrainFairSpec == DrainSpec /\ WF_drainVars(MainStep) /\ WF_drainVars(StopDeadline)

-------------------------------------------------------------------------------
(* Properties                                                              *)

Closed == {"grpc", "http", "stopping", "exited"}
Closing == {"closing"} \union Closed
Announced == {"waiting"} \union Closing

\* A connection that was there when the process was told to stop has been
\* offered the draining event before CloseAll reaches it, as README.md says
\* (NotifyDraining, CloseAll).
NoticeBeforeClose ==
  \A c \in Registry :
    phase \in Announced /\ since[c] = "serving" => offered[c]

\* After CloseAll, a connection is open only if it was stored while CloseAll ran
\* or later, after passing the accepting check before the drain began (Handle,
\* Drain).
OnlyLateStayOpen ==
  \A c \in Registry : phase \in Closed /\ ~closed[c] => since[c] \in Closing

\* A process that is told to stop exits, whatever its clients and the services
\* connected to it do (main, stopGRPC).
ShutdownEnds == signalled ~> phase = "exited"
=============================================================================
