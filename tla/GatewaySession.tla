---------------------------- MODULE GatewaySession ----------------------------
(***************************************************************************)
(* Sessions of the WebSocket gateways.  Every gateway keeps its sessions   *)
(* in one shared Redis (session.go, redis_store.go); a client connection   *)
(* is served by one goroutine that logs in, resumes and, when the socket   *)
(* is gone, disconnects (websocket.go, dispatcher.go).  Each Redis call is *)
(* atomic, the calls of one handler are not: every Redis call and every    *)
(* critical section is an action of its own, and pc[c] says which one      *)
(* connection c runs next.                                                 *)
(*                                                                         *)
(* Time is abstracted to "ExpireAt has passed": `lapsed` holds the         *)
(* sessions whose Redis key is past its TTL and may be evicted.  A resume  *)
(* token is rotated exactly when the epoch is incremented, so the token of *)
(* session s issued with epoch e is the pair s, e; 0 stands for no token.  *)
(***************************************************************************)
EXTENDS Naturals

CONSTANTS Session,    \* session ids randomID() may return
          Account, Conn, Gateway,
          Host,       \* the gateway that serves each connection
          MaxEpoch,   \* bound on ConnectionEpoch
          Lapsing,    \* bound: the sessions whose ExpireAt may pass
          MaxFaults,  \* bound on failed Redis calls, lost messages, crashes
          NoSession, NoConn, NoRec

ASSUME HostAssumption == Host \in [Conn -> Gateway]
ASSUME BoundsAssumption == /\ MaxEpoch \in Nat \ {0}
                           /\ MaxFaults \in Nat
                           /\ Lapsing \subseteq Session
ASSUME NoneAssumption == NoSession \notin Session /\ NoConn \notin Conn

\* The persisted session (session.go Record); the JSON text that the Lua
\* scripts compare is determined by these fields, because every write that
\* moves ExpireAt also moves the epoch or the state.
Rec == [sid : Session, acct : Account, conn : Conn \union {NoConn},
        epoch : 1..MaxEpoch, state : {"authenticated", "reconnecting"}]

ASSUME NoRecAssumption == NoRec \notin Rec

\* Whom a preemption addresses; the local fallback of Create and Resume knows
\* neither the session nor the epoch.
Target == [sid : Session \union {NoSession}, conn : Conn, epoch : 0..MaxEpoch]

\* What a Connection is bound to (Connection.sessionID, sessionEpoch).
Binding == [sid : Session \union {NoSession}, epoch : 0..MaxEpoch]
Unbound == [sid |-> NoSession, epoch |-> 0]

\* A scheduled expiry goroutine and the gateway it runs on.
Timer == [sid : Session, epoch : 1..MaxEpoch, host : Gateway,
          phase : {"armed", "delete"}]

Event == [type : {"connected", "disconnected", "resumed", "expired",
                  "preempted"},
          sid : Session \union {NoSession}, epoch : 0..MaxEpoch]

VARIABLES
  records,      \* Redis: session key -> Record
  claims,       \* Redis: account key -> the Record that claimed it
  lapsed,       \* sessions whose ExpireAt has passed
  used,         \* session ids already drawn
  pc,           \* the next step of each connection's goroutine
  rec,          \* its local Record (r / expected)
  prev,         \* its local previousRecord
  bound,
  kicked,       \* the bindings Preempt has condemned: it will close them
  connections,  \* Manager.connections
  accountConnections, \* Manager.accountConnections, per gateway
  timers,
  preempts,     \* messages on the game01:gateway:preempt channel
  tokens,       \* the newest resume token of each session a client has
  events,       \* lifecycle events handed to the publisher
  faults

redis == <<records, claims, lapsed>>
handler == <<pc, rec, prev, bound>>
index == <<connections, accountConnections>>
vars == <<redis, handler, index, used, kicked, timers, preempts, tokens,
          events, faults>>

Steps == {"open", "claim", "enter", "bind", "resume",
          "get", "detach", "release", "unindex", "gone"}

TypeOK ==
  /\ records \in [Session -> Rec \union {NoRec}]
  /\ claims \in [Account -> Rec \union {NoRec}]
  /\ lapsed \in SUBSET Session
  /\ used \in SUBSET Session
  /\ pc \in [Conn -> Steps]
  /\ rec \in [Conn -> Rec \union {NoRec}]
  /\ prev \in [Conn -> Target \union {NoRec}]
  /\ bound \in [Conn -> Binding]
  /\ kicked \in SUBSET Target
  /\ connections \in [Conn -> Session \union {NoSession}]
  /\ accountConnections \in [Gateway -> [Account -> Conn \union {NoConn}]]
  /\ timers \in SUBSET Timer
  /\ preempts \in SUBSET Target
  /\ tokens \in [Session -> 0..MaxEpoch]
  /\ events \in SUBSET Event
  /\ faults \in 0..MaxFaults

Init ==
  /\ records = [s \in Session |-> NoRec]
  /\ claims = [a \in Account |-> NoRec]
  /\ lapsed = {}
  /\ used = {}
  /\ pc = [c \in Conn |-> "open"]
  /\ rec = [c \in Conn |-> NoRec]
  /\ prev = [c \in Conn |-> NoRec]
  /\ bound = [c \in Conn |-> Unbound]
  /\ kicked = {}
  /\ connections = [c \in Conn |-> NoSession]
  /\ accountConnections = [g \in Gateway |-> [a \in Account |-> NoConn]]
  /\ timers = {}
  /\ preempts = {}
  /\ tokens = [s \in Session |-> 0]
  /\ events = {}
  /\ faults = 0

\* A Redis call succeeds, fails without effect, or takes effect although the
\* caller sees an error (a timed-out request the server has executed).
Outcomes == {"ok", "error", "applied"}

Outcome(out) ==
  /\ out # "ok" => faults < MaxFaults
  /\ faults' = IF out = "ok" THEN faults ELSE faults + 1

\* goto(c, step): the handler of c goes on with the given step.
Goto(c, step) == pc' = [pc EXCEPT ![c] = step]

EventOf(type, r) == [type |-> type, sid |-> r.sid, epoch |-> r.epoch]

-------------------------------------------------------------------------------
(* Connections                                                             *)

\* Handle has registered c in h.connections and runs readPump; it removes c
\* when readPump has returned.
Registered(c) ==
  pc[c] \in {"open", "claim", "enter", "bind", "resume"}

\* The connection is closed by the peer, a read or write error, the deadline,
\* drain or a preemption: ReadMessage fails, readPump returns and the deferred
\* calls unregister the connection and disconnect its session.  A connection
\* that is closed while a message is handled finishes the handler first and
\* cannot deliver its response (BindSession).
Close(c) ==
  /\ pc[c] = "open"
  /\ Goto(c, IF bound[c].sid = NoSession THEN "gone" ELSE "get")
  /\ UNCHANGED <<redis, index, used, rec, prev, bound, kicked, timers,
                 preempts, tokens, events, faults>>

\* The Close that Preempt schedules 100ms after it accepted the preemption.
KickClose(c) == (\E k \in kicked : k.conn = c) /\ Close(c)

-------------------------------------------------------------------------------
(* Login: Manager.Create, called by login and refreshLogin                 *)

NewRecord(s, a, c) ==
  [sid |-> s, acct |-> a, conn |-> c, epoch |-> 1, state |-> "authenticated"]

LoginCreate(c, a, s, out) ==
  /\ pc[c] = "open"
  /\ s \notin used
  /\ Outcome(out)
  /\ used' = used \union {s}
  /\ records' = IF out = "error" THEN records
                ELSE [records EXCEPT ![s] = NewRecord(s, a, c)]
  /\ IF out = "ok" THEN Goto(c, "claim") ELSE UNCHANGED pc
  /\ rec' = IF out = "ok" THEN [rec EXCEPT ![c] = NewRecord(s, a, c)] ELSE rec
  /\ UNCHANGED <<claims, lapsed, index, prev, bound, kicked, timers,
                 preempts, tokens, events>>

TargetOf(r) == [sid |-> r.sid, conn |-> r.conn, epoch |-> r.epoch]

\* The claimAccountScript: SET the key, return what was there.
ClaimAccount(c, out) ==
  LET a == rec[c].acct IN
  /\ pc[c] = "claim"
  /\ Outcome(out)
  /\ claims' = IF out = "error" THEN claims ELSE [claims EXCEPT ![a] = rec[c]]
  /\ IF out = "ok"
     THEN /\ Goto(c, "enter")
          /\ prev' = [prev EXCEPT ![c] = IF claims[a] = NoRec THEN NoRec
                                         ELSE TargetOf(claims[a])]
          /\ UNCHANGED rec
     ELSE /\ Goto(c, "open")
          /\ rec' = [rec EXCEPT ![c] = NoRec]
          /\ UNCHANGED prev
  /\ UNCHANGED <<records, lapsed, index, used, bound, kicked, timers,
                 preempts, tokens, events>>

\* What connection c is bound to, as a target.
Holder(c) == [sid |-> bound[c].sid, conn |-> c, epoch |-> bound[c].epoch]

\* Mutant: Preempt without the epoch check.
PreemptMatchesAnyEpoch(t) == Registered(t.conn) /\ bound[t.conn].sid = t.sid

\* Handler.Preempt's checks: the addressed connection is registered and still
\* bound to the addressed session and epoch.
PreemptMatches(t) ==
  /\ Registered(t.conn)
  /\ bound[t.conn].sid = t.sid
  /\ t.epoch # 0 => bound[t.conn].epoch = t.epoch

Preempted(t) ==
  IF PreemptMatches(t) THEN kicked \union {Holder(t.conn)} ELSE kicked

\* The end of Create and Resume.  In the critical section: the local maps, and
\* the local fallback for a previous connection Redis does not know of.  Then
\* the preempt handler (local Preempt, Publish) and the lifecycle events; they
\* touch no state the critical section of another handler reads or writes.
\* The epoch is 1 exactly for a session that was just created.
EnterSession(c) ==
  LET r == rec[c]
      g == Host[c]
      local == accountConnections[g][r.acct]
      t == IF prev[c] = NoRec /\ local # NoConn
           THEN [sid |-> NoSession, conn |-> local, epoch |-> 0]
           ELSE prev[c]
      entered == EventOf(IF r.epoch = 1 THEN "connected" ELSE "resumed", r)
  IN
  /\ pc[c] = "enter"
  /\ accountConnections' = [accountConnections EXCEPT ![g][r.acct] = c]
  /\ connections' = [connections EXCEPT ![c] = r.sid]
  /\ IF t # NoRec /\ t.conn # c
     THEN /\ kicked' = IF Host[t.conn] = g THEN Preempted(t) ELSE kicked
          /\ preempts' = preempts \union {t}
          /\ events' = events \union {EventOf("preempted", t), entered}
     ELSE /\ events' = events \union {entered}
          /\ UNCHANGED <<kicked, preempts>>
  /\ prev' = [prev EXCEPT ![c] = NoRec]
  /\ Goto(c, "bind")
  /\ UNCHANGED <<redis, used, rec, bound, timers, tokens, faults>>

\* Dispatcher after Create or Resume returned: BindSession, then send the
\* response.  The new resume token may or may not reach the client.
BindSession(c, delivered) ==
  LET s == rec[c].sid IN
  /\ pc[c] = "bind"
  /\ bound' = [bound EXCEPT ![c] = [sid |-> s, epoch |-> rec[c].epoch]]
  /\ tokens' = IF delivered THEN [tokens EXCEPT ![s] = rec[c].epoch] ELSE tokens
  /\ rec' = [rec EXCEPT ![c] = NoRec]
  /\ Goto(c, "open")
  /\ UNCHANGED <<redis, index, used, prev, kicked, timers, preempts, events,
                 faults>>

\* watchPreempt: every gateway hears the message; only the one that serves
\* the connection can match it.
DeliverPreempt(t) ==
  /\ t \in preempts
  /\ preempts' = preempts \ {t}
  /\ kicked' = Preempted(t)
  /\ UNCHANGED <<redis, handler, index, used, timers, tokens, events, faults>>

\* Redis pub/sub delivers at most once.
LosePreempt(t) ==
  /\ t \in preempts
  /\ faults < MaxFaults
  /\ faults' = faults + 1
  /\ preempts' = preempts \ {t}
  /\ UNCHANGED <<redis, handler, index, used, kicked, timers, tokens, events>>
-------------------------------------------------------------------------------
(* Resume: Manager.Resume                                                  *)

\* Get, the expiry check and the token check; a failed check only answers the
\* client.
ResumeGet(c, s) ==
  /\ pc[c] = "open"
  /\ records[s] # NoRec
  /\ s \notin lapsed
  /\ records[s].epoch = tokens[s]
  /\ tokens[s] < MaxEpoch
  /\ rec' = [rec EXCEPT ![c] = records[s]]
  /\ Goto(c, "resume")
  /\ UNCHANGED <<redis, index, used, prev, bound, kicked, timers, preempts,
                 tokens, events, faults>>

\* Mutants: the script checks that the key exists, or nothing at all.
ExistsOnly(expected) == records[expected.sid] # NoRec
Unconditional(expected) == TRUE

\* compareAndSwapScript: the stored text must still be the expected one.
Unchanged(expected) == records[expected.sid] = expected

\* Mutant: Resume forgets ConnectionEpoch++.
ResumeSameEpoch(r, c) == [r EXCEPT !.conn = c, !.state = "authenticated"]

ResumeRecord(r, c) ==
  [sid |-> r.sid, acct |-> r.acct, conn |-> c, epoch |-> r.epoch + 1,
   state |-> "authenticated"]

ResumeSwap(c, out) ==
  LET expected == rec[c]
      updated == ResumeRecord(expected, c)
      swapped == Unchanged(expected) /\ out # "error"
  IN
  /\ pc[c] = "resume"
  /\ Outcome(out)
  /\ records' = IF swapped THEN [records EXCEPT ![expected.sid] = updated]
                ELSE records
  /\ lapsed' = IF swapped THEN lapsed \ {expected.sid} ELSE lapsed
  /\ IF swapped /\ out = "ok"
     THEN Goto(c, "claim") /\ rec' = [rec EXCEPT ![c] = updated]
     ELSE Goto(c, "open") /\ rec' = [rec EXCEPT ![c] = NoRec]
  /\ UNCHANGED <<claims, index, used, prev, bound, kicked, timers,
                 preempts, tokens, events>>

-------------------------------------------------------------------------------
(* Disconnect: the deferred disconnectSession and Manager.disconnect       *)

\* Mutant: the epochs are compared the wrong way, a connection gives up on its
\* own record.
OwnsOlderEpoch(c, r) == r # NoRec /\ r.conn = c /\ r.epoch < bound[c].epoch

\* The checks between Get and the update.
StillOwns(c, r) == r # NoRec /\ r.conn = c /\ r.epoch = bound[c].epoch

DisconnectGet(c, out) ==
  LET r == records[bound[c].sid]
      goesOn == out = "ok" /\ StillOwns(c, r)
  IN
  /\ pc[c] = "get"
  /\ out # "applied"
  /\ Outcome(out)
  /\ Goto(c, IF goesOn THEN "detach" ELSE "gone")
  /\ rec' = IF goesOn THEN [rec EXCEPT ![c] = r] ELSE rec
  /\ UNCHANGED <<redis, index, used, prev, bound, kicked, timers,
                 preempts, tokens, events>>

Detached(r) == [r EXCEPT !.state = "reconnecting", !.conn = NoConn]

\* saveVersion drops the result of the swap: a lost race is not an error.
DisconnectSwap(c, out) ==
  LET expected == rec[c]
      swapped == Unchanged(expected) /\ out # "error"
  IN
  /\ pc[c] = "detach"
  /\ Outcome(out)
  /\ records' = IF swapped
                THEN [records EXCEPT ![expected.sid] = Detached(expected)]
                ELSE records
  /\ lapsed' = IF swapped THEN lapsed \ {expected.sid} ELSE lapsed
  /\ Goto(c, IF out = "ok" THEN "release" ELSE "gone")
  /\ UNCHANGED <<claims, index, used, rec, prev, bound, kicked, timers,
                 preempts, tokens, events>>

\* Mutant: the release script without its connection_id comparison.
ReleasesAny(claim, c) == claim # NoRec

\* releaseAccountScript: DEL only a claim made by this connection.
Releases(claim, c) == claim # NoRec /\ claim.conn = c

ReleaseAccount(c, out) ==
  LET a == rec[c].acct IN
  /\ pc[c] = "release"
  /\ Outcome(out)
  /\ claims' = IF out # "error" /\ Releases(claims[a], c)
               THEN [claims EXCEPT ![a] = NoRec] ELSE claims
  /\ Goto(c, IF out = "ok" THEN "unindex" ELSE "gone")
  /\ UNCHANGED <<records, lapsed, index, used, rec, prev, bound,
                 kicked, timers, preempts, tokens, events>>

\* The local maps lose every connection of the session, the event is emitted
\* and the expiry goroutine is started.
UnindexSession(c) ==
  LET s == rec[c].sid
      g == Host[c]
      local == {d \in Conn : Host[d] = g /\ connections[d] = s}
  IN
  /\ pc[c] = "unindex"
  /\ connections' = [d \in Conn |->
                       IF d \in local THEN NoSession ELSE connections[d]]
  /\ accountConnections' =
       [accountConnections EXCEPT ![g][rec[c].acct] =
          IF @ \in local THEN NoConn ELSE @]
  /\ events' = events \union {EventOf("disconnected", rec[c])}
  /\ timers' = timers \union {[sid |-> s, epoch |-> rec[c].epoch, host |-> g,
                               phase |-> "armed"]}
  /\ rec' = [rec EXCEPT ![c] = NoRec]
  /\ Goto(c, "gone")
  /\ UNCHANGED <<redis, used, prev, bound, kicked, preempts, tokens,
                 faults>>
-------------------------------------------------------------------------------
(* Expiry: Manager.expire and the TTL of the Redis keys                    *)

\* The record is the one the timer's disconnect has written.
AwaitsExpiry(t) ==
  /\ records[t.sid] # NoRec
  /\ records[t.sid].state = "reconnecting"
  /\ records[t.sid].epoch = t.epoch

\* The timer fires at the ExpireAt of the record its disconnect has written.
ExpireGet(t, out) ==
  /\ t \in timers
  /\ t.phase = "armed"
  /\ AwaitsExpiry(t) => t.sid \in lapsed
  /\ out # "applied"
  /\ Outcome(out)
  /\ timers' = (timers \ {t}) \union
               (IF out = "ok" /\ AwaitsExpiry(t)
                THEN {[t EXCEPT !.phase = "delete"]} ELSE {})
  /\ events' = IF out = "ok" /\ records[t.sid] = NoRec
               THEN events \union {EventOf("expired", t)} ELSE events
  /\ UNCHANGED <<redis, handler, index, used, kicked, preempts, tokens>>

\* DEL without a condition; the ReleaseAccount(account, "") that follows
\* matches no claim, since every claim names its connection.
ExpireDelete(t, out) ==
  /\ t \in timers
  /\ t.phase = "delete"
  /\ Outcome(out)
  /\ records' = IF out = "error" THEN records
                ELSE [records EXCEPT ![t.sid] = NoRec]
  /\ lapsed' = IF out = "error" THEN lapsed ELSE lapsed \ {t.sid}
  /\ timers' = timers \ {t}
  /\ events' = IF out = "ok" THEN events \union {EventOf("expired", t)}
               ELSE events
  /\ UNCHANGED <<claims, handler, index, used, kicked, preempts, tokens>>

\* The record's ExpireAt passes.
Lapse(s) ==
  /\ records[s] # NoRec
  /\ s \in Lapsing \ lapsed
  /\ lapsed' = lapsed \union {s}
  /\ UNCHANGED <<records, claims, handler, index, used, kicked, timers,
                 preempts, tokens, events, faults>>

\* Mutant: the disconnect's SET carries no TTL, only live records expire.
EvictLiveOnly(s) ==
  /\ s \in lapsed
  /\ records[s].state = "authenticated"
  /\ records' = [records EXCEPT ![s] = NoRec]
  /\ lapsed' = lapsed \ {s}
  /\ UNCHANGED <<claims, handler, index, used, kicked, timers, preempts,
                 tokens, events, faults>>

\* Redis evicts a key some time after its TTL is over.
Evict(s) ==
  /\ s \in lapsed
  /\ records' = [records EXCEPT ![s] = NoRec]
  /\ lapsed' = lapsed \ {s}
  /\ UNCHANGED <<claims, handler, index, used, kicked, timers, preempts,
                 tokens, events, faults>>

\* A claim expires together with the record it was made with.
EvictClaim(a) ==
  LET r == claims[a] IN
  /\ r # NoRec
  /\ ~(records[r.sid] = r /\ r.sid \notin lapsed)
  /\ claims' = [claims EXCEPT ![a] = NoRec]
  /\ UNCHANGED <<records, lapsed, handler, index, used, kicked, timers,
                 preempts, tokens, events, faults>>

\* No message was handled yet: the socket may as well be opened later.
Fresh(c) == pc[c] = "open" /\ bound[c] = Unbound

\* A gateway process dies: its goroutines and local maps are lost, nothing is
\* disconnected.  Fresh connections are those its successor will serve.
Crash(g) ==
  LET lost == {c \in Conn : Host[c] = g /\ ~Fresh(c)} IN
  /\ faults < MaxFaults
  /\ faults' = faults + 1
  /\ lost # {}
  /\ pc' = [c \in Conn |-> IF c \in lost THEN "gone" ELSE pc[c]]
  /\ rec' = [c \in Conn |-> IF c \in lost THEN NoRec ELSE rec[c]]
  /\ prev' = [c \in Conn |-> IF c \in lost THEN NoRec ELSE prev[c]]
  /\ connections' =
       [c \in Conn |-> IF c \in lost THEN NoSession ELSE connections[c]]
  /\ accountConnections' =
       [accountConnections EXCEPT ![g] = [a \in Account |-> NoConn]]
  /\ timers' = {t \in timers : t.host # g}
  /\ UNCHANGED <<redis, used, bound, kicked, preempts, tokens, events>>

-------------------------------------------------------------------------------
\* Steps a running handler takes on its own.
HandlerStep(c) ==
  \/ \E out \in Outcomes : ClaimAccount(c, out)
  \/ EnterSession(c)
  \/ \E delivered \in BOOLEAN : BindSession(c, delivered)
  \/ \E out \in Outcomes : ResumeSwap(c, out)
  \/ \E out \in Outcomes : DisconnectGet(c, out)
  \/ \E out \in Outcomes : DisconnectSwap(c, out)
  \/ \E out \in Outcomes : ReleaseAccount(c, out)
  \/ UnindexSession(c)

Next ==
  \/ \E c \in Conn : Close(c) \/ HandlerStep(c)
  \/ \E c \in Conn, a \in Account, s \in Session, out \in Outcomes :
       LoginCreate(c, a, s, out)
  \/ \E c \in Conn, s \in Session : ResumeGet(c, s)
  \/ \E t \in preempts : DeliverPreempt(t) \/ LosePreempt(t)
  \/ \E t \in timers, out \in Outcomes :
       ExpireGet(t, out) \/ ExpireDelete(t, out)
  \/ \E s \in Session : Lapse(s) \/ Evict(s)
  \/ \E a \in Account : EvictClaim(a)
  \/ \E g \in Gateway : Crash(g)

Spec == Init /\ [][Next]_vars

\* The handler goroutines, the 100ms close timers, the expiry goroutines and
\* Redis keep running.  Of the two TTLs only the short grace period is assumed
\* to pass; clients are free to do nothing.
Fairness ==
  /\ \A c \in Conn : WF_vars(HandlerStep(c)) /\ WF_vars(KickClose(c))
  /\ \A s \in Session :
       /\ WF_vars(records[s] # NoRec /\ records[s].state = "reconnecting"
                  /\ Lapse(s))
       /\ WF_vars(Evict(s))
  /\ WF_vars(\E t \in timers, out \in Outcomes :
               ExpireGet(t, out) \/ ExpireDelete(t, out))

FairSpec == Spec /\ Fairness

-------------------------------------------------------------------------------
(* Properties                                                              *)

\* A resume token is good for one connection: whatever two Resume calls, a
\* login and late closes do, no two connections are ever bound to the same
\* epoch of a session.
OneConnectionPerEpoch ==
  \A c, d \in Conn :
    c # d /\ bound[c].sid # NoSession /\ bound[c].sid = bound[d].sid
      => bound[c].epoch # bound[d].epoch

\* The connection is closed; its goroutine is disconnecting or done.
Ended(c) == pc[c] \in {"get", "detach", "release", "unindex", "gone"}

Live(s) == records[s] # NoRec /\ records[s].state = "authenticated"

\* The close of an old connection never puts a session into `reconnecting`
\* that a newer connection has resumed (services/gateway/README.md): only the
\* end of the connection named in the record does.
StaleCloseHarmless ==
  [][\A s \in Session :
       Live(s) /\ records'[s] # NoRec /\ records'[s].state = "reconnecting"
         => /\ Ended(records[s].conn)
            /\ bound[records[s].conn] = [sid |-> s, epoch |-> records[s].epoch]
    ]_vars

\* An account's claim disappears only with its connection or with its TTL,
\* never by the disconnect of a connection it has superseded.
ClaimReleasedByOwner ==
  [][\A a \in Account :
       claims[a] # NoRec /\ claims'[a] = NoRec
         => \/ Ended(claims[a].conn)
            \/ records[claims[a].sid] # claims[a]
            \/ claims[a].sid \in lapsed]_vars

\* A session that was deleted or evicted never comes back: a swap that was
\* prepared before cannot recreate it.
NoResurrection ==
  [][\A s \in used : records[s] = NoRec => records'[s] = NoRec]_vars

\* A preemption closes only superseded connections: a connection that got the
\* account back, on the same socket, is not closed by the older preemption
\* message still under way.
PreemptSparesClaimant ==
  \A k \in kicked, a \in Account :
    claims[a] # NoRec => TargetOf(claims[a]) # k

-------------------------------------------------------------------------------
(* Inductive strengthenings                                                *)

\* The handler of c has written rec[c] and has not bound it yet.
Pending(c) == pc[c] \in {"claim", "enter", "bind"}

\* Connection c has, or is about to have, epoch e of session s.
Holds(c, s, e) ==
  \/ bound[c] = [sid |-> s, epoch |-> e]
  \/ Pending(c) /\ rec[c].sid = s /\ rec[c].epoch = e

\* An id that was not drawn names nothing.
FreshIds ==
  \A s \in Session \ used :
    /\ records[s] = NoRec /\ tokens[s] = 0
    /\ \A c \in Conn, e \in 1..MaxEpoch : ~Holds(c, s, e)

\* No client has a token newer than the record.
TokensBehind ==
  \A s \in Session :
    records[s] # NoRec => records[s].sid = s /\ tokens[s] <= records[s].epoch

\* No connection holds an epoch newer than the record.
HoldersBehind ==
  \A c \in Conn, s \in Session, e \in 1..MaxEpoch :
    Holds(c, s, e) /\ records[s] # NoRec => e <= records[s].epoch

HoldersDiffer ==
  \A c, d \in Conn, s \in Session, e \in 1..MaxEpoch :
    Holds(c, s, e) /\ Holds(d, s, e) => c = d

\* While c's response is not sent, nobody else can move its session on.
PendingNewest ==
  \A c \in Conn :
    Pending(c) =>
      /\ rec[c] # NoRec /\ rec[c].conn = c
      /\ tokens[rec[c].sid] < rec[c].epoch
      /\ records[rec[c].sid] # NoRec
           => records[rec[c].sid].epoch = rec[c].epoch
      /\ \A d \in Conn : Pending(d) /\ rec[d].sid = rec[c].sid => c = d

\* What the local variables of a handler hold between its Redis calls.
HandlerLocals ==
  \A c \in Conn :
    /\ pc[c] = "resume" =>
         /\ rec[c] # NoRec
         /\ rec[c].epoch <= tokens[rec[c].sid]
         /\ rec[c].epoch < MaxEpoch
    /\ pc[c] \in {"detach", "release", "unindex"} =>
         /\ rec[c] # NoRec
         /\ StillOwns(c, rec[c])
         /\ rec[c].sid = bound[c].sid
    /\ pc[c] = "get" => bound[c].sid # NoSession
    /\ bound[c].sid = NoSession <=> bound[c].epoch = 0

\* The inductive invariant behind OneConnectionPerEpoch: who owns a session's
\* epochs at every point between the Redis calls of login, resume and close.
OwnershipInv ==
  /\ FreshIds
  /\ TokensBehind
  /\ HoldersBehind
  /\ HoldersDiffer
  /\ PendingNewest
  /\ HandlerLocals

\* Everything that names a claim as superseded.
Superseded ==
  preempts \union kicked \union {prev[c] : c \in {d \in Conn : prev[d] # NoRec}}

\* A target names a session that exists together with its epoch, or neither.
\* It is an epoch the session has reached, and not that of a handler which is
\* about to claim.
Reached(t) ==
  /\ t.sid = NoSession <=> t.epoch = 0
  /\ t.sid # NoSession =>
       /\ t.sid \in used
       /\ records[t.sid] # NoRec => t.epoch <= records[t.sid].epoch
       /\ \A c \in Conn :
            pc[c] = "claim" /\ rec[c].sid = t.sid => t.epoch < rec[c].epoch

\* The inductive invariant behind PreemptSparesClaimant: an account is never
\* claimed twice with the same epoch of a session, so a claim that is current
\* is not addressed by any preemption under way.
ClaimInv ==
  /\ \A t \in Superseded : Reached(t)
  /\ \A a \in Account :
       claims[a] # NoRec =>
         /\ claims[a].conn # NoConn
         /\ Reached(TargetOf(claims[a]))
         /\ TargetOf(claims[a]) \notin Superseded
         /\ \A b \in Account \ {a} :
              claims[b] # NoRec => TargetOf(claims[b]) # TargetOf(claims[a])

-------------------------------------------------------------------------------
(* Liveness, and what the code does not guarantee                          *)

\* A closed connection gives its session back: once the goroutine has left
\* readPump, the record stops naming it, unless a Redis call fails or the
\* gateway crashes.
CloseDetaches ==
  \A c \in Conn, s \in Session, e \in 1..MaxEpoch :
    (Ended(c) /\ bound[c] = [sid |-> s, epoch |-> e])
      ~> (faults > 0 \/ ~(Live(s) /\ records[s].conn = c /\ records[s].epoch = e))

\* The grace period ends: a session in `reconnecting` is resumed or removed,
\* even when the gateway that armed the timer is gone.
GraceEnds ==
  \A s \in Session :
    (records[s] # NoRec /\ ~Live(s)) ~> (records[s] = NoRec \/ Live(s))

\* A session that was resumed in time is not removed before its new TTL ends.
ResumedSessionSurvives ==
  [][\A s \in Session :
       Live(s) /\ s \notin lapsed => records'[s] # NoRec]_vars
=============================================================================
