# A formal model of the game server

TLA+ specifications of the stateful parts of the server: what their handlers do
step by step, what must hold however the steps interleave and fail, TLC
configurations that check it on small instances, and TLAPS proofs of the
central properties for every instance. `PROJECT.json` lists the runs, the
source lines each definition models, the hazards, the findings and the
theorems.

## The system

One Go binary runs any of four services. Clients reach the **Gateway** over
WebSocket; the services talk over bidirectional gRPC streams.

| Part | State | Operations | Module |
|---|---|---|---|
| Gateway sessions | Redis session and account keys, connections | login, resume, close, preempt, expire | `GatewaySession` |
| From a message to its answer | token bucket, stream, requests, circuit | allow, dispatch, request, retry, answer | `LoginCalls`, `CircuitBreaker` |
| Lifecycle events | a queue per gateway, seen events per service | publish, deliver, accept, close | `SessionLifecycle` |
| Draining and shutdown | flags, connections, send queues | accept, notify, close, stop | `GatewayDrain` |
| UserCenter idempotency | one record per key, a lease | find, reserve, execute, renew, complete, release, wait | `Idempotency` |
| Accounts, tokens, players | accounts, identities, refresh tokens, players | authenticate, refresh, revoke, ensurePlayer, link | `Enrollment` |
| Lobby settlements | assets, ledger, snapshots | settle, replay, restore | `Settlement`, abstractly `Ledger` |
| Battle rooms | rooms and deltas in memory, room snapshots | create, mutate, restore | `BattleRoom` |
| Stream clients | known instances, clients, monitors | discover, watch, connect, monitor, remove, close | `StreamClients` |
| Id generator | last millisecond, sequence | next, parse | `Snowflake` |
| Document model | a tree of nodes, dirty paths | set, append, delete, save, load | `Document` |

They interact at login: the Gateway authenticates a client through the breaker
at the UserCenter (a request made idempotent by its key), has the Lobby ensure
a player, which is linked back to the account, and then creates the session.
The session manager tells Lobby and Battle who is connected. Battle submits
settlements to the Lobby; after a reconnect the client is restored from the
Lobby's and the Battle's snapshots.

What makes it hard: sessions are moved by several gateways with separate Redis
calls; MongoDB transactions may commit although the caller sees an error;
leases end under their owners; processes crash between two calls; streams
break with requests on them; clocks are set back.

## Modules

Every module has one action per atomic step of the code: a Redis or MongoDB
call, a transaction, one hold of a mutex, or one message put on or taken from a
channel or stream. A process's position in its handler is a `pc` or `step`.
Payloads, ids and times are model values; a deadline is whether it has passed.
Faults (failed calls, calls that took effect although they are reported as
failed, lost messages, crashes) are counted against `MaxFaults`, so they happen
at any point.

**GatewaySession.** `records` and `claims` are the Redis keys, `bound` the
binding of each connection, `timers` the expiry goroutines, `preempts` the
pub/sub messages under way. Login is `LoginCreate`, `ClaimAccount`, the entry
into the local index and `BindSession`; resume and close are split the same
way. A resume token is rotated exactly when the epoch grows, so it is the pair
of session and epoch.

**CircuitBreaker.** Callers pass `allow`, run the retry loop and report to
`complete`; both change the state under the mutex and notify the observer
after it. The gauge the observer sets is not kept.

**LoginCalls** extends it with the connections that are its callers. A read
loop takes a token, dispatches a message, asks UserCenter over a stream (`link`,
`inbox`, `outbox`, the response channel `answer` and the `done` channel `cut`),
goes on to the Lobby and the session manager, and answers with what
`ErrorMapper` makes of the outcome. The stream breaks at any moment and is
opened again.

**SessionLifecycle.** The publisher's bounded queue and its goroutine, the
deliveries to one service after the other with their retries, the order in
which streams, also broken and new ones, hand events over, and the consumer with
its two maps, `eventIDs` and `latestEpoch`, that drops what it knows or what is
older. `latest` is a history variable, the event about a client that a service
accepted last. A reduced session manager supplies the
events.

**GatewayDrain.** `main` from start to exit, with `Range` over the connection
map one connection at a time, and the handlers, send queues and write pumps of
the connections.

**Idempotency.** Requests with one key on several instances, around one
document. `token` tells a login, which carries none, from a refresh, which
uses one up.

**Enrollment.** The authentication core, ensurePlayer and LinkPlayer, as the
Gateway calls them one after the other.

**Settlement.** Settlement handlers, the transaction that writes ledger,
assets and snapshot together, replays, restores that rebuild a missing
snapshot, and the relay of what they found to the client. `history` records
what each version stood for.

**Ledger.** What Settlement promises, without handlers, lookups or
transactions: balances change in one step and once per id, a request is refused
only for a reason that holds at that moment, an answer tells the balances of
one moment. `Settlement` instantiates it with a refinement mapping
(`ImplementsLedger`).

**BattleRoom.** One room in memory and in MongoDB, the conversions between
them, its ring of deltas and the restores that read it in up to three critical
sections.

**StreamClients.** The watcher and one monitor per stream, against a registry
whose instances start, stop and move.

**Snowflake.** Generators on several nodes with clocks that jump.

**Document.** Schemas, nodes, Maps and Lists, and the dirty paths that one
`$set` writes. Nodes are objects of a heap, because `Save` keeps a reference.

Each has an MC module with its constants and symmetry sets. Symmetry is used
in runs of safety properties only, over sets that no definition orders.

## Runs

| Run | Instance | Shows |
|---|---|---|
| `session_faults` | 2 gateways with a connection each, 1 session, 3 epochs, 1 fault, fair | an epoch has one connection; preemptions spare the claimant; stale closes change neither session nor claim; no deleted session comes back; a reconnecting session is resumed or removed; without a fault a close gives the session back |
| `breaker` | 2 connections, threshold 2, 2 attempts, burst 1, fair | answers reach their requests; retry is advised only after an outage; a half-open circuit has the call that decides it; every message is answered; the circuit moves on; the handlers implement `CircuitBreaker` |
| `lifecycle` | 2 gateways with a connection each, queue of 1, 2 attempts, 1 fault, a shutdown, fair | no event disappears unreported; a service that was told everything knows the epoch; Close returns |
| `gateway_drain` | 2 connections, send queue of 1, fair | connections are offered the notice before CloseAll; only late ones stay open; the process exits |
| `idempotency` | 2 requests, 2 instances, 2 faults, 1 expiry, fair | successful answers are the recorded one; without a fault the operation runs once; every request returns |
| `enrollment` | 3 logins, 2 installations, 2 passwords, 2 faults | logins agree on account and player, leave them linked, only one password holds, and a refresh token is exchanged at most once |
| `settlement` | 3 requests, 2 players, 3 ids, 1 fault, 2 restores each, one missing snapshot, two bodies under one id | balances are the ledger's sums, a version stands for one state, clients never go back, `Ledger` is implemented |
| `room_restore` | 2 players, callbacks of 2 operations, ring of 2, 4 versions, 2 faults | a restore yields the room of its version, and what clients saw is durable |
| `stream` | 1 instance, 2 launches, 1 fault, Close, fair | no stream is leaked, every client is monitored, a known instance gets a client again while dials succeed |
| `snowflake` | 2 nodes, sequences of 2, 3 milliseconds | ids are fresh and Parse inverts Next |
| `document` | 2 keys, 2 values, lists of 2, several types | dirty paths never overlap, and one write of them stores every saved change |
| `session_expiry_race` | 2 connections on 1 gateway | counterexample: the expiry deletes a session resumed after it was read (a finding in `PROJECT.json`) |

### What the properties leave out

Some properties name an exception. Each stands for behaviour of the code that
TLC reaches as soon as the exception is dropped:

- `CloseDetaches` claims nothing after a fault: a close whose Redis call failed
  is not retried (`session.go:262`). The local index is in no property: a close
  that lost its swap to a resume still clears the resumed connection's entry
  (`session.go:287`).
- The read loop passes a `gin.Context` whose `Done` is nil, so a request to
  UserCenter has no deadline; `EveryMessageAnswered` holds because a broken
  stream ends its requests, and only streams whose server goes on answering are
  left. A send error counts as a success for the breaker (`client.go:103`), and
  it and an open circuit are reported to the client as a failed authentication,
  not as temporary: `RetryMeansOutage` is not an equivalence.
- `ConsumersCatchUp` claims the epoch only once a stream broke: two events of
  one epoch may then be taken in the opposite order, and the consumer accepts
  both (`session_lifecycle.go:52`).
- `OnlyLateStayOpen` names the connections that stay open: those that passed
  the accepting check before the drain and were stored during or after
  `CloseAll` (`websocket.go:155`). The process exits without waiting for
  handlers, so the sessions of closed connections may be left to their grace
  period.
- `ExecutedOnce` claims nothing after a fault; one of them is a renewal that
  the end of the execution cuts off, and whose error replaces the success
  (`domain_auth_component.go:470`). A refresh that committed before a crash
  fails when it is retried, because its token is used up
  (`domain_auth_component.go:486`).
- `AnsweredIsApplied` (proved, not part of a run) speaks of ids with one body: two bodies that race under
  one id are not compared by `replaySettlement` (`player_component.go:199`). A
  replay answers with the balance of now, not of its settlement; hence
  `VersionsAreStates` relates balance and version only.
- `SnapshotIsCurrent` (proved as well) and `ClientNeverGoesBack` speak of players whose snapshot
  was there at first: a rebuild may replace a newer one
  (`player_component.go:251`).
- The room's properties hold until its first *breach*, recorded in the history
  variable `breaches`: a callback that fails at its second operation leaves the
  first in memory (`torn`, `room_manager.go:64`; the repository's callbacks
  have one), a room is created again after a restart (`recreated`,
  `room_manager.go:42`, where the duplicate check looks at memory only), or a
  restore installs a snapshot it read before the room changed (`stale`,
  `room_manager.go:134`). Each of the three by itself violates
  `SameVersionSameRoom`, and the run shows that nothing else does. The run
  stops at a breach (`UpToABreach`), where nothing is claimed any more.
- `KnownIsConnected` excepts failed dials, since a monitor dials once
  (`manager.go:176`), and speaks of known instances, since one that registers
  between Discover and Watch is not seen (`manager.go:99`).
- `SavedIsStored` excuses what was not saved (`unsaved`): `Delete` and `Clear`
  of Maps and Lists report nothing, and a List's `Delete` leaves the later
  nodes with the index paths they had (`list.go:187`). A handle kept to a node
  that was replaced, and keys with a dot, are outside the model.

**Bounds.** Two connections and three epochs are what a race of a resume with a
close, another resume and a later login needs; they are on two gateways, one of
which may crash. Two connections share a stream and a probe of the breaker. A
queue of one place is full while one event is delivered. Two requests with one
key are an owner and one that waits, takes over or replays. A ring of two with
four versions is filled, trimmed and missed. Three requests are a settlement,
its retry and another settlement or body. A stream breaks without a fault when
its process ends; the one fault is a break between live processes, a failed
dial or a failure of the registry. `MaxStreams` numbers are used again when a
stream is over; six are never all in use at once. In `Snowflake` the widths are
2 and 3 instead of 4096 and 1024, so that both parts overflow.

`CHECK_DEADLOCK FALSE` is used where a finite set of requests or connections is
served, or a process exits, and the instance then stops.

**Fairness.** Weak fairness for the steps of running handlers and goroutines
(they are scheduled, and every Redis and MongoDB call returns), for timers and
Redis evictions whose time has come, for the restart of a crashed UserCenter
instance, for the end of a lease nobody renews, for a breaker's reset timeout,
for the deadline of the stop context, for the refill of a bucket, and for a
stream and its server (`Transport`). Strong fairness for taking the per-key
lock in `Idempotency`: Go's mutex hands itself over to a waiter that starves.
No client is ever assumed to do anything, with one exception: the breaker
leaves `open` only when somebody calls, so `CircuitMovesOn` assumes that some
client logs in again and again (strong fairness of `DispatchLogin`). In
`StreamClients` only streams whose peer is gone are bound to break.

## Proofs

| Module | Proves |
|---|---|
| `GatewaySession_proofs` | `TypeOK`, `OneConnectionPerEpoch`, `PreemptSparesClaimant`, `StaleCloseHarmless`, `NoResurrection`, `ClaimReleasedByOwner` |
| `LoginCalls_proofs` | for `CircuitBreaker`: `TypeOK`, `HalfOpenIsDecided`; for the login path: `ImplementsBreaker`, hence `HalfOpenIsDecided`, `RetryMeansOutage`, `AnswersMatch`; for `GatewayDrain`: `DrainTypeOK`, `NoticeBeforeClose`, `OnlyLateStayOpen`; for `StreamClients`: `StreamTypeOK`, `OpenStreamsAreOwned`, `ClientsAreMonitored` |
| `SessionLifecycle_proofs` | `TypeOK`, `EventsAccounted`, `ConsumersCatchUp` |
| `Idempotency_proofs` | `TypeOK`, `AnswersAreRecorded`, `ExecutedOnce` |
| `Enrollment_proofs` | `TypeOK`, `LoginsAgree`, `LoginIsComplete`, `PasswordsHold`, `TokensRotateOnce`; for `Snowflake`: `IdgenTypeOK`, `IdsAreFresh`, `ParseInvertsNext` |
| `Settlement_proofs` | `TypeOK`, `LedgerInv` (no overdraft; entries are submissions and final), `AnsweredIsApplied`, `SnapshotIsCurrent`, `ClientNeverGoesBack`, `VersionsAreStates`, `LedgerBalances`, `ImplementsLedger` |
| `BattleRoom_proofs` | `TypeOK`, `SameVersionSameRoom`, `SeenIsDurable`, `RestoreYieldsRoom` |
| `Document_proofs` | `DirtyPathsDisjoint`, `SavedIsStored` |

Each module also states its type invariant: `TypeOK`, or `LoginTypeOK`,
`DrainTypeOK`, `StreamTypeOK`, `IdgenTypeOK` and `DocTypeOK` in modules that a
proof module extends together with another. The runs leave it out, because the
proofs settle it, by itself or as a conjunct of the inductive invariant, for all
modules but `LoginCalls` and `Document`. TLC finds it true of every run's
instance when it is added to the configuration, and the same of the inductive
invariants of `Enrollment`, `Idempotency`, `SessionLifecycle`, `StreamClients`
and `Document`. The one of `BattleRoom` quantifies over all histories and cannot
be evaluated.

The proofs use the named ASSUMEs of the modules only: null values are outside
the sets they extend (`NoneAssumption` of `Enrollment` also says that no set of
players is the missing account, `NoRoomAssumption` of `BattleRoom` that neither
a room nor a document is the missing room, `NoEventAssumption` of
`SessionLifecycle` that no event is the missing one), bounds are naturals,
thresholds, widths and capacities are positive, there is an instance to
connect to and a service to tell. `TypeAssumption` of `Document` says what Go
says of struct types, that the fields of a struct are finitely many and have
different names, and fixes the part that is modelled, in which the elements of
Maps and Lists have no fields that are nodes.

*Sessions.* `OneConnectionPerEpoch` is not inductive: a handler between its
swap and `BindSession` owns an epoch it is not bound to yet. `OwnershipInv`
counts it as a holder (`HoldersDiffer`), says that no holder and no token is
ahead of the record (`HoldersBehind`, `TokensBehind`), that a pending handler
holds the newest epoch (`PendingNewest`) and that drawn ids are fresh. A
successful swap then moves to an epoch nobody holds. `ClaimInv` says of every
message, kick and remembered predecessor that the claim it names was reached
and is no account's current claim; a new claim has an epoch not reached
before, so it can never be named by an old message.

*Breaker and logins.* The invariant follows the call that moved the breaker to
half-open until it completes, and shows that being away from closed implies a
full failure count. Every step of `LoginCalls` is a step of a breaker's caller
or none, so the result carries over. `AnswersMatch` needs to know that the
stream has at most one request or answer of a connection (`OnceOnStream`) and
only while its request waits (`StreamIsAwaited`): a request that ended would
otherwise find its late answer taken for the next one's. The stream's end empties
it (`DoneIsEmpty`) before a retry uses a new one.

*Drain.* `NoticeBeforeClose` needs that `Range` reaches what was stored when it
began (`NotifyReaches`, `CloseReaches`) and that nothing is stored before the
process serves (`NothingBeforeServing`).

*Lifecycle events.* `LifecycleInv` follows an event from the session manager to
the services. `SessionsOK` gives every epoch of a session one connection,
`PublishedOK` says at which step of that connection its events exist,
`PlacesOK` that an event is only in the publisher and on the streams of that
connection's gateway, and `DeliveryOK` that a service deliver is done with has
a report and the event is on its way to it, accepted or outdated: that is more
than `EventsAccounted`, which does not say where a delivered event is.
`ConsumerOK` ties the service's `latestEpoch` to the events it accepted. The
newest epoch's event then cannot be missing at a service that was told
everything. That the service also knows the client's state rests on order:
while no stream broke, the event that begins an epoch is nowhere behind the
one that ends it, in the queue, in the publisher's hands, on a stream or at the
service (`OrderOK`), although deliveries are repeated.

*Idempotency.* `AnswerInv` says that the document carries its owner's hash and
a granted response, and that a request about to take a reservation over has the
hash of the one it read. `ExecutedOnce` needs `Exclusive`: until a fault or an
expiry, a running request holds the reservation with its lease, and what was
granted is about to be recorded by its own request or is recorded.

*Enrolment.* `DocumentInv` is what unique indexes and transactions make of the
collections, `TokenInv` that every token's predecessor is still there,
`FreshInv` that ids a login has not used are in no document, and `LoginInv`
what a login carries from call to call. A duplicate key that a racing login
causes is then always followed by a find that succeeds.

*Settlement.* A handler that was told its insert collided finds the entry,
because entries never change. When the id has one body (`OneBody`) that entry
is the submitted one. A player whose snapshot was there at first never has it
rebuilt: every settlement writes assets and snapshot in one transaction
(`SnapshotInv`), and the version a client holds is at most the current one
(`SeenInv`). For `VersionsAreStates`, `HistoryInv` says that the history is as
long as the version and ends in the assets, `CopiesInv` and `AnswersInv` that
every copy under way, rebuilt ones included, is an entry of it. `LedgerBalances`
is about a sum that the model folds over the set of a player's entries.
`SumAdds` shows, by induction over finite sets, that the fold does not depend on
the order in which it takes them and grows by what an added entry is about; a
commit adds one entry and the same amount. The refinement
maps a handler's position to what `Ledger` knows of the request; the commit is
`Apply`, the read that builds an answer is the moment the answer tells, the
lookups stutter.

*Rooms.* `RoomInv` says that while nothing was breached there is a history, a
room for every version, of which memory, document, clients and restores under
way hold pieces, and the ring holds the differences of consecutive versions.
The history is not a variable of the model: it is quantified, and each step that
makes a new version gives the extended one. The document may be one version
ahead of memory, after a write that took effect and was reported as failed; the
next write overwrites it or a restart makes it the room, and until then no
client has seen it. `ComposeDeltas` is a
fold over the ring. By induction over its length, composing the deltas from one
version to another and applying the result to the first room of the history gives
the second, which is `RestoreYieldsRoom`.

*Stream clients.* A connect that has dialled holds its stream alone (`HeldAlone`), and a
client in the table is a stream to its instance whose monitor waits for it
(`Served`). Together with `OpenStreamsAreOwned` this is inductive: whatever
overlaps at the mutex, one of the two streams is closed by whoever finds the
other there.

*Ids.* A node's last id is the encoding of its last millisecond and sequence,
and bounds all its earlier ids. Encodings grow in that pair and determine the
node, by two lemmas on quotients; the same lemmas give `ParseInvertsNext`.

*Documents.* `SavedIsStored` says what a write would do, so its invariant says
why: a place that is neither below a dirty path nor excused by `unsaved` holds
the same in memory and in the database (`SyncOK`). `DirtyOK` adds that a dirty
element that is not excused refers to the object the document has there,
although a `Set` may have replaced it and a List's elements may have moved, and
`ObjectsOK` that no object is at two places and each has a path of its container. Two prefixes of
one path are comparable (`PrefixesCompare`); hence of disjoint dirty paths at
most one covers a place, and the write determines what it holds. A new object
differs from all that are in the document or still referred to by a dirty path,
which needs that these are finitely many (`HeapOK`).

### Only model-checked

Liveness (`CloseDetaches`, `GraceEnds`, `CircuitMovesOn`,
`EveryMessageAnswered`, `CloseReturns`, `ShutdownEnds`, `EveryRequestReturns`,
`KnownIsConnected`) and ENABLED are outside what the installed backends prove.
The library's induction theorems take an operator as a parameter, which the
backends cannot instantiate; induction over numbers and finite sets is done
with lemmas about sets instead (`NatInduct`, `SubsetInduct`), and that is enough
for folds. Two type invariants have no proof. `LoginTypeOK` bounds the requests
on a stream by the number of connections; that each has at most one there is
proved (`OnceOnStream`). `DocTypeOK` adds to the proved `ObjectsOK` that values
stay values, and that an element of a List never has an index path before its
place.

## Not modelled

- `MemoryStore`, which only tests use; the idempotency path without a
  coordinator, which the wiring never takes; most methods of
  `usercenter/domain/account.go`, which nothing calls;
- the stream server's table of peers: nothing reads it (`Server.Peer` has no
  caller), and the end of an old stream deletes the entry of its successor
  (`server.go:56`);
- token expiry (a revocation is the same to the model), account status,
  password hashing;
- the order of a restore's event and the login's own response: both go through
  one send queue, and the event may come first (`dispatcher.go:109`);
- copies (`DeepCopy`) and JSON of the document model, Maps and Lists of nodes
  that hold nodes themselves; the package is imported by no service;
- configuration, logging, metrics, error texts, wire encodings, generated
  protocol code (a third of the repository's lines), the load test;
- MongoDB, Redis, etcd and gRPC themselves, beyond what the calls in the code
  see of them;
- a restarted id generator: nothing is persisted, and its ids are fresh only
  if the clock has moved on.
