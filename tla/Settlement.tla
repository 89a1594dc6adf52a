----------------------------- MODULE Settlement -----------------------------
(***************************************************************************)
(* The Lobby's player state: the asset balances, the ledger of settlements *)
(* and the snapshot a reconnecting player is restored from, as             *)
(* services/lobby/components/player_component.go keeps them in MongoDB.    *)
(*                                                                         *)
(* Battle submits settlements and retries them under the same settlement   *)
(* id.  Several handlers run at once, and every MongoDB call that is not   *)
(* part of a transaction is a step of its own; a transaction is one step   *)
(* (all of its writes or none).  A call may fail, and a commit may take    *)
(* effect although the handler is told that it failed.                     *)
(***************************************************************************)
EXTENDS Integers, Sequences, FiniteSetsExt

CONSTANTS
    Player,        \* player ids; their documents exist
    Asset,         \* asset types
    SettlementId,  \* settlement ids
    Delta,         \* the changes a settlement may ask for
    Submission,    \* the pairs <<settlement id, body>> Battle submits
    Request,       \* settlement handlers; each serves one request
    Missing,       \* the players whose snapshot is missing at first
    MaxFaults,     \* bound on failed calls
    MaxRestores,   \* bound on restores per player
    NoEntry,       \* no ledger entry with that settlement id
    NoSnapshot     \* no snapshot document, or nothing restored yet

\* A settlement without its id: reason and source follow the same rules as
\* the asset type and are left out.
Body == [player : Player, asset : Asset, delta : Delta]

\* A player's balances and the version that counts their changes.
Assets == [bal : [Asset -> Int], version : Nat \ {0}]

ASSUME DeltaAssumption == Delta \subseteq Int \ {0}
ASSUME SubmissionAssumption == Submission \subseteq SettlementId \X Body
ASSUME BoundAssumption ==
    Missing \subseteq Player /\ MaxFaults \in Nat /\ MaxRestores \in Nat
ASSUME NullAssumption == NoEntry \notin Body /\ NoSnapshot \notin Assets

VARIABLES
    ledger,     \* asset_ledger: settlement id -> body
    assets,     \* player_assets: player -> balances and asset_version
    snapshot,   \* player_snapshots: the assets it holds
    req,        \* the settlement handlers
    restore,    \* the restore handler of each player
    seen,       \* the state the player's client holds
    restores,   \* restores begun per player
    faults,     \* failed calls so far
    history     \* history variable: the assets each version stood for

vars == <<ledger, assets, snapshot, req, restore, seen, restores, faults, history>>

\* The profile is written once, with ProfileVersion 1.
ProfileVersion == 1

StateVersion(s) == IF ProfileVersion >= s.version THEN ProfileVersion ELSE s.version

\* The last_state_version a client sends, 0 when it holds nothing.
LastStateVersion(p) == IF seen[p] = NoSnapshot THEN 0 ELSE StateVersion(seen[p])

InitialAssets == [bal |-> [a \in Asset |-> 0], version |-> 1]

-----------------------------------------------------------------------------
(* Settlement *)

Idle == [pc |-> "idle"]

\* A handler: its request, then the ledger entry it answers for, then the answer.
Handler ==
    [pc : {"idle"}]
        \cup [pc : {"find", "txn", "replay", "conflict", "insufficient", "failed"},
              sub : Submission]
        \cup [pc : {"result"}, sub : Submission, entry : Body, replayed : BOOLEAN]
        \cup [pc : {"ok"}, sub : Submission, entry : Body, replayed : BOOLEAN,
              balance : Int, version : Nat \ {0}]

Goto(r, pc) == req' = [req EXCEPT ![r] = [pc |-> pc, sub |-> req[r].sub]]

GotoResult(r, entry, replayed) ==
    req' = [req EXCEPT ![r] = [pc |-> "result", sub |-> req[r].sub,
                               entry |-> entry, replayed |-> replayed]]

\* The reads of the three collections, each by its unique key.
FindBySettlementID(id) == ledger[id]
FindAssets(p) == assets[p]
FindSnapshotOf(p) == snapshot[p]

\* The unique index on settlement_id refuses the insert of a second entry.
Duplicate(id) == ledger[id] # NoEntry

\* Battle submits a settlement, for the first time or again.
Submit(r) ==
    /\ req[r].pc = "idle"
    /\ \E s \in Submission : req' = [req EXCEPT ![r] = [pc |-> "find", sub |-> s]]
    /\ UNCHANGED <<ledger, assets, snapshot, restore, seen, restores, faults, history>>

\* Mutant of FindSettlement: a retry of a settlement that was made is a conflict.
FindSettlementOnce(r) ==
    /\ req[r].pc = "find"
    /\ LET found == FindBySettlementID(req[r].sub[1])
       IN  \/ found = NoEntry /\ Goto(r, "txn")
           \/ found # NoEntry /\ Goto(r, "conflict")
    /\ UNCHANGED <<ledger, assets, snapshot, restore, seen, restores, faults, history>>

\* The handler's first look: an entry with other details is a conflict.
FindSettlement(r) ==
    /\ req[r].pc = "find"
    /\ LET found == FindBySettlementID(req[r].sub[1])
       IN  \/ found = NoEntry /\ Goto(r, "txn")
           \/ found \notin {NoEntry, req[r].sub[2]} /\ Goto(r, "conflict")
           \/ found = req[r].sub[2] /\ GotoResult(r, found, TRUE)
    /\ UNCHANGED <<ledger, assets, snapshot, restore, seen, restores, faults, history>>

\* ApplyDelta's filter: a charge needs the balance, a credit only the document.
Affordable(b) == b.delta < 0 => assets[b.player].bal[b.asset] >= -b.delta

\* Mutant of ApplyDelta: a charge does not count as a change.
ApplyDeltaUnversioned(b) ==
    LET old == assets[b.player]
    IN  [bal |-> [old.bal EXCEPT ![b.asset] = @ + b.delta],
         version |-> IF b.delta < 0 THEN old.version ELSE old.version + 1]

ApplyDelta(b) ==
    LET old == assets[b.player]
    IN  [bal |-> [old.bal EXCEPT ![b.asset] = @ + b.delta], version |-> old.version + 1]

\* The transaction commits: ledger entry, assets and snapshot together.
Commit(id, b) ==
    /\ ledger' = [ledger EXCEPT ![id] = b]
    /\ assets' = [assets EXCEPT ![b.player] = ApplyDelta(b)]
    /\ snapshot' = [snapshot EXCEPT ![b.player] = ApplyDelta(b)]
    /\ history' = [history EXCEPT ![b.player] = Append(@, ApplyDelta(b).bal)]

Rollback == UNCHANGED <<ledger, assets, snapshot, history>>

\* The transaction of settlement: ledger.Create, ApplyDelta, snapshot.Save.
Execute(r) ==
    LET id == req[r].sub[1]
        b == req[r].sub[2]
    IN  /\ req[r].pc = "txn"
        /\ \/ /\ Duplicate(id)
              /\ Rollback
              /\ Goto(r, "replay")
           \/ /\ ~Duplicate(id)
              /\ ~Affordable(b)
              /\ Rollback
              /\ Goto(r, "insufficient")
           \/ /\ ~Duplicate(id)
              /\ Affordable(b)
              /\ Commit(id, b)
              /\ GotoResult(r, b, FALSE)
        /\ UNCHANGED <<restore, seen, restores, faults>>

\* The commit takes effect and the handler is told that it failed.
ExecuteUnknown(r) ==
    LET id == req[r].sub[1]
        b == req[r].sub[2]
    IN  /\ req[r].pc = "txn"
        /\ faults < MaxFaults
        /\ ~Duplicate(id)
        /\ Affordable(b)
        /\ Commit(id, b)
        /\ Goto(r, "failed")
        /\ faults' = faults + 1
        /\ UNCHANGED <<restore, seen, restores>>

\* replaySettlement: the entry that made the insert fail, whatever it holds.
ReplaySettlement(r) ==
    /\ req[r].pc = "replay"
    /\ GotoResult(r, FindBySettlementID(req[r].sub[1]), TRUE)
    /\ UNCHANGED <<ledger, assets, snapshot, restore, seen, restores, faults, history>>

\* Mutant of SettlementResult: the delta is added to the balance that has it.
SettlementResultTwice(r) ==
    /\ req[r].pc = "result"
    /\ LET e == req[r].entry
       IN  req' = [req EXCEPT ![r] =
                     [pc |-> "ok", sub |-> req[r].sub, entry |-> e,
                      replayed |-> req[r].replayed,
                      balance |-> assets[e.player].bal[e.asset] + e.delta,
                      version |-> assets[e.player].version]]
    /\ UNCHANGED <<ledger, assets, snapshot, restore, seen, restores, faults, history>>

\* settlementResult reads the assets as they are now and answers.
SettlementResult(r) ==
    /\ req[r].pc = "result"
    /\ LET e == req[r].entry
       IN  req' = [req EXCEPT ![r] =
                     [pc |-> "ok", sub |-> req[r].sub, entry |-> e,
                      replayed |-> req[r].replayed,
                      balance |-> FindAssets(e.player).bal[e.asset],
                      version |-> FindAssets(e.player).version]]
    /\ UNCHANGED <<ledger, assets, snapshot, restore, seen, restores, faults, history>>

\* A call fails without an effect, or the Lobby process ends: Battle gets an error.
CallFails(r) ==
    /\ req[r].pc \in {"find", "txn", "replay", "result"}
    /\ faults < MaxFaults
    /\ Goto(r, "failed")
    /\ faults' = faults + 1
    /\ UNCHANGED <<ledger, assets, snapshot, restore, seen, restores, history>>

-----------------------------------------------------------------------------
(* Restore *)

\* The Gateway passes the answer on as an event; the answer is lost when the
\* request fails, when the client is gone or when its queue is full.
Relay(p, s) == seen' = [seen EXCEPT ![p] = s] \/ UNCHANGED seen

\* Mutant of Answer: an answer without a payload empties the client's state.
AnswerEmpties(p, s) ==
    /\ Relay(p, IF LastStateVersion(p) = StateVersion(s) THEN NoSnapshot ELSE s)
    /\ restore' = [restore EXCEPT ![p] = [pc |-> "idle", copy |-> NoSnapshot]]

\* The answer: NOOP when the client's version is the snapshot's, else FULL.
Answer(p, s) ==
    /\ Relay(p, IF LastStateVersion(p) = StateVersion(s) THEN seen[p] ELSE s)
    /\ restore' = [restore EXCEPT ![p] = [pc |-> "idle", copy |-> NoSnapshot]]

\* The handler reads the snapshot; a missing one is rebuilt.
FindSnapshot(p) ==
    /\ restore[p].pc = "idle"
    /\ restores[p] < MaxRestores
    /\ restores' = [restores EXCEPT ![p] = @ + 1]
    /\ \/ FindSnapshotOf(p) # NoSnapshot /\ Answer(p, FindSnapshotOf(p))
       \/ /\ FindSnapshotOf(p) = NoSnapshot
          /\ restore' = [restore EXCEPT ![p] = [pc |-> "read", copy |-> NoSnapshot]]
          /\ UNCHANGED seen
    /\ UNCHANGED <<ledger, assets, snapshot, req, faults, history>>

ReadAssets(p) ==
    /\ restore[p].pc = "read"
    /\ restore' = [restore EXCEPT ![p] = [pc |-> "save", copy |-> FindAssets(p)]]
    /\ UNCHANGED <<ledger, assets, snapshot, req, seen, restores, faults, history>>

\* The rebuilt snapshot replaces whatever the collection holds by now; an
\* error of the write is ignored.
SaveSnapshot(p) ==
    /\ restore[p].pc = "save"
    /\ \/ /\ snapshot' = [snapshot EXCEPT ![p] = restore[p].copy]
          /\ UNCHANGED faults
       \/ /\ faults < MaxFaults
          /\ faults' = faults + 1
          /\ UNCHANGED snapshot
    /\ Answer(p, restore[p].copy)
    /\ UNCHANGED <<ledger, assets, req, restores, history>>

-----------------------------------------------------------------------------

\* ensurePlayer has created every player with its assets and its snapshot; a
\* snapshot may be missing where older data is loaded.
Init ==
    /\ ledger = [id \in SettlementId |-> NoEntry]
    /\ assets = [p \in Player |-> InitialAssets]
    /\ snapshot = [p \in Player |-> IF p \in Missing THEN NoSnapshot ELSE InitialAssets]
    /\ req = [r \in Request |-> Idle]
    /\ restore = [p \in Player |-> [pc |-> "idle", copy |-> NoSnapshot]]
    /\ seen = [p \in Player |-> NoSnapshot]
    /\ restores = [p \in Player |-> 0]
    /\ faults = 0
    /\ history = [p \in Player |-> <<InitialAssets.bal>>]

Settle(r) ==
    \/ Submit(r) \/ FindSettlement(r) \/ Execute(r) \/ ExecuteUnknown(r)
    \/ ReplaySettlement(r) \/ SettlementResult(r) \/ CallFails(r)

Restore(p) == FindSnapshot(p) \/ ReadAssets(p) \/ SaveSnapshot(p)

Next == (\E r \in Request : Settle(r)) \/ (\E p \in Player : Restore(p))

Spec == Init /\ [][Next]_vars

-----------------------------------------------------------------------------
(* Properties *)

\* Every document and handler keeps its shape, and no balance is negative:
\* ApplyDelta refuses a charge the player cannot pay.
TypeOK ==
    /\ ledger \in [SettlementId -> Body \cup {NoEntry}]
    /\ assets \in [Player -> Assets]
    /\ \A p \in Player, a \in Asset : assets[p].bal[a] >= 0
    /\ snapshot \in [Player -> Assets \cup {NoSnapshot}]
    /\ req \in [Request -> Handler]
    /\ restore \in [Player -> [pc : {"idle", "read", "save"}, copy : Assets \cup {NoSnapshot}]]
    /\ seen \in [Player -> Assets \cup {NoSnapshot}]
    /\ restores \in [Player -> 0 .. MaxRestores]
    /\ faults \in 0 .. MaxFaults
    /\ history \in [Player -> Seq([Asset -> Int])]

Entries(p) == {id \in SettlementId : ledger[id] # NoEntry /\ ledger[id].player = p}

\* What the settlements have changed of asset a, and the sum of such changes.
Changes(a) ==
    [id \in SettlementId |->
        IF ledger[id] # NoEntry /\ ledger[id].asset = a THEN ledger[id].delta ELSE 0]
SumOf(w, S) == MapThenSumSet(LAMBDA id : w[id], S)

\* However requests and retries interleave and whichever calls fail, a balance
\* is the sum of the ledger's entries for it and asset_version counts them: no
\* settlement is applied twice, none is recorded without being applied.
LedgerBalances ==
    \A p \in Player :
        /\ assets[p].version = 1 + Cardinality(Entries(p))
        /\ \A a \in Asset : assets[p].bal[a] = SumOf(Changes(a), Entries(p))

\* Battle uses the settlement id for one settlement only.
OneBody(id) == \A s, t \in Submission : s[1] = id /\ t[1] = id => s[2] = t[2]

\* A successful answer to a settlement with an id of its own, first or retried,
\* means that the ledger holds exactly the settlement that was asked for.  For
\* an id with two bodies replaySettlement does not compare them.
AnsweredIsApplied ==
    \A r \in Request :
        req[r].pc = "ok" /\ OneBody(req[r].sub[1]) => ledger[req[r].sub[1]] = req[r].sub[2]

\* An answer's balance is the one its asset_version stood for, replayed or not,
\* and what a client restored is what its version stood for, even after a NOOP.
VersionsAreStates ==
    /\ \A r \in Request :
          req[r].pc = "ok" =>
              LET e == req[r].entry
              IN  history[e.player][req[r].version][e.asset] = req[r].balance
    /\ \A p \in Player :
          seen[p] # NoSnapshot => history[p][seen[p].version] = seen[p].bal

\* The snapshot is written with the assets, in one transaction: it is never
\* behind them.  A restore that rebuilds a missing one may be.
SnapshotIsCurrent == \A p \in Player \ Missing : snapshot[p] = assets[p]

\* The state a client restores is never older than the one it holds, unless its
\* snapshot was missing and rebuilt.
ClientNeverGoesBack ==
    [][\A p \in Player \ Missing :
          seen[p] # NoSnapshot => seen'[p] # NoSnapshot /\ seen'[p].version >= seen[p].version]_vars

\* A handler as its client sees it.
Asked(h) ==
    CASE h.pc = "idle" -> [status |-> "none"]
      [] h.pc \in {"find", "txn", "replay", "result"} -> [status |-> "pending", sub |-> h.sub]
      [] h.pc \in {"conflict", "insufficient", "failed"} -> [status |-> h.pc, sub |-> h.sub]
      [] h.pc = "ok" -> [status |-> "ok", sub |-> h.sub,
                         balance |-> h.balance, version |-> h.version]

L == INSTANCE Ledger
         WITH Opening <- InitialAssets, entries <- ledger, holdings <- assets,
              asked <- [r \in Request |-> Asked(req[r])]

\* The handlers with their lookups, their transaction and their replay implement
\* the ledger: for those who ask, a settlement is made in one step, and no
\* interleaving, retry or lost outcome yields an answer the ledger cannot give.
ImplementsLedger == L!Spec
=============================================================================
