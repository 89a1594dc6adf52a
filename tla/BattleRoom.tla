------------------------------ MODULE BattleRoom ------------------------------
(***************************************************************************)
(* A battle room: the authoritative copy RoomManager keeps in memory, its  *)
(* snapshot in MongoDB and the clients that restore it after a reconnect   *)
(* (room_manager.go, room.go, room_snapshot_repository.go).                *)
(*                                                                         *)
(* Rooms share nothing but the manager's lock, so one room is modelled.    *)
(* Create and Mutate hold the write lock throughout, snapshot write        *)
(* included, and are single actions.  A restore takes the lock three       *)
(* times and reads MongoDB without it: each part is an action.  Tick is    *)
(* always StateVersion - 1 and is left out.                                *)
(***************************************************************************)
EXTENDS Naturals, Sequences, FiniteSetsExt

CONSTANTS Player, HP,
          Client,      \* restore requests that may run at the same time
          DeltaSize,   \* RoomManager.deltaSize
          MaxOps,      \* bound on the operations of one mutate callback
          MaxVersion,  \* bound on StateVersion
          MaxFaults,   \* bound on failed snapshot writes and restarts
          Absent, NoRoom

ASSUME BoundsAssumption == /\ DeltaSize \in Nat \ {0} /\ MaxOps \in Nat \ {0}
                           /\ MaxVersion \in Nat \ {0} /\ MaxFaults \in Nat
ASSUME AbsentAssumption == Absent \notin HP

Players == [Player -> HP \union {Absent}]

Room == [version : 1..MaxVersion, status : {"created", "running"},
         players : Players]

Delta == [from : 1..MaxVersion, to : 1..MaxVersion,
          status : {"created", "running"},
          upsert : Players, removed : SUBSET Player]

PlayerState == [id : Player, hp : HP]

\* The Players map as the list of its values, whose order nobody reads, and back.
PlayerList(players) ==
  {x \in PlayerState : players[x.id] = x.hp}

PlayerMap(list) ==
  [p \in Player |-> IF \E x \in list : x.id = p
                    THEN (CHOOSE x \in list : x.id = p).hp ELSE Absent]

\* roomSnapshotDocument
Document == [version : 1..MaxVersion, status : {"created", "running"},
             players : SUBSET PlayerState]

ASSUME NoRoomAssumption == NoRoom \notin Room /\ NoRoom \notin Document

ToDocument(r) ==
  [version |-> r.version, status |-> r.status, players |-> PlayerList(r.players)]

FromDocument(d) ==
  [version |-> d.version, status |-> d.status, players |-> PlayerMap(d.players)]

\* What takes a version away from the room it stood for (history variable).
Breaches == {"recreated",  \* after a restart an id was created again
             "torn",       \* a callback changed the room and then failed
             "stale"}      \* a restore installed a snapshot over another room

VARIABLES room,    \* RoomManager.rooms
          deltas,  \* RoomManager.deltas, the ring buffer
          store,   \* the document in battle_room_snapshots
          pc, player, found,  \* each restore: next step, argument, its Room
          seen,    \* the room as each client shows it
          faults,
          breaches \* history variable: the members of Breaches that happened

vars == <<room, deltas, store, pc, player, found, seen, faults, breaches>>

Steps == {"idle", "find", "install", "compose"}

TypeOK ==
  /\ room \in Room \union {NoRoom}
  /\ deltas \in Seq(Delta) /\ Len(deltas) <= DeltaSize
  /\ store \in Document \union {NoRoom}
  /\ pc \in [Client -> Steps]
  /\ player \in [Client -> Player]
  /\ found \in [Client -> Room \union {NoRoom}]
  /\ seen \in [Client -> Room \union {NoRoom}]
  /\ faults \in 0..MaxFaults
  /\ breaches \subseteq Breaches

Init ==
  /\ room = NoRoom
  /\ deltas = <<>>
  /\ store = NoRoom
  /\ pc = [c \in Client |-> "idle"]
  /\ player \in [Client -> Player]
  /\ found = [c \in Client |-> NoRoom]
  /\ seen = [c \in Client |-> NoRoom]
  /\ faults = 0
  /\ breaches = {}

\* A snapshot write succeeds, fails, or is executed although the caller sees
\* an error.
Outcomes == {"ok", "error", "applied"}

Save(r, out) ==
  /\ out # "ok" => faults < MaxFaults
  /\ faults' = IF out = "ok" THEN faults ELSE faults + 1
  /\ store' = IF out = "error" THEN store ELSE ToDocument(r)

Breach(kind, happened) ==
  breaches' = IF happened THEN breaches \union {kind} ELSE breaches

-------------------------------------------------------------------------------
(* Create and Mutate                                                       *)

NewRoom(players) == [version |-> 1, status |-> "created", players |-> players]

\* The check for duplicates is made in memory; a Create that failed may be
\* retried with the same room.
Create(players, out) ==
  LET r == NewRoom(players) IN
  /\ room = NoRoom
  /\ Save(r, out)
  /\ Breach("recreated", store \notin {NoRoom, ToDocument(r)})
  /\ room' = IF out = "ok" THEN r ELSE room
  /\ deltas' = IF out = "ok" THEN <<>> ELSE deltas
  /\ UNCHANGED <<pc, player, found, seen>>

Op == [kind : {"add", "update"}, player : Player, hp : HP]
        \union [kind : {"remove"}, player : Player]

\* AddPlayer and UpdatePlayer check before they write; a callback removes a
\* player by deleting the map entry.
Applies(op, players) ==
  \/ op.kind = "add" /\ players[op.player] = Absent
  \/ op.kind = "update" /\ players[op.player] # Absent
  \/ op.kind = "remove"

Applied(op, players) ==
  [players EXCEPT ![op.player] = IF op.kind = "remove" THEN Absent ELSE op.hp]

\* A loop over a slice, from its first element to its last.
ForEach(op(_, _), base, seq) ==
  MapThenFoldSet(LAMBDA x, acc : op(acc, x), base, LAMBDA i : seq[i],
                 LAMBDA S : Max(S), DOMAIN seq)

\* The callback runs until its first error.
RunOps(ops, players) ==
  ForEach(LAMBDA acc, op :
            IF acc.ok /\ Applies(op, acc.players)
            THEN [acc EXCEPT !.players = Applied(op, @)]
            ELSE [acc EXCEPT !.ok = FALSE],
          [players |-> players, ok |-> TRUE], ops)

Callbacks == UNION {[1..n -> Op] : n \in 1..MaxOps}

\* What the callbacks may leave of a room, and whether they succeed.
Runs(r) == {RunOps(ops, r.players) : ops \in Callbacks}

AdvanceTick(r, players) ==
  [version |-> r.version + 1, status |-> "running", players |-> players]

Upserted(previous, current) ==
  [p \in Player |-> IF current.players[p] # previous.players[p]
                    THEN current.players[p] ELSE Absent]

Removed(previous, current) ==
  {p \in Player : previous.players[p] # Absent /\ current.players[p] = Absent}

DeltaOf(previous, current) ==
  [from |-> previous.version, to |-> current.version,
   status |-> current.status, upsert |-> Upserted(previous, current),
   removed |-> Removed(previous, current)]

\* recordDeltaLocked: the newest DeltaSize deltas are kept.
RecordDelta(previous, current) ==
  LET all == Append(deltas, DeltaOf(previous, current)) IN
  IF Len(all) > DeltaSize THEN SubSeq(all, Len(all) - DeltaSize + 1, Len(all))
  ELSE all

\* The callback returns an error: Mutate returns without restoring the room.
MutateFails(run) ==
  /\ ~run.ok
  /\ room' = [room EXCEPT !.players = run.players]
  /\ Breach("torn", run.players # room.players)
  /\ UNCHANGED <<deltas, store, pc, player, found, seen, faults>>

\* Mutant: previous shares the Players map (a struct copy, not a Clone).
RolledBackShallow(previous, current) ==
  [previous EXCEPT !.players = current.players]

\* Mutant: a failed snapshot write is ignored.
RolledBackNot(previous, current) == current

\* *room = *previous
RolledBack(previous, current) == previous

\* AdvanceTick finds the room the callback left invalid.
MutateInvalid(run) ==
  /\ run.ok
  /\ room' = RolledBack(room, [room EXCEPT !.players = run.players])
  /\ UNCHANGED <<deltas, store, pc, player, found, seen, faults, breaches>>

Mutate(run, out) ==
  LET current == AdvanceTick(room, run.players) IN
  /\ run.ok
  /\ room.version < MaxVersion
  /\ Save(current, out)
  /\ room' = IF out = "ok" THEN current ELSE RolledBack(room, current)
  /\ deltas' = IF out = "ok" THEN RecordDelta(room, current) ELSE deltas
  /\ UNCHANGED <<pc, player, found, seen, breaches>>

-------------------------------------------------------------------------------
(* Restore: RestoreByPlayerIDSince                                         *)

InRoom(p, r) == r # NoRoom /\ r.players[p] # Absent

\* Under the read lock: a hit is cloned, a miss goes to MongoDB.
Lookup(c) ==
  /\ pc[c] = "idle"
  /\ IF InRoom(player[c], room)
     THEN /\ pc' = [pc EXCEPT ![c] = "compose"]
          /\ found' = [found EXCEPT ![c] = room]
     ELSE /\ pc' = [pc EXCEPT ![c] = "find"]
          /\ UNCHANGED found
  /\ UNCHANGED <<room, deltas, store, player, seen, faults, breaches>>

\* FindByPlayerID; without a document the answer is Available: false, and an
\* error of the query ends the restore as well.
Find(c) ==
  /\ pc[c] = "find"
  /\ IF store # NoRoom /\ \E x \in store.players : x.id = player[c]
     THEN /\ pc' = [pc EXCEPT ![c] = "install"]
          /\ found' = [found EXCEPT ![c] = FromDocument(store)]
     ELSE /\ pc' = [pc EXCEPT ![c] = "idle"]
          /\ UNCHANGED found
  /\ UNCHANGED <<room, deltas, store, player, seen, faults, breaches>>

\* Under the write lock: the snapshot replaces whatever is in memory.
Install(c) ==
  /\ pc[c] = "install"
  /\ room' = found[c]
  /\ pc' = [pc EXCEPT ![c] = "compose"]
  /\ Breach("stale", room \notin {NoRoom, found[c]})
  /\ UNCHANGED <<deltas, store, player, found, seen, faults>>

\* The loop takes a delta only when it starts where the previous one ended.
Continues(delta, acc, to) ==
  delta.from = acc.next /\ delta.to <= to /\ acc.next # to

Merge(acc, delta) ==
  [next |-> delta.to, status |-> delta.status,
   upsert |-> [p \in Player |-> IF p \in delta.removed THEN Absent
                                ELSE IF delta.upsert[p] # Absent
                                     THEN delta.upsert[p]
                                     ELSE acc.upsert[p]],
   removed |-> (acc.removed \ {p \in Player : delta.upsert[p] # Absent})
                 \union delta.removed]

\* Mutant: deltas newer than the room found are merged as well.
ComposeDeltasPast(ring, from, to) ==
  LET all == ForEach(LAMBDA acc, delta : IF delta.from = acc.next
                                         THEN Merge(acc, delta) ELSE acc,
                     [next |-> from, status |-> "created",
                      upsert |-> [p \in Player |-> Absent], removed |-> {}],
                     ring)
  IN [all EXCEPT !.next = IF @ > to THEN to ELSE @]

\* The accumulated delta; it is usable when .next has reached `to`.
ComposeDeltas(ring, from, to) ==
  ForEach(LAMBDA acc, delta :
            IF Continues(delta, acc, to) THEN Merge(acc, delta) ELSE acc,
          [next |-> from, status |-> "created",
           upsert |-> [p \in Player |-> Absent], removed |-> {}], ring)

\* What a client makes of a delta (client code, by the fields of the message).
ApplyDelta(r, delta) ==
  [version |-> delta.next, status |-> delta.status,
   players |-> [p \in Player |->
                  IF p \in delta.removed THEN Absent
                  ELSE IF delta.upsert[p] # Absent THEN delta.upsert[p]
                  ELSE r.players[p]]]

MarshalRoomSnapshot(r) ==
  [version |-> r.version, status |-> r.status, players |-> PlayerList(r.players)]

\* What a client makes of a snapshot (client code, by the fields of the message).
ShowSnapshot(message) ==
  [version |-> message.version, status |-> message.status,
   players |-> PlayerMap(message.players)]

\* LastStateVersion, 0 from a client without state.
Version(r) == IF r = NoRoom THEN 0 ELSE r.version

RestoreMode(last, to, delta, allowIncremental) ==
  IF last = to THEN "noop"
  ELSE IF allowIncremental /\ last < to /\ delta.next = to THEN "delta"
  ELSE "full"

\* The payload restorePlayerState answers with, as the client shows it.
Restored(mode, old, delta, full) ==
  CASE mode = "noop" -> old
    [] mode = "delta" -> ApplyDelta(old, delta)
    [] mode = "full" -> ShowSnapshot(MarshalRoomSnapshot(full))

\* The Gateway passes the answer on as an event, which may be lost.
Relay(c, shown) == seen' = [seen EXCEPT ![c] = shown] \/ UNCHANGED seen

\* Under the read lock again: the deltas may be newer than the room found.
Compose(c, allowIncremental) ==
  LET last == Version(seen[c])
      to == found[c].version
      delta == ComposeDeltas(deltas, last, to)
      mode == RestoreMode(last, to, delta, allowIncremental)
  IN
  /\ pc[c] = "compose"
  /\ Relay(c, Restored(mode, seen[c], delta, found[c]))
  /\ pc' = [pc EXCEPT ![c] = "idle"]
  /\ found' = [found EXCEPT ![c] = NoRoom]
  /\ UNCHANGED <<room, deltas, store, player, faults, breaches>>

\* The process restarts: the memory of RoomManager and the requests are lost.
Restart ==
  /\ faults < MaxFaults
  /\ faults' = faults + 1
  /\ room' = NoRoom
  /\ deltas' = <<>>
  /\ pc' = [c \in Client |-> "idle"]
  /\ found' = [c \in Client |-> NoRoom]
  /\ UNCHANGED <<store, player, seen, breaches>>

Next ==
  \/ \E players \in Players, out \in Outcomes : Create(players, out)
  \/ /\ room # NoRoom
     /\ \E run \in Runs(room) :
          \/ MutateFails(run) \/ MutateInvalid(run)
          \/ \E out \in Outcomes : Mutate(run, out)
  \/ \E c \in Client : Lookup(c) \/ Find(c) \/ Install(c)
  \/ \E c \in Client, allowIncremental \in BOOLEAN : Compose(c, allowIncremental)
  \/ Restart

Spec == Init /\ [][Next]_vars

-------------------------------------------------------------------------------
(* Properties                                                              *)

\* Whatever mode a restore answers with, a client that gets the answer shows the
\* room the restore looked up: composing the ring buffer's deltas while Mutate
\* keeps appending and trimming loses no change.
RestoreYieldsRoom ==
  [][\A c \in Client : breaches = {} /\ seen'[c] # seen[c] => seen'[c] = found[c]]_vars

\* NOOP is right: a client that shows the current version shows the current
\* room, also after failed snapshot writes and restarts.  A failed callback, a
\* stale install and a repeated create are the only ways to break this.
SameVersionSameRoom ==
  \A c \in Client :
    breaches = {} /\ room # NoRoom /\ seen[c] # NoRoom /\ seen[c].version = room.version
      => seen[c] = room

\* What a client has seen survives a restart: no client is ahead of the
\* persisted snapshot, before a stale install or a repeated create replaces it.
SeenIsDurable ==
  breaches = {} => \A c \in Client : Version(seen[c]) <= Version(store)
=============================================================================
