------------------------- MODULE Settlement_proofs -------------------------
(***************************************************************************)
(* Proofs about Settlement, for any players, assets, settlements, requests *)
(* and faults.  The settlements' inductive invariant is LedgerInv: the     *)
(* types, no negative balance, and what a handler knows of the ledger.     *)
(* SnapshotInv and SeenInv, about the players whose snapshot was there at  *)
(* first, are inductive with it, and so are HistoryInv, CopiesInv and      *)
(* AnswersInv, about what a version stands for.                            *)
(***************************************************************************)
EXTENDS Settlement, FiniteSetTheorems, WellFoundedInduction, TLAPS

\* No balance is negative, which ApplyDelta's filter guarantees.
NoOverdraft == \A p \in Player, a \in Asset : assets[p].bal[a] >= 0

\* The documents' types.
DocumentInv ==
    /\ ledger \in [SettlementId -> Body \cup {NoEntry}]
    /\ assets \in [Player -> Assets]
    /\ req \in [Request -> Handler]

\* The ledger holds what was submitted, and a handler that was told so by the
\* database finds its entry there for good: entries are never changed.
RecordInv ==
    /\ \A id \in SettlementId : ledger[id] # NoEntry => <<id, ledger[id]>> \in Submission
    /\ \A r \in Request :
        /\ req[r].pc = "replay" => ledger[req[r].sub[1]] # NoEntry
        /\ req[r].pc \in {"result", "ok"} => ledger[req[r].sub[1]] = req[r].entry

\* The inductive invariant of the settlements.
LedgerInv == DocumentInv /\ NoOverdraft /\ RecordInv

\* The players whose snapshot was there at first.
Present == Player \ Missing

\* Their snapshots are the assets, and no restore rebuilds one.
SnapshotInv ==
    /\ snapshot \in [Player -> Assets \cup {NoSnapshot}]
    /\ restore \in [Player -> [pc : {"idle", "read", "save"}, copy : Assets \cup {NoSnapshot}]]
    /\ \A p \in Present : snapshot[p] = assets[p] /\ restore[p].pc = "idle"

\* What their clients hold is not newer than the assets.
SeenInv ==
    /\ seen \in [Player -> Assets \cup {NoSnapshot}]
    /\ \A p \in Present : seen[p] # NoSnapshot => seen[p].version <= assets[p].version

-----------------------------------------------------------------------------

\* The reads by key, and the check of the unique index, are expanded everywhere.
USE DEF FindBySettlementID, FindAssets, FindSnapshotOf, Duplicate

\* A submission is a settlement id with a body.
LEMMA SubmissionParts ==
    ASSUME NEW s \in Submission
    PROVE  s[1] \in SettlementId /\ s[2] \in Body
BY SubmissionAssumption, Zenon

\* ApplyDelta returns assets with the next version, and balances that are not
\* negative when the filter matched.
LEMMA ApplyDeltaFacts ==
    ASSUME DocumentInv, NEW b \in Body
    PROVE  /\ ApplyDelta(b) \in Assets
           /\ ApplyDelta(b).version = assets[b.player].version + 1
           /\ NoOverdraft /\ Affordable(b) =>
                 \A a \in Asset : ApplyDelta(b).bal[a] >= 0
<1> DEFINE old == assets[b.player]
<1>1. b.player \in Player /\ b.asset \in Asset /\ b.delta \in Int
  BY DeltaAssumption, Zenon DEF Body
<1>2. old.bal \in [Asset -> Int] /\ old.version \in Nat \ {0}
  BY <1>1, Zenon DEF DocumentInv, Assets
<1>3. [old.bal EXCEPT ![b.asset] = @ + b.delta] \in [Asset -> Int]
  BY <1>1, <1>2
<1>4. ApplyDelta(b) \in Assets /\ ApplyDelta(b).version = old.version + 1
  BY <1>2, <1>3 DEF ApplyDelta, Assets
<1>5. ASSUME NoOverdraft, Affordable(b), NEW a \in Asset
      PROVE  ApplyDelta(b).bal[a] >= 0
  <2>1. old.bal[a] >= 0 /\ old.bal[a] \in Int /\ old.bal[b.asset] \in Int
    BY <1>1, <1>2, <1>5, Zenon DEF NoOverdraft
  <2>2. old.bal[b.asset] >= 0
    BY <1>1, <1>5, Zenon DEF NoOverdraft
  <2>3. old.bal[b.asset] + b.delta >= 0
    BY <1>1, <1>5, <2>1, <2>2 DEF Affordable
  <2>4. ApplyDelta(b).bal[a] = IF a = b.asset THEN old.bal[a] + b.delta ELSE old.bal[a]
    BY <1>1, <1>2, Zenon DEF ApplyDelta
  <2> QED BY <2>1, <2>3, <2>4, Zenon
<1> QED BY <1>4, <1>5, Zenon

\* What the kinds of Handler records hold.
LEMMA HandlerFields ==
    ASSUME NEW h \in Handler
    PROVE  /\ h.pc # "idle" => h.sub \in Submission
           /\ h.pc \in {"result", "ok"} => h.entry \in Body
           /\ h.pc \in {"result", "ok"} => h.replayed \in BOOLEAN
BY Zenon DEF Handler

\* A handler moves and the database stays.
LEMMA HandlerMoves ==
    ASSUME LedgerInv, ledger' = ledger, assets' = assets,
           NEW r \in Request, NEW h \in Handler, req' = [req EXCEPT ![r] = h],
           h.pc = "replay" => ledger[h.sub[1]] # NoEntry,
           h.pc \in {"result", "ok"} => ledger[h.sub[1]] = h.entry
    PROVE  LedgerInv'
<1>1. DocumentInv'
  BY Zenon DEF LedgerInv, DocumentInv
<1>2. NoOverdraft'
  BY Zenon DEF LedgerInv, NoOverdraft
<1>3. \A q \in Request : req'[q] = IF q = r THEN h ELSE req[q]
  BY Zenon DEF LedgerInv, DocumentInv
<1>4. RecordInv'
  BY <1>3 DEF LedgerInv, RecordInv
<1> QED
  BY <1>1, <1>2, <1>4, Zenon DEF LedgerInv

\* A handler's transaction commits.
LEMMA HandlerCommits ==
    ASSUME LedgerInv,
           NEW r \in Request, NEW h \in Handler, req' = [req EXCEPT ![r] = h],
           NEW id \in SettlementId, NEW b \in Body, <<id, b>> \in Submission,
           ledger[id] = NoEntry, Affordable(b), Commit(id, b),
           h.pc \in {"result", "failed"},
           h.pc = "result" => h.sub[1] = id /\ h.entry = b
    PROVE  LedgerInv'
<1>1. ledger' = [ledger EXCEPT ![id] = b] /\ assets' = [assets EXCEPT ![b.player] = ApplyDelta(b)]
  BY Zenon DEF Commit
<1>2. b.player \in Player
  BY Zenon DEF Body
<1>3. ApplyDelta(b) \in Assets /\ \A a \in Asset : ApplyDelta(b).bal[a] >= 0
  BY ApplyDeltaFacts, Zenon DEF LedgerInv
<1>4. DocumentInv'
  BY <1>1, <1>2, <1>3, Zenon DEF LedgerInv, DocumentInv
<1>5. NoOverdraft'
  BY <1>1, <1>2, <1>3, Zenon DEF LedgerInv, DocumentInv, NoOverdraft
<1>6. \A q \in Request : req'[q] = IF q = r THEN h ELSE req[q]
  BY Zenon DEF LedgerInv, DocumentInv
<1>7. \A i \in SettlementId : ledger'[i] = IF i = id THEN b ELSE ledger[i]
  BY <1>1, Zenon DEF LedgerInv, DocumentInv
<1>8. b # NoEntry
  BY NullAssumption, Zenon
<1>9. \A q \in Request : req[q].pc # "idle" => req[q].sub[1] \in SettlementId
  BY HandlerFields, SubmissionParts, Zenon DEF LedgerInv, DocumentInv
<1>10. \A q \in Request : req[q].pc \in {"result", "ok"} => req[q].entry # NoEntry
  BY HandlerFields, NullAssumption, Zenon DEF LedgerInv, DocumentInv
<1>11. \A i \in SettlementId : ledger'[i] # NoEntry => <<i, ledger'[i]>> \in Submission
  BY <1>7, Zenon DEF LedgerInv, RecordInv
<1>12. ASSUME NEW q \in Request, req'[q].pc = "replay"
       PROVE  ledger'[req'[q].sub[1]] # NoEntry
  BY <1>6, <1>7, <1>8, <1>9, <1>12 DEF LedgerInv, RecordInv
<1>13. ASSUME NEW q \in Request, req'[q].pc \in {"result", "ok"}
       PROVE  ledger'[req'[q].sub[1]] = req'[q].entry
  <2>1. CASE q = r
    BY <1>6, <1>7, <1>13, <2>1, Zenon
  <2>2. CASE q # r
    BY <1>6, <1>7, <1>9, <1>10, <1>13, <2>2 DEF LedgerInv, RecordInv
  <2> QED BY <2>1, <2>2, Zenon
<1>14. RecordInv'
  BY <1>11, <1>12, <1>13, Zenon DEF RecordInv
<1> QED
  BY <1>4, <1>5, <1>14, Zenon DEF LedgerInv

\* Every step keeps the invariant of the settlements.
LEMMA LedgerStep ==
    ASSUME LedgerInv, [Next]_vars
    PROVE  LedgerInv'
<1>1. CASE UNCHANGED vars
  BY <1>1, Zenon DEF vars, LedgerInv, DocumentInv, NoOverdraft, RecordInv
<1>2. ASSUME NEW p \in Player, Restore(p)
      PROVE  LedgerInv'
  <2>1. UNCHANGED <<ledger, assets, req>>
    BY <1>2, Zenon DEF Restore, FindSnapshot, ReadAssets, SaveSnapshot
  <2> QED
    BY <2>1, Zenon DEF LedgerInv, DocumentInv, NoOverdraft, RecordInv
<1>3. ASSUME NEW r \in Request, Settle(r)
      PROVE  LedgerInv'
  <2> DEFINE sub == req[r].sub
             Plain(pc) == [pc |-> pc, sub |-> sub]
             Result(e, x) == [pc |-> "result", sub |-> sub, entry |-> e, replayed |-> x]
  <2>1. req[r] \in Handler
    BY Zenon DEF LedgerInv, DocumentInv
  <2>2. CASE Submit(r)
    <3> PICK s \in Submission : req' = [req EXCEPT ![r] = [pc |-> "find", sub |-> s]]
      BY <2>2, Zenon DEF Submit
    <3>1. [pc |-> "find", sub |-> s] \in Handler
      BY Zenon DEF Handler
    <3> QED
      BY <2>2, <3>1, HandlerMoves, Zenon DEF Submit
  <2>3. ASSUME req[r].pc # "idle"
        PROVE  /\ sub \in Submission
               /\ sub[1] \in SettlementId /\ sub[2] \in Body /\ sub = <<sub[1], sub[2]>>
               /\ ledger[sub[1]] \in Body \cup {NoEntry}
    <3>1. sub \in Submission
      BY <2>1, <2>3, HandlerFields, Zenon
    <3>2. sub[1] \in SettlementId /\ sub[2] \in Body /\ sub = <<sub[1], sub[2]>>
      BY <3>1, SubmissionAssumption
    <3> QED
      BY <3>1, <3>2, Zenon DEF LedgerInv, DocumentInv
  <2>4. ASSUME req[r].pc # "idle"
        PROVE  /\ \A pc \in {"txn", "replay", "conflict", "insufficient", "failed"} :
                    Plain(pc) \in Handler
               /\ \A e \in Body, x \in BOOLEAN : Result(e, x) \in Handler
    BY <2>3, <2>4, Zenon DEF Handler
  <2>5. CASE FindSettlement(r)
    <3>1. CASE ledger[sub[1]] = NoEntry /\ Goto(r, "txn")
      BY <2>4, <2>5, <3>1, HandlerMoves, Zenon DEF FindSettlement, Goto
    <3>2. CASE Goto(r, "conflict")
      BY <2>4, <2>5, <3>2, HandlerMoves, Zenon DEF FindSettlement, Goto
    <3>3. CASE ledger[sub[1]] = sub[2] /\ GotoResult(r, ledger[sub[1]], TRUE)
      <4>1. Result(ledger[sub[1]], TRUE) \in Handler
        BY <2>3, <2>4, <2>5, <3>3, Zenon DEF FindSettlement
      <4> QED
        BY <2>5, <3>3, <4>1, HandlerMoves, Zenon DEF FindSettlement, GotoResult
    <3> QED
      BY <2>5, <3>1, <3>2, <3>3, Zenon DEF FindSettlement
  <2>6. CASE Execute(r)
    <3>0. req[r].pc # "idle"
      BY <2>6, Zenon DEF Execute
    <3>1. CASE ledger[sub[1]] # NoEntry /\ Rollback /\ Goto(r, "replay")
      BY <2>4, <3>0, <3>1, HandlerMoves, Zenon DEF Rollback, Goto
    <3>2. CASE Rollback /\ Goto(r, "insufficient")
      BY <2>4, <3>0, <3>2, HandlerMoves, Zenon DEF Rollback, Goto
    <3>3. CASE /\ ledger[sub[1]] = NoEntry /\ Affordable(sub[2])
               /\ Commit(sub[1], sub[2]) /\ GotoResult(r, sub[2], FALSE)
      BY <2>3, <2>4, <3>0, <3>3, HandlerCommits, Zenon DEF GotoResult
    <3> QED
      BY <2>6, <3>1, <3>2, <3>3, Zenon DEF Execute
  <2>7. CASE ExecuteUnknown(r)
    BY <2>3, <2>4, <2>7, HandlerCommits, Zenon DEF ExecuteUnknown, Goto
  <2>8. CASE ReplaySettlement(r)
    <3>1. ledger[sub[1]] # NoEntry
      BY <2>8, Zenon DEF ReplaySettlement, LedgerInv, RecordInv
    <3>2. Result(ledger[sub[1]], TRUE) \in Handler
      BY <2>3, <2>4, <2>8, <3>1, Zenon DEF ReplaySettlement
    <3> QED
      BY <2>8, <3>2, HandlerMoves, Zenon DEF ReplaySettlement, GotoResult
  <2>9. CASE SettlementResult(r)
    <3> DEFINE e == req[r].entry
               ok == [pc |-> "ok", sub |-> sub, entry |-> e, replayed |-> req[r].replayed,
                      balance |-> assets[e.player].bal[e.asset],
                      version |-> assets[e.player].version]
    <3>1. e \in Body /\ req[r].replayed \in BOOLEAN /\ sub \in Submission
      BY <2>1, <2>9, HandlerFields, Zenon DEF SettlementResult
    <3>2. e.player \in Player /\ e.asset \in Asset
      BY <3>1, Zenon DEF Body
    <3>3. assets[e.player].bal[e.asset] \in Int /\ assets[e.player].version \in Nat \ {0}
      BY <3>2, SMTT(30), Zenon DEF LedgerInv, DocumentInv, Assets
    <3>4. ok \in Handler
      BY <3>1, <3>3, ZenonT(30) DEF Handler
    <3>5. ledger[sub[1]] = e
      BY <2>9, Zenon DEF SettlementResult, LedgerInv, RecordInv
    <3> QED
      BY <2>9, <3>4, <3>5, HandlerMoves, ZenonT(30) DEF SettlementResult
  <2>10. CASE CallFails(r)
    BY <2>4, <2>10, HandlerMoves, Zenon DEF CallFails, Goto
  <2> QED
    BY <1>3, <2>2, <2>5, <2>6, <2>7, <2>8, <2>9, <2>10, Zenon DEF Settle
<1> QED
  BY <1>1, <1>2, <1>3, Zenon DEF Next

\* The ledger's entries are submissions, no balance is negative, and what a
\* handler learned from the ledger stays true until it answers.
THEOREM LedgerInvHolds == Spec => []LedgerInv
<1>1. Init => LedgerInv
  <2> SUFFICES ASSUME Init PROVE LedgerInv
    BY Zenon
  <2>1. InitialAssets \in Assets /\ \A a \in Asset : InitialAssets.bal[a] = 0
    BY DEF InitialAssets, Assets
  <2>2. Idle \in Handler /\ Idle.pc = "idle"
    BY Zenon DEF Idle, Handler
  <2>3. DocumentInv
    BY <2>1, <2>2, Zenon DEF Init, DocumentInv
  <2>4. NoOverdraft
    BY <2>1 DEF Init, NoOverdraft
  <2>5. RecordInv
    BY <2>2, Zenon DEF Init, RecordInv
  <2> QED
    BY <2>3, <2>4, <2>5, Zenon DEF LedgerInv
<1>2. LedgerInv /\ [Next]_vars => LedgerInv'
  BY LedgerStep, Zenon
<1> QED
  BY <1>1, <1>2, PTL DEF Spec

\* A request whose settlement id stands for one settlement only and that is
\* answered with success is in the ledger with the details it asked for,
\* whatever retries, failed calls and lost commits came before.
THEOREM AnsweredIsAppliedHolds == Spec => []AnsweredIsApplied
<1>1. LedgerInv => AnsweredIsApplied
  <2> SUFFICES ASSUME LedgerInv, NEW r \in Request, req[r].pc = "ok",
                      OneBody(req[r].sub[1])
               PROVE  ledger[req[r].sub[1]] = req[r].sub[2]
    BY Zenon DEF AnsweredIsApplied
  <2> DEFINE sub == req[r].sub
             entry == ledger[sub[1]]
  <2>1. req[r] \in Handler
    BY Zenon DEF LedgerInv, DocumentInv
  <2>2. sub \in Submission /\ req[r].entry \in Body
    BY <2>1, HandlerFields, Zenon
  <2>3. sub[1] \in SettlementId
    BY <2>2, SubmissionParts, Zenon
  <2>4. entry = req[r].entry /\ entry # NoEntry
    BY <2>2, NullAssumption, Zenon DEF LedgerInv, RecordInv
  <2>5. <<sub[1], entry>> \in Submission
    BY <2>3, <2>4, Zenon DEF LedgerInv, RecordInv
  <2>6. <<sub[1], entry>>[1] = sub[1] /\ <<sub[1], entry>>[2] = entry
    BY Zenon
  <2> QED
    BY <2>2, <2>5, <2>6, Zenon DEF OneBody
<1> QED
  BY <1>1, LedgerInvHolds, PTL

-----------------------------------------------------------------------------

\* An answer changes only what the player's own client holds: to the state it
\* is given, or not at all.
LEMMA AnswerFacts ==
    ASSUME SnapshotInv, SeenInv, NEW p \in Player, NEW s \in Assets \cup {NoSnapshot}, Answer(p, s)
    PROVE  /\ seen' \in [Player -> Assets \cup {NoSnapshot}]
           /\ \A q \in Player : seen'[q] = seen[q] \/ (q = p /\ seen'[q] = s)
           /\ restore' \in
                [Player -> [pc : {"idle", "read", "save"}, copy : Assets \cup {NoSnapshot}]]
           /\ \A q \in Player : restore'[q].pc = restore[q].pc \/ restore'[q].pc = "idle"
<1>1. [pc |-> "idle", copy |-> NoSnapshot] \in
          [pc : {"idle", "read", "save"}, copy : Assets \cup {NoSnapshot}]
  BY Zenon
<1>2. seen' = seen \/ seen' = [seen EXCEPT ![p] = s] \/ seen' = [seen EXCEPT ![p] = seen[p]]
  BY Zenon DEF Answer, Relay
<1>3. [seen EXCEPT ![p] = seen[p]] = seen
  BY DEF SeenInv
<1>4. restore' = [restore EXCEPT ![p] = [pc |-> "idle", copy |-> NoSnapshot]]
  BY Zenon DEF Answer
<1>5. CASE seen' = seen
  BY <1>1, <1>4, <1>5, Zenon DEF SnapshotInv, SeenInv
<1>6. CASE seen' = [seen EXCEPT ![p] = s]
  BY <1>1, <1>4, <1>6, Zenon DEF SnapshotInv, SeenInv
<1> QED
  BY <1>2, <1>3, <1>5, <1>6, Zenon

\* A restore of another player's state leaves a present player's alone.
LEMMA RestoreStep ==
    ASSUME LedgerInv, SnapshotInv, SeenInv, NEW p \in Player, Restore(p)
    PROVE  SnapshotInv' /\ SeenInv'
<1>1. assets' = assets
  BY Zenon DEF Restore, FindSnapshot, ReadAssets, SaveSnapshot
<1>2. \A q \in Player : assets[q] \in Assets /\ assets[q].version \in Nat
  BY Zenon DEF LedgerInv, DocumentInv, Assets
<1>3. CASE FindSnapshot(p) /\ snapshot[p] # NoSnapshot
  <2>1. Answer(p, snapshot[p]) /\ snapshot' = snapshot
    BY <1>3, Zenon DEF FindSnapshot
  <2>2. snapshot[p] \in Assets \cup {NoSnapshot}
    BY Zenon DEF SnapshotInv
  <2>3. /\ seen' \in [Player -> Assets \cup {NoSnapshot}]
        /\ \A q \in Player : seen'[q] = seen[q] \/ (q = p /\ seen'[q] = snapshot[p])
        /\ restore' \in [Player -> [pc : {"idle", "read", "save"}, copy : Assets \cup {NoSnapshot}]]
        /\ \A q \in Player : restore'[q].pc = restore[q].pc \/ restore'[q].pc = "idle"
    BY <2>1, <2>2, AnswerFacts, Zenon
  <2>4. SnapshotInv'
    BY <1>1, <2>1, <2>3, Zenon DEF SnapshotInv, Present
  <2>5. SeenInv'
    BY <1>1, <1>2, <2>3 DEF SnapshotInv, SeenInv, Present
  <2> QED BY <2>4, <2>5, Zenon
<1>4. CASE FindSnapshot(p) /\ snapshot[p] = NoSnapshot
  <2>1. p \notin Present
    BY <1>2, <1>4, NullAssumption, Zenon DEF SnapshotInv, Present
  <2>2. /\ restore' = [restore EXCEPT ![p] = [pc |-> "read", copy |-> NoSnapshot]]
        /\ UNCHANGED <<seen, snapshot>>
    BY <1>4, Zenon DEF FindSnapshot
  <2> QED
    BY <1>1, <2>1, <2>2, Zenon DEF SnapshotInv, SeenInv, Present
<1>5. CASE ReadAssets(p)
  <2>1. p \notin Present
    BY <1>5, Zenon DEF ReadAssets, SnapshotInv, Present
  <2>2. /\ restore' = [restore EXCEPT ![p] = [pc |-> "save", copy |-> assets[p]]]
        /\ UNCHANGED <<seen, snapshot>>
    BY <1>5, Zenon DEF ReadAssets
  <2> QED
    BY <1>1, <1>2, <2>1, <2>2, Zenon DEF SnapshotInv, SeenInv, Present
<1>6. CASE SaveSnapshot(p)
  <2> DEFINE copy == restore[p].copy
  <2>1. p \notin Present
    BY <1>6, Zenon DEF SaveSnapshot, SnapshotInv, Present
  <2>2. copy \in Assets \cup {NoSnapshot}
    BY Zenon DEF SnapshotInv
  <2>3. Answer(p, copy) /\ (snapshot' = [snapshot EXCEPT ![p] = copy] \/ snapshot' = snapshot)
    BY <1>6, Zenon DEF SaveSnapshot
  <2>4. /\ seen' \in [Player -> Assets \cup {NoSnapshot}]
        /\ \A q \in Player : seen'[q] = seen[q] \/ (q = p /\ seen'[q] = copy)
        /\ restore' \in [Player -> [pc : {"idle", "read", "save"}, copy : Assets \cup {NoSnapshot}]]
        /\ \A q \in Player : restore'[q].pc = restore[q].pc \/ restore'[q].pc = "idle"
    BY <2>2, <2>3, AnswerFacts, Zenon
  <2>5. /\ snapshot' \in [Player -> Assets \cup {NoSnapshot}]
        /\ \A q \in Player : q # p => snapshot'[q] = snapshot[q]
    BY <2>2, <2>3, Zenon DEF SnapshotInv
  <2>6. SnapshotInv'
    BY <1>1, <2>1, <2>4, <2>5, Zenon DEF SnapshotInv, Present
  <2>7. SeenInv'
    BY <1>1, <2>1, <2>4, Zenon DEF SeenInv, Present
  <2> QED BY <2>6, <2>7
<1> QED
  BY <1>3, <1>4, <1>5, <1>6, Zenon DEF Restore

\* Every step keeps a present player's snapshot equal to the assets.
LEMMA SnapshotStep ==
    ASSUME LedgerInv, SnapshotInv, SeenInv, [Next]_vars
    PROVE  SnapshotInv' /\ SeenInv'
<1>1. CASE UNCHANGED vars
  BY <1>1, Zenon DEF vars, SnapshotInv, SeenInv
<1>2. ASSUME NEW p \in Player, Restore(p)
      PROVE  SnapshotInv' /\ SeenInv'
  BY <1>2, RestoreStep, SMTT(30), Zenon
<1>3. ASSUME NEW r \in Request, Settle(r)
      PROVE  SnapshotInv' /\ SeenInv'
  <2>1. UNCHANGED <<restore, seen>>
    BY <1>3, ZenonT(30) DEF Settle, Submit, FindSettlement, Execute, ExecuteUnknown,
                ReplaySettlement, SettlementResult, CallFails
  <2>2. CASE UNCHANGED <<assets, snapshot>>
    BY <2>1, <2>2, Zenon DEF SnapshotInv, SeenInv
  <2>3. CASE req[r].pc # "idle" /\ Commit(req[r].sub[1], req[r].sub[2])
    <3> DEFINE b == req[r].sub[2]
    <3>1. b \in Body
      BY <2>3, HandlerFields, SubmissionParts, Zenon DEF LedgerInv, DocumentInv
    <3>2. b.player \in Player
      BY <3>1, SMTT(30), Zenon DEF Body
    <3>3. ApplyDelta(b) \in Assets /\ ApplyDelta(b).version = assets[b.player].version + 1
      BY <3>1, ApplyDeltaFacts, SMTT(30), Zenon DEF LedgerInv
    <3>4. /\ assets' = [assets EXCEPT ![b.player] = ApplyDelta(b)]
          /\ snapshot' = [snapshot EXCEPT ![b.player] = ApplyDelta(b)]
      BY <2>3, SMTT(30), Zenon DEF Commit
    <3>5. SnapshotInv'
      BY <2>1, <3>2, <3>3, <3>4, SMTT(30), Zenon DEF SnapshotInv, Present, LedgerInv, DocumentInv
    <3>6. \A q \in Player : assets[q].version \in Nat
      BY SMTT(30), Zenon DEF LedgerInv, DocumentInv, Assets
    <3>7. \A q \in Player : assets'[q].version >= assets[q].version
      BY <3>2, <3>3, <3>4, <3>6, SMTT(30), Zenon DEF LedgerInv, DocumentInv
    <3>8. \A q \in Player : assets'[q].version \in Nat
      BY <3>2, <3>3, <3>4, <3>6, SMTT(30), Zenon DEF LedgerInv, DocumentInv
    <3>9. \A q \in Player : seen[q] # NoSnapshot => seen[q].version \in Nat
      BY Zenon DEF SeenInv, Assets
    <3>10. SeenInv'
      BY <2>1, <3>6, <3>7, <3>8, <3>9 DEF SeenInv, Present
    <3> QED BY <3>5, <3>10, Zenon
  <2> QED
    BY <1>3, <2>2, <2>3, Zenon DEF Settle, Submit, FindSettlement, Execute, ExecuteUnknown,
                            ReplaySettlement, SettlementResult, CallFails, Rollback
<1> QED
  BY <1>1, <1>2, <1>3, Zenon DEF Next

\* The snapshot of a player that had one at first stays equal to the assets:
\* the transaction of settlement writes both, and no restore rebuilds it.
THEOREM SnapshotIsCurrentHolds ==
    Spec => [](SnapshotInv /\ SeenInv /\ SnapshotIsCurrent)
<1>1. Init => SnapshotInv /\ SeenInv
  <2> SUFFICES ASSUME Init PROVE SnapshotInv /\ SeenInv
    BY Zenon
  <2>1. InitialAssets \in Assets
    BY DEF InitialAssets, Assets
  <2> QED
    BY <2>1, Zenon DEF Init, SnapshotInv, SeenInv, Present
<1>2. LedgerInv /\ SnapshotInv /\ SeenInv /\ [Next]_vars => (SnapshotInv /\ SeenInv)'
  BY SnapshotStep, Zenon
<1>3. SnapshotInv => SnapshotIsCurrent
  BY Zenon DEF SnapshotInv, SnapshotIsCurrent, Present
<1> QED
  BY <1>1, <1>2, <1>3, LedgerInvHolds, PTL DEF Spec

\* No restore gives the client of a player that had a snapshot at first a state
\* older than the one it holds.
THEOREM ClientNeverGoesBackHolds == Spec => ClientNeverGoesBack
<1> DEFINE Forward ==
             \A p \in Player \ Missing :
                seen[p] # NoSnapshot => seen'[p] # NoSnapshot /\ seen'[p].version >= seen[p].version
<1>1. LedgerInv /\ SnapshotInv /\ SeenInv /\ [Next]_vars => [Forward]_vars
  <2> SUFFICES ASSUME LedgerInv, SnapshotInv, SeenInv, Next, NEW p \in Present, seen[p] # NoSnapshot
               PROVE  seen'[p] # NoSnapshot /\ seen'[p].version >= seen[p].version
    BY Zenon DEF Present
  <2>1. p \in Player /\ snapshot[p] = assets[p] /\ assets[p] \in Assets
    BY Zenon DEF SnapshotInv, Present, LedgerInv, DocumentInv
  <2>2. seen[p] \in Assets /\ seen[p].version \in Nat /\ assets[p].version \in Nat
    BY <2>1, Zenon DEF SeenInv, Assets
  <2>3. seen[p].version <= assets[p].version /\ assets[p] # NoSnapshot
    BY <2>1, NullAssumption, Zenon DEF SeenInv
  <2>4. CASE seen'[p] = seen[p]
    BY <2>2, <2>4
  <2>5. ASSUME NEW q \in Player, Restore(q)
        PROVE  seen'[p] = seen[p] \/ seen'[p] = assets[p]
    <3>1. CASE q = p
      <4>1. FindSnapshot(p) /\ Answer(p, snapshot[p])
        BY <2>1, <2>3, <2>5, <3>1, SMTT(30), Zenon
           DEF Restore, FindSnapshot, ReadAssets, SaveSnapshot, SnapshotInv
      <4> QED
        BY <2>1, <4>1, AnswerFacts, SMTT(30), Zenon
    <3>2. CASE q # p
      BY <2>1, <2>5, <3>2, SMTT(30), Zenon
         DEF Restore, FindSnapshot, ReadAssets, SaveSnapshot, Answer, Relay, SeenInv
    <3> QED BY <3>1, <3>2, Zenon
  <2>6. seen' = seen \/ \E q \in Player : Restore(q)
    BY Zenon DEF Next, Settle, Submit, FindSettlement, Execute, ExecuteUnknown,
           ReplaySettlement, SettlementResult, CallFails
  <2> QED
    BY <2>2, <2>3, <2>4, <2>5, <2>6, Zenon
<1>2. Spec => [](SnapshotInv /\ SeenInv)
  BY SnapshotIsCurrentHolds, PTL
<1> QED
  BY <1>1, <1>2, LedgerInvHolds, PTL DEF Spec, ClientNeverGoesBack
-----------------------------------------------------------------------------

\* What clients see of the handlers, after one of them has moved.
LEMMA AskedMoves ==
    ASSUME req \in [Request -> Handler], NEW r \in Request, NEW h, req' = [req EXCEPT ![r] = h]
    PROVE  [q \in Request |-> Asked(req[q])]' =
               [[q \in Request |-> Asked(req[q])] EXCEPT ![r] = Asked(h)]
<1>1. \A q \in Request : req'[q] = IF q = r THEN h ELSE req[q]
  BY Zenon
<1>2. [q \in Request |-> Asked(req'[q])] =
          [[q \in Request |-> Asked(req[q])] EXCEPT ![r] = Asked(h)]
  BY <1>1, ZenonT(60)
<1>3. [q \in Request |-> Asked(req[q])]' = [q \in Request |-> Asked(req'[q])]
  BY Zenon DEF Asked
<1> QED
  BY <1>2, <1>3, Zenon

\* A handler that moves without an answer stays pending.
LEMMA AskedPending ==
    \A h : h.pc \in {"find", "txn", "replay", "result"} =>
              Asked(h) = [status |-> "pending", sub |-> h.sub]
BY DEF Asked

\* A handler that ends without success shows how.
LEMMA AskedEnded ==
    \A h : h.pc \in {"conflict", "insufficient", "failed"} =>
              Asked(h) = [status |-> h.pc, sub |-> h.sub]
BY DEF Asked

\* Every step of a handler is a step of the ledger or changes nothing there.
LEMMA SettleRefines ==
    ASSUME LedgerInv, NEW r \in Request, Settle(r)
    PROVE  [L!Next]_(L!vars)
<1> DEFINE asked == [q \in Request |-> Asked(req[q])]
           sub == req[r].sub
           id == sub[1]
           b == sub[2]
<1>1. req \in [Request -> Handler] /\ req[r] \in Handler /\ asked[r] = Asked(req[r])
  BY Zenon DEF LedgerInv, DocumentInv
<1>2. CASE Submit(r)
  <2>1. PICK s \in Submission : req' = [req EXCEPT ![r] = [pc |-> "find", sub |-> s]]
    BY <1>2, Zenon DEF Submit
  <2>2. asked[r].status = "none" /\ UNCHANGED <<ledger, assets>>
    BY <1>1, <1>2 DEF Submit, Asked
  <2>3. Asked([pc |-> "find", sub |-> s]) = L!Pending(s)
    BY AskedPending DEF L!Pending
  <2>4. asked' = [asked EXCEPT ![r] = L!Pending(s)]
    BY <1>1, <2>1, <2>3, AskedMoves, Zenon
  <2>5. L!Ask(r)
    BY <2>2, <2>4, Zenon DEF L!Ask
  <2> QED BY <2>5, Zenon DEF L!Next
<1>3. ASSUME req[r].pc \in {"find", "txn", "replay", "result"}
      PROVE  /\ asked[r].status = "pending" /\ asked[r].sub = sub
             /\ sub \in Submission /\ id \in SettlementId /\ b \in Body /\ b.player \in Player
  <2>1. asked[r] = [status |-> "pending", sub |-> sub]
    BY <1>1, <1>3, AskedPending
  <2>2. sub \in Submission
    BY <1>1, <1>3, HandlerFields, Zenon
  <2>3. id \in SettlementId /\ b \in Body
    BY <2>2, SubmissionParts, Zenon
  <2>4. b.player \in Player
    BY <2>3, Zenon DEF Body
  <2> QED BY <2>1, <2>2, <2>3, <2>4
<1>4. ASSUME NEW pc \in {"conflict", "insufficient", "failed"}, Goto(r, pc)
      PROVE  asked' = [asked EXCEPT ![r] = L!Ended(pc, sub)]
  <2>1. Asked([pc |-> pc, sub |-> sub]) = L!Ended(pc, sub)
    BY AskedEnded DEF L!Ended
  <2> QED BY <1>1, <1>4, <2>1, AskedMoves, Zenon DEF Goto
<1>5. ASSUME req[r].pc \in {"find", "txn", "replay", "result"},
             \/ \E pc \in {"txn", "replay"} : Goto(r, pc)
             \/ \E e, replayed : GotoResult(r, e, replayed)
      PROVE  asked' = asked
  <2>1. PICK h : /\ req' = [req EXCEPT ![r] = h]
                 /\ h.pc \in {"find", "txn", "replay", "result"} /\ h.sub = sub
    <3>1. CASE \E pc \in {"txn", "replay"} : Goto(r, pc)
      BY <3>1, Zenon DEF Goto
    <3>2. CASE \E e, replayed : GotoResult(r, e, replayed)
      BY <3>2, Zenon DEF GotoResult
    <3> QED BY <1>5, <3>1, <3>2, Zenon
  <2>2. Asked(h) = [status |-> "pending", sub |-> sub] /\ Asked(req[r]) = Asked(h)
    BY <1>5, <2>1, AskedPending
  <2>3. asked' = [asked EXCEPT ![r] = asked[r]]
    BY <1>1, <2>1, <2>2, AskedMoves, Zenon
  <2> QED BY <2>3, ZenonT(60)
<1>6. ASSUME req[r].pc = "txn", ledger[id] = NoEntry, Affordable(b), Commit(id, b),
             asked' = asked \/ asked' = [asked EXCEPT ![r] = L!Ended("failed", sub)]
      PROVE  L!Apply(r)
  <2>1. ledger' = [ledger EXCEPT ![id] = b] /\ L!Covered(b)
    BY <1>6, Zenon DEF Commit, Affordable, L!Covered
  <2>2. assets' = [assets EXCEPT ![b.player] = L!Changed(b)]
    BY <1>6, Zenon DEF Commit, ApplyDelta, L!Changed
  <2> QED BY <1>3, <1>6, <2>1, <2>2, Zenon DEF L!Apply
<1>7. CASE FindSettlement(r)
  <2>1. req[r].pc = "find" /\ UNCHANGED <<ledger, assets>>
    BY <1>7, Zenon DEF FindSettlement
  <2>2. CASE Goto(r, "txn") \/ GotoResult(r, ledger[id], TRUE)
    BY <1>5, <2>1, <2>2, Zenon DEF L!vars
  <2>3. CASE ledger[id] \notin {NoEntry, b} /\ Goto(r, "conflict")
    BY <1>3, <1>4, <2>1, <2>3, Zenon DEF L!Next, L!Conflict
  <2> QED BY <1>7, <2>2, <2>3, Zenon DEF FindSettlement
<1>8. CASE Execute(r)
  <2>1. CASE Rollback /\ Goto(r, "replay")
    BY <1>5, <1>8, <2>1, Zenon DEF Execute, Rollback, L!vars
  <2>2. CASE ledger[id] = NoEntry /\ ~Affordable(b) /\ Rollback /\ Goto(r, "insufficient")
    <3>1. ~L!Covered(b) /\ UNCHANGED <<ledger, assets>> /\ req[r].pc = "txn"
      BY <1>8, <2>2, Zenon DEF Execute, Rollback, Affordable, L!Covered
    <3> QED BY <1>3, <1>4, <2>2, <3>1, Zenon DEF L!Next, L!Refuse
  <2>3. CASE ledger[id] = NoEntry /\ Affordable(b) /\ Commit(id, b) /\ GotoResult(r, b, FALSE)
    <3>1. req[r].pc = "txn"
      BY <1>8, Zenon DEF Execute
    <3> QED BY <1>5, <1>6, <2>3, <3>1, Zenon DEF L!Next
  <2> QED BY <1>8, <2>1, <2>2, <2>3, Zenon DEF Execute
<1>9. CASE ExecuteUnknown(r)
  <2>1. /\ req[r].pc = "txn" /\ ledger[id] = NoEntry
        /\ Affordable(b) /\ Commit(id, b) /\ Goto(r, "failed")
    BY <1>9, Zenon DEF ExecuteUnknown
  <2> QED BY <1>4, <1>6, <2>1, Zenon DEF L!Next
<1>10. CASE ReplaySettlement(r)
  BY <1>5, <1>10, Zenon DEF ReplaySettlement, L!vars
<1>11. CASE SettlementResult(r)
  <2> DEFINE e == ledger[id]
             h == [pc |-> "ok", sub |-> sub, entry |-> req[r].entry, replayed |-> req[r].replayed,
                   balance |-> assets[req[r].entry.player].bal[req[r].entry.asset],
                   version |-> assets[req[r].entry.player].version]
             answer == [status |-> "ok", sub |-> sub, balance |-> assets[e.player].bal[e.asset],
                        version |-> assets[e.player].version]
  <2>1. req[r].pc = "result" /\ req' = [req EXCEPT ![r] = h] /\ UNCHANGED <<ledger, assets>>
    BY <1>11, Zenon DEF SettlementResult
  <2>2. e = req[r].entry /\ e # NoEntry
    BY <1>1, <2>1, HandlerFields, NullAssumption, Zenon DEF LedgerInv, RecordInv
  <2>3. Asked(h) = answer
    BY <2>2 DEF Asked
  <2>4. asked' = [asked EXCEPT ![r] = answer]
    BY <1>1, <2>1, <2>3, AskedMoves, Zenon
  <2> QED BY <1>3, <2>1, <2>2, <2>4, ZenonT(60) DEF L!Next, L!Answer
<1>12. CASE CallFails(r)
  <2>1. /\ req[r].pc \in {"find", "txn", "replay", "result"}
        /\ Goto(r, "failed") /\ UNCHANGED <<ledger, assets>>
    BY <1>12, Zenon DEF CallFails
  <2> QED BY <1>3, <1>4, <2>1, Zenon DEF L!Next, L!Fail
<1> QED
  BY <1>2, <1>7, <1>8, <1>9, <1>10, <1>11, <1>12, Zenon DEF Settle

\* The Lobby's settlement handlers implement the ledger, for any players,
\* submissions, requests and faults.
THEOREM ImplementsLedgerHolds == Spec => ImplementsLedger
<1>1. Init => L!Init
  <2> SUFFICES ASSUME Init PROVE L!Init
    BY Zenon
  <2>1. \A r \in Request : Asked(req[r]) = [status |-> "none"]
    BY DEF Init, Idle, Asked
  <2>2. [r \in Request |-> Asked(req[r])] = [r \in Request |-> [status |-> "none"]]
    BY <2>1, Zenon
  <2> QED BY <2>2, Zenon DEF Init, L!Init
<1>2. LedgerInv /\ [Next]_vars => [L!Next]_(L!vars)
  <2> SUFFICES ASSUME LedgerInv, [Next]_vars PROVE [L!Next]_(L!vars)
    BY Zenon
  <2>1. ASSUME UNCHANGED <<ledger, assets, req>> PROVE UNCHANGED L!vars
    <3>1. [r \in Request |-> Asked(req[r])]' = [r \in Request |-> Asked(req'[r])]
      BY Zenon DEF Asked
    <3> QED BY <2>1, <3>1, Zenon DEF L!vars
  <2>2. CASE UNCHANGED vars
    BY <2>1, <2>2, Zenon DEF vars
  <2>3. ASSUME NEW p \in Player, Restore(p) PROVE [L!Next]_(L!vars)
    BY <2>1, <2>3, Zenon DEF Restore, FindSnapshot, ReadAssets, SaveSnapshot
  <2>4. ASSUME NEW r \in Request, Settle(r) PROVE [L!Next]_(L!vars)
    BY <2>4, SettleRefines, Zenon
  <2> QED BY <2>2, <2>3, <2>4, Zenon DEF Next
<1> QED
  BY <1>1, <1>2, LedgerInvHolds, PTL DEF Spec, ImplementsLedger, L!Spec

-----------------------------------------------------------------------------
(* Versions *)

\* The state s is the one its version stands for in the history h.
Known(h, s) == s.version \in 1 .. Len(h) /\ h[s.version] = s.bal

\* The assets are the last state of the history.
HistoryInv ==
    /\ history \in [Player -> Seq([Asset -> Int])]
    /\ \A p \in Player : Len(history[p]) = assets[p].version /\ Known(history[p], assets[p])

\* Whatever was copied from the assets, at any time, is known.
CopiesInv ==
    \A p \in Player :
        /\ snapshot[p] # NoSnapshot => Known(history[p], snapshot[p])
        /\ restore[p].copy # NoSnapshot => Known(history[p], restore[p].copy)
        /\ seen[p] # NoSnapshot => Known(history[p], seen[p])

\* And so is what a handler has answered.
AnswerKnown(h, x) ==
    x.version \in 1 .. Len(h) /\ h[x.version][x.entry.asset] = x.balance

AnswersInv ==
    \A r \in Request : req[r].pc = "ok" => AnswerKnown(history[req[r].entry.player], req[r])

LEMMA HistoryAppend ==
    ASSUME NEW S, NEW h \in Seq(S), NEW x \in S
    PROVE  /\ Append(h, x) \in Seq(S) /\ Len(h) \in Nat /\ Len(Append(h, x)) = Len(h) + 1
           /\ Append(h, x)[Len(h) + 1] = x /\ Len(h) + 1 \in 1 .. Len(h) + 1
           /\ \A i \in 1 .. Len(h) : i \in 1 .. Len(h) + 1 /\ Append(h, x)[i] = h[i]
OBVIOUS

\* A step that changes the database is the commit of a handler's transaction.
LEMMA OnlyCommits ==
    ASSUME [Next]_vars
    PROVE  \/ UNCHANGED <<ledger, assets, history>>
           \/ \E r \in Request : /\ req[r].pc = "txn" /\ Commit(req[r].sub[1], req[r].sub[2])
                                  /\ ledger[req[r].sub[1]] = NoEntry
                                  /\ \E h : req' = [req EXCEPT ![r] = h] /\ h.pc # "ok"
                                  /\ UNCHANGED <<restore, seen>>
<1>1. CASE UNCHANGED vars
  BY <1>1, Zenon DEF vars
<1>2. ASSUME NEW p \in Player, Restore(p) PROVE UNCHANGED <<ledger, assets, history>>
  BY <1>2, Zenon DEF Restore, FindSnapshot, ReadAssets, SaveSnapshot
<1>3. ASSUME NEW r \in Request, Execute(r) \/ ExecuteUnknown(r)
      PROVE  \/ UNCHANGED <<ledger, assets, history>>
             \/ /\ req[r].pc = "txn" /\ Commit(req[r].sub[1], req[r].sub[2])
                /\ ledger[req[r].sub[1]] = NoEntry
                /\ \E h : req' = [req EXCEPT ![r] = h] /\ h.pc # "ok"
                /\ UNCHANGED <<restore, seen>>
  <2>1. \A e, x : [pc |-> "result", sub |-> req[r].sub, entry |-> e, replayed |-> x].pc # "ok"
    OBVIOUS
  <2>2. [pc |-> "failed", sub |-> req[r].sub].pc # "ok"
    OBVIOUS
  <2> QED BY <1>3, <2>1, <2>2, Zenon DEF Execute, ExecuteUnknown, Rollback, Goto, GotoResult
<1>4. ASSUME NEW r \in Request, Settle(r)
      PROVE  Execute(r) \/ ExecuteUnknown(r) \/ UNCHANGED <<ledger, assets, history>>
  BY <1>4, Zenon DEF Settle, Submit, FindSettlement, ReplaySettlement, SettlementResult, CallFails
<1> QED BY <1>1, <1>2, <1>3, <1>4, Zenon DEF Next

\* The history only grows, and its last state stays the assets.
LEMMA HistoryStep ==
    ASSUME LedgerInv, HistoryInv, [Next]_vars
    PROVE  /\ HistoryInv'
           /\ \A p \in Player : \A s : Known(history[p], s) => Known(history'[p], s)
           /\ \A p \in Player : \A x : AnswerKnown(history[p], x) => AnswerKnown(history'[p], x)
<1>1. CASE UNCHANGED <<ledger, assets, history>>
  BY <1>1, Zenon DEF HistoryInv, Known, AnswerKnown
<1>2. ASSUME NEW r \in Request, req[r].pc = "txn", Commit(req[r].sub[1], req[r].sub[2])
      PROVE  /\ HistoryInv'
             /\ \A p \in Player : \A s : Known(history[p], s) => Known(history'[p], s)
             /\ \A p \in Player : \A x : AnswerKnown(history[p], x) => AnswerKnown(history'[p], x)
  <2> DEFINE b == req[r].sub[2]
             new == ApplyDelta(b)
             old == history[b.player]
  <2>1. b \in Body
    BY <1>2, HandlerFields, SubmissionParts, Zenon DEF LedgerInv, DocumentInv
  <2>2. b.player \in Player
    BY <2>1, Zenon DEF Body
  <2>3. new \in Assets /\ new.version = assets[b.player].version + 1
    BY <2>1, ApplyDeltaFacts, Zenon DEF LedgerInv
  <2>4. new.bal \in [Asset -> Int]
    BY <2>3, Zenon DEF Assets
  <2>5. /\ assets' = [assets EXCEPT ![b.player] = new]
        /\ history' = [history EXCEPT ![b.player] = Append(old, new.bal)]
    BY <1>2, Zenon DEF Commit
  <2> HIDE DEF new
  <2>6. old \in Seq([Asset -> Int]) /\ Len(old) = assets[b.player].version
    BY <2>2, Zenon DEF HistoryInv
  <2>7. /\ Append(old, new.bal) \in Seq([Asset -> Int])
        /\ Len(Append(old, new.bal)) = new.version
        /\ Known(Append(old, new.bal), new)
        /\ Len(old) \in Nat /\ new.version = Len(old) + 1
        /\ \A i \in 1 .. Len(old) : i \in 1 .. Len(old) + 1 /\ Append(old, new.bal)[i] = old[i]
    <3>1. /\ Append(old, new.bal) \in Seq([Asset -> Int]) /\ Len(old) \in Nat
          /\ Len(Append(old, new.bal)) = Len(old) + 1
          /\ Append(old, new.bal)[Len(old) + 1] = new.bal /\ Len(old) + 1 \in 1 .. Len(old) + 1
          /\ \A i \in 1 .. Len(old) : i \in 1 .. Len(old) + 1 /\ Append(old, new.bal)[i] = old[i]
      <4> DEFINE S == [Asset -> Int]
                 x == new.bal
      <4>1. old \in Seq(S) /\ x \in S
        BY <2>4, <2>6, Zenon
      <4> HIDE DEF old, S, x
      <4>2. /\ Append(old, x) \in Seq(S) /\ Len(old) \in Nat
            /\ Len(Append(old, x)) = Len(old) + 1
            /\ Append(old, x)[Len(old) + 1] = x /\ Len(old) + 1 \in 1 .. Len(old) + 1
            /\ \A i \in 1 .. Len(old) : i \in 1 .. Len(old) + 1 /\ Append(old, x)[i] = old[i]
        BY <4>1, HistoryAppend
      <4> QED BY <4>2, Zenon DEF S, x
    <3>2. new.version = Len(old) + 1
      BY <2>3, <2>6, Zenon
    <3> QED BY <3>1, <3>2, Zenon DEF Known
  <2>8. /\ history'[b.player] = Append(old, new.bal) /\ assets'[b.player] = new
        /\ \A p \in Player \ {b.player} : history'[p] = history[p] /\ assets'[p] = assets[p]
    BY <2>2, <2>5, Zenon DEF HistoryInv, LedgerInv, DocumentInv
  <2>9. history' \in [Player -> Seq([Asset -> Int])]
    BY <2>2, <2>5, <2>7, Zenon DEF HistoryInv
  <2>10. \A p \in Player : Len(history'[p]) = assets'[p].version /\ Known(history'[p], assets'[p])
    BY <2>7, <2>8, ZenonT(60) DEF HistoryInv
  <2>11. HistoryInv'
    BY <2>9, <2>10, Zenon DEF HistoryInv, Known
  <2>12. \A s : Known(old, s) => Known(Append(old, new.bal), s)
    BY <2>7, Zenon DEF Known
  <2>13. \A x : AnswerKnown(old, x) => AnswerKnown(Append(old, new.bal), x)
    BY <2>7, Zenon DEF AnswerKnown
  <2> QED BY <2>8, <2>11, <2>12, <2>13, Zenon
<1> QED BY <1>1, <1>2, OnlyCommits, Zenon

\* Every copy stays known: a copy is taken from the assets or from another copy.
LEMMA CopiesStep ==
    ASSUME LedgerInv, SnapshotInv, SeenInv, HistoryInv, CopiesInv, [Next]_vars
    PROVE  CopiesInv'
<1>1. /\ HistoryInv'
      /\ \A p \in Player : \A s : Known(history[p], s) => Known(history'[p], s)
  BY HistoryStep, Zenon
<1>2. \A p \in Player : Known(history'[p], assets'[p])
  BY <1>1, Zenon DEF HistoryInv, Known
<1> DEFINE Kept(p, s) == s # NoSnapshot => Known(history'[p], s)
<1>3. \A p \in Player : Kept(p, snapshot[p]) /\ Kept(p, restore[p].copy) /\ Kept(p, seen[p])
  BY <1>1, Zenon DEF CopiesInv
<1>4. ASSUME \A p \in Player : /\ Kept(p, snapshot'[p]) /\ Kept(p, restore'[p].copy)
                               /\ Kept(p, seen'[p])
      PROVE  CopiesInv'
  BY <1>4, Zenon DEF CopiesInv, Known
<1>5. CASE UNCHANGED <<snapshot, restore, seen>>
  BY <1>3, <1>4, <1>5, Zenon
<1>6. ASSUME NEW r \in Request, req[r].pc = "txn", Commit(req[r].sub[1], req[r].sub[2]),
             UNCHANGED <<restore, seen>>
      PROVE  CopiesInv'
  <2>1. /\ snapshot' = [snapshot EXCEPT ![req[r].sub[2].player] = ApplyDelta(req[r].sub[2])]
        /\ assets' = [assets EXCEPT ![req[r].sub[2].player] = ApplyDelta(req[r].sub[2])]
    BY <1>6, Zenon DEF Commit
  <2>2. \A p \in Player : snapshot'[p] = snapshot[p] \/ snapshot'[p] = assets'[p]
    BY <2>1, Zenon DEF SnapshotInv, LedgerInv, DocumentInv
  <2> QED BY <1>2, <1>3, <1>4, <1>6, <2>2, Zenon
<1>7. ASSUME NEW p \in Player, Restore(p) PROVE CopiesInv'
  <2>1. history' = history /\ assets' = assets
    BY <1>7, Zenon DEF Restore, FindSnapshot, ReadAssets, SaveSnapshot
  <2>2. ASSUME NEW s \in Assets \cup {NoSnapshot}, Answer(p, s), Kept(p, s),
               snapshot' = snapshot \/ snapshot' = [snapshot EXCEPT ![p] = s]
        PROVE  CopiesInv'
    <3>1. \A q \in Player : seen'[q] = seen[q] \/ (q = p /\ seen'[q] = s)
      BY <2>2, AnswerFacts, Zenon
    <3>2. restore' = [restore EXCEPT ![p] = [pc |-> "idle", copy |-> NoSnapshot]]
      BY <2>2, Zenon DEF Answer
    <3>3. \A q \in Player : restore'[q].copy = restore[q].copy \/ restore'[q].copy = NoSnapshot
      BY <3>2, Zenon DEF SnapshotInv
    <3>4. \A q \in Player : snapshot'[q] = snapshot[q] \/ (q = p /\ snapshot'[q] = s)
      BY <2>2, Zenon DEF SnapshotInv
    <3> QED BY <1>3, <1>4, <2>2, <3>1, <3>3, <3>4, Zenon
  <2>3. snapshot[p] \in Assets \cup {NoSnapshot} /\ restore[p].copy \in Assets \cup {NoSnapshot}
    BY Zenon DEF SnapshotInv
  <2>4. CASE FindSnapshot(p)
    <3>1. CASE Answer(p, snapshot[p]) /\ snapshot' = snapshot
      BY <1>3, <2>2, <2>3, <3>1, Zenon
    <3>2. CASE /\ restore' = [restore EXCEPT ![p] = [pc |-> "read", copy |-> NoSnapshot]]
               /\ UNCHANGED <<seen, snapshot>>
      <4>1. \A q \in Player : restore'[q].copy = restore[q].copy \/ restore'[q].copy = NoSnapshot
        BY <3>2, Zenon DEF SnapshotInv
      <4> QED BY <1>3, <1>4, <3>2, <4>1, Zenon
    <3> QED BY <2>4, <3>1, <3>2, Zenon DEF FindSnapshot
  <2>5. CASE ReadAssets(p)
    <3>1. /\ restore' = [restore EXCEPT ![p] = [pc |-> "save", copy |-> assets[p]]]
          /\ UNCHANGED <<seen, snapshot>>
      BY <2>5, Zenon DEF ReadAssets
    <3>2. \A q \in Player : restore'[q].copy = restore[q].copy \/ restore'[q].copy = assets'[q]
      BY <2>1, <3>1, Zenon DEF SnapshotInv
    <3> QED BY <1>2, <1>3, <1>4, <3>1, <3>2, Zenon
  <2>6. CASE SaveSnapshot(p)
    <3>1. /\ Answer(p, restore[p].copy)
          /\ snapshot' = snapshot \/ snapshot' = [snapshot EXCEPT ![p] = restore[p].copy]
      BY <2>6, Zenon DEF SaveSnapshot
    <3> QED BY <1>3, <2>2, <2>3, <3>1, Zenon
  <2> QED BY <1>7, <2>4, <2>5, <2>6, Zenon DEF Restore
<1>8. ASSUME NEW r \in Request, Settle(r)
      PROVE  UNCHANGED <<restore, seen>>
  BY <1>8, ZenonT(30) DEF Settle, Submit, FindSettlement, Execute, ExecuteUnknown,
                ReplaySettlement, SettlementResult, CallFails
<1>9. ASSUME NEW r \in Request, Settle(r)
      PROVE  \/ UNCHANGED snapshot
             \/ req[r].pc = "txn" /\ Commit(req[r].sub[1], req[r].sub[2])
  BY <1>9, ZenonT(30) DEF Settle, Submit, FindSettlement, Execute, ExecuteUnknown,
                ReplaySettlement, SettlementResult, CallFails, Rollback
<1>10. CASE UNCHANGED vars
  BY <1>5, <1>10, Zenon DEF vars
<1> QED BY <1>5, <1>6, <1>7, <1>8, <1>9, <1>10, Zenon DEF Next

\* Every answer stays known; a new one is read from the assets.
LEMMA AnswersStep ==
    ASSUME LedgerInv, HistoryInv, AnswersInv, [Next]_vars
    PROVE  AnswersInv'
<1>1. \A p \in Player : \A x : AnswerKnown(history[p], x) => AnswerKnown(history'[p], x)
  BY HistoryStep, Zenon
<1>2. \A r \in Request : req[r].pc = "ok" => req[r].entry.player \in Player
  BY HandlerFields, Zenon DEF LedgerInv, DocumentInv, Body
<1>3. ASSUME \A r \in Request : req'[r] = req[r] \/ req'[r].pc # "ok"
                                \/ AnswerKnown(history'[req'[r].entry.player], req'[r])
      PROVE  AnswersInv'
  <2>1. \A r \in Request :
           req'[r].pc = "ok" => AnswerKnown(history'[req'[r].entry.player], req'[r])
    BY <1>1, <1>2, <1>3, Zenon DEF AnswersInv
  <2> QED BY <2>1, Zenon DEF AnswersInv, AnswerKnown
<1>4. CASE req' = req
  BY <1>3, <1>4, Zenon
<1>5. ASSUME NEW r \in Request, NEW h, req' = [req EXCEPT ![r] = h],
             h.pc # "ok" \/ AnswerKnown(history'[h.entry.player], h)
      PROVE  AnswersInv'
  <2>1. \A q \in Request : req'[q] = IF q = r THEN h ELSE req[q]
    BY <1>5, Zenon DEF LedgerInv, DocumentInv
  <2> QED BY <1>3, <1>5, <2>1, Zenon
<1>6. ASSUME NEW p \in Player, Restore(p) PROVE req' = req
  BY <1>6, Zenon DEF Restore, FindSnapshot, ReadAssets, SaveSnapshot
<1>7. ASSUME NEW r \in Request, SettlementResult(r) PROVE AnswersInv'
  <2> DEFINE e == req[r].entry
             ok == [pc |-> "ok", sub |-> req[r].sub, entry |-> e, replayed |-> req[r].replayed,
                    balance |-> assets[e.player].bal[e.asset],
                    version |-> assets[e.player].version]
  <2>1. e.player \in Player
    BY <1>7, HandlerFields, Zenon DEF SettlementResult, LedgerInv, DocumentInv, Body
  <2>2. Known(history[e.player], assets[e.player])
    BY <2>1, Zenon DEF HistoryInv
  <2>3. /\ ok.entry = e /\ ok.version = assets[e.player].version
        /\ ok.balance = assets[e.player].bal[e.asset]
    BY Zenon
  <2>4. req' = [req EXCEPT ![r] = ok] /\ history' = history
    BY <1>7, Zenon DEF SettlementResult
  <2> HIDE DEF ok
  <2>5. AnswerKnown(history'[ok.entry.player], ok)
    BY <2>2, <2>3, <2>4, Zenon DEF Known, AnswerKnown
  <2> QED BY <1>5, <2>4, <2>5, Zenon
<1>8. ASSUME NEW r \in Request, Settle(r), ~SettlementResult(r)
      PROVE  \E h : req' = [req EXCEPT ![r] = h] /\ h.pc # "ok"
  <2>1. \A pc \in {"find", "txn", "replay", "conflict", "insufficient", "failed"} : \A x :
           [pc |-> pc, sub |-> x].pc # "ok"
    OBVIOUS
  <2>2. \A e, x : [pc |-> "result", sub |-> req[r].sub, entry |-> e, replayed |-> x].pc # "ok"
    OBVIOUS
  <2>3. ASSUME NEW pc \in {"txn", "replay", "conflict", "insufficient", "failed"}, Goto(r, pc)
        PROVE  \E h : req' = [req EXCEPT ![r] = h] /\ h.pc # "ok"
    BY <2>1, <2>3, Zenon DEF Goto
  <2>4. ASSUME NEW e, NEW x, GotoResult(r, e, x)
        PROVE  \E h : req' = [req EXCEPT ![r] = h] /\ h.pc # "ok"
    BY <2>2, <2>4, Zenon DEF GotoResult
  <2>5. CASE Submit(r)
    BY <2>1, <2>5, Zenon DEF Submit
  <2>6. CASE FindSettlement(r) \/ ReplaySettlement(r)
    BY <2>3, <2>4, <2>6, Zenon DEF FindSettlement, ReplaySettlement
  <2>7. CASE Execute(r) \/ ExecuteUnknown(r) \/ CallFails(r)
    BY <2>3, <2>4, <2>7, Zenon DEF Execute, ExecuteUnknown, CallFails
  <2> QED BY <1>8, <2>5, <2>6, <2>7, Zenon DEF Settle
<1>9. UNCHANGED vars => req' = req
  BY Zenon DEF vars
<1> QED BY <1>4, <1>5, <1>6, <1>7, <1>8, <1>9, Zenon DEF Next

\* A version stands for one state, for any interleaving and any faults: what is
\* answered, copied, restored or kept through a NOOP is what the assets were at
\* its version (settlementResult, RestorePlayer).
THEOREM VersionsAreStatesHolds ==
    Spec => [](HistoryInv /\ VersionsAreStates)
<1>1. Init => HistoryInv /\ CopiesInv /\ AnswersInv
  <2> SUFFICES ASSUME Init PROVE HistoryInv /\ CopiesInv /\ AnswersInv
    BY Zenon
  <2>1. /\ InitialAssets.bal \in [Asset -> Int] /\ InitialAssets.version = 1
        /\ <<InitialAssets.bal>> \in Seq([Asset -> Int])
        /\ Len(<<InitialAssets.bal>>) = 1 /\ <<InitialAssets.bal>>[1] = InitialAssets.bal
        /\ 1 \in 1 .. 1
    BY DEF InitialAssets
  <2>2. Known(<<InitialAssets.bal>>, InitialAssets)
    BY <2>1, Zenon DEF Known
  <2>3. \A p \in Player : /\ history[p] = <<InitialAssets.bal>> /\ assets[p] = InitialAssets
                          /\ snapshot[p] \in {NoSnapshot, InitialAssets}
                          /\ restore[p].copy = NoSnapshot /\ seen[p] = NoSnapshot
    BY Zenon DEF Init
  <2>4. HistoryInv
    BY <2>1, <2>2, <2>3, Zenon DEF Init, HistoryInv
  <2>5. CopiesInv
    BY <2>2, <2>3, Zenon DEF CopiesInv
  <2>6. AnswersInv
    BY DEF Init, Idle, AnswersInv
  <2> QED BY <2>4, <2>5, <2>6, Zenon
<1>2. /\ LedgerInv /\ SnapshotInv /\ SeenInv /\ HistoryInv /\ CopiesInv /\ AnswersInv
      /\ [Next]_vars
      => HistoryInv' /\ CopiesInv' /\ AnswersInv'
  BY HistoryStep, CopiesStep, AnswersStep, Zenon
<1>3. CopiesInv /\ AnswersInv => VersionsAreStates
  BY Zenon DEF CopiesInv, AnswersInv, Known, AnswerKnown, VersionsAreStates
<1> QED
  BY <1>1, <1>2, <1>3, LedgerInvHolds, SnapshotIsCurrentHolds, PTL DEF Spec

-----------------------------------------------------------------------------
(* Sums: what MapThenSumSet computes for a finite set *)

\* Induction over the natural numbers, for a set.
LEMMA NatInduct ==
    ASSUME NEW S, 0 \in S, \A n \in Nat : n \in S => n + 1 \in S
    PROVE  Nat \subseteq S
<1> DEFINE T == Nat \ S
<1>1. SUFFICES ASSUME T # {} PROVE FALSE
  OBVIOUS
<1>2. PICK x \in T : \A y \in T : ~ (<<y, x>> \in OpToRel(<, Nat))
  BY <1>1, WFMin, NatLessThanWellFounded, Zenon
<1>3. x \in T /\ \A y \in T : ~(y < x)
  BY <1>2, Zenon DEF OpToRel
<1>4. x \in Nat /\ x # 0 /\ x - 1 \in Nat /\ x - 1 < x /\ (x - 1) + 1 = x
  BY <1>3
<1>5. x - 1 \notin T
  BY <1>3, <1>4
<1> QED BY <1>3, <1>4, <1>5

\* Induction over the subsets of a finite set.
LEMMA SubsetInduct ==
    ASSUME NEW S, IsFiniteSet(S), NEW G, {} \in G,
           \A s \in SUBSET S : s # {} /\ (\A x \in s : s \ {x} \in G) => s \in G
    PROVE  SUBSET S \subseteq G
<1> DEFINE N == {n \in Nat : \A s \in SUBSET S : Cardinality(s) = n => s \in G}
<1>1. \A s \in SUBSET S : IsFiniteSet(s) /\ Cardinality(s) \in Nat
  BY FS_Subset, FS_CardinalityType
<1>2. 0 \in N
  BY <1>1, FS_EmptySet, Zenon
<1>3. ASSUME NEW n \in Nat, n \in N
      PROVE  n + 1 \in N
  <2> SUFFICES ASSUME NEW s \in SUBSET S, Cardinality(s) = n + 1
               PROVE  s \in G
    OBVIOUS
  <2>1. s # {}
    BY FS_EmptySet
  <2>2. \A x \in s : s \ {x} \in G
    BY <1>1, <1>3, FS_RemoveElement
  <2> QED BY <2>1, <2>2
<1> HIDE DEF N
<1>4. Nat \subseteq N
  BY <1>2, <1>3, NatInduct
<1> QED BY <1>1, <1>4 DEF N

\* The function that MapThenSumSet computes the sum with.
Pick(s) == CHOOSE x \in s : TRUE
Sums(w, f, S) ==
    f = [s \in SUBSET S |-> IF s = {} THEN 0 ELSE w[Pick(s)] + f[s \ {Pick(s)}]]

LEMMA SumIsFold ==
    ASSUME NEW w, NEW S
    PROVE  SumOf(w, S) = (CHOOSE f : Sums(w, f, S))[S]
BY DEF SumOf, MapThenSumSet, MapThenFoldSet, Sums, Pick

LEMMA Picked ==
    ASSUME NEW s, s # {}
    PROVE  Pick(s) \in s
BY DEF Pick

LEMMA BodyFacts ==
    ASSUME NEW w, NEW S, NEW f, Sums(w, f, S)
    PROVE  /\ f[{}] = 0
           /\ \A s \in SUBSET S : s # {} => f[s] = w[Pick(s)] + f[s \ {Pick(s)}]
BY Zenon DEF Sums

\* There is such a function.
LEMMA BodyExists ==
    ASSUME NEW S, IsFiniteSet(S), NEW w \in [S -> Int]
    PROVE  \E f \in [SUBSET S -> Int] : Sums(w, f, S)
<1> DEFINE Upto(n) == {s \in SUBSET S : Cardinality(s) <= n}
           B(f, n) == [s \in Upto(n) |-> IF s = {} THEN 0 ELSE w[Pick(s)] + f[s \ {Pick(s)}]]
           N == {n \in Nat : \E f \in [Upto(n) -> Int] : f = B(f, n)}
<1>1. \A s \in SUBSET S : IsFiniteSet(s) /\ Cardinality(s) \in Nat /\ Cardinality(s) <= Cardinality(S)
  BY FS_Subset, FS_CardinalityType
<1>2. \A s \in SUBSET S : s # {} => /\ Pick(s) \in s
                                    /\ Cardinality(s \ {Pick(s)}) = Cardinality(s) - 1
  BY <1>1, Picked, FS_RemoveElement
<1>3. 0 \in N
  <2>1. Upto(0) = {{}}
    BY <1>1, FS_EmptySet
  <2> DEFINE f == [s \in Upto(0) |-> 0]
  <2>2. f \in [Upto(0) -> Int] /\ f = B(f, 0)
    BY <2>1
  <2> QED BY <2>2, Zenon
<1>4. ASSUME NEW n \in Nat, n \in N
      PROVE  n + 1 \in N
  <2>1. PICK f \in [Upto(n) -> Int] : f = B(f, n)
    BY <1>4, Zenon
  <2> DEFINE g == B(f, n + 1)
  <2>2. \A s \in Upto(n + 1) : s # {} => s \ {Pick(s)} \in Upto(n)
    BY <1>1, <1>2
  <2>3. \A s \in Upto(n + 1) : s # {} => w[Pick(s)] \in Int /\ f[s \ {Pick(s)}] \in Int
    BY <1>2, <2>2
  <2>4. g \in [Upto(n + 1) -> Int]
    BY <2>3
  <2>5. Upto(n) \subseteq Upto(n + 1)
    BY <1>1
  <2>6. \A s \in Upto(n) : f[s] = IF s = {} THEN 0 ELSE w[Pick(s)] + f[s \ {Pick(s)}]
    BY <2>1, Zenon
  <2>7. \A s \in Upto(n) : g[s] = f[s]
    BY <2>5, <2>6
  <2>8. g = B(g, n + 1)
    BY <2>2, <2>7, Zenon
  <2>9. n + 1 \in Nat
    OBVIOUS
  <2> HIDE DEF g
  <2> QED BY <2>4, <2>8, <2>9, Zenon
<1> HIDE DEF N
<1>5. Cardinality(S) \in N
  BY <1>1, <1>3, <1>4, NatInduct, Zenon
<1>6. PICK f \in [Upto(Cardinality(S)) -> Int] : f = B(f, Cardinality(S))
  BY <1>5, Zenon DEF N
<1>7. Upto(Cardinality(S)) = SUBSET S
  BY <1>1
<1>8. f \in [SUBSET S -> Int] /\ Sums(w, f, S)
  BY <1>6, <1>7, Zenon DEF Sums
<1> QED BY <1>8

\* Two functions agree on a set.
Agree(f, g, S) == \A s \in SUBSET S : f[s] = g[s]

\* The sum of a set depends on the weights of its elements only, not on the
\* set it is seen as a part of.
LEMMA BodiesAgree ==
    ASSUME NEW S, IsFiniteSet(S), NEW T, S \subseteq T, NEW w, NEW v, NEW f, NEW g,
           Sums(w, f, S), Sums(v, g, T), \A x \in S : w[x] = v[x]
    PROVE  Agree(f, g, S)
<1> DEFINE G == {s \in SUBSET S : f[s] = g[s]}
<1>1. {} \in G
  BY BodyFacts
<1>2. ASSUME NEW s \in SUBSET S, s # {}, \A x \in s : s \ {x} \in G
      PROVE  s \in G
  <2>1. Pick(s) \in s /\ w[Pick(s)] = v[Pick(s)]
    BY <1>2, Picked
  <2>2. f[s \ {Pick(s)}] = g[s \ {Pick(s)}]
    BY <1>2, <2>1
  <2>3. f[s] = w[Pick(s)] + f[s \ {Pick(s)}] /\ g[s] = v[Pick(s)] + g[s \ {Pick(s)}]
    BY <1>2, BodyFacts, s \in SUBSET T
  <2> QED BY <2>1, <2>2, <2>3
<1> HIDE DEF G
<1>3. SUBSET S \subseteq G
  BY <1>1, <1>2, SubsetInduct, Zenon
<1> QED BY <1>3 DEF G, Agree

Unordered(f, w, S) == \A s \in SUBSET S : \A x \in s : f[s] = w[x] + f[s \ {x}]

\* The order in which the elements are picked does not matter.
LEMMA AnyOrder ==
    ASSUME NEW S, IsFiniteSet(S), NEW w \in [S -> Int], NEW f \in [SUBSET S -> Int],
           Sums(w, f, S)
    PROVE  Unordered(f, w, S)
<1> DEFINE G == {s \in SUBSET S : \A x \in s : f[s] = w[x] + f[s \ {x}]}
<1>1. {} \in G
  OBVIOUS
<1>2. ASSUME NEW s \in SUBSET S, s # {}, \A x \in s : s \ {x} \in G
      PROVE  s \in G
  <2> DEFINE c == Pick(s)
  <2>1. c \in s
    BY <1>2, Picked
  <2>2. f[s] = w[c] + f[s \ {c}]
    BY <1>2, BodyFacts
  <2> HIDE DEF c
  <2> SUFFICES ASSUME NEW x \in s, x # c
               PROVE  f[s] = w[x] + f[s \ {x}]
    BY <2>2, Zenon
  <2>3. f[s \ {c}] = w[x] + f[(s \ {c}) \ {x}]
    BY <1>2, <2>1
  <2>4. f[s \ {x}] = w[c] + f[(s \ {x}) \ {c}]
    BY <1>2, <2>1
  <2>5. (s \ {x}) \ {c} = (s \ {c}) \ {x}
    OBVIOUS
  <2> DEFINE t == (s \ {c}) \ {x}
  <2>6. t \in SUBSET S
    OBVIOUS
  <2>7. w[c] \in Int /\ w[x] \in Int /\ f[t] \in Int
    BY <2>1, <2>6
  <2> HIDE DEF t
  <2>8. f[s] = w[c] + (w[x] + f[t]) /\ f[s \ {x}] = w[c] + f[t]
    BY <2>2, <2>3, <2>4, <2>5, Zenon DEF t
  <2> QED BY <2>7, <2>8
<1> HIDE DEF G
<1>3. SUBSET S \subseteq G
  BY <1>1, <1>2, SubsetInduct, Zenon
<1> QED BY <1>3, Zenon DEF G, Unordered

\* What a sum is.
LEMMA SumIs ==
    ASSUME NEW S, IsFiniteSet(S), NEW T, T \subseteq S, NEW w, NEW v \in [S -> Int],
           \A x \in T : w[x] = v[x],
           NEW f \in [SUBSET S -> Int], Sums(v, f, S)
    PROVE  SumOf(w, T) = f[T]
<1>1. IsFiniteSet(T)
  BY FS_Subset
<1> DEFINE g == CHOOSE h : Sums(w, h, T)
           u == [x \in T |-> v[x]]
<1>2. u \in [T -> Int] /\ \A x \in T : u[x] = w[x]
  OBVIOUS
<1>3. PICK h \in [SUBSET T -> Int] : Sums(u, h, T)
  BY <1>1, <1>2, BodyExists, Zenon
<1>4. Sums(w, h, T)
  BY <1>2, <1>3, Picked, ZenonT(40) DEF Sums
<1>5. Sums(w, g, T)
  BY <1>4
<1>6. SumOf(w, T) = g[T]
  BY SumIsFold
<1> HIDE DEF g
<1>7. Agree(g, f, T)
  BY <1>1, <1>5, BodiesAgree
<1> QED BY <1>6, <1>7 DEF Agree

\* An empty set has the sum 0, an element adds its weight, and other weights
\* for other elements make no difference.
LEMMA SumEmpty ==
    ASSUME NEW w PROVE SumOf(w, {}) = 0
<1> DEFINE v == [x \in {} |-> 0]
<1>1. IsFiniteSet({}) /\ v \in [{} -> Int]
  BY FS_EmptySet
<1>2. PICK f \in [SUBSET {} -> Int] : Sums(v, f, {})
  BY <1>1, BodyExists, Zenon
<1>3. f[{}] = 0
  BY <1>2, BodyFacts
<1>4. SumOf(w, {}) = f[{}]
  BY <1>1, <1>2, SumIs, Zenon
<1> QED BY <1>3, <1>4

LEMMA SumAdds ==
    ASSUME NEW S, IsFiniteSet(S), NEW x, x \notin S, NEW w, NEW v,
           \A y \in S : w[y] = v[y] /\ v[y] \in Int, v[x] \in Int
    PROVE  SumOf(v, S \cup {x}) = SumOf(w, S) + v[x] /\ SumOf(w, S) \in Int
<1> DEFINE T == S \cup {x}
           u == [y \in T |-> v[y]]
<1>1. IsFiniteSet(T) /\ u \in [T -> Int]
  BY FS_AddElement
<1>2. /\ S \subseteq T /\ x \in T /\ T \ {x} = S /\ u[x] = v[x]
      /\ (\A y \in T : v[y] = u[y]) /\ \A y \in S : w[y] = u[y]
  OBVIOUS
<1> HIDE DEF T, u
<1>3. PICK f \in [SUBSET T -> Int] : Sums(u, f, T)
  BY <1>1, BodyExists, Zenon
<1>4. SumOf(v, T) = f[T]
  BY <1>1, <1>2, <1>3, SumIs
<1>5. SumOf(w, S) = f[S] /\ f[S] \in Int
  BY <1>1, <1>2, <1>3, SumIs
<1>6. Unordered(f, u, T)
  BY <1>1, <1>3, AnyOrder
<1>7. f[T] = v[x] + f[S]
  BY <1>2, <1>6 DEF Unordered
<1> QED BY <1>4, <1>5, <1>7 DEF T


-----------------------------------------------------------------------------
(* Balances *)

\* The balances are the sums of the ledger, and only finitely many settlements
\* were made.
BalanceInv == LedgerBalances /\ \A p \in Player : IsFiniteSet(Entries(p))

\* The entry of a committed settlement is one more of its player, and nobody
\* else's; the changes that were there stay.
LEMMA EntryAdded ==
    ASSUME LedgerInv, NEW id \in SettlementId, NEW b \in Body,
           ledger[id] = NoEntry, ledger' = [ledger EXCEPT ![id] = b]
    PROVE  /\ Entries(b.player)' = Entries(b.player) \cup {id} /\ id \notin Entries(b.player)
           /\ \A p \in Player \ {b.player} : Entries(p)' = Entries(p)
           /\ \A a : /\ Changes(a)'[id] = IF b.asset = a THEN b.delta ELSE 0
                     /\ \A i \in SettlementId \ {id} : Changes(a)'[i] = Changes(a)[i]
<1>1. b # NoEntry
  BY NullAssumption
<1>2. ledger'[id] = b /\ \A i \in SettlementId \ {id} : ledger'[i] = ledger[i]
  BY DEF LedgerInv, DocumentInv
<1>3. \A a : Changes(a)' = [i \in SettlementId |->
          IF ledger'[i] # NoEntry /\ ledger'[i].asset = a THEN ledger'[i].delta ELSE 0]
  BY DEF Changes
<1>4. \A a : /\ Changes(a)'[id] = IF b.asset = a THEN b.delta ELSE 0
             /\ \A i \in SettlementId \ {id} : Changes(a)'[i] = Changes(a)[i]
  BY <1>1, <1>2, <1>3 DEF Changes
<1>5. \A p : Entries(p)' = {i \in SettlementId : ledger'[i] # NoEntry /\ ledger'[i].player = p}
  BY DEF Entries
<1>6. /\ Entries(b.player)' = Entries(b.player) \cup {id} /\ id \notin Entries(b.player)
      /\ \A p \in Player \ {b.player} : Entries(p)' = Entries(p)
  BY <1>1, <1>2, <1>5 DEF Entries
<1> QED BY <1>4, <1>6

\* A change is a whole number.
LEMMA ChangesFacts ==
    ASSUME LedgerInv, NEW a, NEW i \in SettlementId
    PROVE  Changes(a)[i] \in Int
<1>1. ledger[i] # NoEntry => ledger[i] \in Body
  BY DEF LedgerInv, DocumentInv
<1>2. ledger[i] # NoEntry => ledger[i].delta \in Int
  BY <1>1, DeltaAssumption, Zenon DEF Body
<1> QED BY <1>2 DEF Changes

\* Changes made to other settlements do not matter to a sum.
LEMMA SumKept ==
    ASSUME NEW S, IsFiniteSet(S), NEW w, NEW v, \A y \in S : w[y] = v[y] /\ v[y] \in Int
    PROVE  SumOf(w, S) = SumOf(v, S)
<1> DEFINE u == [y \in S |-> v[y]]
<1>1. u \in [S -> Int] /\ \A y \in S : w[y] = u[y] /\ v[y] = u[y]
  OBVIOUS
<1> HIDE DEF u
<1>2. PICK f \in [SUBSET S -> Int] : Sums(u, f, S)
  BY <1>1, BodyExists, Zenon
<1>3. SumOf(w, S) = f[S] /\ SumOf(v, S) = f[S]
  BY <1>1, <1>2, SumIs, SMTT(20)
<1> QED BY <1>3

LEMMA CommitBalances ==
    ASSUME LedgerInv, BalanceInv, NEW id \in SettlementId, NEW b \in Body,
           ledger[id] = NoEntry, Commit(id, b)
    PROVE  BalanceInv'
<1> DEFINE q == b.player
<1>1. q \in Player /\ b.asset \in Asset /\ b.delta \in Int
  BY DeltaAssumption, Zenon DEF Body
<1>2. ledger' = [ledger EXCEPT ![id] = b] /\ assets' = [assets EXCEPT ![q] = ApplyDelta(b)]
  BY Zenon DEF Commit
<1>3. /\ Entries(q)' = Entries(q) \cup {id} /\ id \notin Entries(q)
      /\ \A p \in Player \ {q} : Entries(p)' = Entries(p)
      /\ \A a : /\ Changes(a)'[id] = IF b.asset = a THEN b.delta ELSE 0
                /\ \A i \in SettlementId \ {id} : Changes(a)'[i] = Changes(a)[i]
  BY <1>2, EntryAdded, ZenonT(40)
<1>4. assets'[q] = ApplyDelta(b) /\ \A p \in Player \ {q} : assets'[p] = assets[p]
  BY <1>1, <1>2, Zenon DEF LedgerInv, DocumentInv
<1>5. assets[q].bal \in [Asset -> Int] /\ assets[q].version \in Nat
  BY <1>1, Zenon DEF LedgerInv, DocumentInv, Assets
<1>6. /\ ApplyDelta(b).version = assets[q].version + 1
      /\ ApplyDelta(b).bal = [assets[q].bal EXCEPT ![b.asset] = @ + b.delta]
  BY DEF ApplyDelta
<1>7. \A p \in Player : IsFiniteSet(Entries(p)) /\ Entries(p) \subseteq SettlementId
  BY DEF BalanceInv, Entries
<1>8. \A a : \A i \in SettlementId : Changes(a)[i] \in Int
  BY ChangesFacts, Zenon
<1>9. /\ IsFiniteSet(Entries(q)') /\ assets'[q].version = 1 + Cardinality(Entries(q)')
  <2>1. Cardinality(Entries(q) \cup {id}) = Cardinality(Entries(q)) + 1
    BY <1>1, <1>3, <1>7, FS_AddElement, Zenon
  <2>2. IsFiniteSet(Entries(q) \cup {id}) /\ Cardinality(Entries(q)) \in Nat
    BY <1>1, <1>7, FS_AddElement, FS_CardinalityType
  <2>3. assets[q].version = 1 + Cardinality(Entries(q))
    BY <1>1 DEF BalanceInv, LedgerBalances
  <2> QED BY <1>3, <1>4, <1>6, <2>1, <2>2, <2>3, SMTT(20)
<1>10. ASSUME NEW a \in Asset
       PROVE  assets'[q].bal[a] = SumOf(Changes(a)', Entries(q)')
  <2>1. assets[q].bal[a] = SumOf(Changes(a), Entries(q))
    BY <1>1, <1>10 DEF BalanceInv, LedgerBalances
  <2> DEFINE v == Changes(a)'
             w == Changes(a)
             S == Entries(q)
  <2>2. /\ IsFiniteSet(S) /\ id \notin S /\ v[id] = (IF b.asset = a THEN b.delta ELSE 0)
        /\ v[id] \in Int /\ \A y \in S : w[y] = v[y] /\ v[y] \in Int
    BY <1>1, <1>3, <1>7, <1>8
  <2> HIDE DEF v, w, S
  <2>3. SumOf(v, S \cup {id}) = SumOf(w, S) + v[id] /\ SumOf(w, S) \in Int
    BY <2>2, SumAdds, Zenon
  <2>4. assets'[q].bal[a] = assets[q].bal[a] + (IF b.asset = a THEN b.delta ELSE 0)
    BY <1>1, <1>4, <1>5, <1>6, <1>10, SMTT(20)
  <2> QED BY <1>3, <2>1, <2>2, <2>3, <2>4 DEF v, w, S
<1>11. ASSUME NEW p \in Player \ {q}
       PROVE  /\ IsFiniteSet(Entries(p)') /\ assets'[p].version = 1 + Cardinality(Entries(p)')
              /\ \A a \in Asset : assets'[p].bal[a] = SumOf(Changes(a)', Entries(p)')
  <2>1. Entries(p)' = Entries(p) /\ assets'[p] = assets[p] /\ IsFiniteSet(Entries(p))
    BY <1>3, <1>4, <1>7
  <2>2. id \notin Entries(p)
    BY DEF Entries
  <2>3. ASSUME NEW a \in Asset
        PROVE  SumOf(Changes(a)', Entries(p)) = SumOf(Changes(a), Entries(p))
    <3> DEFINE v == Changes(a)'
               w == Changes(a)
               S == Entries(p)
    <3>1. IsFiniteSet(S) /\ \A y \in S : v[y] = w[y] /\ w[y] \in Int
      BY <1>3, <1>7, <1>8, <2>2
    <3> HIDE DEF v, w, S
    <3>2. SumOf(v, S) = SumOf(w, S)
      BY <3>1, SumKept
    <3> QED BY <3>2 DEF v, w, S
  <2>4. /\ assets[p].version = 1 + Cardinality(Entries(p))
        /\ \A a \in Asset : assets[p].bal[a] = SumOf(Changes(a), Entries(p))
    BY DEF BalanceInv, LedgerBalances
  <2> QED BY <2>1, <2>3, <2>4
<1> QED BY <1>9, <1>10, <1>11, Zenon DEF BalanceInv, LedgerBalances

\* For any settlements, retries, interleavings and faults: every balance is the
\* sum of the ledger's entries for it, and the version counts them, so that no
\* settlement is applied twice and none is recorded without being applied
\* (ledger.Create and ApplyDelta in one transaction).
THEOREM LedgerBalancesHolds == Spec => []LedgerBalances
<1>1. Init => BalanceInv
  <2> SUFFICES ASSUME Init PROVE BalanceInv
    OBVIOUS
  <2>1. \A p \in Player : Entries(p) = {}
    BY DEF Init, Entries
  <2>2. \A p \in Player : assets[p].version = 1 /\ \A a \in Asset : assets[p].bal[a] = 0
    BY DEF Init, InitialAssets
  <2>3. IsFiniteSet({}) /\ Cardinality({}) = 0
    BY FS_EmptySet
  <2>4. \A w : SumOf(w, {}) = 0
    BY SumEmpty
  <2>5. 1 + 0 = 1
    OBVIOUS
  <2>6. LedgerBalances
    BY <2>1, <2>2, <2>3, <2>4, <2>5, Zenon DEF LedgerBalances
  <2> QED BY <2>1, <2>3, <2>6 DEF BalanceInv
<1>2. LedgerInv /\ BalanceInv /\ [Next]_vars => BalanceInv'
  <2> SUFFICES ASSUME LedgerInv, BalanceInv, [Next]_vars PROVE BalanceInv'
    OBVIOUS
  <2>1. CASE UNCHANGED <<ledger, assets, history>>
    BY <2>1, Zenon DEF BalanceInv, LedgerBalances, Entries, Changes
  <2>2. ASSUME NEW r \in Request, req[r].pc = "txn", Commit(req[r].sub[1], req[r].sub[2]),
               ledger[req[r].sub[1]] = NoEntry
        PROVE  BalanceInv'
    <3>1. req[r].sub[1] \in SettlementId /\ req[r].sub[2] \in Body
      BY <2>2, HandlerFields, SubmissionParts, Zenon DEF LedgerInv, DocumentInv
    <3> QED BY <2>2, <3>1, CommitBalances
  <2> QED BY <2>1, <2>2, OnlyCommits, Zenon
<1>3. BalanceInv => LedgerBalances
  BY DEF BalanceInv
<1> QED BY <1>1, <1>2, <1>3, LedgerInvHolds, PTL DEF Spec

\* The counters of restores and faults stay within their bounds.
BoundInv == restores \in [Player -> 0 .. MaxRestores] /\ faults \in 0 .. MaxFaults

\* Every document and handler keeps its shape, and no charge makes a balance
\* negative (ApplyDelta).
THEOREM TypeCorrect == Spec => []TypeOK
<1>1. Init => BoundInv
  BY BoundAssumption DEF Init, BoundInv
<1>2. BoundInv /\ [Next]_vars => BoundInv'
  <2> SUFFICES ASSUME BoundInv, [Next]_vars PROVE BoundInv'
    OBVIOUS
  <2>1. ASSUME faults < MaxFaults PROVE faults + 1 \in 0 .. MaxFaults
    BY <2>1, BoundAssumption DEF BoundInv
  <2>2. ASSUME NEW p \in Player, restores[p] < MaxRestores
        PROVE  [restores EXCEPT ![p] = @ + 1] \in [Player -> 0 .. MaxRestores]
    BY <2>2, BoundAssumption DEF BoundInv
  <2>3. ASSUME NEW r \in Request, Settle(r) PROVE BoundInv'
    BY <2>1, <2>3, ZenonT(30) DEF BoundInv, Settle, Submit, FindSettlement, Execute,
           ExecuteUnknown, ReplaySettlement, SettlementResult, CallFails
  <2>4. ASSUME NEW p \in Player, Restore(p) PROVE BoundInv'
    BY <2>1, <2>2, <2>4, Zenon DEF BoundInv, Restore, FindSnapshot, ReadAssets, SaveSnapshot
  <2>5. CASE UNCHANGED vars
    BY <2>5, Zenon DEF BoundInv, vars
  <2> QED BY <2>3, <2>4, <2>5, Zenon DEF Next
<1>3. LedgerInv /\ SnapshotInv /\ SeenInv /\ HistoryInv /\ BoundInv => TypeOK
  BY Zenon DEF LedgerInv, DocumentInv, NoOverdraft, SnapshotInv, SeenInv, HistoryInv,
               BoundInv, TypeOK
<1> QED
  BY <1>1, <1>2, <1>3, LedgerInvHolds, SnapshotIsCurrentHolds, VersionsAreStatesHolds, PTL
     DEF Spec
=============================================================================
