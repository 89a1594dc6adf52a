-------------------------- MODULE Idempotency_proofs --------------------------
(***************************************************************************)
(* Proofs about Idempotency, for any numbers of requests, instances,       *)
(* hashes, faults and expiries.                                            *)
(***************************************************************************)
EXTENDS Idempotency, TLAPS

\* The document has its owner's hash, and its response was granted; a request
\* that takes a reservation over has the hash of the request it takes it from.
\* The reservation of an earlier request is only there past its TTL.
AnswerInv ==
  /\ rec # NoRec =>
       /\ rec.rid \in Request => rec.hash = hash[rec.rid]
       /\ rec.rid = NoRequest => rec.ttl
       /\ rec.state = "completed" => rec.rid \in Request /\ rec.response \in granted
  /\ \A r \in Request :
       /\ pc[r] = "claim" => current[r] \in Request /\ hash[current[r]] = hash[r]
       /\ outcome[r] = "ok" => r \in granted
       /\ result[r] = "ok" =>
            /\ rec # NoRec /\ rec.state = "completed" /\ ~rec.ttl
            /\ rec.response = answer[r] /\ rec.hash = hash[r]

\* Until a fault or an expiry: a request that runs holds the reservation and its
\* lease, and one whose execution committed is about to record its response, or
\* has recorded it.
Exclusive ==
  /\ rec # NoRec /\ rec.ttl => rec.rid = NoRequest
  /\ \A r \in Request :
       /\ ~lost[r] /\ outcome[r] # "error"
       /\ pc[r] \in Running => Owns(r) /\ ~rec.over
       /\ r \in granted => \/ pc[r] = "settle" /\ outcome[r] = "ok"
                           \/ rec # NoRec /\ rec.state = "completed"
  /\ \A r, s \in granted : r = s

Faultless == faults = 0 /\ expiries = 0

IdemInv == TypeOK /\ AnswerInv /\ (Faultless => Exclusive)

-------------------------------------------------------------------------------
(* The document after each kind of write *)

LEMMA PendingFacts ==
  ASSUME TypeOK, NEW r \in Request
  PROVE  /\ Pending(r) \in Rec /\ Pending(r) # NoRec
         /\ Pending(r).state = "pending" /\ Pending(r).rid = r /\ ~Pending(r).over
         /\ Pending(r).hash = hash[r] /\ Pending(r).response = NoRequest /\ ~Pending(r).ttl
<1>1. Pending(r) \in Rec
  BY DEF TypeOK, Pending, Rec
<1> QED BY <1>1, NoRecAssumption, Zenon DEF Pending

\* Claim: another reservation id and a new lease.
LEMMA ClaimedFacts ==
  ASSUME rec \in Rec, NEW r \in Request
  PROVE  LET x == [rec EXCEPT !.rid = r, !.over = FALSE]
         IN  /\ x \in Rec /\ x # NoRec /\ x.rid = r /\ x.over = FALSE
             /\ x.state = rec.state /\ x.hash = rec.hash /\ x.response = rec.response
             /\ x.ttl = rec.ttl
<1> DEFINE x == [rec EXCEPT !.rid = r, !.over = FALSE]
<1>1. x \in Rec
  BY Zenon DEF Rec
<1>2. /\ x.rid = r /\ x.over = FALSE /\ x.state = rec.state /\ x.hash = rec.hash
      /\ x.response = rec.response /\ x.ttl = rec.ttl
  BY Zenon DEF Rec
<1> QED BY <1>1, <1>2, NoRecAssumption

\* The lease is renewed, or it ends.
LEMMA LeasedFacts ==
  ASSUME rec \in Rec, NEW b \in BOOLEAN
  PROVE  LET x == [rec EXCEPT !.over = b]
         IN  /\ x \in Rec /\ x # NoRec /\ x.rid = rec.rid /\ x.over = b
             /\ x.state = rec.state /\ x.hash = rec.hash /\ x.response = rec.response
             /\ x.ttl = rec.ttl
<1> DEFINE x == [rec EXCEPT !.over = b]
<1>1. x \in Rec
  BY Zenon DEF Rec
<1>2. /\ x.rid = rec.rid /\ x.over = b /\ x.state = rec.state /\ x.hash = rec.hash
      /\ x.response = rec.response /\ x.ttl = rec.ttl
  BY Zenon DEF Rec
<1> QED BY <1>1, <1>2, NoRecAssumption

\* Complete: the response is recorded.
LEMMA CompletedFacts ==
  ASSUME rec \in Rec, NEW r \in Request
  PROVE  LET x == [rec EXCEPT !.state = "completed", !.response = r]
         IN  /\ x \in Rec /\ x # NoRec /\ x.rid = rec.rid /\ x.over = rec.over
             /\ x.state = "completed" /\ x.hash = rec.hash /\ x.response = r
             /\ x.ttl = rec.ttl
<1> DEFINE x == [rec EXCEPT !.state = "completed", !.response = r]
<1>1. x \in Rec
  BY Zenon DEF Rec
<1>2. /\ x.rid = rec.rid /\ x.over = rec.over /\ x.state = "completed" /\ x.hash = rec.hash
      /\ x.response = r /\ x.ttl = rec.ttl
  BY Zenon DEF Rec
<1> QED BY <1>1, <1>2, NoRecAssumption

\* The document's TTL is over.
LEMMA ExpiredFacts ==
  ASSUME rec \in Rec
  PROVE  LET x == [rec EXCEPT !.ttl = TRUE]
         IN  /\ x \in Rec /\ x # NoRec /\ x.rid = rec.rid /\ x.over = rec.over
             /\ x.state = rec.state /\ x.hash = rec.hash /\ x.response = rec.response
             /\ x.ttl = TRUE
<1> DEFINE x == [rec EXCEPT !.ttl = TRUE]
<1>1. x \in Rec
  BY Zenon DEF Rec
<1>2. /\ x.rid = rec.rid /\ x.over = rec.over /\ x.state = rec.state /\ x.hash = rec.hash
      /\ x.response = rec.response /\ x.ttl = TRUE
  BY Zenon DEF Rec
<1> QED BY <1>1, <1>2, NoRecAssumption, Zenon

-------------------------------------------------------------------------------
(* The steps that read the document *)

\* Where a request goes after it read the document: to another call, to the
\* takeover of the reservation it found, or back to its caller.
Moves(r) ==
  \/ /\ \E p \in Calls \ {"claim"} : Goto(r, p)
     /\ UNCHANGED current
  \/ /\ Found /\ rec.hash = hash[r] /\ Goto(r, "claim")
     /\ current' = [current EXCEPT ![r] = rec.rid]
  \/ /\ \E x \in {"conflict", "error"} : Return(r, x)
     /\ UNCHANGED current
  \/ /\ Found /\ rec.state = "completed" /\ Replay(r)
     /\ UNCHANGED current

LEMMA MovesKeep ==
  ASSUME IdemInv, NEW r \in Request, pc[r] \notin Running, Moves(r),
         UNCHANGED <<store, world, outcome, lost, faults>>
  PROVE  IdemInv'
<1>1. /\ rec \in Rec \union {NoRec}
      /\ pc' \in [Request -> Active \union {"new", "done"}]
      /\ pc'[r] \notin Running /\ \A s \in Request \ {r} : pc'[s] = pc[s]
  BY DEF IdemInv, TypeOK, Moves, Goto, Return, Replay, Calls, Active, Running
<1>2. rec # NoRec => rec.response \in Request \union {NoRequest} /\ rec.rid \in Request \union {NoRequest}
  BY <1>1 DEF Rec
<1>3. TypeOK'
  <2>1. /\ current' \in [Request -> Request \union {NoRequest}]
        /\ answer' \in [Request -> Request \union {NoRequest}]
    BY <1>2 DEF IdemInv, TypeOK, Moves, Goto, Return, Replay, Found
  <2>2. result' \in [Request -> {"none", "ok", "past", "conflict", "invalid", "error", "crashed"}]
    BY DEF IdemInv, TypeOK, Moves, Goto, Return, Replay
  <2> QED BY <1>1, <2>1, <2>2 DEF IdemInv, TypeOK, store, world
<1>4. ASSUME NEW s \in Request, pc'[s] = "claim"
      PROVE  current'[s] \in Request /\ hash'[current'[s]] = hash'[s]
  <2>1. CASE s = r
    BY <1>2, <1>4, <2>1 DEF IdemInv, TypeOK, AnswerInv, Moves, Goto, Return, Replay, Found, world
  <2>2. CASE s # r
    BY <1>1, <1>4, <2>2 DEF IdemInv, TypeOK, AnswerInv, Moves, world
  <2> QED BY <2>1, <2>2
<1>5. ASSUME NEW s \in Request, result'[s] = "ok"
      PROVE  /\ rec # NoRec /\ rec.state = "completed" /\ ~rec.ttl
             /\ rec.response = answer'[s] /\ rec.hash = hash[s]
  <2>1. CASE result[s] = "ok" /\ answer'[s] = answer[s]
    BY <2>1 DEF IdemInv, AnswerInv
  <2>2. CASE Found /\ rec.state = "completed" /\ Replay(r)
    BY <1>5, <2>2 DEF IdemInv, TypeOK, AnswerInv, Replay, Return, Found
  <2> QED BY <1>5, <2>1, <2>2 DEF IdemInv, TypeOK, Moves, Goto, Return
<1>6. AnswerInv'
  BY <1>4, <1>5 DEF IdemInv, AnswerInv, store, world
<1>7. Faultless' => Exclusive'
  <2> SUFFICES ASSUME Faultless, Exclusive PROVE Exclusive'
    BY DEF Faultless, IdemInv, store
  <2> QED BY <1>1 DEF Exclusive, store, world, Owns, Running
<1> QED BY <1>3, <1>6, <1>7 DEF IdemInv

LEMMA ReadsKeep ==
  ASSUME IdemInv, NEW r \in Request,
         Start(r) \/ Find(r) \/ Poll(r) \/ Retry(r) \/ Refind(r) \/ Recheck(r) \/ Latest(r)
  PROVE  IdemInv'
<1>1. Moves(r)
  <2>1. CASE Start(r) \/ Retry(r)
    BY <2>1 DEF Start, Retry, Moves, Calls
  <2>2. CASE Find(r)
    BY <2>2 DEF Find, Moves, Calls, Found
  <2>3. CASE Poll(r)
    BY <2>3 DEF Poll, Moves
  <2>4. CASE Refind(r) \/ Recheck(r)
    <3>1. Found /\ Inspect(r) => Moves(r)
      BY DEF Inspect, Moves, Calls
    <3> QED BY <2>4, <3>1 DEF Refind, Recheck, Moves, Calls
  <2>5. CASE Latest(r)
    BY <2>5 DEF Latest, Moves, Calls, Found
  <2> QED BY <2>1, <2>2, <2>3, <2>4, <2>5
<1>2. pc[r] \notin Running /\ UNCHANGED <<store, world, outcome, lost, faults>>
  BY DEF Start, Find, Poll, Retry, Refind, Recheck, Latest, Running
<1> QED BY <1>1, <1>2, MovesKeep

-------------------------------------------------------------------------------
(* The steps that write it *)

\* A write of the document keeps its shape, its hash and its response.
WellWritten ==
  /\ rec' \in Rec \union {NoRec}
  /\ rec' # NoRec =>
       /\ rec'.state = "completed" <=> rec'.response # NoRequest
       /\ rec'.rid \in Request => rec'.hash = hash[rec'.rid]
       /\ rec'.rid = NoRequest => rec'.ttl
       /\ rec'.state = "completed" => rec'.rid \in Request /\ rec'.response \in granted'

\* A completed document within its TTL stays as it is.
CompletedStays ==
  rec # NoRec /\ rec.state = "completed" /\ ~rec.ttl =>
    /\ rec' # NoRec /\ rec'.state = "completed" /\ ~rec'.ttl
    /\ rec'.response = rec.response /\ rec'.hash = rec.hash

LEMMA SameDocument ==
  ASSUME IdemInv, rec' = rec, granted \subseteq granted'
  PROVE  WellWritten /\ CompletedStays
BY DEF IdemInv, TypeOK, AnswerInv, WellWritten, CompletedStays

LEMMA DocumentGone ==
  ASSUME IdemInv, rec' = NoRec, rec # NoRec => rec.ttl \/ rec.state = "pending"
  PROVE  WellWritten /\ CompletedStays
<1>1. rec # NoRec => rec.state # "completed" \/ rec.ttl
  OBVIOUS
<1> QED BY <1>1 DEF WellWritten, CompletedStays

LEMMA DocumentReserved ==
  ASSUME IdemInv, NEW r \in Request, rec = NoRec, rec' = Pending(r)
  PROVE  WellWritten /\ CompletedStays /\ rec' # NoRec /\ rec'.state = "pending" /\ rec'.rid = r
         /\ ~rec'.over /\ ~rec'.ttl
<1>1. /\ rec' \in Rec /\ rec' # NoRec /\ rec'.state = "pending" /\ rec'.rid = r /\ ~rec'.over
      /\ rec'.hash = hash[r] /\ rec'.response = NoRequest /\ ~rec'.ttl
  BY PendingFacts DEF IdemInv
<1> QED BY <1>1, RequestAssumption DEF WellWritten, CompletedStays

LEMMA DocumentClaimed ==
  ASSUME IdemInv, NEW r \in Request, pc[r] = "claim", Claimable(r),
         rec' = [rec EXCEPT !.rid = r, !.over = FALSE]
  PROVE  WellWritten /\ CompletedStays /\ rec' # NoRec /\ rec'.state = "pending" /\ rec'.rid = r
         /\ ~rec'.over /\ rec'.ttl = rec.ttl
<1>1. rec \in Rec /\ rec # NoRec /\ rec.state = "pending" /\ rec.rid = current[r]
  BY Zenon DEF IdemInv, TypeOK, Claimable
<1>2. /\ rec' \in Rec /\ rec' # NoRec /\ rec'.rid = r /\ rec'.over = FALSE
      /\ rec'.state = rec.state /\ rec'.hash = rec.hash /\ rec'.response = rec.response
      /\ rec'.ttl = rec.ttl
  BY <1>1, ClaimedFacts, Zenon
<1>3. rec.hash = hash[r]
  BY <1>1 DEF IdemInv, AnswerInv
<1> QED BY <1>1, <1>2, <1>3, RequestAssumption DEF WellWritten, CompletedStays, IdemInv, TypeOK

LEMMA DocumentLeased ==
  ASSUME IdemInv, NEW b \in BOOLEAN, rec # NoRec, rec.state = "pending",
         rec' = [rec EXCEPT !.over = b]
  PROVE  WellWritten /\ CompletedStays /\ rec' # NoRec /\ rec'.state = "pending"
         /\ rec'.rid = rec.rid /\ rec'.over = b /\ rec'.ttl = rec.ttl
<1>1. rec \in Rec
  BY DEF IdemInv, TypeOK
<1>2. /\ rec' \in Rec /\ rec' # NoRec /\ rec'.rid = rec.rid /\ rec'.over = b
      /\ rec'.state = rec.state /\ rec'.hash = rec.hash /\ rec'.response = rec.response
      /\ rec'.ttl = rec.ttl
  BY <1>1, LeasedFacts
<1> QED BY <1>2 DEF WellWritten, CompletedStays, IdemInv, TypeOK, AnswerInv

LEMMA DocumentCompleted ==
  ASSUME IdemInv, NEW r \in Request, outcome[r] = "ok", Completable(r), granted' = granted,
         rec' = [rec EXCEPT !.state = "completed", !.response = r]
  PROVE  WellWritten /\ CompletedStays /\ rec' # NoRec /\ rec'.state = "completed"
         /\ rec'.response = r /\ rec'.hash = hash[r] /\ rec'.rid = r /\ ~rec'.ttl
<1>1. rec \in Rec /\ rec # NoRec /\ rec.state = "pending" /\ rec.rid = r /\ ~rec.ttl
  BY Zenon DEF IdemInv, TypeOK, Completable, Owns
<1>2. /\ rec' \in Rec /\ rec' # NoRec /\ rec'.rid = rec.rid /\ rec'.over = rec.over
      /\ rec'.state = "completed" /\ rec'.hash = rec.hash /\ rec'.response = r
      /\ rec'.ttl = rec.ttl
  BY <1>1, CompletedFacts, Zenon
<1>3. rec.hash = hash[r] /\ r \in granted
  BY <1>1 DEF IdemInv, AnswerInv
<1> QED BY <1>1, <1>2, <1>3, RequestAssumption DEF WellWritten, CompletedStays

\* What a step has to show about the rest of the state.
LEMMA StepKeeps ==
  ASSUME IdemInv, WellWritten, CompletedStays,
         UNCHANGED <<host, hash, current>>, granted \subseteq granted',
         granted' \in SUBSET Request, token' \in {"none", "valid", "revoked"},
         up' \in [Instance -> BOOLEAN], pc' \in [Request -> Active \union {"new", "done"}],
         outcome' \in [Request -> {"none", "ok", "invalid", "error"}],
         lost' \in [Request -> BOOLEAN],
         result' \in [Request -> {"none", "ok", "past", "conflict", "invalid", "error",
                                  "crashed"}],
         answer' \in [Request -> Request \union {NoRequest}],
         faults' \in 0..MaxFaults, expiries' \in 0..MaxExpiries,
         \A s \in Request : pc'[s] = "claim" => pc[s] = "claim",
         \A s \in Request : outcome'[s] = "ok" => s \in granted',
         \A s \in Request : result'[s] = "ok" =>
           \/ result[s] = "ok" /\ answer'[s] = answer[s]
           \/ /\ rec' # NoRec /\ rec'.state = "completed" /\ ~rec'.ttl
              /\ rec'.response = answer'[s] /\ rec'.hash = hash[s],
         Faultless' => Exclusive'
  PROVE  IdemInv'
<1>1. TypeOK'
  BY DEF IdemInv, TypeOK, WellWritten
<1>2. \A s \in Request : result'[s] = "ok" =>
           /\ rec' # NoRec /\ rec'.state = "completed" /\ ~rec'.ttl
           /\ rec'.response = answer'[s] /\ rec'.hash = hash[s]
  BY DEF IdemInv, AnswerInv, CompletedStays
<1>3. AnswerInv'
  BY <1>2 DEF IdemInv, AnswerInv, WellWritten
<1> QED BY <1>1, <1>3 DEF IdemInv

LEMMA PcFacts ==
  ASSUME TypeOK, NEW r \in Request, NEW p \in Active \union {"new", "done"},
         pc' = [pc EXCEPT ![r] = p]
  PROVE  /\ pc' \in [Request -> Active \union {"new", "done"}]
         /\ pc'[r] = p /\ \A s \in Request \ {r} : pc'[s] = pc[s]
BY DEF TypeOK

LEMMA ReturnFacts ==
  ASSUME TypeOK, NEW r \in Request, NEW x \in {"conflict", "invalid", "error"}, Return(r, x)
  PROVE  /\ pc' \in [Request -> Active \union {"new", "done"}]
         /\ pc'[r] = "done" /\ \A s \in Request \ {r} : pc'[s] = pc[s]
         /\ result' \in [Request -> {"none", "ok", "past", "conflict", "invalid", "error",
                                     "crashed"}]
         /\ \A s \in Request : result'[s] = "ok" => result[s] = "ok"
         /\ answer' = answer
BY DEF TypeOK, Return

LEMMA FaultFacts ==
  ASSUME TypeOK, Fault
  PROVE  faults' \in 0..MaxFaults /\ ~Faultless'
<1>1. faults' \in 0..MaxFaults /\ faults' # 0
  BY BoundsAssumption DEF TypeOK, Fault
<1> QED BY <1>1 DEF Faultless

\* While nobody runs, and nothing was granted that the document does not
\* record, the document may be removed or reserved.
LEMMA NobodyRuns ==
  ASSUME IdemInv, Faultless, Exclusive,
         rec # NoRec => rec.ttl \/ (rec.state = "pending" /\ rec.over)
  PROVE  granted = {} /\ \A s \in Request : pc[s] \notin Running
<1>1. rec # NoRec => rec.state = "pending"
  <2>1. rec # NoRec => rec.state \in {"pending", "completed"}
    BY DEF IdemInv, TypeOK, Rec
  <2> QED BY <2>1, RequestAssumption DEF IdemInv, AnswerInv, Exclusive
<1>2. \A s \in Request : pc[s] \notin Running
  BY RequestAssumption DEF Exclusive, Owns
<1>3. \A s \in Request : s \notin granted
  BY <1>1, <1>2 DEF Exclusive, Running
<1> QED BY <1>2, <1>3 DEF IdemInv, TypeOK

\* The variables a step of Reserve or of the clock leaves alone.
LEMMA KeptTypes ==
  ASSUME IdemInv, UNCHANGED <<world, current, outcome, lost, faults, expiries>>
  PROVE  /\ UNCHANGED <<host, hash, current>> /\ granted \subseteq granted'
         /\ granted' \in SUBSET Request /\ token' \in {"none", "valid", "revoked"}
         /\ up' \in [Instance -> BOOLEAN]
         /\ outcome' \in [Request -> {"none", "ok", "invalid", "error"}]
         /\ lost' \in [Request -> BOOLEAN] /\ faults' \in 0..MaxFaults
         /\ expiries' \in 0..MaxExpiries
         /\ \A s \in Request : outcome'[s] = "ok" => s \in granted'
BY DEF IdemInv, TypeOK, AnswerInv, world

\* A request gets the reservation and its lease.
LEMMA TakesOver ==
  ASSUME IdemInv, NEW r \in Request, Goto(r, "execute"), WellWritten, CompletedStays,
         rec # NoRec => rec.state = "pending" /\ rec.over, rec' # NoRec, rec'.state = "pending",
         rec'.rid = r, ~rec'.over, rec'.ttl => rec # NoRec /\ rec.ttl /\ rec.rid \in Request,
         UNCHANGED <<world, current, outcome, lost, faults, expiries>>
  PROVE  IdemInv'
<1>1. /\ pc' \in [Request -> Active \union {"new", "done"}]
      /\ pc'[r] = "execute" /\ \A s \in Request \ {r} : pc'[s] = pc[s]
  BY PcFacts, Zenon DEF IdemInv, Goto, Active, Running
<1>2. result' = result /\ answer' = answer
  BY DEF Goto
<1>3. Faultless' => Exclusive'
  <2> SUFFICES ASSUME Faultless, Exclusive PROVE Exclusive'
    BY DEF Faultless, IdemInv
  <2>1. granted = {} /\ \A s \in Request : pc[s] \notin Running
    BY NobodyRuns
  <2>2. ~rec'.ttl
    BY RequestAssumption DEF Exclusive
  <2>3. granted' = {} /\ lost' = lost /\ outcome' = outcome
    BY <2>1 DEF world
  <2> QED BY <1>1, <2>1, <2>2, <2>3 DEF Exclusive, Owns
<1>4. /\ result' \in [Request -> {"none", "ok", "past", "conflict", "invalid", "error",
                                  "crashed"}]
      /\ answer' \in [Request -> Request \union {NoRequest}]
  BY <1>2 DEF IdemInv, TypeOK
<1> QED BY <1>1, <1>2, <1>3, <1>4, KeptTypes, StepKeeps

LEMMA InsertKeeps ==
  ASSUME IdemInv, NEW r \in Request, Insert(r)
  PROVE  IdemInv'
<1>1. /\ pc[r] \in {"insert", "reinsert"}
      /\ UNCHANGED <<world, current, outcome, lost, faults, expiries>>
  BY DEF Insert
<1>2. CASE rec = NoRec
  BY <1>1, <1>2, DocumentReserved, TakesOver DEF Insert
<1>3. CASE rec # NoRec
  <2>1. Moves(r) /\ UNCHANGED <<store, world, outcome, lost, faults>>
    BY <1>1, <1>3 DEF Insert, Moves, Calls, store
  <2> QED BY <1>1, <2>1, MovesKeep DEF Running
<1> QED BY <1>2, <1>3

LEMMA ClaimKeeps ==
  ASSUME IdemInv, NEW r \in Request, Claim(r)
  PROVE  IdemInv'
<1>1. pc[r] = "claim" /\ UNCHANGED <<world, current, outcome, lost, faults, expiries>>
  BY DEF Claim
<1>2. CASE Claimable(r)
  <2>1. rec # NoRec /\ rec.state = "pending" /\ rec.over /\ rec.rid \in Request
    BY <1>1, <1>2, Zenon DEF Claimable, IdemInv, AnswerInv
  <2>2. /\ WellWritten /\ CompletedStays /\ rec' # NoRec /\ rec'.state = "pending"
        /\ rec'.rid = r /\ ~rec'.over /\ rec'.ttl = rec.ttl
    BY <1>1, <1>2, DocumentClaimed, Zenon DEF Claim
  <2> QED BY <1>1, <1>2, <2>1, <2>2, TakesOver DEF Claim
<1>3. CASE ~Claimable(r)
  <2>1. Moves(r) /\ UNCHANGED <<store, world, outcome, lost, faults>>
    BY <1>1, <1>3 DEF Claim, Moves, Calls, store
  <2> QED BY <1>1, <2>1, MovesKeep DEF Running
<1> QED BY <1>2, <1>3

\* A stale document is removed while the requests stay as they are.
LEMMA RemovalExcludes ==
  ASSUME IdemInv, Faultless, Exclusive, Stale, rec' = NoRec, UNCHANGED <<granted, outcome, lost>>,
         \A s \in Request : pc'[s] \in Running => pc[s] \in Running
  PROVE  Exclusive'
<1>1. granted = {} /\ \A s \in Request : pc[s] \notin Running
  BY NobodyRuns DEF Stale
<1> QED BY <1>1 DEF Exclusive

LEMMA CleanKeeps ==
  ASSUME IdemInv, NEW r \in Request, Clean(r)
  PROVE  IdemInv'
<1>1. pc[r] = "clean" /\ UNCHANGED <<world, current, outcome, lost, faults, expiries>>
  BY DEF Clean
<1>2. CASE Stale
  <2>1. /\ pc' \in [Request -> Active \union {"new", "done"}]
        /\ pc'[r] = "reinsert" /\ \A s \in Request \ {r} : pc'[s] = pc[s]
    BY <1>2, PcFacts DEF Clean, IdemInv, Goto, Active, Calls
  <2>2. result' = result /\ answer' = answer /\ rec' = NoRec
    BY <1>2 DEF Clean, Goto
  <2>3. WellWritten /\ CompletedStays
    BY <1>2, <2>2, DocumentGone DEF Stale
  <2>4. Faultless' => Exclusive'
    <3> SUFFICES ASSUME Faultless, Exclusive PROVE Exclusive'
      BY <1>1 DEF Faultless, IdemInv
    <3> QED BY <1>1, <1>2, <2>1, <2>2, RemovalExcludes DEF Running, world
  <2>5. /\ result' \in [Request -> {"none", "ok", "past", "conflict", "invalid", "error",
                                    "crashed"}]
        /\ answer' \in [Request -> Request \union {NoRequest}]
    BY <2>2 DEF IdemInv, TypeOK
  <2> QED BY <1>1, <2>1, <2>2, <2>3, <2>4, <2>5, KeptTypes, StepKeeps
<1>3. CASE ~Stale
  <2>1. Moves(r) /\ UNCHANGED <<store, world, outcome, lost, faults>>
    BY <1>1, <1>3 DEF Clean, Moves, store
  <2> QED BY <1>1, <2>1, MovesKeep DEF Running
<1> QED BY <1>2, <1>3

-------------------------------------------------------------------------------
(* executeReserved *)

LEMMA OperateKeeps ==
  ASSUME IdemInv, NEW r \in Request, NEW out \in Outcomes, Operate(r, out)
  PROVE  IdemInv'
<1>1. pc[r] = "execute" /\ UNCHANGED <<rec, expiries, up, host, hash, current, lost>>
  BY DEF Operate, store
<1>2. /\ pc' \in [Request -> Active \union {"new", "done"}]
      /\ pc'[r] = "settle" /\ \A s \in Request \ {r} : pc'[s] = pc[s]
  BY PcFacts, Zenon DEF Operate, IdemInv, Goto, Active, Running
<1>3. /\ granted \subseteq granted' /\ granted' \in SUBSET Request
      /\ token' \in {"none", "valid", "revoked"}
  BY DEF Operate, IdemInv, TypeOK
<1>4. /\ outcome' \in [Request -> {"none", "ok", "invalid", "error"}]
      /\ outcome'[r] = (IF out = "applied" THEN "error" ELSE out)
      /\ \A s \in Request \ {r} : outcome'[s] = outcome[s]
  BY DEF Operate, IdemInv, TypeOK, Outcomes
<1>5. \A s \in Request : outcome'[s] = "ok" => s \in granted'
  BY <1>3, <1>4 DEF Operate, IdemInv, AnswerInv
<1>6. result' = result /\ answer' = answer
  BY DEF Operate, Goto
<1>7. WellWritten /\ CompletedStays
  BY <1>1, <1>3, SameDocument
<1>8. faults' \in 0..MaxFaults /\ (Faultless' => faults' = faults)
  BY FaultFacts DEF Operate, IdemInv, TypeOK
<1>9. Faultless' => Exclusive'
  <2> SUFFICES ASSUME Faultless, Faultless', Exclusive PROVE Exclusive'
    BY <1>1, <1>8 DEF Faultless, IdemInv
  <2>1. ~lost[r] /\ Owns(r) /\ ~rec.over
    BY <1>1 DEF Exclusive, Running
  <2>2. out \in {"ok", "invalid"}
    BY <2>1, FaultFacts DEF Operate, IdemInv
  <2>3. \A s \in Request : pc'[s] \in Running => pc[s] \in Running
    BY <1>1, <1>2 DEF Running
  <2>4. granted = {}
    BY <1>1, <2>1 DEF Exclusive, Owns, Running, IdemInv, TypeOK
  <2>5. granted' = IF out = "ok" THEN {r} ELSE {}
    BY <2>2, <2>4, Zenon DEF Operate
  <2>6. \A s \in Request : ~lost'[s] /\ outcome'[s] # "error"
    BY <1>1, <1>4, <2>2, SMTT(20) DEF Exclusive
  <2>7. \A s \in Request : pc'[s] \in Running => Owns(s)' /\ ~rec'.over
    BY <1>1, <2>3 DEF Exclusive, Owns
  <2>8. rec' # NoRec /\ rec'.ttl => rec'.rid = NoRequest
    BY <1>1 DEF Exclusive
  <2>9. \A s \in granted' : pc'[s] = "settle" /\ outcome'[s] = "ok"
    BY <1>2, <1>4, <2>2, <2>5
  <2> QED BY <2>5, <2>6, <2>7, <2>8, <2>9 DEF Exclusive
<1>10. /\ result' \in [Request -> {"none", "ok", "past", "conflict", "invalid", "error",
                                   "crashed"}]
       /\ answer' \in [Request -> Request \union {NoRequest}]
       /\ up' \in [Instance -> BOOLEAN] /\ lost' \in [Request -> BOOLEAN]
       /\ expiries' \in 0..MaxExpiries
  BY <1>1, <1>6 DEF IdemInv, TypeOK
<1> QED BY <1>1, <1>2, <1>3, <1>4, <1>5, <1>6, <1>7, <1>8, <1>9, <1>10, StepKeeps

\* What a step of a running request that ends no execution leaves alone.
LEMMA RunningTypes ==
  ASSUME IdemInv, UNCHANGED <<world, current, outcome, expiries, pc, result, answer>>
  PROVE  /\ UNCHANGED <<host, hash, current>> /\ granted \subseteq granted'
         /\ granted' \in SUBSET Request /\ token' \in {"none", "valid", "revoked"}
         /\ up' \in [Instance -> BOOLEAN] /\ pc' \in [Request -> Active \union {"new", "done"}]
         /\ outcome' \in [Request -> {"none", "ok", "invalid", "error"}]
         /\ result' \in [Request -> {"none", "ok", "past", "conflict", "invalid", "error",
                                     "crashed"}]
         /\ answer' \in [Request -> Request \union {NoRequest}]
         /\ expiries' \in 0..MaxExpiries
         /\ \A s \in Request : pc'[s] = "claim" => pc[s] = "claim"
         /\ \A s \in Request : outcome'[s] = "ok" => s \in granted'
         /\ \A s \in Request : result'[s] = "ok" => result[s] = "ok" /\ answer'[s] = answer[s]
BY DEF IdemInv, TypeOK, AnswerInv, world

LEMMA RenewKeeps ==
  ASSUME IdemInv, NEW r \in Request, Renew(r)
  PROVE  IdemInv'
<1>1. /\ pc[r] = "execute" /\ UNCHANGED <<world, current, outcome, expiries, pc, result, answer>>
      /\ faults' = faults
  BY DEF Renew
<1>2. lost' \in [Request -> BOOLEAN] /\ faults' \in 0..MaxFaults
  BY Zenon DEF Renew, IdemInv, TypeOK
<1>3. CASE Owns(r) /\ ~rec.ttl
  <2>1. rec' = [rec EXCEPT !.over = FALSE] /\ lost' = lost
    BY <1>3 DEF Renew
  <2>2. /\ WellWritten /\ CompletedStays /\ rec' # NoRec /\ rec'.state = "pending"
        /\ rec'.rid = rec.rid /\ rec'.over = FALSE /\ rec'.ttl = rec.ttl
    BY <1>3, <2>1, DocumentLeased, Zenon DEF Owns
  <2>3. Faultless' => Exclusive'
    <3> SUFFICES ASSUME Faultless, Exclusive PROVE Exclusive'
      BY <1>1, SMTT(20) DEF Faultless, IdemInv
    <3> QED BY <1>1, <1>3, <2>1, <2>2 DEF Exclusive, Owns, world
  <2> QED BY <1>1, <1>2, <2>2, <2>3, RunningTypes, StepKeeps
<1>4. CASE ~(Owns(r) /\ ~rec.ttl)
  <2>1. rec' = rec
    BY <1>4 DEF Renew
  <2>2. WellWritten /\ CompletedStays
    BY <1>1, <2>1, SameDocument DEF world
  <2>3. ~Faultless
    BY <1>1, <1>4, RequestAssumption DEF IdemInv, Exclusive, Running, Owns
  <2>4. ~Faultless'
    BY <1>1, <2>3 DEF Faultless
  <2> QED BY <1>1, <1>2, <2>2, <2>4, RunningTypes, StepKeeps
<1> QED BY <1>3, <1>4

LEMMA CutRenewalKeeps ==
  ASSUME IdemInv, NEW r \in Request, CutRenewal(r)
  PROVE  IdemInv'
<1>1. UNCHANGED <<world, current, outcome, expiries, pc, result, answer>> /\ rec' = rec
  BY DEF CutRenewal, store
<1>2. lost' \in [Request -> BOOLEAN] /\ faults' \in 0..MaxFaults /\ ~Faultless'
  BY FaultFacts DEF CutRenewal, IdemInv, TypeOK
<1>3. WellWritten /\ CompletedStays
  BY <1>1, SameDocument DEF world
<1> QED BY <1>1, <1>2, <1>3, RunningTypes, StepKeeps

LEMMA ReleaseKeeps ==
  ASSUME IdemInv, NEW r \in Request, Release(r)
  PROVE  IdemInv'
<1>1. /\ pc[r] = "settle" /\ (outcome[r] # "ok" \/ lost[r])
      /\ rec' = (IF Owns(r) THEN NoRec ELSE rec)
      /\ UNCHANGED <<world, current, outcome, lost, faults, expiries>>
  BY DEF Release
<1>2. /\ pc' \in [Request -> Active \union {"new", "done"}]
      /\ pc'[r] = "done" /\ \A s \in Request \ {r} : pc'[s] = pc[s]
      /\ result' \in [Request -> {"none", "ok", "past", "conflict", "invalid", "error",
                                  "crashed"}]
      /\ \A s \in Request : result'[s] = "ok" => result[s] = "ok"
      /\ answer' = answer
  BY ReturnFacts DEF Release, IdemInv
<1>3. WellWritten /\ CompletedStays
  BY <1>1, SameDocument, DocumentGone DEF Owns, world
<1>4. Faultless' => Exclusive'
  <2> SUFFICES ASSUME Faultless, Exclusive PROVE Exclusive'
    BY <1>1 DEF Faultless, IdemInv
  <2>1. Owns(r) /\ rec' = NoRec
    BY <1>1 DEF Exclusive, Running
  <2>2. \A s \in Request \ {r} : pc[s] \notin Running
    BY <2>1 DEF Exclusive, Owns
  <2>3. granted = {}
    BY <1>1, <2>1, <2>2 DEF Exclusive, Owns, Running, IdemInv, TypeOK
  <2> QED BY <1>1, <1>2, <2>1, <2>2, <2>3 DEF Exclusive, Running, world
<1>5. answer' \in [Request -> Request \union {NoRequest}]
  BY <1>2 DEF IdemInv, TypeOK
<1> QED BY <1>1, <1>2, <1>3, <1>4, <1>5, KeptTypes, StepKeeps

LEMMA CompleteKeeps ==
  ASSUME IdemInv, NEW r \in Request, Complete(r)
  PROVE  IdemInv'
<1>1. /\ pc[r] = "settle" /\ outcome[r] = "ok" /\ ~lost[r]
      /\ UNCHANGED <<world, current, outcome, lost, faults, expiries>>
  BY DEF Complete
<1>2. CASE Completable(r)
  <2>1. /\ rec' = [rec EXCEPT !.state = "completed", !.response = r]
        /\ pc' = [pc EXCEPT ![r] = "done"] /\ result' = [result EXCEPT ![r] = "ok"]
        /\ answer' = [answer EXCEPT ![r] = r]
    BY <1>2, Zenon DEF Complete
  <2>2. /\ WellWritten /\ CompletedStays /\ rec' # NoRec /\ rec'.state = "completed"
        /\ rec'.response = r /\ rec'.hash = hash[r] /\ rec'.rid = r /\ ~rec'.ttl
    BY <1>1, <1>2, <2>1, DocumentCompleted, Zenon DEF world
  <2>3. /\ pc' \in [Request -> Active \union {"new", "done"}]
        /\ pc'[r] = "done" /\ \A s \in Request \ {r} : pc'[s] = pc[s]
    BY <2>1, PcFacts, Zenon DEF IdemInv
  <2>4. /\ result' \in [Request -> {"none", "ok", "past", "conflict", "invalid", "error",
                                    "crashed"}]
        /\ answer' \in [Request -> Request \union {NoRequest}]
        /\ answer'[r] = r
        /\ \A s \in Request \ {r} : result'[s] = result[s] /\ answer'[s] = answer[s]
    BY <2>1 DEF IdemInv, TypeOK
  <2>5. Faultless' => Exclusive'
    <3> SUFFICES ASSUME Faultless, Exclusive PROVE Exclusive'
      BY <1>1 DEF Faultless, IdemInv
    <3>1. \A s \in Request : pc'[s] \notin Running
      BY <1>2, <2>3 DEF Exclusive, Running, Completable, Owns
    <3> QED BY <1>1, <2>2, <3>1, Zenon DEF Exclusive, world
  <2> QED BY <1>1, <2>2, <2>3, <2>4, <2>5, KeptTypes, StepKeeps
<1>3. CASE ~Completable(r)
  <2>1. rec' = rec /\ Return(r, "conflict")
    BY <1>3 DEF Complete
  <2>2. /\ pc' \in [Request -> Active \union {"new", "done"}]
        /\ pc'[r] = "done" /\ \A s \in Request \ {r} : pc'[s] = pc[s]
        /\ result' \in [Request -> {"none", "ok", "past", "conflict", "invalid", "error",
                                    "crashed"}]
        /\ \A s \in Request : result'[s] = "ok" => result[s] = "ok"
        /\ answer' = answer
    BY <2>1, ReturnFacts DEF IdemInv
  <2>3. WellWritten /\ CompletedStays
    BY <1>1, <2>1, SameDocument DEF world
  <2>4. ~Faultless'
    BY <1>1, <1>3, RequestAssumption, SMTT(20) DEF IdemInv, Exclusive, Completable, Owns, Running, Faultless
  <2>5. answer' \in [Request -> Request \union {NoRequest}]
    BY <2>2 DEF IdemInv, TypeOK
  <2> QED BY <1>1, <2>2, <2>3, <2>4, <2>5, KeptTypes, StepKeeps
<1> QED BY <1>2, <1>3

-------------------------------------------------------------------------------
(* Failures and time *)

LEMMA CallFailsKeeps ==
  ASSUME IdemInv, NEW r \in Request, NEW applied \in BOOLEAN, CallFails(r, applied)
  PROVE  IdemInv'
<1>1. UNCHANGED <<expiries, world, current, outcome, lost>>
  BY DEF CallFails
<1>2. faults' \in 0..MaxFaults /\ ~Faultless'
  BY FaultFacts DEF CallFails, IdemInv
<1>3. /\ pc' \in [Request -> Active \union {"new", "done"}]
      /\ pc'[r] = "done" /\ \A s \in Request \ {r} : pc'[s] = pc[s]
      /\ result' \in [Request -> {"none", "ok", "past", "conflict", "invalid", "error",
                                  "crashed"}]
      /\ \A s \in Request : result'[s] = "ok" => result[s] = "ok"
      /\ answer' = answer
  BY ReturnFacts DEF CallFails, IdemInv
<1>4. WellWritten /\ CompletedStays
  <2>1. CASE rec' = rec
    BY <1>1, <2>1, SameDocument DEF world
  <2>2. CASE rec = NoRec /\ rec' = Pending(r)
    BY <2>2, DocumentReserved
  <2>3. CASE Stale /\ rec' = NoRec
    BY <2>3, DocumentGone DEF Stale
  <2>4. CASE /\ pc[r] = "claim" /\ Claimable(r)
             /\ rec' = [rec EXCEPT !.rid = r, !.over = FALSE]
    BY <2>4, DocumentClaimed, ZenonT(40)
  <2>5. CASE /\ outcome[r] = "ok" /\ Completable(r)
             /\ rec' = [rec EXCEPT !.state = "completed", !.response = r]
    BY <1>1, <2>5, DocumentCompleted, Zenon DEF world
  <2> QED BY <2>1, <2>2, <2>3, <2>4, <2>5 DEF CallFails
<1>5. /\ UNCHANGED <<host, hash, current>> /\ granted' = granted
      /\ granted' \in SUBSET Request /\ token' \in {"none", "valid", "revoked"}
      /\ up' \in [Instance -> BOOLEAN]
      /\ outcome' \in [Request -> {"none", "ok", "invalid", "error"}]
      /\ lost' \in [Request -> BOOLEAN] /\ expiries' \in 0..MaxExpiries
      /\ answer' \in [Request -> Request \union {NoRequest}]
      /\ \A s \in Request : outcome'[s] = "ok" => s \in granted'
  BY <1>1, <1>3 DEF IdemInv, TypeOK, AnswerInv, world
<1> QED BY <1>2, <1>3, <1>4, <1>5, StepKeeps

LEMMA LeaseEndsKeeps ==
  ASSUME IdemInv, LeaseEnds
  PROVE  IdemInv'
<1>1. /\ rec # NoRec /\ rec.state = "pending" /\ ~rec.over
      /\ rec' = [rec EXCEPT !.over = TRUE]
      /\ UNCHANGED <<world, current, outcome, expiries, pc, result, answer>> /\ lost' = lost
  BY DEF LeaseEnds
<1>2. /\ WellWritten /\ CompletedStays /\ rec' # NoRec /\ rec'.state = "pending"
      /\ rec'.rid = rec.rid /\ rec'.over = TRUE /\ rec'.ttl = rec.ttl
  BY <1>1, DocumentLeased, Zenon
<1>3. lost' \in [Request -> BOOLEAN] /\ faults' \in 0..MaxFaults
  BY <1>1, FaultFacts DEF LeaseEnds, IdemInv, TypeOK
<1>4. Faultless' => Exclusive'
  <2>1. Faultless' => pc[rec.rid] \notin Running /\ faults' = faults
    BY FaultFacts DEF LeaseEnds, IdemInv
  <2> SUFFICES ASSUME Faultless, Exclusive, pc[rec.rid] \notin Running PROVE Exclusive'
    BY <1>1, <2>1 DEF Faultless, IdemInv
  <2>2. \A s \in Request : pc[s] \notin Running
    BY DEF Exclusive, Owns
  <2> QED BY <1>1, <1>2, <2>2 DEF Exclusive, world, Running
<1> QED BY <1>1, <1>2, <1>3, <1>4, RunningTypes, StepKeeps

\* The TTL ends what the document promised: no request is "ok" after it.
LEMMA ExpireKeeps ==
  ASSUME IdemInv, Expire
  PROVE  IdemInv'
<1>1. /\ rec # NoRec /\ rec \in Rec /\ rec' = [rec EXCEPT !.ttl = TRUE]
      /\ UNCHANGED <<world, pc, current, outcome, lost, answer, faults>>
  BY DEF Expire, IdemInv, TypeOK
<1>2. /\ rec' \in Rec /\ rec' # NoRec /\ rec'.rid = rec.rid /\ rec'.over = rec.over
      /\ rec'.state = rec.state /\ rec'.hash = rec.hash /\ rec'.response = rec.response
      /\ rec'.ttl = TRUE
  BY <1>1, ExpiredFacts
<1>3. expiries' \in 0..MaxExpiries /\ expiries' # 0
  BY BoundsAssumption DEF Expire, IdemInv, TypeOK
<1>4. /\ result' \in [Request -> {"none", "ok", "past", "conflict", "invalid", "error",
                                  "crashed"}]
      /\ \A s \in Request : result'[s] # "ok"
  BY DEF Expire, IdemInv, TypeOK
<1>5. TypeOK'
  BY <1>1, <1>2, <1>3, <1>4 DEF IdemInv, TypeOK, world
<1>6. AnswerInv'
  BY <1>1, <1>2, <1>4 DEF IdemInv, AnswerInv, world
<1> QED BY <1>3, <1>5, <1>6 DEF IdemInv, Faultless

LEMMA EvictKeeps ==
  ASSUME IdemInv, Evict
  PROVE  IdemInv'
<1>1. /\ rec # NoRec /\ rec.ttl /\ rec' = NoRec
      /\ UNCHANGED <<world, current, outcome, expiries, pc, result, answer>>
      /\ lost' = lost /\ faults' = faults
  BY DEF Evict
<1>2. WellWritten /\ CompletedStays
  BY <1>1, DocumentGone
<1>3. lost' \in [Request -> BOOLEAN] /\ faults' \in 0..MaxFaults
  BY <1>1 DEF IdemInv, TypeOK
<1>4. Faultless' => Exclusive'
  <2> SUFFICES ASSUME Faultless, Exclusive PROVE Exclusive'
    BY <1>1 DEF Faultless, IdemInv
  <2> QED BY <1>1, RemovalExcludes DEF Stale, world
<1> QED BY <1>1, <1>2, <1>3, <1>4, RunningTypes, StepKeeps

LEMMA CrashKeeps ==
  ASSUME IdemInv, NEW i \in Instance, Crash(i)
  PROVE  IdemInv'
<1>1. UNCHANGED <<rec, expiries, token, granted, host, hash, current, outcome, lost, answer>>
  BY Zenon DEF Crash, store
<1>2. faults' \in 0..MaxFaults /\ ~Faultless'
  BY FaultFacts DEF Crash, IdemInv
<1>3. /\ pc' \in [Request -> Active \union {"new", "done"}]
      /\ \A s \in Request : pc'[s] = "claim" => pc[s] = "claim"
  BY DEF Crash, IdemInv, TypeOK
<1>4. /\ result' \in [Request -> {"none", "ok", "past", "conflict", "invalid", "error",
                                  "crashed"}]
      /\ \A s \in Request : result'[s] = "ok" => result[s] = "ok"
      /\ up' \in [Instance -> BOOLEAN]
  BY DEF Crash, IdemInv, TypeOK
<1>5. WellWritten /\ CompletedStays
  BY <1>1, SameDocument, Zenon
<1>6. /\ granted' \in SUBSET Request /\ token' \in {"none", "valid", "revoked"}
      /\ outcome' \in [Request -> {"none", "ok", "invalid", "error"}]
      /\ lost' \in [Request -> BOOLEAN] /\ expiries' \in 0..MaxExpiries
      /\ answer' \in [Request -> Request \union {NoRequest}]
      /\ \A s \in Request : outcome'[s] = "ok" => s \in granted'
  BY <1>1, Zenon DEF IdemInv, TypeOK, AnswerInv
<1> QED BY <1>1, <1>2, <1>3, <1>4, <1>5, <1>6, StepKeeps, Zenon

LEMMA RestartKeeps ==
  ASSUME IdemInv, NEW i \in Instance, Restart(i)
  PROVE  IdemInv'
<1>1. /\ UNCHANGED <<expiries, token, granted, pc, host, hash, current, outcome, lost,
                     result, answer, faults>>
      /\ up' \in [Instance -> BOOLEAN]
      /\ rec' = rec \/ (Stale /\ rec.state = "pending" /\ rec' = NoRec)
  BY DEF Restart, IdemInv, TypeOK, Stale
<1>2. WellWritten /\ CompletedStays
  BY <1>1, SameDocument, DocumentGone DEF Stale
<1>3. Faultless' => Exclusive'
  <2> SUFFICES ASSUME Faultless, Exclusive PROVE Exclusive'
    BY <1>1 DEF Faultless, IdemInv
  <2>1. CASE rec' = rec
    BY <1>1, <2>1 DEF Exclusive, Owns
  <2>2. CASE Stale /\ rec' = NoRec
    BY <1>1, <2>2, RemovalExcludes, Zenon
  <2> QED BY <1>1, <2>1, <2>2
<1>4. /\ granted' \in SUBSET Request /\ token' \in {"none", "valid", "revoked"}
      /\ pc' \in [Request -> Active \union {"new", "done"}]
      /\ outcome' \in [Request -> {"none", "ok", "invalid", "error"}]
      /\ lost' \in [Request -> BOOLEAN] /\ expiries' \in 0..MaxExpiries
      /\ faults' \in 0..MaxFaults
      /\ result' \in [Request -> {"none", "ok", "past", "conflict", "invalid", "error",
                                  "crashed"}]
      /\ answer' \in [Request -> Request \union {NoRequest}]
      /\ \A s \in Request : outcome'[s] = "ok" => s \in granted'
  BY <1>1 DEF IdemInv, TypeOK, AnswerInv
<1> QED BY <1>1, <1>2, <1>3, <1>4, StepKeeps, Zenon

-------------------------------------------------------------------------------
(* The invariant, and what it implies *)

LEMMA InitKeeps == Init => IdemInv
<1> SUFFICES ASSUME Init PROVE IdemInv
  OBVIOUS
<1>1. /\ rec \in Rec \union {NoRec}
      /\ rec # NoRec => /\ rec.state = "pending" /\ rec.rid = NoRequest /\ rec.ttl
                        /\ rec.response = NoRequest
  BY Zenon DEF Init, Leftover, Rec
<1>2. TypeOK
  BY <1>1, BoundsAssumption DEF Init, TypeOK
<1>3. AnswerInv
  BY <1>1, RequestAssumption DEF Init, AnswerInv
<1>4. Exclusive
  BY <1>1, SMTT(20) DEF Init, Exclusive, Running
<1> QED BY <1>2, <1>3, <1>4 DEF IdemInv

LEMMA StutterKeeps ==
  ASSUME IdemInv, UNCHANGED vars
  PROVE  IdemInv'
BY DEF IdemInv, TypeOK, AnswerInv, Faultless, Exclusive, Owns, vars

LEMMA NextKeeps ==
  ASSUME IdemInv, [Next]_vars
  PROVE  IdemInv'
<1>1. ASSUME NEW r \in Request, Handle(r)
      PROVE  IdemInv'
  BY <1>1, ReadsKeep, InsertKeeps, ClaimKeeps, CleanKeeps, OperateKeeps, ReleaseKeeps,
     CompleteKeeps DEF Handle, Reserve
<1>2. ASSUME NEW r \in Request, Renew(r) \/ CutRenewal(r)
      PROVE  IdemInv'
  BY <1>2, RenewKeeps, CutRenewalKeeps
<1>3. CASE Next
  BY <1>1, <1>2, <1>3, CallFailsKeeps, CrashKeeps, RestartKeeps, LeaseEndsKeeps, ExpireKeeps,
     EvictKeeps DEF Next
<1> QED BY <1>3, StutterKeeps

\* The document, the reservations and the answers agree throughout, whichever
\* of withIdempotency's calls fail and wherever instances crash.
THEOREM IdemInvHolds == Spec => []IdemInv
BY InitKeeps, NextKeeps, PTL DEF Spec

\* For any number of requests with one key, on any number of instances, and for
\* any faults: a successful response is the one the document records, it was
\* granted, and no takeover of the lease replaces it.
THEOREM AnswersAreRecordedHolds == Spec => []AnswersAreRecorded
<1>1. IdemInv => AnswersAreRecorded
  BY DEF IdemInv, AnswerInv, AnswersAreRecorded
<1> QED BY <1>1, IdemInvHolds, PTL

\* For any number of requests with one key: as long as no call fails, no
\* instance crashes and no lease of a running request ends, one of them at most
\* executes the operation.
THEOREM ExecutedOnceHolds == Spec => []ExecutedOnce
<1>1. IdemInv => ExecutedOnce
  BY DEF IdemInv, Faultless, Exclusive, ExecutedOnce
<1> QED BY <1>1, IdemInvHolds, PTL
===============================================================================
