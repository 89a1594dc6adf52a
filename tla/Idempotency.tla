------------------------------ MODULE Idempotency ------------------------------
(***************************************************************************)
(* UserCenter's idempotent requests: several requests with one             *)
(* idempotency key, on several instances, coordinated by one document of   *)
(* idempotency_records (domain_auth_component.go, withIdempotency;         *)
(* idempotency_repository.go).                                             *)
(*                                                                         *)
(* Every MongoDB operation is an action.  A reservation id and the         *)
(* response an execution produces are named by the request they belong     *)
(* to.  Times are abstracted to whether the lease and the document's TTL   *)
(* are over: a lease may end at any moment, a renewal starts it again.     *)
(***************************************************************************)
EXTENDS Naturals, FiniteSets

CONSTANTS Request,    \* handler invocations; a client's retry is another one
          Instance,   \* UserCenter processes
          Hash,       \* request hashes
          MaxFaults,  \* bound on crashes, failed or half-done MongoDB calls,
                      \* leases that end under a running request and renewals
                      \* cut off by the end of the execution
          MaxExpiries,  \* bound on documents that outlive idempotency_ttl
          NoRequest, NoRec

ASSUME BoundsAssumption == MaxFaults \in Nat /\ MaxExpiries \in Nat
ASSUME RequestAssumption == NoRequest \notin Request

Rec == [state : {"pending", "completed"}, rid : Request \union {NoRequest},
        over : BOOLEAN, hash : Hash, response : Request \union {NoRequest},
        ttl : BOOLEAN]

\* The reservation of an earlier request, past its TTL and not yet evicted.
Leftover == [state : {"pending"}, rid : {NoRequest}, over : {TRUE}, hash : Hash,
             response : {NoRequest}, ttl : {TRUE}]

ASSUME NoRecAssumption == NoRec \notin Rec

VARIABLES rec,      \* the document of the key
          token,    \* the refresh token the requests carry; a login has none
          granted,  \* requests whose execution committed
          up,       \* instances that run
          pc, host, hash,
          current,  \* Reserve: the reservation it found
          outcome,  \* what execute returned
          lost,     \* renewErr holds an error
          result,   \* what each request returned
          answer,   \* the response of a successful request
          faults, expiries

vars == <<rec, token, granted, up, pc, host, hash, current, outcome, lost,
          result, answer, faults, expiries>>

store == <<rec, expiries>>
world == <<token, granted, up, host, hash>>

Calls == {"find", "insert", "refind", "clean", "reinsert", "recheck", "claim",
          "latest", "wait"}
Running == {"execute", "settle"}
Active == Calls \union Running

TypeOK ==
  /\ rec \in Rec \union {NoRec}
  /\ rec # NoRec => (rec.state = "completed" <=> rec.response # NoRequest)
  /\ token \in {"none", "valid", "revoked"}
  /\ granted \in SUBSET Request
  /\ up \in [Instance -> BOOLEAN]
  /\ pc \in [Request -> Active \union {"new", "done"}]
  /\ host \in [Request -> Instance]
  /\ hash \in [Request -> Hash]
  /\ current \in [Request -> Request \union {NoRequest}]
  /\ outcome \in [Request -> {"none", "ok", "invalid", "error"}]
  /\ lost \in [Request -> BOOLEAN]
  /\ result \in [Request -> {"none", "ok", "past", "conflict", "invalid",
                             "error", "crashed"}]
  /\ answer \in [Request -> Request \union {NoRequest}]
  /\ faults \in 0..MaxFaults
  /\ expiries \in 0..MaxExpiries

Init ==
  /\ rec \in {NoRec} \union Leftover
  /\ token \in {"none", "valid"}
  /\ granted = {}
  /\ up = [i \in Instance |-> TRUE]
  /\ pc = [r \in Request |-> "new"]
  /\ host \in [Request -> Instance]
  /\ hash \in [Request -> Hash]
  /\ current = [r \in Request |-> NoRequest]
  /\ outcome = [r \in Request |-> "none"]
  /\ lost = [r \in Request |-> FALSE]
  /\ result = [r \in Request |-> "none"]
  /\ answer = [r \in Request |-> NoRequest]
  /\ faults = 0
  /\ expiries = 0

Fault == faults < MaxFaults /\ faults' = faults + 1

\* Find returns a document only before expires_at.
Found == rec # NoRec /\ ~rec.ttl

Goto(r, step) ==
  /\ pc' = [pc EXCEPT ![r] = step]
  /\ UNCHANGED <<result, answer>>

Return(r, res) ==
  /\ pc' = [pc EXCEPT ![r] = "done"]
  /\ result' = [result EXCEPT ![r] = res]
  /\ UNCHANGED answer

\* replayIdempotency
Replay(r) ==
  IF rec.hash = hash[r]
  THEN /\ pc' = [pc EXCEPT ![r] = "done"]
       /\ result' = [result EXCEPT ![r] = "ok"]
       /\ answer' = [answer EXCEPT ![r] = rec.response]
  ELSE Return(r, "conflict")
-------------------------------------------------------------------------------
(* withIdempotency                                                         *)

\* The lock of the key: one request of an instance at a time.
Start(r) ==
  /\ pc[r] = "new"
  /\ up[host[r]]
  /\ \A s \in Request : host[s] = host[r] => pc[s] \notin Active
  /\ Goto(r, "find")
  /\ UNCHANGED <<store, world, current, outcome, lost, faults>>

Find(r) ==
  /\ pc[r] = "find"
  /\ IF ~Found THEN Goto(r, "insert")
     ELSE IF rec.state = "completed" THEN Replay(r)
     ELSE IF rec.hash # hash[r] THEN Return(r, "conflict")
     ELSE Goto(r, "wait")
  /\ UNCHANGED <<store, world, current, outcome, lost, faults>>

\* waitForIdempotency polls; after the deadline it tries to reserve.
Poll(r) ==
  /\ pc[r] = "wait"
  /\ Found /\ rec.state = "completed"
  /\ Replay(r)
  /\ UNCHANGED <<store, world, current, outcome, lost, faults>>

Retry(r) ==
  /\ pc[r] = "wait"
  /\ Goto(r, "insert")
  /\ UNCHANGED <<store, world, current, outcome, lost, faults>>
-------------------------------------------------------------------------------
(* Reserve                                                                 *)

\* Mutant: the reservation is made without a lease.
PendingUnleased(r) == [state |-> "pending", rid |-> r, over |-> TRUE,
                       hash |-> hash[r], response |-> NoRequest, ttl |-> FALSE]

Pending(r) == [state |-> "pending", rid |-> r, over |-> FALSE, hash |-> hash[r],
               response |-> NoRequest, ttl |-> FALSE]

\* InsertOne under the unique index on key.
Insert(r) ==
  /\ pc[r] \in {"insert", "reinsert"}
  /\ IF rec = NoRec
     THEN rec' = Pending(r) /\ Goto(r, "execute")
     ELSE /\ UNCHANGED rec
          /\ Goto(r, IF pc[r] = "insert" THEN "refind" ELSE "recheck")
  /\ UNCHANGED <<expiries, world, current, outcome, lost, faults>>

\* The document that stands in the way: a conflict, a finished request, a
\* live lease to wait for, or a lease to take over.
Inspect(r) ==
  IF rec.hash # hash[r] THEN Return(r, "conflict") /\ UNCHANGED current
  ELSE IF rec.state = "completed" THEN Replay(r) /\ UNCHANGED current
  ELSE IF ~rec.over THEN Goto(r, "wait") /\ UNCHANGED current
  ELSE Goto(r, "claim") /\ current' = [current EXCEPT ![r] = rec.rid]

Refind(r) ==
  /\ pc[r] = "refind"
  /\ IF Found THEN Inspect(r) ELSE Goto(r, "clean") /\ UNCHANGED current
  /\ UNCHANGED <<store, world, outcome, lost, faults>>

\* The filter of DeleteOne.
Stale == rec # NoRec /\ (rec.ttl \/ (rec.state = "pending" /\ rec.over))

\* DeleteOne of an expired document or lease; when there is none any more,
\* Reserve returns the ErrIdempotencyNotFound of its Find.
Clean(r) ==
  /\ pc[r] = "clean"
  /\ IF Stale
     THEN rec' = NoRec /\ Goto(r, "reinsert")
     ELSE UNCHANGED rec /\ Return(r, "error")
  /\ UNCHANGED <<expiries, world, current, outcome, lost, faults>>

Recheck(r) ==
  /\ pc[r] = "recheck"
  /\ IF Found THEN Inspect(r) ELSE Return(r, "error") /\ UNCHANGED current
  /\ UNCHANGED <<store, world, outcome, lost, faults>>

\* Mutant: the takeover looks for its own new reservation id.
ClaimableOwn(r) ==
  rec # NoRec /\ rec.state = "pending" /\ rec.rid = r /\ rec.over

\* The filter of FindOneAndUpdate.
Claimable(r) ==
  rec # NoRec /\ rec.state = "pending" /\ rec.rid = current[r] /\ rec.over

Claim(r) ==
  /\ pc[r] = "claim"
  /\ IF Claimable(r)
     THEN /\ rec' = [rec EXCEPT !.rid = r, !.over = FALSE]
          /\ Goto(r, "execute")
     ELSE UNCHANGED rec /\ Goto(r, "latest")
  /\ UNCHANGED <<expiries, world, current, outcome, lost, faults>>

Latest(r) ==
  /\ pc[r] = "latest"
  /\ IF ~Found THEN Return(r, "error")
     ELSE IF rec.state = "completed" THEN Replay(r)
     ELSE Goto(r, "wait")
  /\ UNCHANGED <<store, world, current, outcome, lost, faults>>
-------------------------------------------------------------------------------
(* executeReserved                                                         *)

\* The operation: a login issues a token, a refresh rotates the client's token
\* in a transaction and fails once it is revoked.  "applied" commits although
\* the caller sees an error; a lost lease cancels the context.
Operate(r, out) ==
  /\ pc[r] = "execute"
  /\ out \in {"ok", "applied"} => token # "revoked"
  /\ out = "invalid" => token = "revoked"
  /\ IF out \in {"ok", "applied"}
     THEN /\ granted' = granted \union {r}
          /\ token' = IF token = "valid" THEN "revoked" ELSE token
     ELSE UNCHANGED <<granted, token>>
  /\ outcome' = [outcome EXCEPT ![r] = IF out = "applied" THEN "error" ELSE out]
  /\ IF out \in {"ok", "invalid"} \/ lost[r] THEN UNCHANGED faults ELSE Fault
  /\ Goto(r, "settle")
  /\ UNCHANGED <<store, up, host, hash, current, lost>>

Owns(r) == rec # NoRec /\ rec.state = "pending" /\ rec.rid = r

\* renewIdempotencyLease, while the operation runs.
Renew(r) ==
  /\ pc[r] = "execute" /\ ~lost[r]
  /\ IF Owns(r) /\ ~rec.ttl
     THEN rec' = [rec EXCEPT !.over = FALSE] /\ UNCHANGED lost
     ELSE UNCHANGED rec /\ lost' = [lost EXCEPT ![r] = TRUE]
  /\ UNCHANGED <<expiries, world, pc, current, outcome, result, answer, faults>>

\* The operation ends while a renewal is under way: cancel() makes it fail.
CutRenewal(r) ==
  /\ pc[r] = "settle" /\ ~lost[r]
  /\ lost' = [lost EXCEPT ![r] = TRUE]
  /\ Fault
  /\ UNCHANGED <<store, world, pc, current, outcome, result, answer>>

\* Release, whose own failure is ignored.
Release(r) ==
  /\ pc[r] = "settle"
  /\ outcome[r] # "ok" \/ lost[r]
  /\ rec' = IF Owns(r) THEN NoRec ELSE rec
  /\ Return(r, IF outcome[r] = "invalid" THEN "invalid" ELSE "error")
  /\ UNCHANGED <<expiries, world, current, outcome, lost, faults>>

\* Mutant: any reservation of the key is completed.
CompletableAny(r) == rec # NoRec /\ ~rec.ttl

\* The filter of Complete.
Completable(r) == Owns(r) /\ ~rec.ttl

Complete(r) ==
  /\ pc[r] = "settle"
  /\ outcome[r] = "ok" /\ ~lost[r]
  /\ IF Completable(r)
     THEN /\ rec' = [rec EXCEPT !.state = "completed", !.response = r]
          /\ pc' = [pc EXCEPT ![r] = "done"]
          /\ result' = [result EXCEPT ![r] = "ok"]
          /\ answer' = [answer EXCEPT ![r] = r]
     ELSE UNCHANGED rec /\ Return(r, "conflict")
  /\ UNCHANGED <<expiries, world, current, outcome, lost, faults>>
-------------------------------------------------------------------------------
(* Failures and time                                                       *)

\* A MongoDB call fails, executed or not, and the request returns the error.
\* A failed Release is ignored: the operation's own error is returned.
CallFails(r, applied) ==
  /\ pc[r] \in Calls \union {"settle"}
  /\ Fault
  /\ IF ~applied THEN UNCHANGED rec
     ELSE \/ /\ pc[r] \in {"insert", "reinsert"} /\ rec = NoRec
             /\ rec' = Pending(r)
          \/ pc[r] = "clean" /\ Stale /\ rec' = NoRec
          \/ /\ pc[r] = "claim" /\ Claimable(r)
             /\ rec' = [rec EXCEPT !.rid = r, !.over = FALSE]
          \/ /\ pc[r] = "settle" /\ outcome[r] = "ok" /\ ~lost[r]
             /\ Completable(r)
             /\ rec' = [rec EXCEPT !.state = "completed", !.response = r]
  /\ Return(r, IF outcome[r] = "invalid" THEN "invalid" ELSE "error")
  /\ UNCHANGED <<expiries, world, current, outcome, lost>>

\* lease_until passes: a matter of time once nobody renews the lease, a fault
\* while its owner runs.
LeaseEnds ==
  /\ rec # NoRec /\ rec.state = "pending" /\ ~rec.over
  /\ rec' = [rec EXCEPT !.over = TRUE]
  /\ IF pc[rec.rid] \in Running THEN Fault ELSE UNCHANGED faults
  /\ UNCHANGED <<expiries, world, pc, current, outcome, lost, result, answer>>

\* expires_at passes: what the record promised ends with it.
Expire ==
  /\ rec # NoRec /\ ~rec.ttl
  /\ expiries < MaxExpiries
  /\ expiries' = expiries + 1
  /\ rec' = [rec EXCEPT !.ttl = TRUE]
  /\ result' = [r \in Request |-> IF result[r] = "ok" THEN "past" ELSE result[r]]
  /\ UNCHANGED <<world, pc, current, outcome, lost, answer, faults>>

\* MongoDB's TTL monitor.
Evict ==
  /\ rec # NoRec /\ rec.ttl
  /\ rec' = NoRec
  /\ UNCHANGED <<expiries, world, pc, current, outcome, lost, result, answer,
                 faults>>

Crash(i) ==
  /\ up[i]
  /\ Fault
  /\ up' = [up EXCEPT ![i] = FALSE]
  /\ pc' = [r \in Request |-> IF host[r] = i /\ pc[r] \in Active
                              THEN "done" ELSE pc[r]]
  /\ result' = [r \in Request |-> IF host[r] = i /\ pc[r] \in Active
                                  THEN "crashed" ELSE result[r]]
  /\ UNCHANGED <<store, token, granted, host, hash, current, outcome, lost,
                 answer>>

\* Module.Start: RecoverExpired.
Restart(i) ==
  /\ ~up[i]
  /\ up' = [up EXCEPT ![i] = TRUE]
  /\ rec' = IF rec # NoRec /\ rec.state = "pending" /\ (rec.over \/ rec.ttl)
            THEN NoRec ELSE rec
  /\ UNCHANGED <<expiries, token, granted, pc, host, hash, current, outcome,
                 lost, result, answer, faults>>

Reserve(r) ==
  \/ Insert(r) \/ Refind(r) \/ Clean(r) \/ Recheck(r) \/ Claim(r) \/ Latest(r)

Outcomes == {"ok", "invalid", "error", "applied"}

Handle(r) ==
  \/ Start(r) \/ Find(r) \/ Poll(r) \/ Retry(r) \/ Reserve(r)
  \/ \E out \in Outcomes : Operate(r, out)
  \/ Release(r) \/ Complete(r)

Next ==
  \/ \E r \in Request : \/ Handle(r) \/ Renew(r) \/ CutRenewal(r)
                        \/ \E applied \in BOOLEAN : CallFails(r, applied)
  \/ \E i \in Instance : Crash(i) \/ Restart(i)
  \/ LeaseEnds \/ Expire \/ Evict

Spec == Init /\ [][Next]_vars

\* Requests proceed, the mutex is fair, instances are restarted and abandoned
\* leases end.
FairSpec ==
  /\ Spec
  /\ \A r \in Request : WF_vars(Handle(r)) /\ SF_vars(Start(r))
  /\ \A i \in Instance : WF_vars(Restart(i))
  /\ WF_vars(LeaseEnds /\ UNCHANGED faults)

-------------------------------------------------------------------------------
(* Properties                                                              *)

\* A successful response is the recorded one and was really granted, so that
\* every retry within the TTL repeats it: whoever took the lease over meanwhile
\* has not replaced it (Complete, Reserve, replayIdempotency).
AnswersAreRecorded ==
  \A r \in Request : result[r] = "ok" =>
    /\ rec # NoRec /\ rec.state = "completed"
    /\ rec.response = answer[r] /\ rec.hash = hash[r]
    /\ answer[r] \in granted

\* Unless a fault or the TTL intervenes, an operation is executed once however
\* many requests carry the key (Reserve, the lease, the lock of the key).
ExecutedOnce ==
  faults = 0 /\ expiries = 0 => \A r, s \in granted : r = s

\* Every request gets the lock of its key and returns, also when the owner of
\* the reservation it waits for has crashed (waitForIdempotency).
EveryRequestReturns == \A r \in Request : <>(pc[r] = "done")
=============================================================================
