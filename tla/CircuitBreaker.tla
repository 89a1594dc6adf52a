---------------------------- MODULE CircuitBreaker ----------------------------
(***************************************************************************)
(* The circuit breaker and the retry loop around the Gateway's calls to    *)
(* UserCenter (breaker.go, retry.go, authentication_client.go).            *)
(*                                                                         *)
(* A call asks allow, runs RetryPolicy.Do and reports to complete.  Both   *)
(* change the state under the mutex and tell the observer, a gauge that    *)
(* nobody reads back, after releasing it.  failures is only compared with  *)
(* the threshold, so counts above it are one.                              *)
(***************************************************************************)
EXTENDS Naturals

CONSTANTS Caller,       \* goroutines that authenticate clients
          Threshold,    \* circuit_failures
          MaxAttempts   \* retry_attempts

ASSUME ConfigAssumption == Threshold \in Nat \ {0} /\ MaxAttempts \in Nat \ {0}

VARIABLES state, failures,
          waiting,   \* now is before openUntil
          pc,        \* what each caller does next
          attempt    \* RetryPolicy.Do: the attempt in progress

vars == <<state, failures, waiting, pc, attempt>>

States == {"closed", "open", "half-open"}

TypeOK ==
  /\ state \in States
  /\ failures \in 0..Threshold
  /\ waiting \in BOOLEAN
  /\ pc \in [Caller -> {"idle", "admitted", "calling", "completed"}]
  /\ attempt \in [Caller -> 1..MaxAttempts]

Init ==
  /\ state = "closed"
  /\ failures = 0
  /\ waiting = FALSE
  /\ pc = [c \in Caller |-> "idle"]
  /\ attempt = [c \in Caller |-> 1]

\* allow: a closed circuit admits every call.
Admit(c) ==
  /\ pc[c] = "idle"
  /\ state = "closed"
  /\ pc' = [pc EXCEPT ![c] = "calling"]
  /\ UNCHANGED <<state, failures, waiting, attempt>>

\* Mutant: the probe is let through and the circuit is not marked half-open.
ProbeKeepsOpen(c) ==
  /\ pc[c] = "idle"
  /\ state = "open" /\ ~waiting
  /\ pc' = [pc EXCEPT ![c] = "admitted"]
  /\ UNCHANGED <<state, failures, waiting, attempt>>

\* allow: the first call after openUntil is the probe.
Probe(c) ==
  /\ pc[c] = "idle"
  /\ state = "open" /\ ~waiting
  /\ state' = "half-open"
  /\ pc' = [pc EXCEPT ![c] = "admitted"]
  /\ UNCHANGED <<failures, waiting, attempt>>

\* allow refuses: ErrCircuitOpen.
Refuse(c) ==
  /\ pc[c] = "idle"
  /\ (state = "open" /\ waiting) \/ state = "half-open"
  /\ UNCHANGED vars

\* notifyStateChange, outside the mutex.
Notify(c) ==
  /\ pc[c] \in {"admitted", "completed"}
  /\ pc' = [pc EXCEPT ![c] = IF @ = "admitted" THEN "calling" ELSE "idle"]
  /\ UNCHANGED <<state, failures, waiting, attempt>>

\* complete(nil)
Complete(c) ==
  /\ failures' = 0
  /\ waiting' = FALSE
  /\ state' = "closed"
  /\ pc' = [pc EXCEPT ![c] = IF state = "closed" THEN "idle" ELSE "completed"]
  /\ attempt' = [attempt EXCEPT ![c] = 1]

More(n) == IF n < Threshold THEN n + 1 ELSE Threshold

\* Mutant: the failure count is not kept when the circuit opens.
FailResetsCount(c) ==
  LET trips == More(failures) = Threshold IN
  /\ failures' = IF trips THEN 0 ELSE More(failures)
  /\ waiting' = (trips \/ waiting)
  /\ state' = IF trips THEN "open" ELSE state
  /\ pc' = [pc EXCEPT ![c] = IF trips /\ state # "open" THEN "completed"
                             ELSE "idle"]
  /\ attempt' = [attempt EXCEPT ![c] = 1]

\* complete(err)
Fail(c) ==
  LET trips == More(failures) = Threshold IN
  /\ failures' = More(failures)
  /\ waiting' = (trips \/ waiting)
  /\ state' = IF trips THEN "open" ELSE state
  /\ pc' = [pc EXCEPT ![c] = IF trips /\ state # "open" THEN "completed"
                             ELSE "idle"]
  /\ attempt' = [attempt EXCEPT ![c] = 1]

\* UserCenter answers, with a response or with an error envelope.
Answered(c) ==
  /\ pc[c] = "calling"
  /\ Complete(c)

\* No client, a closed stream or a timeout: ShouldRetry holds, and after the
\* last attempt countsFailure does.
Unavailable(c) ==
  /\ pc[c] = "calling"
  /\ \/ /\ attempt[c] < MaxAttempts
        /\ attempt' = [attempt EXCEPT ![c] = @ + 1]
        /\ UNCHANGED <<state, failures, waiting, pc>>
     \/ /\ attempt[c] = MaxAttempts
        /\ Fail(c)

\* stream.Send fails before the read loop has closed the client: the error is
\* neither ErrConnectionClosed nor ErrRequestTimeout, so it is not retried and
\* counts as a success.
SendFails(c) ==
  /\ pc[c] = "calling"
  /\ Complete(c)

\* openUntil passes.
ResetTimeout ==
  /\ waiting
  /\ waiting' = FALSE
  /\ UNCHANGED <<state, failures, pc, attempt>>

Next ==
  \/ \E c \in Caller : \/ Admit(c) \/ Probe(c) \/ Refuse(c) \/ Notify(c)
                       \/ Answered(c) \/ Unavailable(c) \/ SendFails(c)
  \/ ResetTimeout

Spec == Init /\ [][Next]_vars

-------------------------------------------------------------------------------
(* Properties                                                              *)

InFlight(c) == pc[c] \in {"admitted", "calling"}

\* Only a run of counted failures keeps the circuit from being closed, and a
\* half-open circuit, which refuses every call, always has a call in flight
\* whose completion decides it (allow, complete).
HalfOpenIsDecided ==
  /\ state # "closed" => failures = Threshold
  /\ state = "half-open" => \E c \in Caller : InFlight(c)

\* Whatever calls admitted earlier report meanwhile, an open circuit lets a
\* probe through or closes, and a half-open one is decided.
CircuitMovesOn ==
  /\ state = "open" ~> state # "open"
  /\ state = "half-open" ~> state # "half-open"
=============================================================================
