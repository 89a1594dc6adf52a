--------------------------- MODULE LoginCalls_proofs ---------------------------
(***************************************************************************)
(* The handlers of any number of connections use the breaker as its        *)
(* callers should, give a client the right reason, and get their answers   *)
(* right on a stream they share.  GatewayDrain, the shutdown of the        *)
(* gateway, and StreamClients, which opens the streams for any numbers of  *)
(* instances, addresses, streams and faults, follow.                       *)
(***************************************************************************)
EXTENDS LoginCalls, GatewayDrain, StreamClients, TLAPS

-------------------------------------------------------------------------------
(* The breaker by itself: HalfOpenIsDecided for any number of callers, any *)
(* threshold and any number of attempts.                                   *)

BreakerInv == TypeOK /\ HalfOpenIsDecided

\* A counted failure brings the saturating count to the threshold at most, and
\* keeps it there.
LEMMA MoreFacts ==
  ASSUME NEW n \in 0..Threshold
  PROVE  More(n) \in 0..Threshold /\ (n = Threshold => More(n) = Threshold)
BY ConfigAssumption DEF More

\* A closed circuit needs nothing, so complete(nil) establishes the invariant.
LEMMA CompleteStep ==
  ASSUME BreakerInv, NEW c \in Caller, Complete(c)
  PROVE  BreakerInv'
<1>1. TypeOK'
  <2>1. failures' \in 0..Threshold /\ 1 \in 1..MaxAttempts
    BY ConfigAssumption DEF Complete
  <2>2. /\ state' \in States /\ waiting' \in BOOLEAN
        /\ pc' \in [Caller -> {"idle", "admitted", "calling", "completed"}]
        /\ attempt' \in [Caller -> 1..MaxAttempts]
    BY <2>1, Zenon DEF Complete, BreakerInv, TypeOK, States
  <2> QED
    BY <2>1, <2>2 DEF Complete, BreakerInv, TypeOK
<1> QED
  BY <1>1 DEF BreakerInv, HalfOpenIsDecided, Complete

\* complete(err) keeps a circuit that is not closed at the threshold, and so
\* takes a half-open one to open.
LEMMA FailStep ==
  ASSUME BreakerInv, NEW c \in Caller, Fail(c)
  PROVE  BreakerInv'
<1>1. More(failures) \in 0..Threshold
      /\ (failures = Threshold => More(failures) = Threshold)
  BY MoreFacts DEF BreakerInv, TypeOK
<1>2. TypeOK'
  BY <1>1, ConfigAssumption DEF BreakerInv, TypeOK, Fail, States
<1>3. state' # "half-open" /\ (state' # "closed" => failures' = Threshold)
  BY <1>1 DEF BreakerInv, HalfOpenIsDecided, Fail
<1> QED
  BY <1>2, <1>3 DEF BreakerInv, HalfOpenIsDecided

\* Every step of a caller and the passing of the reset timeout preserve the
\* invariant.
LEMMA BreakerStep ==
  ASSUME BreakerInv, [Next]_vars
  PROVE  BreakerInv'
<1>1. CASE UNCHANGED vars
  BY <1>1 DEF vars, BreakerInv, TypeOK, HalfOpenIsDecided, InFlight
<1>2. CASE ResetTimeout
  BY <1>2, Zenon DEF ResetTimeout, BreakerInv, TypeOK, HalfOpenIsDecided, InFlight
<1>3. ASSUME NEW c \in Caller, Admit(c)
      PROVE  BreakerInv'
  BY <1>3, ConfigAssumption
     DEF Admit, BreakerInv, TypeOK, HalfOpenIsDecided, InFlight
<1>4. ASSUME NEW c \in Caller, Probe(c)
      PROVE  BreakerInv'
  <2>1. TypeOK'
    BY <1>4, ConfigAssumption DEF Probe, BreakerInv, TypeOK, States
  <2>2. InFlight(c)'
    BY <1>4 DEF Probe, InFlight, BreakerInv, TypeOK
  <2>3. failures' = Threshold
    BY <1>4 DEF Probe, BreakerInv, HalfOpenIsDecided
  <2> QED
    BY <2>1, <2>2, <2>3 DEF BreakerInv, HalfOpenIsDecided
<1>5. ASSUME NEW c \in Caller, Refuse(c)
      PROVE  BreakerInv'
  BY <1>1, <1>5 DEF Refuse
<1>6. ASSUME NEW c \in Caller, Notify(c)
      PROVE  BreakerInv'
  <2>1. TypeOK'
    BY <1>6 DEF Notify, BreakerInv, TypeOK
  <2>2. \A d \in Caller : InFlight(d) => InFlight(d)'
    BY <1>6 DEF Notify, InFlight, BreakerInv, TypeOK
  <2> QED
    BY <1>6, <2>1, <2>2 DEF Notify, BreakerInv, HalfOpenIsDecided
<1>7. ASSUME NEW c \in Caller, Answered(c)
      PROVE  BreakerInv'
  BY <1>7, CompleteStep DEF Answered
<1>8. ASSUME NEW c \in Caller, Unavailable(c)
      PROVE  BreakerInv'
  <2>1. CASE attempt[c] = MaxAttempts /\ Fail(c)
    BY <2>1, FailStep
  <2>2. CASE /\ attempt[c] < MaxAttempts
             /\ attempt' = [attempt EXCEPT ![c] = @ + 1]
             /\ UNCHANGED <<state, failures, waiting, pc>>
    <3>1. attempt[c] + 1 \in 1..MaxAttempts
      BY <2>2, ConfigAssumption DEF BreakerInv, TypeOK
    <3> QED
      BY <2>2, <3>1 DEF BreakerInv, TypeOK, HalfOpenIsDecided, InFlight
  <2> QED
    BY <1>8, <2>1, <2>2 DEF Unavailable
<1>9. ASSUME NEW c \in Caller, SendFails(c)
      PROVE  BreakerInv'
  BY <1>9, CompleteStep DEF SendFails
<1> QED
  BY <1>1, <1>2, <1>3, <1>4, <1>5, <1>6, <1>7, <1>8, <1>9 DEF Next

\* The circuit never waits for a probe that is not running, for any number of
\* callers, any threshold and any number of attempts.
THEOREM HalfOpenIsDecidedHolds == Spec => [](TypeOK /\ HalfOpenIsDecided)
<1>1. Init => BreakerInv
  <2> SUFFICES ASSUME Init PROVE BreakerInv
    OBVIOUS
  <2>1. 0 \in 0..Threshold /\ 1 \in 1..MaxAttempts
    BY ConfigAssumption
  <2>2. TypeOK
    BY <2>1, Zenon DEF Init, TypeOK, States
  <2> QED
    BY <2>2 DEF Init, BreakerInv, HalfOpenIsDecided
<1>2. BreakerInv /\ [Next]_vars => BreakerInv'
  BY BreakerStep
<1>3. BreakerInv => TypeOK /\ HalfOpenIsDecided
  BY DEF BreakerInv
<1> QED
  BY <1>1, <1>2, <1>3, PTL DEF Spec

-------------------------------------------------------------------------------
(* The handlers as callers of the breaker                                  *)

\* A step of a handler is a step of the breaker's callers or none.
LEMMA HandlerCalls ==
  ASSUME NEW c \in Caller,
         \/ Refill(c) \/ RateLimited(c) \/ Dispatch(c) \/ DispatchInvalid(c) \/ Handler(c)
  PROVE  [Next]_vars
<1>1. CASE Refill(c) \/ RateLimited(c) \/ Dispatch(c) \/ DispatchInvalid(c)
           \/ Authenticated(c) \/ Player(c) \/ Session(c) \/ NextMessage(c)
  BY <1>1, Zenon DEF Refill, RateLimited, Dispatch, DispatchInvalid, Authenticated,
                     Player, Session, NextMessage
<1>2. CASE Admitted(c) \/ CircuitOpen(c) \/ Notified(c)
  BY <1>2, Zenon DEF Admitted, CircuitOpen, Notified, Next
<1>3. CASE Attempt(c)
  BY <1>3, Zenon DEF Attempt, AttemptFails, Next
<1>4. CASE Asked(c)
  BY <1>4, Zenon DEF Asked, AttemptFails, Next
<1> QED BY <1>1, <1>2, <1>3, <1>4, Zenon DEF Handler

LEMMA StepCalls == [LoginNext]_loginVars => [Next]_vars
<1> SUFFICES ASSUME [LoginNext]_loginVars PROVE [Next]_vars
  OBVIOUS
<1>1. CASE Hello \/ Break \/ Transport
  BY <1>1, Zenon DEF Hello, Break, Transport, Connect, Notice, Serve, ReadAnswer
<1>2. CASE TimePasses
  BY <1>2, Zenon DEF TimePasses, Next
<1>3. CASE UNCHANGED loginVars
  BY <1>3, Zenon DEF loginVars
<1> QED BY <1>1, <1>2, <1>3, HandlerCalls, Zenon DEF LoginNext

\* Whatever the read loops, the stream and UserCenter do, the breaker sees the
\* calls CircuitBreaker describes (ExecuteClassified, RetryPolicy.Do, request).
THEOREM ImplementsBreakerHolds == LoginSpec => ImplementsBreaker
<1>1. LoginInit => Init
  BY Zenon DEF LoginInit
<1> QED BY <1>1, StepCalls, PTL DEF LoginSpec, Spec, ImplementsBreaker

\* So a half-open circuit has a login in flight that decides it (allow,
\* complete).
THEOREM LoginsDecide == LoginSpec => []HalfOpenIsDecided
BY ImplementsBreakerHolds, HalfOpenIsDecidedHolds, PTL DEF ImplementsBreaker

-------------------------------------------------------------------------------
(* What the client is told                                                 *)

ReplyInv ==
  /\ reply \in [Caller -> {"none", "success", "failure", "retry later", "slow down"}]
  /\ outage \in [Caller -> BOOLEAN]
  /\ RetryMeansOutage

LEMMA ReplyStep == ReplyInv /\ [LoginNext]_loginVars => ReplyInv'
<1> SUFFICES ASSUME ReplyInv, [LoginNext]_loginVars PROVE ReplyInv'
  OBVIOUS
<1> USE DEF ReplyInv, RetryMeansOutage
<1>1. CASE UNCHANGED <<reply, outage>>
  BY <1>1, Zenon
<1>2. ASSUME NEW c \in Caller, RateLimited(c) \/ DispatchInvalid(c) \/ NextMessage(c)
      PROVE  ReplyInv'
  BY <1>2, Zenon DEF RateLimited, DispatchInvalid, NextMessage
<1>3. ASSUME NEW c \in Caller, CircuitOpen(c) PROVE ReplyInv'
  BY <1>3, Zenon DEF CircuitOpen, Authenticates, Map, Temporary
<1>4. ASSUME NEW c \in Caller, NEW e, AttemptFails(c, e) PROVE ReplyInv'
  BY <1>4, Zenon DEF AttemptFails, Met, Authenticates, Map
<1>5. ASSUME NEW c \in Caller, Attempt(c) PROVE ReplyInv'
  BY <1>5, <1>1, <1>4, Zenon DEF Attempt, Met, Authenticates, Map, Temporary
<1>6. ASSUME NEW c \in Caller, Asked(c) PROVE ReplyInv'
  BY <1>6, <1>4, Zenon DEF Asked, Authenticates, Map, Temporary
<1>7. ASSUME NEW c \in Caller, Authenticated(c) PROVE ReplyInv'
  BY <1>7, Zenon DEF Authenticated
<1>8. ASSUME NEW c \in Caller, Player(c) PROVE ReplyInv'
  BY <1>8, Zenon DEF Player, Reply, Map, Temporary
<1>9. ASSUME NEW c \in Caller, Session(c) PROVE ReplyInv'
  BY <1>9, Zenon DEF Session, Reply, Map, Temporary
<1>10. ASSUME NEW c \in Caller, Refill(c) \/ Dispatch(c) \/ Admitted(c) \/ Notified(c)
       PROVE  UNCHANGED <<reply, outage>>
  BY <1>10, ZenonT(60) DEF Refill, Dispatch, Admitted, Notified, front
<1>11. Hello \/ Break \/ Transport \/ TimePasses \/ UNCHANGED loginVars
         => UNCHANGED <<reply, outage>>
  BY Zenon DEF Hello, Break, Transport, Connect, Notice, Serve, ReadAnswer, TimePasses,
               loginVars, front
<1> QED
  BY <1>1, <1>2, <1>3, <1>5, <1>6, <1>7, <1>8, <1>9, <1>10, <1>11, Zenon
     DEF LoginNext, Handler

\* A client is told to try again later only when some service or Redis did not
\* answer (request, ExecuteClassified, Map).
THEOREM RetryMeansOutageHolds == LoginSpec => []RetryMeansOutage
<1>1. LoginInit => ReplyInv
  BY DEF LoginInit, ReplyInv, RetryMeansOutage
<1>2. ReplyInv => RetryMeansOutage
  BY Zenon DEF ReplyInv
<1> QED BY <1>1, <1>2, ReplyStep, PTL DEF LoginSpec

-------------------------------------------------------------------------------
(* The shared stream                                                       *)

LEMMA TailFacts ==
  ASSUME NEW S, NEW q \in Seq(S), q # <<>>
  PROVE  /\ Len(q) \in Nat /\ Len(q) >= 1
         /\ Head(q) = q[1] /\ Head(q) \in S
         /\ Tail(q) \in Seq(S) /\ Len(Tail(q)) = Len(q) - 1
         /\ \A i \in 1..Len(Tail(q)) : i + 1 \in 2..Len(q) /\ Tail(q)[i] = q[i + 1]
OBVIOUS

LEMMA AppendFacts ==
  ASSUME NEW S, NEW q \in Seq(S), NEW x \in S
  PROVE  /\ Len(q) \in Nat
         /\ Append(q, x) \in Seq(S) /\ Len(Append(q, x)) = Len(q) + 1
         /\ \A i \in 1..Len(q) : Append(q, x)[i] = q[i]
         /\ Append(q, x)[Len(q) + 1] = x
OBVIOUS

StreamShape ==
  /\ inbox \in Seq(Caller) /\ outbox \in Seq(Answers)
  /\ step \in [Caller -> {"idle", "auth", "attempt", "asked", "authenticated",
                          "player", "session", "told"}]
  /\ answer \in [Caller -> Answers \union {NoAnswer}]
  /\ cut \in [Caller -> BOOLEAN]

\* A stream that is done has no requests left, and no answers once readLoop is.
DoneIsEmpty ==
  /\ link \in {"none", "broken"} => inbox = <<>>
  /\ link = "none" => outbox = <<>>

\* A request is on the stream at most once, as a request or as an answer ...
OnceOnStream ==
  /\ \A i, j \in 1..Len(inbox) : inbox[i] = inbox[j] => i = j
  /\ \A i, j \in 1..Len(outbox) : outbox[i].to = outbox[j].to => i = j
  /\ \A i \in 1..Len(inbox), j \in 1..Len(outbox) : inbox[i] # outbox[j].to

\* ... and while it is, its read loop waits for it and has nothing yet.
Open(c) == step[c] = "asked" /\ answer[c] = NoAnswer /\ ~cut[c]

StreamIsAwaited ==
  /\ \A i \in 1..Len(inbox) : Open(inbox[i])
  /\ \A i \in 1..Len(outbox) : Open(outbox[i].to)
  /\ \A c \in Caller : cut[c] => step[c] = "asked"

StreamInv ==
  /\ StreamShape /\ DoneIsEmpty /\ OnceOnStream /\ StreamIsAwaited /\ AnswersMatch

LEMMA PlacesTyped ==
  ASSUME StreamShape
  PROVE  /\ \A i \in 1..Len(inbox) : inbox[i] \in Caller
         /\ \A i \in 1..Len(outbox) : outbox[i] \in Answers /\ outbox[i].to \in Caller
<1>1. \A i \in 1..Len(inbox) : inbox[i] \in Caller
  BY DEF StreamShape
<1>2. \A i \in 1..Len(outbox) : outbox[i] \in Answers
  BY DEF StreamShape
<1>3. \A a \in Answers : a.to \in Caller
  BY DEF Answers
<1> QED BY <1>1, <1>2, <1>3, Zenon

\* A step of a read loop that does not wait, before or after it.
LEMMA LoopKeeps ==
  ASSUME StreamInv, NEW c \in Caller, NEW next, step[c] # "asked", Goto(c, next),
         next \in {"idle", "auth", "attempt", "authenticated", "player", "session", "told"},
         UNCHANGED streams
  PROVE  StreamInv'
<1>1. /\ StreamShape /\ DoneIsEmpty /\ OnceOnStream /\ StreamIsAwaited /\ AnswersMatch
      /\ link' = link /\ inbox' = inbox /\ outbox' = outbox /\ answer' = answer /\ cut' = cut
  BY Zenon DEF StreamInv, streams
<1>2. step' \in [Caller -> {"idle", "auth", "attempt", "asked", "authenticated",
                           "player", "session", "told"}]
  BY <1>1 DEF StreamShape, Goto
<1>3. \A d \in Caller : step[d] = "asked" => step'[d] = "asked"
  BY <1>1 DEF StreamShape, Goto
<1>4. StreamShape'
  BY <1>1, <1>2, Zenon DEF StreamShape
<1>5. DoneIsEmpty'
  BY <1>1 DEF DoneIsEmpty
<1>6. OnceOnStream'
  BY <1>1 DEF OnceOnStream
<1>7. StreamIsAwaited'
  BY <1>1, <1>3, PlacesTyped, Zenon DEF StreamIsAwaited, Open
<1>8. AnswersMatch'
  BY <1>1, <1>3 DEF AnswersMatch
<1> QED BY <1>4, <1>5, <1>6, <1>7, <1>8, Zenon DEF StreamInv

\* A step that touches neither the stream nor a read loop.
LEMMA NothingMoves == StreamInv /\ UNCHANGED <<step, streams>> => StreamInv'
<1> SUFFICES ASSUME StreamInv, UNCHANGED <<step, streams>> PROVE StreamInv'
  OBVIOUS
<1>1. /\ StreamShape /\ DoneIsEmpty /\ OnceOnStream /\ StreamIsAwaited /\ AnswersMatch
      /\ link' = link /\ inbox' = inbox /\ outbox' = outbox /\ answer' = answer /\ cut' = cut
      /\ step' = step
  BY Zenon DEF StreamInv, streams
<1>2. StreamShape' /\ DoneIsEmpty' /\ AnswersMatch'
  BY <1>1 DEF StreamShape, DoneIsEmpty, AnswersMatch
<1>3. OnceOnStream' /\ StreamIsAwaited'
  BY <1>1 DEF OnceOnStream, StreamIsAwaited, Open
<1> QED BY <1>2, <1>3, Zenon DEF StreamInv

\* A request goes on the stream; one that a broken stream takes goes nowhere.
LEMMA SendKeeps ==
  ASSUME StreamInv, NEW c \in Caller, step[c] = "attempt", Send(c), Goto(c, "asked")
  PROVE  StreamInv'
<1>1. /\ StreamShape /\ DoneIsEmpty /\ OnceOnStream /\ StreamIsAwaited /\ AnswersMatch
      /\ link' = link /\ outbox' = outbox /\ answer' = answer /\ cut' = cut
      /\ link # "none"
      /\ inbox' = IF link = "broken" THEN inbox ELSE Append(inbox, c)
      /\ step' = [step EXCEPT ![c] = "asked"]
  BY Zenon DEF StreamInv, Send, Goto
<1>2. step' \in [Caller -> {"idle", "auth", "attempt", "asked", "authenticated",
                           "player", "session", "told"}]
  BY <1>1 DEF StreamShape
<1>3. \A d \in Caller : step[d] = "asked" \/ d = c => step'[d] = "asked"
  BY <1>1 DEF StreamShape
<1>4. answer[c] = NoAnswer /\ ~cut[c]
  BY <1>1 DEF StreamIsAwaited, AnswersMatch
<1>5. /\ \A i \in 1..Len(inbox) : inbox[i] # c
      /\ \A i \in 1..Len(outbox) : outbox[i].to # c
  BY <1>1, PlacesTyped DEF StreamIsAwaited, Open
<1>6. inbox' \in Seq(Caller)
  BY <1>1, AppendFacts DEF StreamShape
<1>7. \A i \in 1..Len(inbox') : \/ i \in 1..Len(inbox) /\ inbox'[i] = inbox[i]
                                \/ i = Len(inbox) + 1 /\ inbox'[i] = c
  BY <1>1, AppendFacts DEF StreamShape
<1>8. StreamShape'
  BY <1>1, <1>2, <1>6, Zenon DEF StreamShape
<1>9. DoneIsEmpty'
  BY <1>1 DEF DoneIsEmpty
<1>10. OnceOnStream'
  BY <1>1, <1>5, <1>7 DEF OnceOnStream
<1>11. StreamIsAwaited'
  <2>1. \A i \in 1..Len(inbox') : inbox'[i] = c \/ \E j \in 1..Len(inbox) : inbox'[i] = inbox[j]
    BY <1>7, Zenon
  <2>2. \A d \in Caller :
           Open(d) \/ d = c => step'[d] = "asked" /\ answer'[d] = NoAnswer /\ ~cut'[d]
    BY <1>1, <1>3, <1>4, Zenon DEF Open
  <2>3. \A i \in 1..Len(inbox') :
           step'[inbox'[i]] = "asked" /\ answer'[inbox'[i]] = NoAnswer /\ ~cut'[inbox'[i]]
    BY <1>1, <2>1, <2>2, PlacesTyped, ZenonT(60) DEF StreamIsAwaited
  <2>4. \A i \in 1..Len(outbox') :
           step'[outbox'[i].to] = "asked" /\ answer'[outbox'[i].to] = NoAnswer
             /\ ~cut'[outbox'[i].to]
    BY <1>1, <2>2, PlacesTyped, Zenon DEF StreamIsAwaited
  <2>5. \A d \in Caller : cut'[d] => step'[d] = "asked"
    BY <1>1, <1>3, Zenon DEF StreamIsAwaited
  <2> QED BY <2>3, <2>4, <2>5, Zenon DEF StreamIsAwaited, Open
<1>12. AnswersMatch'
  BY <1>1, <1>3, Zenon DEF AnswersMatch
<1> QED BY <1>8, <1>9, <1>10, <1>11, <1>12, Zenon DEF StreamInv

\* Request returns: its answer has come or its stream is done, so nothing of it
\* is on the stream.
LEMMA ForgetKeeps ==
  ASSUME StreamInv, NEW c \in Caller, NEW next, answer[c] # NoAnswer \/ cut[c],
         Forget(c), Goto(c, next),
         next \in {"idle", "auth", "attempt", "authenticated", "player", "session", "told"}
  PROVE  StreamInv'
<1>1. /\ StreamShape /\ DoneIsEmpty /\ OnceOnStream /\ StreamIsAwaited /\ AnswersMatch
      /\ link' = link /\ inbox' = inbox /\ outbox' = outbox
      /\ answer' = [answer EXCEPT ![c] = NoAnswer] /\ cut' = [cut EXCEPT ![c] = FALSE]
      /\ step' = [step EXCEPT ![c] = next]
  BY Zenon DEF StreamInv, Forget, Goto
<1>2. step' \in [Caller -> {"idle", "auth", "attempt", "asked", "authenticated",
                           "player", "session", "told"}]
  BY <1>1 DEF StreamShape
<1>3. /\ answer' \in [Caller -> Answers \union {NoAnswer}]
      /\ cut' \in [Caller -> BOOLEAN]
  BY <1>1, Zenon DEF StreamShape
<1>4. /\ answer'[c] = NoAnswer /\ ~cut'[c]
      /\ \A d \in Caller \ {c} :
           step'[d] = step[d] /\ answer'[d] = answer[d] /\ cut'[d] = cut[d]
  BY <1>1, Zenon DEF StreamShape
<1>5. /\ \A i \in 1..Len(inbox) : inbox[i] \in Caller \ {c}
      /\ \A i \in 1..Len(outbox) : outbox[i].to \in Caller \ {c}
  BY <1>1, PlacesTyped, Zenon DEF StreamIsAwaited, Open
<1>6. StreamShape'
  BY <1>1, <1>2, <1>3, Zenon DEF StreamShape
<1>7. DoneIsEmpty' /\ OnceOnStream'
  <2>1. DoneIsEmpty'
    BY <1>1 DEF DoneIsEmpty
  <2>2. OnceOnStream'
    BY <1>1 DEF OnceOnStream
  <2> QED BY <2>1, <2>2
<1>8. StreamIsAwaited'
  <2>1. \A d \in Caller \ {c} :
           Open(d) => step'[d] = "asked" /\ answer'[d] = NoAnswer /\ ~cut'[d]
    BY <1>4, Zenon DEF Open
  <2>2. \A i \in 1..Len(inbox') :
           step'[inbox'[i]] = "asked" /\ answer'[inbox'[i]] = NoAnswer /\ ~cut'[inbox'[i]]
    BY <1>1, <1>5, <2>1, Zenon DEF StreamIsAwaited
  <2>3. \A i \in 1..Len(outbox') :
           step'[outbox'[i].to] = "asked" /\ answer'[outbox'[i].to] = NoAnswer
             /\ ~cut'[outbox'[i].to]
    BY <1>1, <1>5, <2>1, Zenon DEF StreamIsAwaited
  <2>4. \A d \in Caller : cut'[d] => step'[d] = "asked"
    BY <1>1, <1>4, Zenon DEF StreamIsAwaited
  <2> QED BY <2>2, <2>3, <2>4, Zenon DEF StreamIsAwaited, Open
<1>9. AnswersMatch'
  BY <1>1, <1>4, ZenonT(60) DEF AnswersMatch
<1> QED BY <1>6, <1>7, <1>8, <1>9, Zenon DEF StreamInv

\* UserCenter answers the oldest request.
LEMMA ServeKeeps == StreamInv /\ Serve => StreamInv'
<1> SUFFICES ASSUME StreamInv, Serve PROVE StreamInv'
  OBVIOUS
<1>1. PICK ok \in BOOLEAN : Respond(Head(inbox), ok)
  BY Zenon DEF Serve
<1> DEFINE a == [to |-> Head(inbox), ok |-> ok]
<1>2. /\ StreamShape /\ DoneIsEmpty /\ OnceOnStream /\ StreamIsAwaited /\ AnswersMatch
      /\ link' = link /\ answer' = answer /\ cut' = cut /\ step' = step
      /\ link = "open" /\ inbox # <<>> /\ inbox' = Tail(inbox)
      /\ outbox' = Append(outbox, a)
  BY <1>1, Zenon DEF StreamInv, Serve, Respond, front
<1>3. /\ Len(inbox) \in Nat /\ Len(inbox) >= 1 /\ Head(inbox) = inbox[1]
      /\ Head(inbox) \in Caller /\ inbox' \in Seq(Caller)
      /\ \A i \in 1..Len(inbox') : i \in Nat /\ i + 1 \in 2..Len(inbox) /\ inbox'[i] = inbox[i + 1]
  BY <1>2, TailFacts DEF StreamShape
<1>4. a \in Answers /\ a.to = inbox[1]
  BY <1>3 DEF Answers
<1>5. /\ Len(outbox) \in Nat /\ outbox' \in Seq(Answers)
      /\ \A i \in 1..Len(outbox') : \/ i \in 1..Len(outbox) /\ outbox'[i] = outbox[i]
                                    \/ i = Len(outbox) + 1 /\ outbox'[i] = a
  <2> HIDE DEF a
  <2> QED BY <1>2, <1>4, AppendFacts DEF StreamShape
<1> HIDE DEF a
<1>6. StreamShape'
  BY <1>2, <1>3, <1>5, Zenon DEF StreamShape
<1>7. DoneIsEmpty'
  BY <1>2 DEF DoneIsEmpty
<1>8. OnceOnStream'
  <2>1. \A i, j \in 1..Len(inbox') : inbox'[i] = inbox'[j] => i = j
    BY <1>2, <1>3 DEF OnceOnStream
  <2>2. \A i \in 1..Len(outbox) : outbox[i].to # a.to
    BY <1>2, <1>3, <1>4 DEF OnceOnStream
  <2>3. \A i, j \in 1..Len(outbox') : outbox'[i].to = outbox'[j].to => i = j
    BY <1>2, <1>5, <2>2 DEF OnceOnStream
  <2>4. \A i \in 1..Len(inbox') : inbox'[i] # a.to
    BY <1>2, <1>3, <1>4 DEF OnceOnStream
  <2>5. \A i \in 1..Len(inbox'), j \in 1..Len(outbox) : inbox'[i] # outbox[j].to
    BY <1>2, <1>3 DEF OnceOnStream
  <2>6. \A i \in 1..Len(inbox'), j \in 1..Len(outbox') : inbox'[i] # outbox'[j].to
    BY <1>5, <2>4, <2>5, Zenon
  <2> QED BY <2>1, <2>3, <2>6, Zenon DEF OnceOnStream
<1>9. StreamIsAwaited'
  <2>1. \A i \in 1..Len(inbox) :
           step'[inbox[i]] = "asked" /\ answer'[inbox[i]] = NoAnswer /\ ~cut'[inbox[i]]
    BY <1>2, Zenon DEF StreamIsAwaited, Open
  <2>2. \A i \in 1..Len(inbox') :
           step'[inbox'[i]] = "asked" /\ answer'[inbox'[i]] = NoAnswer /\ ~cut'[inbox'[i]]
    BY <1>3, <2>1
  <2>3. step'[a.to] = "asked" /\ answer'[a.to] = NoAnswer /\ ~cut'[a.to]
    BY <1>3, <1>4, <2>1
  <2>4. \A i \in 1..Len(outbox') :
           step'[outbox'[i].to] = "asked" /\ answer'[outbox'[i].to] = NoAnswer
             /\ ~cut'[outbox'[i].to]
    BY <1>2, <1>5, <2>3, ZenonT(60) DEF StreamIsAwaited, Open
  <2>5. \A d \in Caller : cut'[d] => step'[d] = "asked"
    BY <1>2, Zenon DEF StreamIsAwaited
  <2> QED BY <2>2, <2>4, <2>5, Zenon DEF StreamIsAwaited, Open
<1>10. AnswersMatch'
  BY <1>2, Zenon DEF AnswersMatch
<1> QED BY <1>6, <1>7, <1>8, <1>9, <1>10, Zenon DEF StreamInv

\* readLoop passes the oldest answer to its request, which is off the stream then.
LEMMA ReadAnswerKeeps == StreamInv /\ ReadAnswer => StreamInv'
<1> SUFFICES ASSUME StreamInv, ReadAnswer PROVE StreamInv'
  OBVIOUS
<1> DEFINE a == Head(outbox)
<1>1. /\ StreamShape /\ DoneIsEmpty /\ OnceOnStream /\ StreamIsAwaited /\ AnswersMatch
      /\ link' = link /\ inbox' = inbox /\ cut' = cut /\ step' = step
      /\ outbox # <<>> /\ outbox' = Tail(outbox)
      /\ answer' = [answer EXCEPT ![a.to] = a]
  BY Zenon DEF StreamInv, ReadAnswer, front
<1>2. /\ Len(outbox) \in Nat /\ Len(outbox) >= 1 /\ a = outbox[1]
      /\ a \in Answers /\ outbox' \in Seq(Answers)
      /\ \A i \in 1..Len(outbox') :
           i \in Nat /\ i + 1 \in 2..Len(outbox) /\ outbox'[i] = outbox[i + 1]
  BY <1>1, TailFacts DEF StreamShape
<1> HIDE DEF a
<1>3. a.to \in Caller
  BY <1>2 DEF Answers
<1>4. 1 \in 1..Len(outbox)
  BY <1>2
<1>5. step[a.to] = "asked"
  BY <1>1, <1>2, <1>4, Zenon DEF StreamIsAwaited, Open
<1>6. answer' \in [Caller -> Answers \union {NoAnswer}]
  BY <1>1, <1>2, <1>3, Zenon DEF StreamShape
<1>7. answer'[a.to] = a /\ \A d \in Caller \ {a.to} : answer'[d] = answer[d]
  BY <1>1, <1>3, Zenon DEF StreamShape
<1>8. /\ \A i \in 1..Len(inbox) : inbox[i] \in Caller \ {a.to}
      /\ \A i \in 1..Len(outbox') : outbox'[i].to \in Caller \ {a.to}
  BY <1>1, <1>2, PlacesTyped, SMTT(30) DEF OnceOnStream
<1>9. StreamShape'
  BY <1>1, <1>2, <1>6, Zenon DEF StreamShape
<1>10. DoneIsEmpty'
  BY <1>1, Zenon DEF DoneIsEmpty
<1>11. OnceOnStream'
  <2>1. \A i, j \in 1..Len(outbox') : outbox'[i].to = outbox'[j].to => i = j
    BY <1>1, <1>2 DEF OnceOnStream
  <2>2. \A i \in 1..Len(inbox), j \in 1..Len(outbox') : inbox[i] # outbox'[j].to
    BY <1>1, <1>2 DEF OnceOnStream
  <2> QED BY <1>1, <2>1, <2>2 DEF OnceOnStream
<1>12. StreamIsAwaited'
  <2>1. \A i \in 1..Len(inbox') :
           step'[inbox'[i]] = "asked" /\ answer'[inbox'[i]] = NoAnswer /\ ~cut'[inbox'[i]]
    BY <1>1, <1>7, <1>8, Zenon DEF StreamIsAwaited, Open
  <2>2. \A i \in 1..Len(outbox') : Open(outbox'[i].to)
    <3>1. \A i \in 1..Len(outbox') : i + 1 \in 1..Len(outbox) /\ outbox'[i] = outbox[i + 1]
      BY <1>1, <1>2, SMTT(30)
    <3> QED BY <1>1, <3>1, Zenon DEF StreamIsAwaited
  <2>3. \A i \in 1..Len(outbox') :
           step'[outbox'[i].to] = "asked" /\ answer'[outbox'[i].to] = NoAnswer
             /\ ~cut'[outbox'[i].to]
    BY <1>1, <1>7, <1>8, <2>2, Zenon DEF Open
  <2>4. \A d \in Caller : cut'[d] => step'[d] = "asked"
    BY <1>1, Zenon DEF StreamIsAwaited
  <2> QED BY <2>1, <2>3, <2>4, Zenon DEF StreamIsAwaited, Open
<1>13. AnswersMatch'
  BY <1>1, <1>5, <1>7, Zenon DEF AnswersMatch
<1> QED BY <1>9, <1>10, <1>11, <1>12, <1>13, Zenon DEF StreamInv

\* The stream is opened, breaks, and is given up.
LEMMA LinkKeeps == StreamInv /\ (Hello \/ Connect \/ Break \/ Notice) => StreamInv'
<1> SUFFICES ASSUME StreamInv, Hello \/ Connect \/ Break \/ Notice PROVE StreamInv'
  OBVIOUS
<1>1. /\ StreamShape /\ DoneIsEmpty /\ OnceOnStream /\ StreamIsAwaited /\ AnswersMatch
      /\ step' = step /\ answer' = answer
  BY Zenon DEF StreamInv, Hello, Connect, Break, Notice, front
<1>2. /\ inbox' = inbox \/ inbox' = <<>>
      /\ outbox' = outbox \/ outbox' = <<>>
      /\ link' = "none" => inbox' = <<>> /\ outbox' = <<>>
      /\ link' = "broken" => inbox' = <<>>
      /\ cut' = cut \/ (inbox' = <<>> /\ outbox' = <<>>
                         /\ cut' = [c \in Caller |-> cut[c] \/ c \in Waiting])
  BY <1>1, Zenon DEF DoneIsEmpty, Hello, Connect, Break, Notice
<1>3. 1..Len(<<>>) = {}
  OBVIOUS
<1>4. /\ cut' \in [Caller -> BOOLEAN]
      /\ \A c \in Caller : cut'[c] => cut[c] \/ step[c] = "asked"
  BY <1>1, <1>2, Zenon DEF StreamShape, Waiting
<1>5. <<>> \in Seq(Caller) /\ <<>> \in Seq(Answers)
  OBVIOUS
<1>6. StreamShape'
  BY <1>1, <1>2, <1>4, <1>5, Zenon DEF StreamShape
<1>7. DoneIsEmpty'
  BY <1>2, Zenon DEF DoneIsEmpty
<1>8. OnceOnStream'
  BY <1>1, <1>2, <1>3, Zenon DEF OnceOnStream
<1>9. StreamIsAwaited'
  <2>1. \A i \in 1..Len(inbox') :
           step'[inbox'[i]] = "asked" /\ answer'[inbox'[i]] = NoAnswer /\ ~cut'[inbox'[i]]
    BY <1>1, <1>2, <1>3, Zenon DEF StreamIsAwaited, Open
  <2>2. \A i \in 1..Len(outbox') :
           step'[outbox'[i].to] = "asked" /\ answer'[outbox'[i].to] = NoAnswer
             /\ ~cut'[outbox'[i].to]
    BY <1>1, <1>2, <1>3, Zenon DEF StreamIsAwaited, Open
  <2>3. \A d \in Caller : cut'[d] => step'[d] = "asked"
    BY <1>1, <1>4, Zenon DEF StreamIsAwaited
  <2> QED BY <2>1, <2>2, <2>3, Zenon DEF StreamIsAwaited, Open
<1>10. AnswersMatch'
  BY <1>1, Zenon DEF AnswersMatch
<1> QED BY <1>6, <1>7, <1>8, <1>9, <1>10, Zenon DEF StreamInv

LEMMA StreamInvInit == LoginInit => StreamInv
<1> SUFFICES ASSUME LoginInit PROVE StreamInv
  OBVIOUS
<1>1. /\ step = [c \in Caller |-> "idle"] /\ inbox = <<>> /\ outbox = <<>>
      /\ answer = [c \in Caller |-> NoAnswer] /\ cut = [c \in Caller |-> FALSE]
  BY Zenon DEF LoginInit
<1>2. <<>> \in Seq(Caller) /\ <<>> \in Seq(Answers) /\ 1..Len(<<>>) = {}
  OBVIOUS
<1>3. StreamShape /\ DoneIsEmpty
  BY <1>1, <1>2, Zenon DEF StreamShape, DoneIsEmpty
<1>4. OnceOnStream /\ StreamIsAwaited /\ AnswersMatch
  BY <1>1, <1>2, Zenon DEF OnceOnStream, StreamIsAwaited, AnswersMatch
<1> QED BY <1>3, <1>4, Zenon DEF StreamInv

LEMMA StreamStep == StreamInv /\ [LoginNext]_loginVars => StreamInv'
<1> SUFFICES ASSUME StreamInv, [LoginNext]_loginVars PROVE StreamInv'
  OBVIOUS
<1> DEFINE Elsewhere == {"idle", "auth", "attempt", "authenticated", "player", "session", "told"}
<1>1. ASSUME NEW c \in Caller,
             \/ RateLimited(c) \/ Dispatch(c) \/ DispatchInvalid(c) \/ Admitted(c)
             \/ CircuitOpen(c) \/ Authenticated(c) \/ Player(c) \/ Session(c)
             \/ NextMessage(c)
      PROVE  StreamInv'
  <2>1. PICK next \in Elsewhere : Goto(c, next)
    BY <1>1, Zenon DEF RateLimited, Dispatch, DispatchInvalid, Admitted, CircuitOpen,
           Authenticates, Authenticated, Player, Session, Reply, NextMessage
  <2>2. step[c] # "asked" /\ UNCHANGED streams
    BY <1>1, Zenon DEF RateLimited, Dispatch, DispatchInvalid, Allow, Admitted, CircuitOpen,
           Authenticated, Player, Session, NextMessage
  <2> QED BY <2>1, <2>2, LoopKeeps, Zenon
<1>2. ASSUME NEW c \in Caller, NEW e, AttemptFails(c, e)
      PROVE  \E next \in Elsewhere : Goto(c, next)
  BY <1>2, Zenon DEF AttemptFails, Authenticates
<1>3. ASSUME NEW c \in Caller, Attempt(c) PROVE StreamInv'
  <2>1. step[c] = "attempt"
    BY <1>3, Zenon DEF Attempt
  <2>2. CASE Send(c) /\ Goto(c, "asked")
    BY <2>1, <2>2, SendKeeps, Zenon
  <2>3. CASE UNCHANGED streams /\ \E next \in Elsewhere : Goto(c, next)
    <3>1. step[c] # "asked"
      BY <2>1
    <3> QED BY <2>3, <3>1, LoopKeeps, Zenon
  <2> QED BY <1>2, <1>3, <2>2, <2>3, Zenon DEF Attempt, Authenticates
<1>4. ASSUME NEW c \in Caller, Asked(c) PROVE StreamInv'
  <2>1. Forget(c) /\ (answer[c] # NoAnswer \/ cut[c])
    BY <1>4, Zenon DEF Asked
  <2>2. \E next \in Elsewhere : Goto(c, next)
    BY <1>2, <1>4, Zenon DEF Asked, Authenticates
  <2> QED BY <2>1, <2>2, ForgetKeeps, Zenon
<1>5. ASSUME NEW c \in Caller, Refill(c) \/ Notified(c) PROVE StreamInv'
  BY <1>5, NothingMoves, Zenon DEF Refill, Notified, front
<1>6. CASE TimePasses \/ UNCHANGED loginVars
  BY <1>6, NothingMoves, Zenon DEF TimePasses, loginVars, front
<1>7. CASE Hello \/ Break \/ Transport
  BY <1>7, LinkKeeps, ServeKeeps, ReadAnswerKeeps, Zenon DEF Transport
<1> QED
  BY <1>1, <1>3, <1>4, <1>5, <1>6, <1>7, Zenon DEF LoginNext, Handler

\* However many connections share the stream, an answer reaches the request it is
\* for, and only while that request waits (Request, readLoop).
THEOREM AnswersMatchHolds == LoginSpec => []AnswersMatch
<1>1. StreamInv => AnswersMatch
  BY Zenon DEF StreamInv
<1> QED BY <1>1, StreamInvInit, StreamStep, PTL DEF LoginSpec

-------------------------------------------------------------------------------
(* The shutdown that closes the connections *)

\* What each connection is, without the contents of its buffer.
Shape ==
  /\ phase \in Phases
  /\ snapshot \subseteq Conn /\ visited \subseteq Conn
  /\ handler \in [Conn -> {"idle", "accepted", "reading", "dispatch", "ending",
                      "disconnect", "gone"}]
  /\ closed \in [Conn -> BOOLEAN]
  /\ since \in [Conn -> Phases]
  /\ offered \in [Conn -> BOOLEAN]

\* No request is accepted before the module is registered.
NothingBeforeServing ==
  phase \in {"starting", "registering"} => \A c \in Conn : handler[c] = "idle"

\* While NotifyDraining ranges over the map, a connection from before the drain
\* is one that Range must visit, and it was offered the event if it was visited.
NotifyReaches ==
  \A c \in Registry :
    phase = "notifying" /\ since[c] = "serving"
      => c \in snapshot /\ (c \in visited => offered[c])

\* The same of CloseAll and every connection stored before it started.
CloseReaches ==
  \A c \in Registry :
    phase = "closing" /\ since[c] \notin Closing
      => c \in snapshot /\ (c \in visited => closed[c])

DrainInv ==
  /\ Shape /\ NothingBeforeServing
  /\ NotifyReaches /\ NoticeBeforeClose
  /\ CloseReaches /\ OnlyLateStayOpen

USE DEF Phases, Closed, Closing, Announced, Registry

LEMMA DrainStarts == DrainInit => DrainInv
BY ZenonT(60) DEF DrainInit, DrainInv, Shape, NothingBeforeServing, NotifyReaches,
   NoticeBeforeClose, CloseReaches, OnlyLateStayOpen

\* A step of main that does not touch a connection and enters none of the phases
\* the invariant is about.
LEMMA MainKeeps ==
  ASSUME DrainInv, UNCHANGED <<handlers, closed>>,
         \/ UNCHANGED <<phase, snapshot, visited>>
         \/ phase \in {"starting", "registering"} /\ phase' \in {"registering", "serving", "exited"}
            /\ UNCHANGED <<snapshot, visited>>
         \/ phase = "serving" /\ phase' = "deregistering" /\ UNCHANGED <<snapshot, visited>>
         \/ phase \in {"grpc", "http", "stopping"} /\ phase' \in {"http", "stopping", "exited"}
            /\ UNCHANGED <<snapshot, visited>>
  PROVE  DrainInv'
<1> USE DEF handlers
<1>1. Shape' /\ NothingBeforeServing'
  BY Zenon DEF DrainInv, Shape, NothingBeforeServing
<1>2. NotifyReaches' /\ NoticeBeforeClose'
  BY Zenon DEF DrainInv, Shape, NothingBeforeServing, NotifyReaches, NoticeBeforeClose
<1>3. CloseReaches' /\ OnlyLateStayOpen'
  BY Zenon DEF DrainInv, Shape, NothingBeforeServing, CloseReaches, OnlyLateStayOpen
<1> QED BY <1>1, <1>2, <1>3, Zenon DEF DrainInv

\* A connection that leaves the map, is closed or is sent something keeps its
\* history; one that is stored is stored now.
LEMMA HandlerKeeps ==
  ASSUME DrainInv, NEW c \in Conn, UNCHANGED <<phase, snapshot, visited, offered>>,
         handler' \in [Conn -> {"idle", "accepted", "reading", "dispatch", "ending",
                           "disconnect", "gone"}],
         closed' \in [Conn -> BOOLEAN],
         phase \notin {"starting", "registering"},
         \A d \in Conn : closed[d] => closed'[d],
         \A d \in Conn \ {c} : handler'[d] = handler[d],
         \/ since' = since /\ (handler'[c] \in {"reading", "dispatch", "ending"} => c \in Registry)
         \/ since' = [since EXCEPT ![c] = phase]
  PROVE  DrainInv'
<1>1. Shape' /\ NothingBeforeServing'
  BY DEF DrainInv, Shape, NothingBeforeServing
<1>2. ASSUME NEW d \in Registry'
      PROVE  \/ d \in Registry /\ since'[d] = since[d]
             \/ since'[d] = phase
  BY <1>2, Zenon DEF DrainInv, Shape
<1>3. NotifyReaches' /\ NoticeBeforeClose'
  BY <1>2, Zenon DEF DrainInv, NotifyReaches, NoticeBeforeClose
<1>4. CloseReaches' /\ OnlyLateStayOpen'
  BY <1>2 DEF DrainInv, CloseReaches, OnlyLateStayOpen
<1> QED BY <1>1, <1>3, <1>4, ZenonT(40) DEF DrainInv

LEMMA DrainStep == DrainInv /\ [DrainNext]_drainVars => DrainInv'
<1> SUFFICES ASSUME DrainInv, [DrainNext]_drainVars PROVE DrainInv'
  OBVIOUS
<1>1. CASE Start \/ Register \/ BeginDrain \/ StopGRPC \/ ShutdownHTTP \/ Stop
           \/ Signal \/ ReadyOff \/ StopDeadline \/ PeersLeave
  BY <1>1, MainKeeps, ZenonT(40)
     DEF Start, Register, BeginDrain, StopGRPC, ShutdownHTTP,
     Stop, Signal, ReadyOff,
         StopDeadline, PeersLeave
<1>2. CASE Deregister
  BY <1>2, ZenonT(40)
     DEF Deregister, StartRange, handlers, DrainInv, Shape, NothingBeforeServing,
              NotifyReaches, NoticeBeforeClose, CloseReaches, OnlyLateStayOpen
<1>3. ASSUME NEW c \in Conn, NotifyOne(c) PROVE DrainInv'
  BY <1>3, ZenonT(40) DEF NotifyOne, InRange, DrainInv, Shape, NothingBeforeServing,
              NotifyReaches, NoticeBeforeClose, CloseReaches, OnlyLateStayOpen
<1>4. CASE NotifyOver
  BY <1>4, ZenonT(40)
     DEF NotifyOver, RangeOver, handlers, DrainInv, Shape, NothingBeforeServing,
              NotifyReaches, NoticeBeforeClose, CloseReaches, OnlyLateStayOpen
<1>5. CASE DrainTimeout
  BY <1>5, ZenonT(40) DEF DrainTimeout, StartRange, handlers, DrainInv, Shape,
     NothingBeforeServing,
              NotifyReaches, NoticeBeforeClose, CloseReaches, OnlyLateStayOpen
<1>6. ASSUME NEW c \in Conn, CloseOne(c) PROVE DrainInv'
  BY <1>6, ZenonT(40)
     DEF CloseOne, Close, InRange, handlers, DrainInv, Shape,
     NothingBeforeServing,
              NotifyReaches, NoticeBeforeClose, CloseReaches, OnlyLateStayOpen
<1>7. CASE CloseOver
  BY <1>7, Zenon
     DEF CloseOver, RangeOver, handlers, DrainInv, Shape, NothingBeforeServing,
              NotifyReaches, NoticeBeforeClose, CloseReaches, OnlyLateStayOpen
<1>8. ASSUME NEW c \in Conn,
             \/ Accept(c) \/ Store(c) \/ Read(c) \/ Answer(c) \/ Write(c) \/ WriteFails(c)
             \/ ReadEnds(c) \/ Unregister(c) \/ DisconnectSession(c)
      PROVE  DrainInv'
  <2> USE DEF main, handlers
  <2>1. CASE Accept(c)
    BY <2>1, HandlerKeeps, Zenon DEF Accept, HandlerGoes, DrainInv, Shape, NothingBeforeServing
  <2>2. CASE Store(c)
    <3>1. handler' \in [Conn -> {"idle", "accepted", "reading", "dispatch", "ending",
                            "disconnect", "gone"}]
      BY <2>2, Zenon DEF Store, DrainInv, Shape
    <3> QED BY <2>2, <3>1, HandlerKeeps, ZenonT(60)
       DEF Store, DrainInv, Shape, NothingBeforeServing
  <2>3. CASE Read(c)
    BY <2>3, HandlerKeeps, ZenonT(40)
       DEF Read, HandlerGoes, DrainInv, Shape, NothingBeforeServing
  <2>4. CASE Answer(c)
    BY <2>4, HandlerKeeps, ZenonT(40)
       DEF Answer, HandlerGoes, DrainInv, Shape, NothingBeforeServing
  <2>5. CASE Write(c)
    BY <2>5, MainKeeps, ZenonT(40) DEF Write
  <2>6. CASE WriteFails(c)
    BY <2>6, HandlerKeeps, ZenonT(40)
       DEF WriteFails, Close, DrainInv, Shape, NothingBeforeServing
  <2>7. CASE ReadEnds(c)
    BY <2>7, HandlerKeeps, ZenonT(40)
       DEF ReadEnds, HandlerGoes, DrainInv, Shape, NothingBeforeServing
  <2>8. CASE Unregister(c)
    BY <2>8, HandlerKeeps, ZenonT(40)
       DEF Unregister, Close, HandlerGoes, DrainInv, Shape, NothingBeforeServing
  <2>9. CASE DisconnectSession(c)
    BY <2>9, HandlerKeeps, Zenon
       DEF DisconnectSession, HandlerGoes, DrainInv, Shape, NothingBeforeServing
  <2> QED BY <1>8, <2>1, <2>2, <2>3, <2>4, <2>5, <2>6, <2>7, <2>8, <2>9, Zenon
<1>9. CASE UNCHANGED drainVars
  BY <1>9, MainKeeps DEF drainVars, main
<1> QED
  BY <1>1, <1>2, <1>3, <1>4, <1>5, <1>6, <1>7, <1>8, <1>9, Zenon DEF DrainNext, MainStep

\* Every connection that was there when the process was told to stop is offered
\* the draining event before CloseAll reaches it (NotifyDraining).
THEOREM NoticeBeforeCloseHolds == DrainSpec => []NoticeBeforeClose
<1>1. DrainInv => NoticeBeforeClose
  BY DEF DrainInv
<1> QED BY <1>1, DrainStarts, DrainStep, PTL DEF DrainSpec

\* A connection that is open after CloseAll was stored while it ran or later
\* (CloseAll, Handle).
THEOREM OnlyLateStayOpenHolds == DrainSpec => []OnlyLateStayOpen
<1>1. DrainInv => OnlyLateStayOpen
  BY DEF DrainInv
<1> QED BY <1>1, DrainStarts, DrainStep, PTL DEF DrainSpec

\* Every variable keeps its shape and no connection's buffer holds more than its
\* capacity, whoever sends to it (Connection.Send).
THEOREM DrainTypeCorrect == DrainSpec => []DrainTypeOK
<1>1. DrainInit => DrainTypeOK
  <2> SUFFICES ASSUME DrainInit PROVE DrainTypeOK
    OBVIOUS
  <2>1. \A flag \in {signalled, ready, draining, expired, peers} : flag \in BOOLEAN
    BY Zenon DEF DrainInit
  <2>2. \A c \in Conn : Len(send[c]) <= SendBuffer
    <3>1. Len(<<>>) = 0 /\ 0 <= SendBuffer
      BY BufferAssumption
    <3>2. \A c \in Conn : send[c] = <<>>
      BY Zenon DEF DrainInit
    <3> QED BY <3>1, <3>2, Zenon
  <2>3. send \in [Conn -> Seq({"answer", "draining"})]
    BY DEF DrainInit
  <2>4. /\ phase \in Phases /\ snapshot \subseteq Conn /\ visited \subseteq Conn
        /\ handler \in [Conn -> {"idle", "accepted", "reading", "dispatch", "ending",
                            "disconnect", "gone"}]
        /\ since \in [Conn -> Phases]
    BY DEF DrainInit
  <2>5. /\ closed \in [Conn -> BOOLEAN] /\ bound \in [Conn -> BOOLEAN]
        /\ offered \in [Conn -> BOOLEAN]
    BY ZenonT(60) DEF DrainInit
  <2> QED BY <2>1, <2>2, <2>3, <2>4, <2>5, Zenon DEF DrainTypeOK
<1>2. DrainTypeOK /\ [DrainNext]_drainVars => DrainTypeOK'
  <2> SUFFICES ASSUME DrainTypeOK, [DrainNext]_drainVars PROVE DrainTypeOK'
    OBVIOUS
  <2> USE DEF DrainTypeOK
  <2>1. CASE MainStep /\ UNCHANGED <<handlers, closed, send>>
    BY <2>1, ZenonT(60) DEF MainStep, Start, Register, BeginDrain,
       Deregister, StartRange, NotifyOne,
                CloseOne, Close, NotifyOver, DrainTimeout,
                CloseOver, StopGRPC, ShutdownHTTP, Stop,
                handlers
  <2>2. ASSUME NEW c \in Conn, NEW m \in {"answer", "draining"}, Enqueue(c, m)
        PROVE  /\ send' \in [Conn -> Seq({"answer", "draining"})]
               /\ \A d \in Conn : Len(send'[d]) <= SendBuffer
    BY <2>2, BufferAssumption, SMTT(20) DEF Enqueue, CanSend
  <2>3. ASSUME NEW c \in Conn, NotifyOne(c) PROVE DrainTypeOK'
    BY <2>3, <2>2, ZenonT(40) DEF NotifyOne
  <2>4. ASSUME NEW c \in Conn, CloseOne(c) PROVE DrainTypeOK'
    BY <2>4, Zenon DEF CloseOne, Close, handlers
  <2>5. CASE Signal \/ ReadyOff \/ StopDeadline \/ PeersLeave
    BY <2>5, ZenonT(60)
       DEF Signal, ReadyOff, StopDeadline, PeersLeave, handlers
  <2>6. ASSUME NEW c \in Conn, Answer(c) PROVE DrainTypeOK'
    BY <2>6, <2>2, ZenonT(40) DEF Answer, HandlerGoes, main
  <2>7. ASSUME NEW c \in Conn, Write(c) PROVE DrainTypeOK'
    BY <2>7, BufferAssumption DEF Write, main, handlers
  <2>8. ASSUME NEW c \in Conn, Store(c) PROVE DrainTypeOK'
    <3>1. /\ since' = [since EXCEPT ![c] = phase]
          /\ handler' \in {[handler EXCEPT ![c] = "reading"], [handler EXCEPT ![c] = "gone"]}
          /\ UNCHANGED <<phase, signalled, ready, draining, expired, peers, snapshot, visited,
                         closed, bound, send, offered>>
      BY <2>8, Zenon DEF Store, main
    <3>2. handler' \in [Conn -> {"idle", "accepted", "reading", "dispatch", "ending",
                                 "disconnect", "gone"}]
      BY <3>1, Zenon
    <3>3. since' \in [Conn -> Phases]
      BY <3>1
    <3> QED BY <3>1, <3>2, <3>3, ZenonT(40)
  <2>9. ASSUME NEW c \in Conn,
               \/ Accept(c) \/ Read(c) \/ WriteFails(c) \/ ReadEnds(c) \/ Unregister(c)
               \/ DisconnectSession(c)
        PROVE  DrainTypeOK'
    BY <2>9, ZenonT(60) DEF Accept, Read, WriteFails, Close,
       ReadEnds, Unregister, DisconnectSession,
                HandlerGoes, main, handlers
  <2>10. CASE UNCHANGED drainVars
    BY <2>10, Zenon DEF drainVars, main, handlers
  <2> QED
    BY <2>1, <2>3, <2>4, <2>5, <2>6, <2>7, <2>8, <2>9, <2>10, ZenonT(60)
       DEF DrainNext, MainStep, Start, Register, BeginDrain,
       Deregister, NotifyOver,
           DrainTimeout, CloseOver, StopGRPC, ShutdownHTTP, Stop
<1> QED BY <1>1, <1>2, PTL DEF DrainSpec

-------------------------------------------------------------------------------
(* Stream clients *)

\* A connect that holds a stream holds it alone: the stream is of the instance
\* it connects, nobody's client, and without a running monitor.
HeldAlone(k) ==
    LET s == proc[k].strm
    IN  /\ s \in Stream
        /\ stream[s].inst = proc[k].inst
        /\ proc[s].pc \in {"none", "done"}
        /\ \A i \in Instance : clients[i] # s
        /\ \A j \in Proc \ {k} : proc[j].pc = "install" => proc[j].strm # s

\* The client of an instance is a stream to it; until the manager is closed its
\* monitor waits for it.
Served(i) ==
    LET s == clients[i]
    IN  /\ s \in Stream
        /\ stream[s].inst = i
        /\ ~shut => proc[s].pc = "wait" /\ proc[s].inst = i

CoreInv ==
    /\ \A k \in Proc : proc[k].pc = "install" => HeldAlone(k)
    /\ \A i \in Instance : clients[i] # 0 => Served(i)
    /\ OpenStreamsAreOwned

ClientsInv == StreamTypeOK /\ CoreInv

Pc == {"none", "discover", "batch", "watch", "events", "wait", "dial", "install", "done"}
StreamRec == [inst : Instance, addr : 0 .. MaxAddr, state : {"unused", "open", "closed"}]

\* The three variables the ownership argument is about, and the others.
CoreOK ==
    /\ proc \in [Proc -> ProcState]
    /\ clients \in [Instance -> 0 .. MaxStreams]
    /\ stream \in [Stream -> StreamRec]

EnvOK ==
    /\ registry \in [Instance -> 0 .. MaxAddr]
    /\ alive \subseteq Address
    /\ launches \in 0 .. MaxAddr
    /\ watching \in BOOLEAN
    /\ events \in Seq(Event)
    /\ found \subseteq Instance \X Address
    /\ known \in [Instance -> 0 .. MaxAddr]
    /\ breaks \in 0 .. MaxFaults /\ dialFails \in 0 .. MaxFaults /\ outages \in 0 .. MaxFaults
    /\ shut \in BOOLEAN

LEMMA TypeParts == StreamTypeOK <=> EnvOK /\ CoreOK
  BY Zenon DEF StreamTypeOK, EnvOK, CoreOK, StreamRec

LEMMA Ranges ==
    /\ 0 \in Proc
    /\ Stream = Proc \ {0}
    /\ Stream \subseteq Nat /\ Proc \subseteq Nat
    /\ Address \subseteq 0 .. MaxAddr
  BY BoundAssumption DEF Stream, Proc, Address

-----------------------------------------------------------------------------
(* What the updates of a process do *)

LEMMA Fields ==
    ASSUME NEW p \in ProcState
    PROVE  p.pc \in Pc /\ p.inst \in Instance /\ p.addr \in 0 .. MaxAddr
           /\ p.strm \in 0 .. MaxStreams /\ p.back \in {"batch", "events", "done"}
           /\ p.back \in Pc
  BY DEF ProcState, Pc

LEMMA PcSet ==
    ASSUME proc \in [Proc -> ProcState], NEW k \in Proc, NEW here \in Pc, SetPc(k, here)
    PROVE  /\ proc' \in [Proc -> ProcState]
           /\ proc'[k].pc = here
           /\ \A j \in Proc \ {k} : proc'[j] = proc[j]
  <1>1. [proc[k] EXCEPT !.pc = here] \in ProcState
    <2>1. proc[k] \in ProcState
      OBVIOUS
    <2> QED
      BY <2>1 DEF ProcState, Pc
  <1>2. proc' = [proc EXCEPT ![k] = [proc[k] EXCEPT !.pc = here]]
    BY DEF SetPc
  <1>3. [proc[k] EXCEPT !.pc = here].pc = here
    BY Zenon DEF ProcState
  <1> QED
    BY <1>1, <1>2, <1>3

-----------------------------------------------------------------------------
(* Steps that neither open a stream nor install one *)

LEMMA Settling ==
    ASSUME CoreOK, CoreOK', CoreInv, shut => shut',
           NEW k \in Proc, \A j \in Proc \ {k} : proc'[j] = proc[j],
           \/ proc'[k] = proc[k]
           \/ /\ proc[k].pc \notin {"none", "done"}
              /\ proc'[k].pc # "install"
              /\ k = 0 \/ shut' \/ \A i \in Instance : clients'[i] # k,
           \A s \in Stream : stream'[s].inst = stream[s].inst,
           \A i \in Instance : clients'[i] \in {clients[i], 0},
           \A s \in Stream : stream'[s].state = "open" =>
              /\ stream[s].state = "open"
              /\ clients[stream[s].inst] = s => clients'[stream[s].inst] = s
              /\ proc[k].pc = "install" /\ proc[k].strm = s => proc'[k] = proc[k]
    PROVE  CoreInv'
  <1>1. ASSUME NEW j \in Proc, proc'[j].pc = "install" PROVE HeldAlone(j)'
    <2>1. proc'[j] = proc[j] /\ HeldAlone(j)
      BY <1>1 DEF CoreInv
    <2> DEFINE s == proc[j].strm
    <2>2. s \in Stream /\ s \in Proc /\ stream[s].inst = proc[j].inst /\ proc[s].pc \in {"none", "done"}
      BY <2>1, Ranges DEF HeldAlone
    <2>3. proc'[s].pc \in {"none", "done"}
      BY <2>2, Zenon
    <2>4. \A i \in Instance : clients'[i] # s
      BY <2>1, <2>2, Ranges, Zenon DEF HeldAlone
    <2>5. ASSUME NEW l \in Proc \ {j}, proc'[l].pc = "install" PROVE proc'[l].strm # s
      <3>1. proc'[l] = proc[l]
        BY <2>5, Zenon
      <3> QED
        BY <3>1, <2>5, <2>1, SMTT(20) DEF HeldAlone
    <2> QED
      BY <2>1, <2>2, <2>3, <2>4, <2>5, Zenon DEF HeldAlone
  <1>2. ASSUME NEW i \in Instance, clients'[i] # 0 PROVE Served(i)'
    <2>1. clients'[i] = clients[i] /\ Served(i)
      BY <1>2 DEF CoreInv
    <2> DEFINE s == clients[i]
    <2>2. s \in Stream /\ s \in Proc /\ stream'[s].inst = i
      BY <2>1, Ranges, Zenon DEF Served
    <2>3. ASSUME ~shut' PROVE proc'[s].pc = "wait" /\ proc'[s].inst = i
      <3>1. proc[s].pc = "wait" /\ proc[s].inst = i
        BY <2>1, <2>3 DEF Served
      <3>2. proc'[s] = proc[s]
        BY <2>1, <2>2, <2>3, Ranges, Zenon
      <3> QED
        BY <3>1, <3>2, Zenon
    <2> QED
      BY <2>1, <2>2, <2>3, Zenon DEF Served
  <1>3. OpenStreamsAreOwned'
    <2> SUFFICES ASSUME NEW s \in Stream, stream'[s].state = "open",
                        clients'[stream'[s].inst] # s
                 PROVE  \E j \in Proc : proc'[j].pc = "install" /\ proc'[j].strm = s
      BY Zenon DEF OpenStreamsAreOwned
    <2>1. stream[s].state = "open" /\ clients[stream[s].inst] # s
      BY Zenon
    <2>2. PICK j \in Proc : proc[j].pc = "install" /\ proc[j].strm = s
      BY <2>1, Zenon DEF CoreInv, OpenStreamsAreOwned
    <2>3. proc'[j] = proc[j]
      BY <2>2
    <2> QED
      BY <2>2, <2>3, Zenon
  <1> QED
    BY <1>1, <1>2, <1>3, Zenon DEF CoreInv

-----------------------------------------------------------------------------
(* The two halves of connect *)

LEMMA DialCore ==
    ASSUME CoreOK, CoreInv, NEW k \in Proc, Dial(k)
    PROVE  CoreOK' /\ CoreInv'
  <1>a. proc[k] \in ProcState /\ proc[k].pc = "dial"
    BY DEF CoreOK, Dial
  <1>b. clients' = clients /\ shut' = shut
    BY Zenon DEF Dial
  <1>1. CASE SetPc(k, proc[k].back) /\ UNCHANGED stream
    <2>1. proc[k].back \in Pc /\ proc[k].back # "install"
      BY <1>a, Fields, Zenon
    <2>2. /\ proc' \in [Proc -> ProcState]
          /\ proc'[k].pc = proc[k].back
          /\ \A j \in Proc \ {k} : proc'[j] = proc[j]
      BY <1>1, <2>1, PcSet, Zenon DEF CoreOK
    <2>3. CoreOK'
      BY <1>1, <1>b, <2>2, Zenon DEF CoreOK
    <2>4. k = 0 \/ shut \/ \A i \in Instance : clients[i] # k
      BY <1>a DEF CoreInv, Served
    <2>5. k = 0 \/ shut' \/ \A i \in Instance : clients'[i] # k
      BY <1>b, <2>4, Zenon
    <2> QED
      BY <1>1, <1>a, <1>b, <2>1, <2>2, <2>3, <2>5, Settling, Zenon
  <1>2. ASSUME NEW s \in Free, NewClient(k, s),
               proc' = [proc EXCEPT ![k].pc = "install", ![k].strm = s]
        PROVE  CoreOK' /\ CoreInv'
    <2>1. /\ s \in Stream /\ s \in Proc
          /\ stream[s].state # "open"
          /\ proc[s].pc \in {"none", "done"}
          /\ \A j \in Proc : proc[j].pc = "install" => proc[j].strm # s
          /\ \A i \in Instance : clients[i] # s
      BY Ranges, Zenon DEF Free
    <2>2. s # k
      BY <2>1, <1>a
    <2> DEFINE p == [proc[k] EXCEPT !.pc = "install", !.strm = s]
               n == [inst |-> proc[k].inst, addr |-> proc[k].addr, state |-> "open"]
    <2>3. p \in ProcState /\ p.pc = "install" /\ p.strm = s /\ p.inst = proc[k].inst
      <3>1. s \in 0 .. MaxStreams
        BY <2>1, Zenon DEF Proc
      <3> QED
        BY <1>a, <3>1, Zenon DEF ProcState
    <2>4. n \in StreamRec /\ n.inst = proc[k].inst
      BY <1>a DEF ProcState, StreamRec
    <2>5. proc' = [proc EXCEPT ![k] = p]
      BY <1>2, Zenon DEF CoreOK
    <2>6. stream' = [stream EXCEPT ![s] = n]
      BY <1>2 DEF NewClient
    <2> HIDE DEF p, n
    <2>7. proc' \in [Proc -> ProcState] /\ proc'[k] = p
          /\ \A j \in Proc \ {k} : proc'[j] = proc[j]
      BY <2>3, <2>5, Zenon DEF CoreOK
    <2>8. stream' \in [Stream -> StreamRec] /\ stream'[s] = n
          /\ \A t \in Stream \ {s} : stream'[t] = stream[t]
      BY <2>1, <2>4, <2>6, Zenon DEF CoreOK
    <2>9. CoreOK'
      BY <1>b, <2>7, <2>8 DEF CoreOK
    <2>10. ASSUME NEW j \in Proc, proc'[j].pc = "install" PROVE HeldAlone(j)'
      <3>1. CASE j = k
        <4>1. proc'[j].strm = s /\ stream'[s].inst = proc'[j].inst
          BY <3>1, <2>3, <2>4, <2>7, <2>8, Zenon
        <4>2. proc'[s].pc \in {"none", "done"}
          BY <2>1, <2>2, <2>7, Zenon
        <4>3. \A i \in Instance : clients'[i] # s
          BY <1>b, <2>1, Zenon
        <4>4. \A l \in Proc \ {j} : proc'[l].pc = "install" => proc'[l].strm # s
          BY <3>1, <2>1, <2>7, Zenon
        <4> QED
          BY <4>1, <4>2, <4>3, <4>4, <2>1, Zenon DEF HeldAlone
      <3>2. CASE j # k
        <4>1. proc'[j] = proc[j] /\ HeldAlone(j) /\ proc[j].strm # s
          BY <3>2, <2>7, <2>10, <2>1, Zenon DEF CoreInv
        <4> DEFINE t == proc[j].strm
        <4>2. t \in Stream /\ t \in Proc /\ stream[t].inst = proc[j].inst
              /\ proc[t].pc \in {"none", "done"}
          BY <4>1, Ranges, Zenon DEF HeldAlone
        <4>3. t # k /\ proc'[t] = proc[t] /\ stream'[t] = stream[t]
          BY <4>1, <4>2, <1>a, <2>7, <2>8, Zenon
        <4>4. \A i \in Instance : clients'[i] # t
          BY <4>1, <1>b, Zenon DEF HeldAlone
        <4>5. ASSUME NEW l \in Proc \ {j}, proc'[l].pc = "install" PROVE proc'[l].strm # t
          <5>1. CASE l = k
            BY <5>1, <2>3, <2>7, <4>1, Zenon
          <5>2. CASE l # k
            BY <5>2, <2>7, <4>1, <4>5, Zenon DEF HeldAlone
          <5> QED
            BY <5>1, <5>2, Zenon
        <4> QED
          BY <4>1, <4>2, <4>3, <4>4, <4>5, Zenon DEF HeldAlone
      <3> QED
        BY <3>1, <3>2, Zenon
    <2>11. ASSUME NEW i \in Instance, clients'[i] # 0 PROVE Served(i)'
      <3>1. clients'[i] = clients[i] /\ Served(i) /\ clients[i] # s
        BY <1>b, <2>1, <2>11 DEF CoreInv
      <3> DEFINE t == clients[i]
      <3>2. t \in Stream /\ t \in Proc /\ stream'[t] = stream[t]
        BY <3>1, <2>8, Ranges, Zenon DEF Served
      <3>3. ASSUME ~shut PROVE proc'[t] = proc[t]
        BY <3>1, <3>2, <3>3, <1>a, <2>7, Zenon DEF Served
      <3> QED
        BY <3>1, <3>2, <3>3, <1>b, Zenon DEF Served
    <2>12. OpenStreamsAreOwned'
      <3> SUFFICES ASSUME NEW t \in Stream, stream'[t].state = "open",
                          clients'[stream'[t].inst] # t
                   PROVE  \E j \in Proc : proc'[j].pc = "install" /\ proc'[j].strm = t
        BY DEF OpenStreamsAreOwned
      <3>1. CASE t = s
        BY <3>1, <2>3, <2>7, Zenon
      <3>2. CASE t # s
        <4>1. stream'[t] = stream[t]
          BY <3>2, <2>8, Zenon
        <4>2. PICK j \in Proc : proc[j].pc = "install" /\ proc[j].strm = t
          BY <4>1, <1>b, Zenon DEF CoreInv, OpenStreamsAreOwned
        <4>3. proc'[j] = proc[j]
          BY <4>2, <1>a, <2>7
        <4> QED
          BY <4>2, <4>3, Zenon
      <3> QED
        BY <3>1, <3>2, Zenon
    <2> QED
      BY <2>9, <2>10, <2>11, <2>12, Zenon DEF CoreInv
  <1> QED
    BY <1>1, <1>2 DEF Dial

LEMMA Closes ==
    ASSUME NEW r \in StreamRec
    PROVE  LET c == [r EXCEPT !.state = "closed"]
           IN  c \in StreamRec /\ c.state = "closed" /\ c.inst = r.inst
  BY Zenon DEF StreamRec

LEMMA InstallCore ==
    ASSUME CoreOK, CoreInv, NEW k \in Proc, Install(k)
    PROVE  CoreOK' /\ CoreInv'
  <1> DEFINE s == proc[k].strm
             i == proc[k].inst
  <1>a. proc[k] \in ProcState /\ proc[k].pc = "install" /\ i \in Instance
        /\ proc[k].back \in Pc /\ proc[k].back # "install"
    BY Fields DEF CoreOK, Install
  <1>b. shut' = shut
    BY Zenon DEF Install
  <1>c. /\ s \in Stream /\ s \in Proc
        /\ stream[s].inst = i
        /\ proc[s].pc \in {"none", "done"}
        /\ \A j \in Instance : clients[j] # s
        /\ \A j \in Proc \ {k} : proc[j].pc = "install" => proc[j].strm # s
    BY <1>a, Ranges, Zenon DEF CoreInv, HeldAlone
  <1>d. s # k
    BY <1>a, <1>c, Zenon
  <1>e. k = 0 \/ shut \/ \A j \in Instance : clients[j] # k
    BY <1>a, SMTT(20) DEF CoreInv, Served
  <1>1. CASE /\ stream' = [stream EXCEPT ![s].state = "closed"]
             /\ SetPc(k, proc[k].back)
             /\ UNCHANGED clients
    <2>1. /\ proc' \in [Proc -> ProcState]
          /\ proc'[k].pc = proc[k].back
          /\ \A j \in Proc \ {k} : proc'[j] = proc[j]
      BY <1>1, <1>a, PcSet, Zenon DEF CoreOK
    <2> DEFINE c == [stream[s] EXCEPT !.state = "closed"]
    <2>2. c \in StreamRec /\ c.state = "closed" /\ c.inst = stream[s].inst
      BY <1>c, Closes DEF CoreOK
    <2>3. stream' = [stream EXCEPT ![s] = c]
      BY <1>1, Zenon
    <2> HIDE DEF c
    <2>4. stream' \in [Stream -> StreamRec] /\ stream'[s] = c
          /\ \A t \in Stream \ {s} : stream'[t] = stream[t]
      BY <1>c, <2>2, <2>3 DEF CoreOK
    <2>5. CoreOK'
      BY <1>1, <2>1, <2>4, Zenon DEF CoreOK
    <2>6. \A t \in Stream : stream'[t].inst = stream[t].inst
      BY <2>2, <2>4, Zenon
    <2>7. \A t \in Stream : stream'[t].state = "open" =>
              /\ stream[t].state = "open"
              /\ clients[stream[t].inst] = t => clients'[stream[t].inst] = t
              /\ proc[k].pc = "install" /\ proc[k].strm = t => proc'[k] = proc[k]
      BY <1>1, <2>2, <2>4
    <2>8. k = 0 \/ shut' \/ \A j \in Instance : clients'[j] # k
      BY <1>1, <1>b, <1>e
    <2>9. \A j \in Instance : clients'[j] \in {clients[j], 0}
      BY <1>1, Zenon
    <2> QED
      BY <1>a, <1>b, <2>1, <2>5, <2>6, <2>7, <2>8, <2>9, Settling, Zenon
  <1>2. CASE /\ clients[i] = 0
             /\ clients' = [clients EXCEPT ![i] = s]
             /\ proc' = [proc EXCEPT ![k].pc = proc[k].back,
                                     ![s] = [pc |-> "wait", inst |-> i, addr |-> 0,
                                             strm |-> s, back |-> "done"]]
             /\ UNCHANGED stream
    <2> DEFINE p == [proc[k] EXCEPT !.pc = proc[k].back]
               m == [pc |-> "wait", inst |-> i, addr |-> 0, strm |-> s, back |-> "done"]
    <2>1. p \in ProcState /\ p.pc = proc[k].back
      BY <1>a, Zenon DEF ProcState, Pc
    <2>2. m \in ProcState /\ m.pc = "wait" /\ m.inst = i
      <3>1. s \in 0 .. MaxStreams /\ 0 \in 0 .. MaxAddr
        BY <1>c, BoundAssumption DEF Proc
      <3> QED
        BY <1>a, <3>1, Zenon DEF ProcState
    <2>3. proc' = [proc EXCEPT ![k] = p, ![s] = m]
      BY <1>2, Zenon
    <2> HIDE DEF p, m
    <2>4. /\ proc' \in [Proc -> ProcState]
          /\ proc'[k] = p /\ proc'[s] = m
          /\ \A j \in Proc \ {k, s} : proc'[j] = proc[j]
      BY <1>c, <1>d, <2>1, <2>2, <2>3, SMTT(20) DEF CoreOK
    <2>5. /\ clients' \in [Instance -> 0 .. MaxStreams]
          /\ clients'[i] = s
          /\ \A j \in Instance \ {i} : clients'[j] = clients[j]
      BY <1>2, <1>a, <1>c DEF CoreOK, Proc
    <2>6. CoreOK'
      BY <1>2, <2>4, <2>5, Zenon DEF CoreOK
    <2>7. ASSUME NEW j \in Proc, proc'[j].pc = "install" PROVE HeldAlone(j)'
      <3>1. j # k /\ j # s
        BY <2>7, <2>4, <2>1, <2>2, <1>a, Zenon
      <3>2. proc'[j] = proc[j] /\ HeldAlone(j) /\ proc[j].strm # s
        BY <3>1, <2>4, <2>7, <1>c, Zenon DEF CoreInv
      <3> DEFINE t == proc[j].strm
      <3>3. t \in Stream /\ t \in Proc /\ stream[t].inst = proc[j].inst
            /\ proc[t].pc \in {"none", "done"}
        BY <3>2, Ranges, Zenon DEF HeldAlone
      <3>4. proc'[t] = proc[t]
        BY <3>2, <3>3, <1>a, <2>4, Zenon
      <3>5. \A l \in Instance : clients'[l] # t
        BY <3>2, <2>5, Zenon DEF HeldAlone
      <3>6. ASSUME NEW l \in Proc \ {j}, proc'[l].pc = "install" PROVE proc'[l].strm # t
        <4>1. l # k /\ l # s
          BY <3>6, <2>4, <2>1, <2>2, <1>a, Zenon
        <4> QED
          BY <4>1, <2>4, <3>2, <3>6, Zenon DEF HeldAlone
      <3> QED
        BY <1>2, <3>2, <3>3, <3>4, <3>5, <3>6, Zenon DEF HeldAlone
    <2>8. ASSUME NEW j \in Instance, clients'[j] # 0 PROVE Served(j)'
      <3>1. CASE j = i
        BY <3>1, <1>2, <1>c, <2>2, <2>4, <2>5, Zenon DEF Served
      <3>2. CASE j # i
        <4>1. clients'[j] = clients[j] /\ Served(j) /\ clients[j] # s
          BY <3>2, <2>5, <2>8, <1>c, Zenon DEF CoreInv
        <4> DEFINE t == clients[j]
        <4>2. t \in Stream /\ t \in Proc /\ t # s
          BY <4>1, Ranges, Zenon DEF Served
        <4>3. ASSUME ~shut PROVE proc'[t] = proc[t]
          BY <4>1, <4>2, <4>3, <1>a, <2>4, Zenon DEF Served
        <4> QED
          BY <4>1, <4>2, <4>3, <1>b, <1>2, Zenon DEF Served
      <3> QED
        BY <3>1, <3>2, Zenon
    <2>9. OpenStreamsAreOwned'
      <3> SUFFICES ASSUME NEW t \in Stream, stream'[t].state = "open",
                          clients'[stream'[t].inst] # t
                   PROVE  \E j \in Proc : proc'[j].pc = "install" /\ proc'[j].strm = t
        BY DEF OpenStreamsAreOwned
      <3>1. stream'[t] = stream[t] /\ t # s
        BY <1>2, <1>c, <2>5, Zenon
      <3>2. stream[t].inst \in Instance /\ t # 0
        BY Ranges DEF CoreOK, StreamRec
      <3>3. clients[stream[t].inst] # t
        BY <3>1, <3>2, <2>5, <1>2, Zenon
      <3>4. PICK j \in Proc : proc[j].pc = "install" /\ proc[j].strm = t
        BY <3>1, <3>3, Zenon DEF CoreInv, OpenStreamsAreOwned
      <3>5. j # k /\ j # s
        BY <3>1, <3>4, <1>c, Zenon
      <3> QED
        BY <3>4, <3>5, <2>4, Zenon
    <2> QED
      BY <2>6, <2>7, <2>8, <2>9 DEF CoreInv
  <1> QED
    BY <1>1, <1>2 DEF Install

-----------------------------------------------------------------------------
(* The other steps *)

LEMMA MonitorCore ==
    ASSUME EnvOK, CoreOK, CoreInv, NEW s \in Stream, Monitor(s)
    PROVE  CoreOK' /\ CoreInv'
  <1> DEFINE i == proc[s].inst
             p == [proc[s] EXCEPT !.pc = IF known[i] # 0 THEN "dial" ELSE "done",
                                  !.addr = known[i]]
             c == IF clients[i] = s THEN 0 ELSE clients[i]
  <1>1. s \in Proc /\ s # 0
    BY Ranges
  <1>2. proc[s] \in ProcState /\ i \in Instance
    BY <1>1, Fields DEF CoreOK
  <1>3. proc[s].pc = "wait" /\ ~shut /\ ~shut' /\ stream' = stream /\ stream[s].state = "closed"
    BY DEF Monitor
  <1>4. known[i] \in 0 .. MaxAddr
    BY <1>2 DEF EnvOK
  <1>5. p \in ProcState /\ p.pc # "install"
    BY <1>2, <1>4, Zenon DEF ProcState
  <1>6. proc' = [proc EXCEPT ![s] = p]
    BY Zenon DEF Monitor
  <1>7. clients' = [clients EXCEPT ![i] = c] /\ c \in 0 .. MaxStreams /\ c \in {clients[i], 0}
    BY <1>2, BoundAssumption DEF Monitor, CoreOK
  <1> HIDE DEF p, c
  <1>8. proc' \in [Proc -> ProcState] /\ proc'[s] = p /\ \A j \in Proc \ {s} : proc'[j] = proc[j]
    BY <1>1, <1>5, <1>6, Zenon DEF CoreOK
  <1>9. /\ clients' \in [Instance -> 0 .. MaxStreams]
        /\ clients'[i] = c
        /\ \A j \in Instance \ {i} : clients'[j] = clients[j]
    BY <1>2, <1>7, Zenon DEF CoreOK
  <1>10. CoreOK'
    BY <1>3, <1>8, <1>9, Zenon DEF CoreOK
  <1>11. \A j \in Instance : clients'[j] \in {clients[j], 0}
    BY <1>7, <1>9, Zenon
  <1>12. ASSUME NEW j \in Instance PROVE clients'[j] # s
    <2>1. CASE j = i
      BY <2>1, <1>1, <1>9, Zenon DEF c
    <2>2. CASE j # i
      <3>1. clients[j] = s => Served(j)
        BY <1>1, Zenon DEF CoreInv
      <3> QED
        BY <2>2, <3>1, <1>3, <1>9, Zenon DEF Served
    <2> QED
      BY <2>1, <2>2, Zenon
  <1>13. ASSUME NEW t \in Stream, stream'[t].state = "open"
         PROVE  /\ stream[t].state = "open"
                /\ clients[stream[t].inst] = t => clients'[stream[t].inst] = t
                /\ proc[s].pc = "install" /\ proc[s].strm = t => proc'[s] = proc[s]
    <2>1. stream[t].state = "open" /\ t # s
      BY <1>3, <1>13, Zenon
    <2>2. stream[t].inst \in Instance
      BY Zenon DEF CoreOK, StreamRec
    <2>3. clients[stream[t].inst] = t => clients'[stream[t].inst] = t
      BY <2>1, <2>2, <1>9, SMTT(20) DEF c
    <2> QED
      BY <2>1, <2>3, <1>3, Zenon
  <1>14. \A t \in Stream : stream'[t].inst = stream[t].inst
    BY <1>3
  <1> QED
    BY <1>1, <1>3, <1>5, <1>8, <1>10, <1>11, <1>12, <1>13, <1>14, Settling, SMTT(20)

\* Closing streams and dropping clients, with the processes where they are.
LEMMA DropCore ==
    ASSUME CoreOK, CoreInv, shut => shut', proc' = proc,
           clients' \in [Instance -> 0 .. MaxStreams],
           NEW C \in SUBSET Stream,
           stream' = [s \in Stream |-> IF s \in C THEN [stream[s] EXCEPT !.state = "closed"]
                                       ELSE stream[s]],
           \A i \in Instance : clients'[i] \in {clients[i], 0},
           \A i \in Instance : clients'[i] # clients[i] => clients[i] \in C
    PROVE  CoreOK' /\ CoreInv'
  <1>1. ASSUME NEW s \in Stream
        PROVE  /\ stream'[s] \in StreamRec
               /\ stream'[s].inst = stream[s].inst
               /\ stream'[s].state = "open" => s \notin C /\ stream[s].state = "open"
    <2>1. stream[s] \in StreamRec
      BY DEF CoreOK
    <2> DEFINE c == [stream[s] EXCEPT !.state = "closed"]
    <2>2. c \in StreamRec /\ c.state = "closed" /\ c.inst = stream[s].inst
      BY <2>1, Closes
    <2>3. stream'[s] = IF s \in C THEN c ELSE stream[s]
      OBVIOUS
    <2> HIDE DEF c
    <2> QED
      BY <2>1, <2>2, <2>3
  <1>2. stream' \in [Stream -> StreamRec]
    BY <1>1
  <1>3. CoreOK'
    BY <1>2 DEF CoreOK
  <1>4. ASSUME NEW s \in Stream, stream'[s].state = "open"
        PROVE  /\ stream[s].state = "open"
               /\ clients[stream[s].inst] = s => clients'[stream[s].inst] = s
               /\ proc[0].pc = "install" /\ proc[0].strm = s => proc'[0] = proc[0]
    <2>1. stream[s].inst \in Instance
      BY DEF CoreOK, StreamRec
    <2> QED
      BY <1>1, <1>4, <2>1
  <1>5. \A s \in Stream : stream'[s].inst = stream[s].inst
    BY <1>1
  <1>6. 0 \in Proc /\ proc'[0] = proc[0] /\ \A j \in Proc \ {0} : proc'[j] = proc[j]
    BY Ranges
  <1> QED
    BY <1>3, <1>4, <1>5, <1>6, Settling

LEMMA BreakCore ==
    ASSUME CoreOK, CoreInv, NEW s \in Stream, BreakStream(s)
    PROVE  CoreOK' /\ CoreInv'
  <1>1. stream' = [t \in Stream |-> IF t \in {s} THEN [stream[t] EXCEPT !.state = "closed"]
                                    ELSE stream[t]]
    BY Zenon DEF BreakStream, CoreOK
  <1>2. proc' = proc /\ clients' = clients /\ shut' = shut
    BY DEF BreakStream
  <1>3. {s} \in SUBSET Stream
    OBVIOUS
  <1>4. /\ clients' \in [Instance -> 0 .. MaxStreams]
        /\ \A i \in Instance : clients'[i] \in {clients[i], 0}
        /\ \A i \in Instance : clients'[i] # clients[i] => clients[i] \in {s}
    BY <1>2 DEF CoreOK
  <1> QED
    BY <1>1, <1>2, <1>3, <1>4, DropCore, Zenon

LEMMA RemoveCore ==
    ASSUME CoreOK, CoreInv, NEW i \in Instance, Remove(i), UNCHANGED <<proc, shut>>
    PROVE  CoreOK' /\ CoreInv'
  <1> DEFINE C == {s \in Stream : s = clients[i]}
  <1>1. stream' = [s \in Stream |-> IF s \in C THEN [stream[s] EXCEPT !.state = "closed"]
                                    ELSE stream[s]]
    BY DEF Remove
  <1>2. clients' = [clients EXCEPT ![i] = 0] /\ 0 \in 0 .. MaxStreams
    BY BoundAssumption, SMTT(20) DEF Remove
  <1>3. clients[i] # 0 => clients[i] \in C
    BY DEF CoreInv, Served
  <1>4. C \in SUBSET Stream
    OBVIOUS
  <1> HIDE DEF C
  <1>5. /\ clients' \in [Instance -> 0 .. MaxStreams]
        /\ \A j \in Instance : clients'[j] \in {clients[j], 0}
        /\ \A j \in Instance : clients'[j] # clients[j] => clients[j] \in C
    BY <1>2, <1>3 DEF CoreOK
  <1> QED
    BY <1>1, <1>4, <1>5, DropCore, Zenon

LEMMA CloseCore ==
    ASSUME CoreOK, CoreInv, CloseManager
    PROVE  CoreOK' /\ CoreInv'
  <1> DEFINE C == {s \in Stream : \E i \in Instance : clients[i] = s}
  <1>1. stream' = [s \in Stream |-> IF s \in C THEN [stream[s] EXCEPT !.state = "closed"]
                                    ELSE stream[s]]
    BY DEF CloseManager
  <1>2. clients' = [i \in Instance |-> 0] /\ 0 \in 0 .. MaxStreams
    BY BoundAssumption, SMTT(20) DEF CloseManager
  <1>3. \A i \in Instance : clients[i] # 0 => clients[i] \in C
    BY DEF CoreInv, Served
  <1>4. C \in SUBSET Stream /\ proc' = proc /\ shut'
    BY DEF CloseManager
  <1> HIDE DEF C
  <1>5. /\ clients' \in [Instance -> 0 .. MaxStreams]
        /\ \A j \in Instance : clients'[j] \in {clients[j], 0}
        /\ \A j \in Instance : clients'[j] # clients[j] => clients[j] \in C
    BY <1>2, <1>3, Zenon DEF CoreOK
  <1> QED
    BY <1>1, <1>4, <1>5, DropCore, Zenon

\* A process moves on, with every stream and client where it is.
LEMMA MoveCore ==
    ASSUME CoreOK, CoreInv, UNCHANGED <<clients, stream, shut>>,
           NEW k \in Proc, k = 0 \/ shut,
           proc[k].pc \notin {"none", "done", "install"},
           proc' \in [Proc -> ProcState], proc'[k].pc # "install",
           \A j \in Proc \ {k} : proc'[j] = proc[j]
    PROVE  CoreOK' /\ CoreInv'
  <1>1. CoreOK'
    BY Zenon DEF CoreOK
  <1>2. shut' = shut
    BY Zenon
  <1>3. \A s \in Stream : stream'[s].inst = stream[s].inst
    BY Zenon
  <1>4. \A i \in Instance : clients'[i] \in {clients[i], 0}
    BY Zenon
  <1>5. \A s \in Stream : stream'[s].state = "open" =>
              /\ stream[s].state = "open"
              /\ clients[stream[s].inst] = s => clients'[stream[s].inst] = s
              /\ proc[k].pc = "install" /\ proc[k].strm = s => proc'[k] = proc[k]
    BY Zenon
  <1>6. /\ shut => shut'
        /\ \/ proc'[k] = proc[k]
           \/ /\ proc[k].pc \notin {"none", "done"}
              /\ proc'[k].pc # "install"
              /\ k = 0 \/ shut' \/ \A i \in Instance : clients'[i] # k
    BY <1>2, SMT
  <1>7. CoreInv'
    BY <1>1, <1>3, <1>4, <1>5, <1>6, Settling, Zenon
  <1> QED
    BY <1>1, <1>7, Zenon

LEMMA SetPcCore ==
    ASSUME CoreOK, CoreInv, UNCHANGED <<clients, stream, shut>>,
           NEW k \in Proc, k = 0 \/ shut,
           proc[k].pc \notin {"none", "done", "install"},
           NEW here \in Pc \ {"install"}, SetPc(k, here)
    PROVE  CoreOK' /\ CoreInv'
  <1>1. /\ proc' \in [Proc -> ProcState]
        /\ proc'[k].pc = here
        /\ \A j \in Proc \ {k} : proc'[j] = proc[j]
    BY PcSet, SMTT(20) DEF CoreOK
  <1> QED
    BY <1>1, MoveCore, Zenon

LEMMA UpsertCore ==
    ASSUME CoreOK, CoreInv, UNCHANGED <<clients, stream, shut>>,
           proc[0].pc \in {"batch", "events"},
           NEW i \in Instance, NEW a \in 0 .. MaxAddr, NEW back \in {"batch", "events"},
           Upsert(i, a, back)
    PROVE  CoreOK' /\ CoreInv'
  <1> DEFINE q == [proc[0] EXCEPT !.pc = back]
             d == [pc |-> "dial", inst |-> i, addr |-> a, strm |-> 0, back |-> back]
             p == IF clients[i] # 0 THEN q ELSE d
  <1>1. 0 \in Proc /\ proc[0] \in ProcState
    BY Ranges DEF CoreOK
  <1>2. q \in ProcState /\ q.pc # "install"
    BY <1>1, Zenon DEF ProcState
  <1>3. d \in ProcState /\ d.pc # "install"
    <2>1. 0 \in 0 .. MaxStreams
      BY BoundAssumption
    <2> QED
      BY <2>1 DEF ProcState
  <1>4. proc' = [proc EXCEPT ![0] = p]
    BY DEF Upsert
  <1>5. p \in ProcState /\ p.pc # "install"
    BY <1>2, <1>3, Zenon
  <1> HIDE DEF p
  <1>6. /\ proc' \in [Proc -> ProcState]
        /\ proc'[0].pc # "install"
        /\ \A j \in Proc \ {0} : proc'[j] = proc[j]
    BY <1>1, <1>4, <1>5, Zenon DEF CoreOK
  <1>7. proc[0].pc \notin {"none", "done", "install"}
    OBVIOUS
  <1> QED
    BY <1>1, <1>6, <1>7, MoveCore, Zenon

LEMMA HeadOfEvents ==
    ASSUME EnvOK, events # <<>>
    PROVE  /\ Head(events).inst \in Instance /\ Head(events).addr \in 0 .. MaxAddr
           /\ Tail(events) \in Seq(Event)
  <1>1. Head(events) \in Event /\ Tail(events) \in Seq(Event)
    BY DEF EnvOK
  <1> QED
    BY <1>1 DEF Event

LEMMA FoundEntries ==
    ASSUME EnvOK, NEW t \in found
    PROVE  t[1] \in Instance /\ t[2] \in 0 .. MaxAddr
  <1>1. t \in Instance \X Address
    BY DEF EnvOK
  <1> QED
    BY <1>1, Ranges, Zenon

LEMMA WatchServiceCore ==
    ASSUME EnvOK, CoreOK, CoreInv, WatchService
    PROVE  CoreOK' /\ CoreInv'
  <1>0. 0 \in Proc /\ {"batch", "watch", "events", "discover"} \subseteq Pc \ {"install"}
    BY Ranges, Zenon DEF Pc
  <1>1. CASE Discover
    <2>1. UNCHANGED <<clients, stream, shut>> /\ proc[0].pc = "discover" /\ SetPc(0, "batch")
      BY <1>1, Zenon DEF Discover
    <2> QED
      BY <2>1, <1>0, SetPcCore, Zenon
  <1>2. CASE NextFound
    <2>1. UNCHANGED <<clients, stream, shut>> /\ proc[0].pc = "batch"
      BY <1>2, Zenon DEF NextFound
    <2>2. CASE SetPc(0, "watch")
      BY <2>1, <2>2, <1>0, SetPcCore, Zenon
    <2>3. CASE \E t \in found : Upsert(t[1], t[2], "batch")
      BY <2>1, <2>3, FoundEntries, UpsertCore, Zenon
    <2> QED
      BY <1>2, <2>2, <2>3, Zenon DEF NextFound
  <1>3. CASE Watch
    <2>1. UNCHANGED <<clients, stream, shut>> /\ proc[0].pc = "watch"
          /\ (SetPc(0, "events") \/ SetPc(0, "discover"))
      BY <1>3, Zenon DEF Watch
    <2> QED
      BY <2>1, <1>0, SetPcCore, Zenon
  <1>4. CASE Receive
    <2>1. shut' = shut /\ proc[0].pc = "events"
      BY <1>4, Zenon DEF Receive
    <2>2. CASE events # <<>> /\ Upsert(Head(events).inst, Head(events).addr, "events")
               /\ UNCHANGED <<clients, stream>>
      BY <2>1, <2>2, HeadOfEvents, UpsertCore, Zenon
    <2>3. CASE events # <<>> /\ Remove(Head(events).inst) /\ UNCHANGED proc
      BY <2>1, <2>3, HeadOfEvents, RemoveCore, Zenon
    <2>4. CASE SetPc(0, "discover") /\ UNCHANGED <<clients, stream>>
      BY <2>1, <2>4, <1>0, SetPcCore, Zenon
    <2> QED
      BY <1>4, <2>2, <2>3, <2>4, Zenon DEF Receive
  <1> QED
    BY <1>1, <1>2, <1>3, <1>4 DEF WatchService

LEMMA CancelledCore ==
    ASSUME CoreOK, CoreInv, NEW k \in Proc, Cancelled(k)
    PROVE  CoreOK' /\ CoreInv'
  <1>1. /\ shut /\ UNCHANGED <<clients, stream, shut>>
        /\ proc[k].pc \notin {"none", "done", "install"}
        /\ SetPc(k, "done") /\ "done" \in Pc \ {"install"}
    BY Zenon DEF Cancelled, Pc
  <1> QED
    BY <1>1, SetPcCore, Zenon

LEMMA UnmovedCore ==
    ASSUME CoreOK, CoreInv, UNCHANGED <<proc, clients, stream, shut>>
    PROVE  CoreOK' /\ CoreInv'
  <1>1. CoreOK'
    BY SMTT(20) DEF CoreOK
  <1>2. \A j \in Proc : HeldAlone(j) => HeldAlone(j)'
    BY SMTT(20) DEF HeldAlone
  <1>3. \A i \in Instance : Served(i) => Served(i)'
    BY SMTT(20) DEF Served
  <1>4. OpenStreamsAreOwned => OpenStreamsAreOwned'
    BY SMTT(20) DEF OpenStreamsAreOwned
  <1>5. CoreInv'
    BY <1>2, <1>3, <1>4, SMTT(20) DEF CoreInv
  <1> QED
    BY <1>1, <1>5

-----------------------------------------------------------------------------
(* The registry, the channel and the budgets *)

LEMMA PublishOK ==
    ASSUME EnvOK, NEW e \in Event, Publish(e)
    PROVE  events' \in Seq(Event)
  <1>1. events \in Seq(Event) /\ Append(events, e) \in Seq(Event)
    BY DEF EnvOK
  <1> QED
    BY <1>1 DEF Publish

LEMMA FaultCounted ==
    ASSUME EnvOK, FaultLeft
    PROVE  breaks + 1 \in 0 .. MaxFaults /\ dialFails + 1 \in 0 .. MaxFaults
           /\ outages + 1 \in 0 .. MaxFaults
  BY BoundAssumption DEF EnvOK, FaultLeft

LEMMA KnownSet ==
    ASSUME EnvOK, NEW i \in Instance, NEW a \in 0 .. MaxAddr, known' = [known EXCEPT ![i] = a]
    PROVE  known' \in [Instance -> 0 .. MaxAddr]
  BY DEF EnvOK

LEMMA InstanceEnv ==
    ASSUME EnvOK, NEW i \in Instance, Launch(i) \/ Withdraw(i)
    PROVE  EnvOK'
  <1>1. CASE Launch(i)
    <2> DEFINE a == launches + 1
    <2>1. a \in 0 .. MaxAddr /\ a \in Address
      BY <1>1, BoundAssumption, SMTT(20) DEF Launch, EnvOK, Address
    <2>2. [type |-> "put", inst |-> i, addr |-> a] \in Event
      BY <2>1, Zenon DEF Event
    <2>3. events' \in Seq(Event)
      BY <1>1, <2>2, PublishOK, Zenon DEF Launch
    <2>4. registry' \in [Instance -> 0 .. MaxAddr] /\ alive' \subseteq Address
      BY <1>1, <2>1, Zenon DEF Launch, EnvOK
    <2> QED
      BY <1>1, <2>1, <2>3, <2>4 DEF Launch, EnvOK, budgets
  <1>2. CASE Withdraw(i)
    <2>1. 0 \in 0 .. MaxAddr
      BY BoundAssumption
    <2>2. [type |-> "delete", inst |-> i, addr |-> 0] \in Event
      BY <2>1, Zenon DEF Event
    <2>3. events' \in Seq(Event)
      BY <1>2, <2>2, PublishOK, Zenon DEF Withdraw
    <2>4. registry' \in [Instance -> 0 .. MaxAddr]
      BY <1>2, <2>1 DEF Withdraw, EnvOK
    <2> QED
      BY <1>2, <2>3, <2>4 DEF Withdraw, EnvOK, budgets
  <1> QED
    BY <1>1, <1>2

LEMMA WatchServiceEnv ==
    ASSUME EnvOK, WatchService
    PROVE  EnvOK'
  <1>1. CASE Discover
    <2>1. outages' \in 0 .. MaxFaults
      BY <1>1, FaultCounted, Zenon DEF Discover, EnvOK
    <2>2. found' \subseteq Instance \X Address
      <3>1. \A j \in Instance : registry[j] # 0 => registry[j] \in Address
        BY BoundAssumption DEF EnvOK, Address
      <3>2. {<<i, registry[i]>> : i \in {j \in Instance : registry[j] # 0}}
               \subseteq Instance \X Address
        BY <3>1, SMTT(20)
      <3> QED
        BY <1>1, <3>2, Zenon DEF Discover
    <2> QED
      BY <1>1, <2>1, <2>2, Zenon DEF Discover, EnvOK, env
  <1>2. CASE NextFound
    <2>1. found' \subseteq Instance \X Address
      BY <1>2, Zenon DEF NextFound, EnvOK
    <2>2. known' \in [Instance -> 0 .. MaxAddr]
      <3>1. CASE UNCHANGED known
        BY <3>1 DEF EnvOK
      <3>2. CASE \E t \in found : Upsert(t[1], t[2], "batch")
        BY <3>2, FoundEntries, KnownSet, Zenon DEF Upsert
      <3> QED
        BY <1>2, <3>1, <3>2, Zenon DEF NextFound
    <2> QED
      BY <1>2, <2>1, <2>2, Zenon DEF NextFound, EnvOK, env, budgets
  <1>3. CASE Watch
    <2>1. outages' \in 0 .. MaxFaults
      BY <1>3, FaultCounted, Zenon DEF Watch, EnvOK
    <2> QED
      BY <1>3, <2>1, Zenon DEF Watch, EnvOK, env
  <1>4. CASE Receive
    <2>1. known' \in [Instance -> 0 .. MaxAddr] /\ events' \in Seq(Event)
      <3>1. CASE UNCHANGED <<known, events>>
        BY <3>1 DEF EnvOK
      <3>2. CASE /\ events # <<>> /\ events' = Tail(events)
                 /\ Upsert(Head(events).inst, Head(events).addr, "events")
        BY <3>2, HeadOfEvents, KnownSet, Zenon DEF Upsert
      <3>3. CASE events # <<>> /\ events' = Tail(events) /\ Remove(Head(events).inst)
        <4>1. 0 \in 0 .. MaxAddr
          BY BoundAssumption
        <4> QED
          BY <3>3, <4>1, HeadOfEvents, KnownSet, Zenon DEF Remove
      <3> QED
        BY <1>4, <3>1, <3>2, <3>3, Zenon DEF Receive
    <2> QED
      BY <1>4, <2>1, Zenon DEF Receive, EnvOK, env, budgets
  <1> QED
    BY <1>1, <1>2, <1>3, <1>4, Zenon DEF WatchService

-----------------------------------------------------------------------------
(* The theorems *)

LEMMA ClientsInvInit == StreamInit => ClientsInv
  <1> SUFFICES ASSUME StreamInit PROVE ClientsInv
    OBVIOUS
  <1> DEFINE c == CHOOSE i \in Instance : TRUE
             p(k) == [pc |-> IF k = 0 THEN "discover" ELSE "none", inst |-> c, addr |-> 0,
                      strm |-> 0, back |-> "done"]
             r == [inst |-> c, addr |-> 0, state |-> "unused"]
  <1>1. c \in Instance
    BY InstanceAssumption
  <1>2. 0 \in 0 .. MaxAddr /\ 0 \in 0 .. MaxStreams /\ 0 \in 0 .. MaxFaults
    BY BoundAssumption, SMTT(20)
  <1>3. proc = [k \in Proc |-> p(k)] /\ stream = [s \in Stream |-> r]
        /\ clients = [i \in Instance |-> 0]
    BY Zenon DEF StreamInit
  <1> HIDE DEF c
  <1>4. \A k \in Proc : p(k) \in ProcState /\ p(k).pc # "install"
    BY <1>1, <1>2, Zenon DEF ProcState
  <1>5. r \in StreamRec /\ r.state # "open"
    BY <1>1, <1>2 DEF StreamRec
  <1> HIDE DEF p, r
  <1>6. CoreOK
    BY <1>2, <1>3, <1>4, <1>5 DEF CoreOK
  <1>7. EnvOK
    <2>1. events \in Seq(Event)
      BY SMTT(20) DEF StreamInit
    <2> QED
      BY <1>2, <2>1, Zenon DEF StreamInit, EnvOK
  <1>8. CoreInv
    BY <1>3, <1>4, <1>5, Zenon DEF CoreInv, OpenStreamsAreOwned
  <1> QED
    BY <1>6, <1>7, <1>8, TypeParts DEF ClientsInv

LEMMA ClientsInvStep ==
    ASSUME ClientsInv, [StreamNext]_streamVars
    PROVE  ClientsInv'
  <1>1. EnvOK /\ CoreOK /\ CoreInv
    BY TypeParts DEF ClientsInv
  <1>2. SUFFICES EnvOK' /\ CoreOK' /\ CoreInv'
    BY TypeParts, Zenon DEF ClientsInv, StreamTypeOK, EnvOK, CoreOK, StreamRec
  <1>3. CASE UNCHANGED streamVars
    <2>1. EnvOK'
      BY <1>1, <1>3, Zenon DEF EnvOK, streamVars
    <2> QED
      BY <1>1, <1>3, <2>1, UnmovedCore, Zenon DEF streamVars
  <1>4. CASE \E i \in Instance : Launch(i) \/ Withdraw(i)
    <2>1. PICK i \in Instance : Launch(i) \/ Withdraw(i)
      BY <1>4, Zenon
    <2>2. UNCHANGED <<proc, clients, stream, shut>>
      BY <2>1 DEF Launch, Withdraw
    <2> QED
      BY <1>1, <2>1, <2>2, InstanceEnv, UnmovedCore
  <1>5. CASE \E a \in Address : Die(a)
    <2>1. UNCHANGED <<proc, clients, stream, shut>>
      BY <1>5, Zenon DEF Die
    <2>2. EnvOK'
      BY <1>1, <1>5 DEF Die, EnvOK, budgets
    <2> QED
      BY <1>1, <2>1, <2>2, UnmovedCore, Zenon
  <1>6. ASSUME NEW s \in Stream, BreakStream(s) PROVE EnvOK' /\ CoreOK' /\ CoreInv'
    <2>1. breaks' \in 0 .. MaxFaults
      BY <1>1, <1>6, FaultCounted, Zenon DEF BreakStream, EnvOK
    <2>2. EnvOK'
      BY <1>1, <1>6, <2>1 DEF BreakStream, EnvOK, env
    <2> QED
      BY <1>1, <1>6, <2>2, BreakCore
  <1>7. ASSUME NEW s \in Stream, Monitor(s) PROVE EnvOK' /\ CoreOK' /\ CoreInv'
    <2>1. EnvOK'
      BY <1>1, <1>7 DEF Monitor, EnvOK, env, budgets
    <2> QED
      BY <1>1, <1>7, <2>1, MonitorCore
  <1>8. ASSUME NEW k \in Proc, Dial(k) PROVE EnvOK' /\ CoreOK' /\ CoreInv'
    <2>1. dialFails' \in 0 .. MaxFaults
      BY <1>1, <1>8, FaultCounted, Zenon DEF Dial, EnvOK
    <2>2. EnvOK'
      BY <1>1, <1>8, <2>1 DEF Dial, EnvOK, env
    <2> QED
      BY <1>1, <1>8, <2>2, DialCore
  <1>9. ASSUME NEW k \in Proc, Install(k) PROVE EnvOK' /\ CoreOK' /\ CoreInv'
    <2>1. EnvOK'
      BY <1>1, <1>9, Zenon DEF Install, EnvOK, env, budgets
    <2> QED
      BY <1>1, <1>9, <2>1, InstallCore
  <1>10. ASSUME NEW k \in Proc, Cancelled(k) PROVE EnvOK' /\ CoreOK' /\ CoreInv'
    <2>1. EnvOK'
      BY <1>1, <1>10 DEF Cancelled, EnvOK, env, budgets
    <2> QED
      BY <1>1, <1>10, <2>1, CancelledCore
  <1>11. CASE WatchService
    BY <1>1, <1>11, WatchServiceEnv, WatchServiceCore, Zenon
  <1>12. CASE WatchEnds
    <2>1. UNCHANGED <<proc, clients, stream, shut>>
      BY <1>12 DEF WatchEnds
    <2>2. outages' \in 0 .. MaxFaults
      BY <1>1, <1>12, FaultCounted DEF WatchEnds
    <2>3. EnvOK'
      BY <1>1, <1>12, <2>2, Zenon DEF WatchEnds, EnvOK, env
    <2> QED
      BY <1>1, <2>1, <2>3, UnmovedCore
  <1>13. CASE CloseManager
    <2>1. EnvOK'
      BY <1>1, <1>13, Zenon DEF CloseManager, EnvOK, env, budgets
    <2> QED
      BY <1>1, <1>13, <2>1, CloseCore
  <1> QED
    BY <1>3, <1>4, <1>5, <1>6, <1>7, <1>8, <1>9, <1>10, <1>11, <1>12, <1>13, Zenon DEF StreamNext, Connects

\* The inductive invariant: a connect past its dial holds its stream alone, a
\* client is a stream to its instance whose monitor waits, and an open stream is
\* one or the other.
THEOREM ClientsInvHolds == StreamSpec => []ClientsInv
  BY ClientsInvInit, ClientsInvStep, PTL DEF StreamSpec

\* No stream leaks: whatever overlaps of connect, events, removals, breaks and
\* Close, an open stream is its instance's client or in the hands of a connect.
THEOREM OpenStreamsAreOwnedHolds == StreamSpec => []OpenStreamsAreOwned
  <1>1. ClientsInv => OpenStreamsAreOwned
    BY Zenon DEF ClientsInv, CoreInv
  <1> QED
    BY <1>1, ClientsInvHolds, PTL

\* Until Close, the monitor goroutine of every client in the map is running and
\* waits for that client.
THEOREM ClientsAreMonitoredHolds == StreamSpec => []ClientsAreMonitored
  <1>1. ClientsInv => ClientsAreMonitored
    BY DEF ClientsInv, CoreInv, Served, ClientsAreMonitored
  <1> QED
    BY <1>1, ClientsInvHolds, PTL
===============================================================================
