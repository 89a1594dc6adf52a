------------------------------ MODULE LoginCalls ------------------------------
(***************************************************************************)
(* From a client's message to its answer: the read loop and its rate       *)
(* limiter (websocket.go, token_bucket.go), the dispatcher, the error      *)
(* mapper, and the requests to UserCenter, inside the circuit breaker and  *)
(* over a stream that breaks (common/streaming: client.go, server.go,      *)
(* router.go).  The later calls, to Lobby and to the session manager, are  *)
(* steps that may fail.                                                    *)
(*                                                                         *)
(* A caller of CircuitBreaker is here the read loop of a connection.  It   *)
(* handles one message at a time, so a connection has one request at a     *)
(* time and stands for the request's id.  The context it passes has no     *)
(* deadline: a request ends with its answer or with its stream.            *)
(*                                                                         *)
(* StreamClients has how the stream to UserCenter is opened again;         *)
(* Enrollment and GatewaySession have what the calls do.                   *)
(***************************************************************************)
EXTENDS CircuitBreaker, Sequences, FiniteSets

CONSTANTS Burst   \* rate_limit_burst

ASSUME BurstAssumption == Burst \in Nat \ {0}

VARIABLES
  tokens,    \* TokenBucket.tokens of each connection
  step,      \* the next step of each read loop
  outage,    \* a call for this message met a service that did not answer
  reply,     \* what the client is told, if the call in progress ends the login
  link,      \* the stream to UserCenter
  inbox,     \* requests UserCenter has not handled
  outbox,    \* answers the client has not read
  answer,    \* what is in the response channel of each connection's Request
  cut        \* the stream of its Request is done

front == <<tokens, step, outage, reply>>
streams == <<link, inbox, outbox, answer, cut>>
loginVars == <<vars, front, streams>>

Answers == [to : Caller, ok : BOOLEAN]

NoAnswer == <<>>

\* Every variable keeps its shape, no bucket has more than its capacity, and no
\* stream has two requests of one connection (refill, Request).
LoginTypeOK ==
  /\ TypeOK
  /\ tokens \in [Caller -> 0..Burst]
  /\ step \in [Caller -> {"idle", "auth", "attempt", "asked", "authenticated",
                          "player", "session", "told"}]
  /\ outage \in [Caller -> BOOLEAN]
  /\ reply \in [Caller -> {"none", "success", "failure", "retry later",
                           "slow down"}]
  /\ link \in {"none", "greeting", "open", "broken"}
  /\ inbox \in Seq(Caller) /\ outbox \in Seq(Answers)
  /\ Len(inbox) + Len(outbox) <= Cardinality(Caller)
  /\ answer \in [Caller -> Answers \union {NoAnswer}]
  /\ cut \in [Caller -> BOOLEAN]

LoginInit ==
  /\ Init
  /\ tokens = [c \in Caller |-> Burst]
  /\ step = [c \in Caller |-> "idle"]
  /\ outage = [c \in Caller |-> FALSE]
  /\ reply = [c \in Caller |-> "none"]
  /\ link = "none"
  /\ inbox = <<>> /\ outbox = <<>>
  /\ answer = [c \in Caller |-> NoAnswer]
  /\ cut = [c \in Caller |-> FALSE]

Goto(c, next) == step' = [step EXCEPT ![c] = next]

-------------------------------------------------------------------------------
(* The read loop and the rate limiter                                      *)

\* refill: time passes; parts of a token do not allow a message.
Refill(c) ==
  /\ tokens[c] < Burst
  /\ tokens' = [tokens EXCEPT ![c] = @ + 1]
  /\ UNCHANGED <<vars, step, outage, reply, streams>>

\* AllowN: a message costs a token.
Allow(c) ==
  /\ step[c] = "idle"
  /\ tokens[c] > 0
  /\ tokens' = [tokens EXCEPT ![c] = @ - 1]

\* readPump: the message is answered by sendRateLimited.
RateLimited(c) ==
  /\ step[c] = "idle"
  /\ tokens[c] = 0
  /\ reply' = [reply EXCEPT ![c] = "slow down"]
  /\ Goto(c, "told")
  /\ UNCHANGED <<vars, tokens, outage, streams>>

\* Dispatch: a login or a refresh with a token is authenticated first; a resume
\* goes to the session manager.
Dispatch(c) ==
  /\ Allow(c)
  /\ Goto(c, "auth") \/ Goto(c, "session")
  /\ UNCHANGED <<vars, outage, reply, streams>>

\* Dispatch: the envelope, the message id or the resume is invalid.
DispatchInvalid(c) ==
  /\ Allow(c)
  /\ reply' = [reply EXCEPT ![c] = "failure"]
  /\ Goto(c, "told")
  /\ UNCHANGED <<vars, outage, streams>>

\* ErrorMapper.Map's first case.
Temporary == {"unavailable", "closed", "deadline"}

\* Mutant: Map takes every error for a temporary one.
MapAll(e) == IF e = "ok" THEN "success" ELSE "retry later"

\* Map and Known: an error is answered with a code that says whether to retry.
Map(e) == CASE e = "ok" -> "success"
            [] e \in Temporary -> "retry later"
            [] OTHER -> "failure"

\* The dispatcher sends the answer ...
Reply(c, e) ==
  /\ reply' = [reply EXCEPT ![c] = Map(e)]
  /\ Goto(c, "told")

\* ... and the read loop goes on.
NextMessage(c) ==
  /\ step[c] = "told"
  /\ Goto(c, "idle")
  /\ outage' = [outage EXCEPT ![c] = FALSE]
  /\ reply' = [reply EXCEPT ![c] = "none"]
  /\ UNCHANGED <<vars, tokens, streams>>

-------------------------------------------------------------------------------
(* Requests on a stream                                                    *)

\* The stream is done: until monitor takes it out of the map AnyClient returns
\* its client, whose requests fail, and then none.
NoClient(e) == link = "none" /\ e \in {"unavailable", "closed"}

\* Request: the channel is there before the request is sent; a stream that has
\* broken may take the request all the same.
Send(c) ==
  /\ link # "none"
  /\ inbox' = IF link = "broken" THEN inbox ELSE Append(inbox, c)
  /\ UNCHANGED <<link, outbox, answer, cut>>

\* Request returns, and forgets its channel.
Forget(c) ==
  /\ answer' = [answer EXCEPT ![c] = NoAnswer]
  /\ cut' = [cut EXCEPT ![c] = FALSE]
  /\ UNCHANGED <<link, inbox, outbox>>

Met(c) == outage' = [outage EXCEPT ![c] = TRUE]

\* The authentication client's operation is over with e.
Authenticates(c, e) ==
  /\ Goto(c, "authenticated")
  /\ reply' = [reply EXCEPT ![c] = Map(e)]

\* An attempt failed with an error that is retried and that counts.
AttemptFails(c, e) ==
  /\ Met(c)
  /\ IF attempt[c] < MaxAttempts THEN Goto(c, "attempt") /\ UNCHANGED reply
     ELSE Authenticates(c, e)
  /\ Unavailable(c)

-------------------------------------------------------------------------------
(* Authentication                                                          *)

\* ExecuteClassified: allow.
Admitted(c) ==
  /\ step[c] = "auth"
  /\ Admit(c) \/ Probe(c)
  /\ Goto(c, "attempt")
  /\ UNCHANGED <<tokens, outage, reply, streams>>

\* Mutant: a call that allow refused is made all the same.
CircuitIgnored(c) ==
  /\ step[c] = "auth"
  /\ state # "closed" /\ (waiting \/ state = "half-open") /\ pc[c] = "idle"
  /\ pc' = [pc EXCEPT ![c] = "calling"]
  /\ Goto(c, "attempt")
  /\ UNCHANGED <<state, failures, waiting, attempt, tokens, outage, reply, streams>>

\* allow refuses, and ExecuteClassified returns ErrCircuitOpen.
CircuitOpen(c) ==
  /\ step[c] = "auth"
  /\ Refuse(c)
  /\ Authenticates(c, "circuit open")
  /\ UNCHANGED <<tokens, outage, streams>>

Notified(c) ==
  /\ Notify(c)
  /\ UNCHANGED <<front, streams>>

\* One attempt of RetryPolicy.Do: a request to UserCenter.
Attempt(c) ==
  /\ step[c] = "attempt" /\ pc[c] = "calling"
  /\ \/ /\ Send(c)
        /\ Goto(c, "asked")
        /\ UNCHANGED <<vars, outage, reply>>
     \/ /\ \E e \in Temporary : NoClient(e) /\ AttemptFails(c, e)
        /\ UNCHANGED streams
     \/ /\ link = "broken"
        /\ SendFails(c)
        /\ Authenticates(c, "send")
        /\ Met(c)
        /\ UNCHANGED streams
  /\ UNCHANGED tokens

\* Request's select: the answer or the end of the stream, when both are there
\* either of them.
Asked(c) ==
  /\ step[c] = "asked"
  /\ Forget(c)
  /\ \/ /\ answer[c] # NoAnswer
        /\ Answered(c)
        /\ Authenticates(c, IF answer[c].ok THEN "ok" ELSE "refused")
        /\ UNCHANGED outage
     \/ cut[c] /\ AttemptFails(c, "closed")
  /\ UNCHANGED tokens

\* login and refreshLogin go on when ExecuteClassified has returned.
Authenticated(c) ==
  /\ step[c] = "authenticated" /\ pc[c] = "idle"
  /\ \/ reply[c] # "success" /\ Goto(c, "told") /\ UNCHANGED reply
     \/ /\ reply[c] = "success"
        /\ Goto(c, "player")
        /\ reply' = [reply EXCEPT ![c] = "none"]
  /\ UNCHANGED <<vars, tokens, outage, streams>>

-------------------------------------------------------------------------------
(* Player and session                                                      *)

\* EnsurePlayer, one request to Lobby, which is not retried.
Player(c) ==
  /\ step[c] = "player"
  /\ \/ Goto(c, "session") /\ UNCHANGED <<outage, reply>>
     \/ \E e \in {"other", "send", "refused", "closed"} :
          /\ Reply(c, e)
          /\ outage' = [outage EXCEPT ![c] = @ \/ e # "refused"]
  /\ UNCHANGED <<vars, tokens, streams>>

\* Create or Resume, then BindSession.  Redis may miss its deadline.
Session(c) ==
  /\ step[c] = "session"
  /\ \E e \in {"ok", "session", "deadline", "other"} :
       /\ Reply(c, e)
       /\ outage' = [outage EXCEPT ![c] = @ \/ e = "deadline"]
  /\ UNCHANGED <<vars, tokens, streams>>

-------------------------------------------------------------------------------
(* The stream                                                              *)

Waiting == {c \in Caller : step[c] = "asked"}

\* NewClient sends the hello and does not wait for UserCenter to take it.
Hello ==
  /\ link = "none"
  /\ link' = "greeting"
  /\ UNCHANGED <<vars, front, inbox, outbox, answer, cut>>

\* Connect takes the hello; requests are read after it.
Connect ==
  /\ link = "greeting"
  /\ link' = "open"
  /\ UNCHANGED <<vars, front, inbox, outbox, answer, cut>>

\* The transport or UserCenter ends the stream; what UserCenter has answered may
\* still be read.
Break ==
  /\ link \in {"greeting", "open"}
  /\ link' = "broken"
  /\ inbox' = <<>>
  /\ UNCHANGED <<vars, front, outbox, answer, cut>>

\* Mutant: readLoop ends without closing the client.
NoticeSilently ==
  /\ link = "broken"
  /\ link' = "none"
  /\ outbox' = <<>>
  /\ UNCHANGED <<vars, front, inbox, answer, cut>>

\* readLoop gets the error and closes the client.
Notice ==
  /\ link = "broken"
  /\ link' = "none"
  /\ outbox' = <<>>
  /\ cut' = [c \in Caller |-> cut[c] \/ c \in Waiting]
  /\ UNCHANGED <<vars, front, inbox, answer>>

\* Connection.Send
Respond(c, ok) == outbox' = Append(outbox, [to |-> c, ok |-> ok])

\* Connect handles one request after the other: the router's dispatch answers it
\* with a response or with an error.
Serve ==
  /\ link = "open" /\ inbox # <<>>
  /\ inbox' = Tail(inbox)
  /\ \E ok \in BOOLEAN : Respond(Head(inbox), ok)
  /\ UNCHANGED <<vars, front, link, answer, cut>>

\* Mutant: the answer goes to any request that waits.
ReadAnswerAny ==
  /\ outbox # <<>>
  /\ outbox' = Tail(outbox)
  /\ \E c \in Waiting : answer' = [answer EXCEPT ![c] = Head(outbox)]
  /\ UNCHANGED <<vars, front, link, inbox, cut>>

\* readLoop passes an answer to the request it is for.
ReadAnswer ==
  /\ outbox # <<>>
  /\ outbox' = Tail(outbox)
  /\ answer' = [answer EXCEPT ![Head(outbox).to] = Head(outbox)]
  /\ UNCHANGED <<vars, front, link, inbox, cut>>

-------------------------------------------------------------------------------
TimePasses == ResetTimeout /\ UNCHANGED <<front, streams>>

Handler(c) ==
  \/ Admitted(c) \/ CircuitOpen(c) \/ Notified(c) \/ Attempt(c) \/ Asked(c)
  \/ Authenticated(c) \/ Player(c) \/ Session(c)
  \/ NextMessage(c)

Transport == Connect \/ Notice \/ Serve \/ ReadAnswer

LoginNext ==
  \/ \E c \in Caller : \/ Refill(c) \/ RateLimited(c) \/ Dispatch(c)
                       \/ DispatchInvalid(c) \/ Handler(c)
  \/ Hello \/ Break \/ Transport
  \/ TimePasses

LoginSpec == LoginInit /\ [][LoginNext]_loginVars

DispatchLogin(c) == Dispatch(c) /\ step'[c] = "auth"

\* Goroutines run, services handle what they receive, time passes, and some
\* client logs in again and again.
LoginFairSpec ==
  /\ LoginSpec
  /\ \A c \in Caller : WF_loginVars(Handler(c))
  /\ WF_loginVars(Transport)
  /\ WF_loginVars(\E c \in Caller : Refill(c))
  /\ SF_loginVars(\E c \in Caller : DispatchLogin(c))
  /\ WF_loginVars(TimePasses)

-------------------------------------------------------------------------------
(* Properties                                                              *)

\* An answer reaches the request it is for, and only while that request waits,
\* however many connections share the stream and wherever it breaks (Request,
\* readLoop).
AnswersMatch ==
  \A c \in Caller :
    answer[c] # NoAnswer =>
      answer[c].to = c /\ step[c] = "asked"

\* What the handlers of any number of connections do to the breaker is what
\* CircuitBreaker says its callers do: allow, then the attempts, then complete,
\* whatever happens to the stream (ExecuteClassified, RetryPolicy.Do, request).
ImplementsBreaker == Spec

\* A client is told to try again later only when a service or Redis did not
\* answer a call for its message: an error of UserCenter or Lobby itself is
\* never reported as temporary, through retries, breaker and mapper (request,
\* ExecuteClassified, Map).
RetryMeansOutage == \A c \in Caller : reply[c] = "retry later" => outage[c]

\* Every message is answered, although no request has a deadline and streams may
\* break at any moment (Request, readLoop, RetryPolicy.Do).
EveryMessageAnswered == \A c \in Caller : step[c] # "idle" ~> step[c] = "idle"
=============================================================================
