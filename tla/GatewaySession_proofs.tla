----------------------- MODULE GatewaySession_proofs --------------------------
(*****************************************************************************)
(* Proofs about GatewaySession, for any sets of sessions, accounts,          *)
(* connections and gateways and any bounds.  None of the three invariants is *)
(* inductive alone: TypeOK needs the handler locals of OwnershipInv and the  *)
(* claim part of ClaimInv, so they are carried together as Inv.              *)
(*****************************************************************************)
EXTENDS GatewaySession, TLAPS

Inv == TypeOK /\ OwnershipInv /\ ClaimInv

\* What the fields of a persisted session are (Record).
LEMMA RecFields ==
  ASSUME NEW r \in Rec
  PROVE  /\ r.sid \in Session /\ r.acct \in Account
         /\ r.conn \in Conn \union {NoConn}
         /\ r.epoch \in 1..MaxEpoch /\ r.epoch \in Nat
         /\ r.state \in {"authenticated", "reconnecting"}
         /\ r # NoRec
BY BoundsAssumption, NoRecAssumption DEF Rec

\* A claim made by a connection is the target of a preemption.
LEMMA TargetOfType ==
  ASSUME NEW r \in Rec, r.conn # NoConn
  PROVE  TargetOf(r) \in Target
BY BoundsAssumption DEF Rec, TargetOf, Target

LEMMA TargetOfFields ==
  ASSUME NEW r \in Rec
  PROVE  /\ TargetOf(r).sid = r.sid /\ TargetOf(r).epoch = r.epoch
         /\ TargetOf(r).sid # NoSession /\ TargetOf(r).epoch # 0
BY NoneAssumption, BoundsAssumption DEF Rec, TargetOf

LEMMA TargetFields ==
  ASSUME NEW t \in Target
  PROVE  (t.sid # NoSession => t.sid \in Session) /\ t.epoch \in Nat
BY BoundsAssumption DEF Target

LEMMA NotAfterItself == \A n \in Nat : n <= n
OBVIOUS

LEMMA LessIrreflexive == \A n \in Nat : ~(n < n)
OBVIOUS

\* Create writes a well-formed Record.
LEMMA NewRecordType ==
  ASSUME NEW s \in Session, NEW a \in Account, NEW c \in Conn
  PROVE  /\ NewRecord(s, a, c) \in Rec
         /\ NewRecord(s, a, c).sid = s
         /\ NewRecord(s, a, c).conn = c
         /\ NewRecord(s, a, c).epoch = 1
         /\ NewRecord(s, a, c).state = "authenticated"
BY BoundsAssumption DEF Rec, NewRecord

\* Resume writes a well-formed Record one epoch on, owned by its connection.
LEMMA ResumeRecordType ==
  ASSUME NEW r \in Rec, NEW c \in Conn, r.epoch < MaxEpoch
  PROVE  /\ ResumeRecord(r, c) \in Rec
         /\ ResumeRecord(r, c).sid = r.sid
         /\ ResumeRecord(r, c).conn = c
         /\ ResumeRecord(r, c).epoch = r.epoch + 1
         /\ ResumeRecord(r, c).state = "authenticated"
BY BoundsAssumption DEF Rec, ResumeRecord

\* Disconnect only clears the owner and changes the state.
LEMMA DetachedType ==
  ASSUME NEW r \in Rec
  PROVE  /\ Detached(r) \in Rec
         /\ Detached(r).sid = r.sid
         /\ Detached(r).conn = NoConn
         /\ Detached(r).epoch = r.epoch
         /\ Detached(r).state = "reconnecting"
BY Zenon DEF Rec, Detached

\* What an expiry goroutine carries and emits.
LEMMA TimerFields ==
  ASSUME NEW t \in Timer
  PROVE  /\ t.sid \in Session
         /\ [t EXCEPT !.phase = "delete"] \in Timer
         /\ EventOf("expired", t) \in Event
BY BoundsAssumption DEF Timer, EventOf, Event

\* The gateways start without sessions.
LEMMA InitInv == Init => Inv
<1>. SUFFICES ASSUME Init PROVE Inv
  BY Zenon
<1>. USE BoundsAssumption, NoneAssumption, NoRecAssumption, HostAssumption
<1>1. TypeOK
  BY DEF Init, TypeOK, Steps, Unbound, Binding
<1>2. OwnershipInv
  BY ZenonT(60) DEF Init, OwnershipInv, FreshIds, TokensBehind, HoldersBehind,
         HoldersDiffer, PendingNewest, HandlerLocals, Holds, Pending, Unbound
<1>3. ClaimInv
  BY Zenon DEF Init, ClaimInv, Superseded
<1>. QED
  BY <1>1, <1>2, <1>3, Zenon DEF Inv

\* Every step keeps the types: the handler locals are records where the code
\* dereferences them, and a superseded claim names a connection.
LEMMA TypeStep == Inv /\ [Next]_vars => TypeOK'
<1>. SUFFICES ASSUME Inv, [Next]_vars PROVE TypeOK'
  BY Zenon
<1>. USE BoundsAssumption, NoneAssumption, NoRecAssumption, HostAssumption
<1>. USE DEF TypeOK, redis, handler, index, Goto
<1>0. TypeOK
  BY Zenon DEF Inv
<1>p. \A c \in Conn : pc[c] \in {"claim", "enter", "bind"} => rec[c] \in Rec
  BY <1>0 DEF Inv, OwnershipInv, PendingNewest, Pending
<1>q. \A c \in Conn :
        /\ pc[c] = "resume" => rec[c] \in Rec /\ rec[c].epoch < MaxEpoch
        /\ pc[c] \in {"detach", "release", "unindex"} => rec[c] \in Rec
  BY <1>0, Zenon DEF Inv, OwnershipInv, HandlerLocals
<1>1. ASSUME NEW out \in Outcomes, Outcome(out) PROVE faults' \in 0..MaxFaults
  BY <1>0, <1>1 DEF Outcome
<1>2. ASSUME NEW r \in Rec, NEW type \in {"connected", "resumed", "disconnected"}
      PROVE  EventOf(type, r) \in Event
  BY RecFields DEF EventOf, Event
<1>3. ASSUME NEW t \in Target PROVE EventOf("preempted", t) \in Event
  BY Zenon DEF EventOf, Event, Target
<1>4. ASSUME NEW t \in Target PROVE Preempted(t) \subseteq Target
  BY <1>0 DEF Preempted, Holder, Target, Binding
<1>5. ASSUME NEW c \in Conn, Close(c) PROVE TypeOK'
  BY <1>0, <1>5, Zenon DEF Close, Steps
<1>6. ASSUME NEW c \in Conn, NEW a \in Account, NEW s \in Session,
             NEW out \in Outcomes, LoginCreate(c, a, s, out)
      PROVE  TypeOK'
  <2>1. NewRecord(s, a, c) \in Rec
    BY NewRecordType, Zenon
  <2>2. faults' \in 0..MaxFaults
    BY <1>1, <1>6, Zenon DEF LoginCreate
  <2>. QED
    BY <1>0, <1>6, <2>1, <2>2, Zenon DEF LoginCreate, Steps
<1>7. ASSUME NEW c \in Conn, NEW out \in Outcomes, ClaimAccount(c, out)
      PROVE  TypeOK'
  <2>1. rec[c] \in Rec
    BY <1>p, <1>7, Zenon DEF ClaimAccount
  <2>2. rec[c].acct \in Account
    BY <2>1, RecFields, Zenon
  <2>3. claims[rec[c].acct] # NoRec => TargetOf(claims[rec[c].acct]) \in Target
    BY <1>0, <2>2, TargetOfType, Zenon DEF Inv, ClaimInv
  <2>4. faults' \in 0..MaxFaults
    BY <1>1, <1>7, Zenon DEF ClaimAccount
  <2>5. claims' \in [Account -> Rec \union {NoRec}]
    BY <1>0, <1>7, <2>1, <2>2, Zenon DEF ClaimAccount
  <2>6. /\ pc' \in [Conn -> Steps] /\ rec' \in [Conn -> Rec \union {NoRec}]
        /\ prev' \in [Conn -> Target \union {NoRec}]
    <3> DEFINE old == IF claims[rec[c].acct] = NoRec THEN NoRec
                      ELSE TargetOf(claims[rec[c].acct])
    <3>1. old \in Target \union {NoRec}
      BY <2>3, Zenon
    <3>2. \/ /\ pc' = [pc EXCEPT ![c] = "enter"]
             /\ prev' = [prev EXCEPT ![c] = old] /\ UNCHANGED rec
          \/ /\ pc' = [pc EXCEPT ![c] = "open"] /\ UNCHANGED prev
             /\ rec' = [rec EXCEPT ![c] = NoRec]
      BY <1>7, Zenon DEF ClaimAccount
    <3>3. /\ pc \in [Conn -> Steps] /\ rec \in [Conn -> Rec \union {NoRec}]
          /\ prev \in [Conn -> Target \union {NoRec}]
      BY <1>0, Zenon
    <3>. HIDE DEF old, TypeOK
    <3>. QED
      BY <3>1, <3>2, <3>3 DEF Steps
  <2>. QED
    BY <1>0, <1>7, <2>4, <2>5, <2>6, Zenon DEF ClaimAccount
<1>8. ASSUME NEW c \in Conn, EnterSession(c) PROVE TypeOK'
  <2>1. rec[c] \in Rec
    BY <1>p, <1>8, Zenon DEF EnterSession
  <2>2. /\ rec[c].acct \in Account /\ rec[c].sid \in Session
        /\ Host[c] \in Gateway
    BY <2>1, RecFields, Zenon
  <2>3. accountConnections[Host[c]][rec[c].acct] \in Conn \union {NoConn}
    BY <1>0, <2>2
  <2> DEFINE local == accountConnections[Host[c]][rec[c].acct]
             t == IF prev[c] = NoRec /\ local # NoConn
                  THEN [sid |-> NoSession, conn |-> local, epoch |-> 0]
                  ELSE prev[c]
             entered == EventOf(IF rec[c].epoch = 1 THEN "connected"
                                ELSE "resumed", rec[c])
  <2>4. t \in Target \union {NoRec}
    BY <1>0, <2>3 DEF Target
  <2>5. entered \in Event
    BY <1>2, <2>1, Zenon
  <2>6. kicked' \in SUBSET Target /\ preempts' \in SUBSET Target
        /\ events' \in SUBSET Event
    <3> HIDE DEF t, entered, local
    <3>1. \/ /\ t \in Target
             /\ kicked' = IF Host[t.conn] = Host[c] THEN Preempted(t) ELSE kicked
             /\ preempts' = preempts \union {t}
             /\ events' = events \union {EventOf("preempted", t), entered}
          \/ /\ events' = events \union {entered}
             /\ UNCHANGED <<kicked, preempts>>
      BY <1>8, <2>4, ZenonT(30) DEF EnterSession, t, entered, local
    <3>. QED
      BY <1>0, <1>3, <1>4, <2>5, <3>1, Zenon
  <2>7. /\ prev' = [prev EXCEPT ![c] = NoRec] /\ pc' = [pc EXCEPT ![c] = "bind"]
        /\ connections' = [connections EXCEPT ![c] = rec[c].sid]
        /\ accountConnections' =
             [accountConnections EXCEPT ![Host[c]][rec[c].acct] = c]
        /\ UNCHANGED <<redis, used, rec, bound, timers, tokens, faults>>
    BY <1>8, Zenon DEF EnterSession
  <2>. HIDE DEF t, entered, local
  <2>. QED
    BY <1>0, <2>2, <2>6, <2>7, Zenon DEF Steps
<1>9. ASSUME NEW c \in Conn, NEW delivered \in BOOLEAN, BindSession(c, delivered)
      PROVE  TypeOK'
  <2>1. rec[c] \in Rec
    BY <1>p, <1>9, Zenon DEF BindSession
  <2>2. rec[c].sid \in Session /\ rec[c].epoch \in 0..MaxEpoch
    BY <2>1, RecFields
  <2>. QED
    BY <1>0, <1>9, <2>2, Zenon DEF BindSession, Steps, Binding
<1>10. ASSUME NEW t \in preempts, DeliverPreempt(t) PROVE TypeOK'
  BY <1>0, <1>4, <1>10, Zenon DEF DeliverPreempt
<1>11. ASSUME NEW t \in preempts, LosePreempt(t) PROVE TypeOK'
  BY <1>0, <1>11 DEF LosePreempt
<1>12. ASSUME NEW c \in Conn, NEW s \in Session, ResumeGet(c, s) PROVE TypeOK'
  BY <1>0, <1>12, Zenon DEF ResumeGet, Steps
<1>13. ASSUME NEW c \in Conn, NEW out \in Outcomes, ResumeSwap(c, out)
       PROVE  TypeOK'
  <2>1. rec[c] \in Rec /\ rec[c].epoch < MaxEpoch
    BY <1>q, <1>13, Zenon DEF ResumeSwap
  <2>2. rec[c].sid \in Session /\ ResumeRecord(rec[c], c) \in Rec
    BY <2>1, RecFields, ResumeRecordType, Zenon
  <2>3. faults' \in 0..MaxFaults
    BY <1>1, <1>13, Zenon DEF ResumeSwap
  <2>4. pc' \in [Conn -> Steps] /\ rec' \in [Conn -> Rec \union {NoRec}]
    <3>1. \/ /\ pc' = [pc EXCEPT ![c] = "claim"]
             /\ rec' = [rec EXCEPT ![c] = ResumeRecord(rec[c], c)]
          \/ /\ pc' = [pc EXCEPT ![c] = "open"]
             /\ rec' = [rec EXCEPT ![c] = NoRec]
      BY <1>13, Zenon DEF ResumeSwap
    <3>2. pc \in [Conn -> Steps] /\ rec \in [Conn -> Rec \union {NoRec}]
      BY <1>0, Zenon
    <3>. HIDE DEF TypeOK
    <3>. QED
      BY <2>2, <3>1, <3>2 DEF Steps
  <2>. QED
    BY <1>0, <1>13, <2>2, <2>3, <2>4, Zenon DEF ResumeSwap
<1>14. ASSUME NEW c \in Conn, NEW out \in Outcomes, DisconnectGet(c, out)
       PROVE  TypeOK'
  <2>1. bound[c].sid \in Session
    BY <1>0, <1>14, Zenon DEF Inv, DisconnectGet, OwnershipInv, HandlerLocals, Binding
  <2>. QED
    BY <1>0, <1>1, <1>14, <2>1, Zenon DEF DisconnectGet, Steps
<1>15. ASSUME NEW c \in Conn, NEW out \in Outcomes, DisconnectSwap(c, out)
       PROVE  TypeOK'
  <2>1. rec[c] \in Rec
    BY <1>q, <1>15, Zenon DEF DisconnectSwap
  <2>2. rec[c].sid \in Session /\ Detached(rec[c]) \in Rec
    BY <2>1, RecFields, DetachedType, Zenon
  <2>. QED
    BY <1>0, <1>1, <1>15, <2>2, Zenon DEF DisconnectSwap, Steps
<1>16. ASSUME NEW c \in Conn, NEW out \in Outcomes, ReleaseAccount(c, out)
       PROVE  TypeOK'
  <2>1. faults' \in 0..MaxFaults
    BY <1>1, <1>16, Zenon DEF ReleaseAccount
  <2>. QED
    BY <1>0, <1>16, <2>1, ZenonT(30) DEF ReleaseAccount, Steps
<1>17. ASSUME NEW c \in Conn, UnindexSession(c) PROVE TypeOK'
  <2>1. rec[c] \in Rec
    BY <1>q, <1>17, Zenon DEF UnindexSession
  <2>2. /\ rec[c].sid \in Session /\ rec[c].acct \in Account
        /\ rec[c].epoch \in 1..MaxEpoch /\ Host[c] \in Gateway
    BY <2>1, RecFields, ZenonT(60)
  <2>3. events' \in SUBSET Event /\ timers' \in SUBSET Timer
    BY <1>0, <1>2, <1>17, <2>1, <2>2 DEF UnindexSession, Timer
  <2>4. accountConnections' \in [Gateway -> [Account -> Conn \union {NoConn}]]
    <3>1. PICK x : /\ x = NoConn \/ x = accountConnections[Host[c]][rec[c].acct]
                   /\ accountConnections' =
                        [accountConnections EXCEPT ![Host[c]][rec[c].acct] = x]
      BY <1>0, <1>17, <2>2, Zenon DEF UnindexSession
    <3>2. x \in Conn \union {NoConn}
      BY <1>0, <2>2, <3>1
    <3>. QED
      BY <1>0, <2>2, <3>1, <3>2, Zenon
  <2>. QED
    BY <1>0, <1>17, <2>2, <2>3, <2>4, Zenon DEF UnindexSession, Steps
<1>18. ASSUME NEW t \in timers, NEW out \in Outcomes, ExpireGet(t, out)
       PROVE  TypeOK'
  <2>1. t \in Timer
    BY <1>0, Zenon
  <2>2. /\ [t EXCEPT !.phase = "delete"] \in Timer
        /\ EventOf("expired", t) \in Event
    BY <2>1, TimerFields, Zenon
  <2>3. faults' \in 0..MaxFaults
    BY <1>1, <1>18, Zenon DEF ExpireGet
  <2>. QED
    BY <1>0, <1>18, <2>2, <2>3, Zenon DEF ExpireGet
<1>19. ASSUME NEW t \in timers, NEW out \in Outcomes, ExpireDelete(t, out)
       PROVE  TypeOK'
  <2>1. t \in Timer
    BY <1>0
  <2>2. t.sid \in Session /\ EventOf("expired", t) \in Event
    BY <2>1, TimerFields, ZenonT(30)
  <2>3. faults' \in 0..MaxFaults
    BY <1>1, <1>19, Zenon DEF ExpireDelete
  <2>. QED
    BY <1>0, <1>19, <2>2, <2>3, Zenon DEF ExpireDelete
<1>20. ASSUME NEW s \in Session, Lapse(s) \/ Evict(s) PROVE TypeOK'
  BY <1>0, <1>20, Zenon DEF Lapse, Evict
<1>21. ASSUME NEW a \in Account, EvictClaim(a) PROVE TypeOK'
  BY <1>0, <1>21, Zenon DEF EvictClaim
<1>22. ASSUME NEW g \in Gateway, Crash(g) PROVE TypeOK'
  <2>1. accountConnections' \in [Gateway -> [Account -> Conn \union {NoConn}]]
    BY <1>0, <1>22, Zenon DEF Crash
  <2>. QED
    BY <1>0, <1>22, <2>1 DEF Crash, Steps
<1>23. ASSUME UNCHANGED vars PROVE TypeOK'
  BY <1>0, <1>23, Zenon DEF vars
<1>. QED
  BY <1>5, <1>6, <1>7, <1>8, <1>9, <1>10, <1>11, <1>12, <1>13, <1>14, <1>15,
     <1>16, <1>17, <1>18, <1>19, <1>20, <1>21, <1>22, <1>23, ZenonT(30)
     DEF Next, HandlerStep

-------------------------------------------------------------------------------
(* OwnershipInv: who owns the epochs of a session while logins, resumes and  *)
(* closes interleave.                                                        *)

\* A step keeps the ownership facts when it moves no session to a new epoch,
\* binds no connection and starts no handler: it may delete records, change
\* their owner and end handlers (the steps of close, claim, expiry and crash).
LEMMA OwnershipShrinks ==
  ASSUME TypeOK, TypeOK', OwnershipInv, HandlerLocals',
         UNCHANGED <<used, tokens, bound>>,
         \A s \in Session :
           records'[s] # NoRec => /\ records[s] # NoRec
                                  /\ records'[s].sid = records[s].sid
                                  /\ records'[s].epoch = records[s].epoch,
         \A c \in Conn : Pending(c)' => Pending(c) /\ rec'[c] = rec[c]
  PROVE  OwnershipInv'
<1>1. \A c \in Conn, s \in Session, e \in 1..MaxEpoch :
        Holds(c, s, e)' => Holds(c, s, e)
  BY Zenon DEF Holds
<1>2. FreshIds'
  BY <1>1, Zenon DEF OwnershipInv, FreshIds
<1>3. TokensBehind'
  BY Zenon DEF OwnershipInv, TokensBehind
<1>4. HoldersBehind'
  BY <1>1, Zenon DEF OwnershipInv, HoldersBehind
<1>5. HoldersDiffer'
  BY <1>1, Zenon DEF OwnershipInv, HoldersDiffer
<1>6. PendingNewest'
  <2>. SUFFICES ASSUME NEW c \in Conn, Pending(c)'
               PROVE  /\ rec'[c] # NoRec /\ rec'[c].conn = c
                      /\ tokens'[rec'[c].sid] < rec'[c].epoch
                      /\ records'[rec'[c].sid] # NoRec
                           => records'[rec'[c].sid].epoch = rec'[c].epoch
                      /\ \A d \in Conn :
                           Pending(d)' /\ rec'[d].sid = rec'[c].sid => c = d
    BY Zenon DEF PendingNewest
  <2>1. Pending(c) /\ rec'[c] = rec[c] /\ rec[c] \in Rec
    BY DEF OwnershipInv, PendingNewest, TypeOK
  <2>2. rec[c].sid \in Session
    BY <2>1, RecFields, Zenon
  <2>. QED
    BY <2>1, <2>2 DEF OwnershipInv, PendingNewest
<1>. QED
  BY <1>2, <1>3, <1>4, <1>5, <1>6, Zenon DEF OwnershipInv

\* Create draws an id nobody holds, so the first epoch is the caller's alone.
LEMMA LoginOwnership ==
  ASSUME TypeOK, TypeOK', OwnershipInv,
         NEW c \in Conn, NEW a \in Account, NEW s \in Session,
         NEW out \in Outcomes, LoginCreate(c, a, s, out)
  PROVE  OwnershipInv'
<1>. USE BoundsAssumption, NoneAssumption, NoRecAssumption
<1>1. /\ s \notin used /\ records[s] = NoRec /\ tokens[s] = 0
      /\ \A d \in Conn, e \in 1..MaxEpoch : ~Holds(d, s, e)
  BY Zenon DEF LoginCreate, OwnershipInv, FreshIds
<1>2. /\ used' = used \union {s}
      /\ UNCHANGED <<tokens, bound>>
      /\ pc[c] = "open"
      /\ \A d \in Conn : d # c => pc'[d] = pc[d] /\ rec'[d] = rec[d]
      /\ \/ pc'[c] = "open" /\ rec'[c] = rec[c]
         \/ /\ pc'[c] = "claim" /\ rec'[c] = NewRecord(s, a, c)
            /\ records'[s] = NewRecord(s, a, c)
      /\ records'[s] = NoRec \/ records'[s] = NewRecord(s, a, c)
      /\ \A x \in Session : x # s => records'[x] = records[x]
  BY <1>1 DEF LoginCreate, Goto, TypeOK
<1>3. /\ NewRecord(s, a, c) \in Rec /\ NewRecord(s, a, c) # NoRec
      /\ NewRecord(s, a, c).sid = s /\ NewRecord(s, a, c).epoch = 1
      /\ NewRecord(s, a, c).conn = c
  BY NewRecordType
<1>4. \A d \in Conn : Pending(d)' =>
        \/ d # c /\ Pending(d) /\ rec'[d] = rec[d]
        \/ d = c /\ rec'[d] = NewRecord(s, a, c)
  BY <1>2, Zenon DEF Pending
<1>5. \A d \in Conn : Pending(d) =>
        rec[d] \in Rec /\ rec[d].sid \in Session /\ rec[d].epoch \in 1..MaxEpoch
  BY RecFields DEF OwnershipInv, PendingNewest, TypeOK
<1>6. \A d \in Conn : Pending(d) => rec[d].sid # s
  BY <1>1, <1>5, ZenonT(30) DEF Holds
<1>7. \A d \in Conn, x \in Session, e \in 1..MaxEpoch :
        Holds(d, x, e)' => \/ x # s /\ Holds(d, x, e)
                           \/ /\ d = c /\ x = s /\ e = 1
                              /\ rec'[c] = NewRecord(s, a, c)
  BY <1>1, <1>2, <1>3, <1>4 DEF Holds
<1>8. FreshIds'
  BY <1>2, <1>7, Zenon DEF OwnershipInv, FreshIds
<1>9. TokensBehind'
  BY <1>1, <1>2, <1>3 DEF OwnershipInv, TokensBehind
<1>10. HoldersBehind'
  BY <1>2, <1>3, <1>7 DEF OwnershipInv, HoldersBehind
<1>11. HoldersDiffer'
  BY <1>7, Zenon DEF OwnershipInv, HoldersDiffer
<1>12. PendingNewest'
  <2>1. ASSUME NEW d \in Conn, d # c, Pending(d)'
        PROVE  /\ rec'[d] # NoRec /\ rec'[d].conn = d
               /\ tokens'[rec'[d].sid] < rec'[d].epoch
               /\ records'[rec'[d].sid] # NoRec
                    => records'[rec'[d].sid].epoch = rec'[d].epoch
               /\ rec'[d].sid # s
    BY <1>2, <1>4, <1>5, <1>6, <2>1 DEF OwnershipInv, PendingNewest
  <2>2. ASSUME Pending(c)'
        PROVE  /\ rec'[c] # NoRec /\ rec'[c].conn = c
               /\ tokens'[rec'[c].sid] < rec'[c].epoch
               /\ records'[rec'[c].sid] # NoRec
                    => records'[rec'[c].sid].epoch = rec'[c].epoch
               /\ rec'[c].sid = s
    BY <1>1, <1>2, <1>3, <1>4, <2>2
  <2>3. \A d, b \in Conn :
          Pending(d)' /\ Pending(b)' /\ rec'[d].sid = rec'[b].sid => d = b
    BY <1>4, <2>1, <2>2 DEF OwnershipInv, PendingNewest
  <2>. QED
    BY <2>1, <2>2, <2>3, Zenon DEF PendingNewest
<1>13. HandlerLocals'
  <2>1. /\ HandlerLocals /\ tokens' = tokens /\ bound' = bound
        /\ pc'[c] = "open" \/ pc'[c] = "claim"
    BY <1>2, Zenon DEF OwnershipInv
  <2>2. \A d \in Conn : d = c \/ (pc'[d] = pc[d] /\ rec'[d] = rec[d])
    BY <1>2, Zenon
  <2>. QED
    BY <2>1, <2>2 DEF HandlerLocals, StillOwns
<1>. QED
  BY <1>8, <1>9, <1>10, <1>11, <1>12, <1>13, Zenon DEF OwnershipInv

\* BindSession turns the pending epoch into the bound one and may hand its
\* token out; the token of another pending handler belongs to another session.
LEMMA BindOwnership ==
  ASSUME TypeOK, TypeOK', OwnershipInv,
         NEW c \in Conn, NEW delivered \in BOOLEAN, BindSession(c, delivered)
  PROVE  OwnershipInv'
<1>. USE BoundsAssumption, NoneAssumption, NoRecAssumption
<1> DEFINE s == rec[c].sid
           e == rec[c].epoch
<1>1. /\ Pending(c) /\ rec[c] \in Rec /\ s \in Session /\ e \in 1..MaxEpoch
      /\ e \in Nat
  BY RecFields DEF BindSession, Pending, OwnershipInv, PendingNewest, TypeOK
<1>2. /\ tokens[s] < e
      /\ records[s] # NoRec => records[s].epoch = e
      /\ \A d \in Conn : Pending(d) /\ rec[d].sid = s => d = c
  BY <1>1, Zenon DEF OwnershipInv, PendingNewest
<1>3. /\ UNCHANGED <<records, used>>
      /\ \A d \in Conn : d # c => /\ pc'[d] = pc[d] /\ rec'[d] = rec[d]
                                  /\ bound'[d] = bound[d]
      /\ pc'[c] = "open"
      /\ bound'[c] = [sid |-> s, epoch |-> e]
      /\ tokens'[s] \in {tokens[s], e}
      /\ \A x \in Session : x # s => tokens'[x] = tokens[x]
  BY <1>1, ZenonT(60) DEF BindSession, Goto, TypeOK, redis
<1>. HIDE DEF s, e
<1>4. \A d \in Conn : Pending(d)' => /\ d # c /\ Pending(d) /\ rec'[d] = rec[d]
                                     /\ rec[d] \in Rec /\ rec[d].sid \in Session
                                     /\ rec[d].sid # s
  BY <1>2, <1>3, RecFields DEF Pending, OwnershipInv, PendingNewest, TypeOK
<1>5. Holds(c, s, e)
  BY <1>1, Zenon DEF Holds, s, e
<1>6. \A d \in Conn, x \in Session, n \in 1..MaxEpoch :
        Holds(d, x, n)' => Holds(d, x, n)
  <2>. SUFFICES ASSUME NEW d \in Conn, NEW x \in Session, NEW n \in 1..MaxEpoch,
                      Holds(d, x, n)'
               PROVE  Holds(d, x, n)
    BY Zenon
  <2>1. CASE d = c
    BY <1>3, <1>4, <1>5, <2>1 DEF Holds
  <2>2. CASE d # c
    BY <1>3, <1>4, <2>2, Zenon DEF Holds
  <2>. QED
    BY <2>1, <2>2, Zenon
<1>7. s \in used
  BY <1>1, <1>5, Zenon DEF OwnershipInv, FreshIds
<1>8. FreshIds'
  BY <1>3, <1>6, <1>7, ZenonT(60) DEF OwnershipInv, FreshIds
<1>9. TokensBehind'
  BY <1>1, <1>2, <1>3 DEF OwnershipInv, TokensBehind
<1>10. HoldersBehind'
  BY <1>3, <1>6, Zenon DEF OwnershipInv, HoldersBehind
<1>11. HoldersDiffer'
  BY <1>6 DEF OwnershipInv, HoldersDiffer
<1>12. PendingNewest'
  BY <1>3, <1>4, SMTT(20) DEF OwnershipInv, PendingNewest
<1>13. HandlerLocals'
  <2>1. ASSUME NEW d \in Conn, pc'[d] = "resume"
        PROVE  /\ rec'[d] # NoRec /\ rec'[d].epoch <= tokens'[rec'[d].sid]
               /\ rec'[d].epoch < MaxEpoch
    <3>1. /\ d # c /\ pc[d] = "resume" /\ rec'[d] = rec[d] /\ rec[d] \in Rec
          /\ rec[d].epoch <= tokens[rec[d].sid] /\ rec[d].epoch < MaxEpoch
      BY <1>3, <2>1 DEF OwnershipInv, HandlerLocals, TypeOK
    <3>2. rec[d].sid \in Session /\ rec[d].epoch \in Nat
      BY <3>1, RecFields, Zenon
    <3>3. tokens \in [Session -> 0..MaxEpoch]
      BY Zenon DEF TypeOK
    <3>. QED
      BY <1>1, <1>2, <1>3, <3>1, <3>2, <3>3, SMTT(20)
  <2>2. \A d \in Conn : d # c => bound'[d] = bound[d] /\ rec'[d] = rec[d]
    BY <1>3, Zenon
  <2>. QED
    BY <1>1, <1>3, <2>1, <2>2, SMTT(20) DEF OwnershipInv, HandlerLocals, StillOwns
<1>. QED
  BY <1>8, <1>9, <1>10, <1>11, <1>12, <1>13, Zenon DEF OwnershipInv

\* A successful swap of Resume moves the session to an epoch nobody holds, and
\* no other handler of that session can be between its swap and its response.
LEMMA ResumeOwnership ==
  ASSUME TypeOK, TypeOK', OwnershipInv,
         NEW c \in Conn, NEW out \in Outcomes, ResumeSwap(c, out)
  PROVE  OwnershipInv'
<1>. USE BoundsAssumption, NoneAssumption, NoRecAssumption
<1> DEFINE s == rec[c].sid
           n == rec[c].epoch + 1
           new == ResumeRecord(rec[c], c)
<1>1. /\ pc[c] = "resume" /\ rec[c] \in Rec /\ rec[c].epoch < MaxEpoch
      /\ rec[c].epoch <= tokens[s]
  BY Zenon DEF ResumeSwap, OwnershipInv, HandlerLocals, TypeOK
<1>2. /\ s \in Session /\ rec[c].epoch \in 1..MaxEpoch /\ rec[c].epoch \in Nat
      /\ n \in 1..MaxEpoch
  BY <1>1, RecFields
<1>3. new \in Rec /\ new # NoRec /\ new.sid = s /\ new.conn = c /\ new.epoch = n
  BY <1>1, ResumeRecordType, ZenonT(60)
<1>4. /\ UNCHANGED <<used, tokens, bound>>
      /\ \A d \in Conn : d # c => pc'[d] = pc[d] /\ rec'[d] = rec[d]
  BY ZenonT(40) DEF ResumeSwap, Goto, TypeOK
<1>5. HandlerLocals'
  <2>1. pc'[c] \in {"open", "claim"}
    BY SMTT(20) DEF ResumeSwap, Goto, TypeOK
  <2>. QED
    BY <1>4, <2>1, SMTT(20) DEF OwnershipInv, HandlerLocals, StillOwns
<1>6. CASE ~(Unchanged(rec[c]) /\ out # "error")
  <2>1. records' = records /\ pc'[c] = "open"
    BY <1>6, Zenon DEF ResumeSwap, Goto, TypeOK
  <2>2. \A d \in Conn : Pending(d)' => Pending(d) /\ rec'[d] = rec[d]
    BY <1>4, <2>1, Zenon DEF Pending
  <2>. QED
    BY <1>4, <1>5, <2>1, <2>2, OwnershipShrinks, Zenon
<1>7. CASE Unchanged(rec[c]) /\ out # "error"
  <2>1. records[s] = rec[c] /\ records[s] # NoRec
    BY <1>1, <1>7, Zenon DEF Unchanged
  <2>2. /\ records'[s] = new
        /\ \A x \in Session : x # s => records'[x] = records[x]
        /\ pc'[c] = "open" \/ (pc'[c] = "claim" /\ rec'[c] = new)
    BY <1>2, <1>7 DEF ResumeSwap, Goto, TypeOK
  <2>. HIDE DEF s, n, new
  <2>3. s \in used
    BY <1>2, <2>1, Zenon DEF OwnershipInv, FreshIds
  <2>4. \A d \in Conn : Pending(d) => /\ rec[d] \in Rec /\ rec[d].sid \in Session
                                      /\ rec[d].epoch \in Nat /\ rec[d].sid # s
    <3>. SUFFICES ASSUME NEW d \in Conn, Pending(d)
                 PROVE  /\ rec[d] \in Rec /\ rec[d].sid \in Session
                        /\ rec[d].epoch \in Nat /\ rec[d].sid # s
      BY Zenon
    <3>1. rec[d] \in Rec
      BY SMTT(20) DEF OwnershipInv, PendingNewest, TypeOK
    <3>2. /\ tokens[rec[d].sid] < rec[d].epoch
          /\ records[rec[d].sid] # NoRec
               => records[rec[d].sid].epoch = rec[d].epoch
      BY Zenon DEF OwnershipInv, PendingNewest
    <3>3. tokens[s] \in Nat
      BY <1>2 DEF TypeOK
    <3>. QED
      BY <1>1, <1>2, <2>1, <3>1, <3>2, <3>3, RecFields
  <2>5. \A d \in Conn : Pending(d)' => \/ Pending(d) /\ rec'[d] = rec[d] /\ d # c
                                       \/ d = c /\ rec'[d] = new
    BY <1>4, <2>2, Zenon DEF Pending
  <2>6. \A d \in Conn, x \in Session, e \in 1..MaxEpoch :
          Holds(d, x, e)' => Holds(d, x, e) \/ (d = c /\ x = s /\ e = n)
    BY <1>3, <1>4, <2>5, ZenonT(60) DEF Holds
  <2>7. \A d \in Conn, e \in 1..MaxEpoch : Holds(d, s, e) => e < n
    <3>1. \A d \in Conn, e \in 1..MaxEpoch : Holds(d, s, e) => e <= rec[c].epoch
      BY <1>2, <2>1, Zenon DEF OwnershipInv, HoldersBehind
    <3>. QED
      BY <1>2, <3>1 DEF n
  <2>8. FreshIds'
    BY <1>4, <2>2, <2>3, <2>6, SMTT(20) DEF OwnershipInv, FreshIds
  <2>9. TokensBehind'
    <3>1. tokens[s] <= rec[c].epoch /\ tokens[s] \in Nat
      BY <1>2, <2>1 DEF OwnershipInv, TokensBehind, TypeOK
    <3>2. tokens[s] <= n
      BY <1>2, <3>1 DEF n
    <3>. QED
      BY <1>3, <1>4, <2>2, <3>2, Zenon DEF OwnershipInv, TokensBehind
  <2>10. HoldersBehind'
    <3>. SUFFICES ASSUME NEW d \in Conn, NEW x \in Session, NEW e \in 1..MaxEpoch,
                        Holds(d, x, e)', records'[x] # NoRec
                 PROVE  e <= records'[x].epoch
      BY Zenon DEF HoldersBehind
    <3>1. CASE x = s
      BY <1>2, <1>3, <2>2, <2>6, <2>7, <3>1
    <3>2. CASE x # s
      BY <2>2, <2>6, <3>2, Zenon DEF OwnershipInv, HoldersBehind
    <3>. QED
      BY <3>1, <3>2, Zenon
  <2>11. HoldersDiffer'
    <3>1. \A d \in Conn, e \in 1..MaxEpoch : Holds(d, s, e) => e # n
      BY <1>2, <2>7, SMTT(20)
    <3>. QED
      BY <2>6, <3>1 DEF OwnershipInv, HoldersDiffer
  <2>12. PendingNewest'
    <3>1. ASSUME NEW d \in Conn, d # c, Pending(d)'
          PROVE  /\ rec'[d] # NoRec /\ rec'[d].conn = d
                 /\ tokens'[rec'[d].sid] < rec'[d].epoch
                 /\ records'[rec'[d].sid] # NoRec
                      => records'[rec'[d].sid].epoch = rec'[d].epoch
                 /\ rec'[d].sid # s
      <4>1. Pending(d) /\ rec'[d] = rec[d]
        BY <2>5, <3>1, Zenon
      <4>2. /\ rec[d] # NoRec /\ rec[d].conn = d
            /\ tokens[rec[d].sid] < rec[d].epoch
            /\ records[rec[d].sid] # NoRec
                 => records[rec[d].sid].epoch = rec[d].epoch
        BY <4>1, Zenon DEF OwnershipInv, PendingNewest
      <4>3. rec[d].sid # s /\ records'[rec[d].sid] = records[rec[d].sid]
        BY <2>2, <2>4, <4>1, Zenon
      <4>. QED
        BY <1>4, <4>1, <4>2, <4>3
    <3>2. ASSUME Pending(c)'
          PROVE  /\ rec'[c] # NoRec /\ rec'[c].conn = c
                 /\ tokens'[rec'[c].sid] < rec'[c].epoch
                 /\ records'[rec'[c].sid] # NoRec
                      => records'[rec'[c].sid].epoch = rec'[c].epoch
                 /\ rec'[c].sid = s
      <4>1. tokens[s] <= rec[c].epoch /\ tokens[s] \in Nat
        BY <1>2, <2>1 DEF OwnershipInv, TokensBehind, TypeOK
      <4>2. tokens[s] < n
        BY <1>2, <4>1, SMTT(20) DEF n
      <4>. QED
        BY <1>3, <1>4, <2>2, <2>5, <3>2, <4>2, Zenon
    <3>3. \A d, b \in Conn :
            Pending(d)' /\ Pending(b)' /\ rec'[d].sid = rec'[b].sid => d = b
      BY <2>5, <3>1, <3>2 DEF OwnershipInv, PendingNewest
    <3>. QED
      BY <3>1, <3>2, <3>3, Zenon DEF PendingNewest
  <2>. QED
    BY <1>5, <2>8, <2>9, <2>10, <2>11, <2>12, Zenon DEF OwnershipInv
<1>. QED
  BY <1>6, <1>7, Zenon

\* Every step keeps the ownership of epochs.
LEMMA OwnershipStep == Inv /\ [Next]_vars => OwnershipInv'
<1>. SUFFICES ASSUME Inv, [Next]_vars PROVE OwnershipInv'
  BY Zenon
<1>. USE BoundsAssumption, NoneAssumption, NoRecAssumption
<1>0. TypeOK /\ TypeOK' /\ OwnershipInv
  BY TypeStep, Zenon DEF Inv
<1>t. /\ pc \in [Conn -> Steps] /\ rec \in [Conn -> Rec \union {NoRec}]
      /\ records \in [Session -> Rec \union {NoRec}]
      /\ bound \in [Conn -> Binding] /\ tokens \in [Session -> 0..MaxEpoch]
      /\ timers \in SUBSET Timer
  BY <1>0, Zenon DEF TypeOK
<1>l. HandlerLocals
  BY <1>0, Zenon DEF OwnershipInv
<1>1. ASSUME NEW c \in Conn, UNCHANGED <<records, used, tokens, bound>>,
             \A d \in Conn : d # c => pc'[d] = pc[d] /\ rec'[d] = rec[d],
             Pending(c)' => Pending(c) /\ rec'[c] = rec[c],
             pc'[c] \in {"resume", "get", "detach", "release", "unindex"}
               => HandlerLocals'
      PROVE  OwnershipInv'
  <2>1. HandlerLocals'
    BY <1>l, <1>1, SMTT(20) DEF HandlerLocals, StillOwns
  <2>2. \A d \in Conn : Pending(d)' => Pending(d) /\ rec'[d] = rec[d]
    BY <1>1, Zenon DEF Pending
  <2>. QED
    BY <1>0, <1>1, <2>1, <2>2, OwnershipShrinks, Zenon
<1>2. ASSUME UNCHANGED <<used, tokens, handler>>,
             \A s \in Session : records'[s] \in {records[s], NoRec}
      PROVE  OwnershipInv'
  <2>1. HandlerLocals' /\ \A d \in Conn : Pending(d)' => Pending(d)
    BY <1>l, <1>2, Zenon DEF HandlerLocals, StillOwns, Pending, handler
  <2>. QED
    BY <1>0, <1>2, <2>1, OwnershipShrinks, ZenonT(30) DEF handler
<1>3. ASSUME NEW c \in Conn, Close(c) PROVE OwnershipInv'
  <2>1. /\ \A d \in Conn : d # c => pc'[d] = pc[d]
        /\ UNCHANGED <<records, used, tokens, bound, rec>>
        /\ pc'[c] \in {"gone", "get"} /\ (pc'[c] = "get" => bound[c].sid # NoSession)
    BY <1>t, <1>3, Zenon DEF Close, Goto, redis
  <2>2. HandlerLocals'
    BY <1>l, <2>1, ZenonT(40) DEF HandlerLocals, StillOwns
  <2>. QED
    BY <1>1, <2>1, <2>2, Zenon DEF Pending
<1>4. ASSUME NEW c \in Conn, NEW out \in Outcomes, ClaimAccount(c, out)
      PROVE  OwnershipInv'
  <2>1. /\ \A d \in Conn : d # c => pc'[d] = pc[d] /\ rec'[d] = rec[d]
        /\ UNCHANGED <<records, used, tokens, bound>>
        /\ pc[c] = "claim"
        /\ pc'[c] = "open" \/ (pc'[c] = "enter" /\ rec'[c] = rec[c])
    BY <1>t, <1>4, Zenon DEF ClaimAccount, Goto
  <2>. QED
    BY <1>1, <2>1, Zenon DEF Pending
<1>5. ASSUME NEW c \in Conn, EnterSession(c) PROVE OwnershipInv'
  <2>1. /\ \A d \in Conn : d # c => pc'[d] = pc[d]
        /\ UNCHANGED <<records, used, tokens, bound, rec>>
        /\ pc[c] = "enter" /\ pc'[c] = "bind"
    BY <1>t, <1>5, ZenonT(30) DEF EnterSession, Goto, redis
  <2>. QED
    BY <1>1, <2>1, Zenon DEF Pending
<1>6. ASSUME NEW c \in Conn, NEW s \in Session, ResumeGet(c, s)
      PROVE  OwnershipInv'
  <2>1. /\ \A d \in Conn : d # c => pc'[d] = pc[d] /\ rec'[d] = rec[d]
        /\ UNCHANGED <<records, used, tokens, bound>>
        /\ pc'[c] = "resume" /\ rec'[c] = records[s]
        /\ records[s] # NoRec /\ records[s].epoch = tokens[s]
        /\ tokens[s] < MaxEpoch /\ tokens[s] \in Nat
    BY <1>t, <1>6, SMTT(20) DEF ResumeGet, Goto, redis
  <2>2. records[s].sid = s
    BY <1>0, <2>1, Zenon DEF OwnershipInv, TokensBehind
  <2>3. HandlerLocals'
    <3>1. /\ rec'[c] # NoRec /\ rec'[c].epoch <= tokens'[rec'[c].sid]
          /\ rec'[c].epoch < MaxEpoch
      BY <2>1, <2>2
    <3>2. /\ \A d \in Conn \ {c} : pc'[d] = pc[d] /\ rec'[d] = rec[d]
          /\ bound' = bound /\ tokens' = tokens /\ pc'[c] = "resume"
      BY <2>1, Zenon
    <3>. QED
      BY <1>l, <3>1, <3>2 DEF HandlerLocals, StillOwns
  <2>. QED
    BY <1>1, <2>1, <2>3, Zenon DEF Pending
<1>7. ASSUME NEW c \in Conn, NEW out \in Outcomes, DisconnectGet(c, out)
      PROVE  OwnershipInv'
  <2>1. /\ \A d \in Conn : d # c => pc'[d] = pc[d] /\ rec'[d] = rec[d]
        /\ UNCHANGED <<records, used, tokens, bound>>
        /\ pc[c] = "get"
        /\ \/ pc'[c] = "gone"
           \/ /\ pc'[c] = "detach" /\ rec'[c] = records[bound[c].sid]
              /\ StillOwns(c, records[bound[c].sid])
    BY <1>t, <1>7, Zenon DEF DisconnectGet, Goto, redis
  <2>2. bound[c].sid \in Session
    BY <1>l, <1>t, <2>1, SMTT(20) DEF HandlerLocals, Binding
  <2>3. HandlerLocals'
    <3>1. rec'[c] # NoRec /\ pc'[c] = "detach" => rec'[c].sid = bound[c].sid
      BY <1>0, <2>1, <2>2, Zenon DEF OwnershipInv, TokensBehind
    <3>2. pc'[c] = "gone" \/ (pc'[c] = "detach" /\ StillOwns(c, rec'[c]))
      BY <2>1, Zenon
    <3>3. \A d \in Conn \ {c} :
            pc'[d] = pc[d] /\ rec'[d] = rec[d] /\ bound'[d] = bound[d]
      BY <2>1, Zenon
    <3>4. bound' = bound /\ tokens' = tokens
      BY <2>1, Zenon
    <3>. HIDE <1>7
    <3>. QED
      BY <1>l, <3>1, <3>2, <3>3, <3>4, SMTT(20) DEF HandlerLocals, StillOwns
  <2>. QED
    BY <1>1, <2>1, <2>3, Zenon DEF Pending
<1>8. ASSUME NEW c \in Conn, NEW out \in Outcomes, DisconnectSwap(c, out)
      PROVE  OwnershipInv'
  <2>1. /\ \A d \in Conn : d # c => pc'[d] = pc[d]
        /\ UNCHANGED <<used, tokens, bound, rec>>
        /\ pc[c] = "detach" /\ pc'[c] \in {"release", "gone"}
    BY <1>t, <1>8, Zenon DEF DisconnectSwap, Goto
  <2>2. rec[c] \in Rec /\ rec[c] # NoRec
    BY <1>l, <1>t, <2>1, Zenon DEF HandlerLocals
  <2>3. rec[c].sid \in Session
    BY <2>2, RecFields, Zenon
  <2>4. \A s \in Session :
          \/ records'[s] = records[s]
          \/ /\ records[s] = rec[c] /\ s = rec[c].sid
             /\ records'[s] = Detached(rec[c])
    BY <1>t, <1>8, <2>3, Zenon DEF DisconnectSwap, Unchanged
  <2>5. HandlerLocals'
    BY <1>l, <2>1, SMTT(20) DEF HandlerLocals, StillOwns
  <2>6. \A d \in Conn : Pending(d)' => Pending(d) /\ rec'[d] = rec[d]
    BY <2>1, Zenon DEF Pending
  <2>. QED
    BY <1>0, <2>1, <2>2, <2>4, <2>5, <2>6, OwnershipShrinks, DetachedType
<1>9. ASSUME NEW c \in Conn, NEW out \in Outcomes, ReleaseAccount(c, out)
      PROVE  OwnershipInv'
  <2>1. /\ \A d \in Conn : d # c => pc'[d] = pc[d]
        /\ UNCHANGED <<records, used, tokens, bound, rec>>
        /\ pc[c] = "release" /\ pc'[c] \in {"unindex", "gone"}
    BY <1>t, <1>9, Zenon DEF ReleaseAccount, Goto
  <2>2. HandlerLocals'
    BY <1>l, <2>1, SMTT(20) DEF HandlerLocals, StillOwns
  <2>. QED
    BY <1>1, <2>1, <2>2, Zenon DEF Pending
<1>10. ASSUME NEW c \in Conn, UnindexSession(c) PROVE OwnershipInv'
  <2>1. /\ \A d \in Conn : d # c => pc'[d] = pc[d] /\ rec'[d] = rec[d]
        /\ UNCHANGED <<records, used, tokens, bound>>
        /\ pc'[c] = "gone"
    BY <1>t, <1>10, Zenon DEF UnindexSession, Goto, redis
  <2>. QED
    BY <1>1, <2>1, Zenon DEF Pending
<1>11. ASSUME NEW t \in preempts, DeliverPreempt(t) \/ LosePreempt(t)
       PROVE  OwnershipInv'
  BY <1>2, <1>11, Zenon DEF DeliverPreempt, LosePreempt, redis
<1>12. ASSUME NEW t \in timers, NEW out \in Outcomes, ExpireGet(t, out)
       PROVE  OwnershipInv'
  BY <1>2, <1>12, Zenon DEF ExpireGet, redis
<1>13. ASSUME NEW t \in timers, NEW out \in Outcomes, ExpireDelete(t, out)
       PROVE  OwnershipInv'
  BY <1>t, <1>2, <1>13, Zenon DEF ExpireDelete
<1>14. ASSUME NEW s \in Session, Lapse(s) \/ Evict(s) PROVE OwnershipInv'
  BY <1>t, <1>2, <1>14, Zenon DEF Lapse, Evict
<1>15. ASSUME NEW a \in Account, EvictClaim(a) PROVE OwnershipInv'
  BY <1>2, <1>15, Zenon DEF EvictClaim
<1>16. ASSUME NEW g \in Gateway, Crash(g) PROVE OwnershipInv'
  <2>1. /\ \A d \in Conn : \/ pc'[d] = "gone"
                           \/ pc'[d] = pc[d] /\ rec'[d] = rec[d]
        /\ UNCHANGED <<records, used, tokens, bound>>
    BY <1>t, <1>16, Zenon DEF Crash, redis
  <2>2. HandlerLocals'
    BY <1>l, <2>1 DEF HandlerLocals, StillOwns
  <2>3. \A d \in Conn : Pending(d)' => Pending(d) /\ rec'[d] = rec[d]
    BY <2>1, Zenon DEF Pending
  <2>. QED
    BY <1>0, <2>1, <2>2, <2>3, OwnershipShrinks, Zenon
<1>17. ASSUME UNCHANGED vars PROVE OwnershipInv'
  BY <1>2, <1>17, Zenon DEF vars, redis
<1>18. ASSUME NEW c \in Conn, HandlerStep(c) PROVE OwnershipInv'
  BY <1>0, <1>4, <1>5, <1>7, <1>8, <1>9, <1>10, <1>18, BindOwnership,
     ResumeOwnership, Zenon DEF HandlerStep
<1>. QED
  BY <1>0, <1>3, <1>6, <1>11, <1>12, <1>13, <1>14, <1>15, <1>16, <1>17, <1>18,
     LoginOwnership, Zenon DEF Next

-------------------------------------------------------------------------------
(* ClaimInv, and the theorems                                                *)

\* What a preemption condemns is the target itself, or a connection that is
\* bound to nothing.
LEMMA PreemptedTarget ==
  ASSUME TypeOK, OwnershipInv, NEW t \in Target, Reached(t),
         NEW k \in Preempted(t), k \notin kicked
  PROVE  k = t \/ (k.sid = NoSession /\ k.epoch = 0)
<1>1. /\ k = Holder(t.conn) /\ bound[t.conn].sid = t.sid
      /\ t.epoch # 0 => bound[t.conn].epoch = t.epoch
  BY Zenon DEF Preempted, PreemptMatches
<1>2. t.conn \in Conn /\ t.epoch \in 0..MaxEpoch
  BY Zenon DEF Target
<1>3. bound[t.conn].sid = NoSession <=> bound[t.conn].epoch = 0
  BY <1>2, Zenon DEF OwnershipInv, HandlerLocals
<1>4. k = [sid |-> bound[t.conn].sid, conn |-> t.conn,
           epoch |-> bound[t.conn].epoch]
  BY <1>1, Zenon DEF Holder
<1>5. CASE t.epoch = 0
  BY <1>1, <1>3, <1>4, <1>5 DEF Reached
<1>6. CASE t.epoch # 0
  BY <1>1, <1>4, <1>6, Zenon DEF Target
<1>. QED
  BY <1>5, <1>6, Zenon

\* A step keeps the claim facts when it claims nothing: targets stay reached,
\* claims stay or go, and whatever becomes superseded was superseded before or
\* names no session.
LEMMA ClaimShrinks ==
  ASSUME TypeOK, TypeOK', ClaimInv,
         \A t \in Target : Reached(t) => Reached(t)',
         \A a \in Account : claims'[a] \in {claims[a], NoRec},
         \A t \in Superseded' :
           t \in Superseded \/ (t.sid = NoSession /\ t.epoch = 0)
  PROVE  ClaimInv'
<1>. USE BoundsAssumption, NoneAssumption, NoRecAssumption
<1>1. Superseded \subseteq Target
  BY DEF Superseded, TypeOK
<1>2. \A t \in Superseded' : Reached(t)'
  BY <1>1, Zenon DEF ClaimInv, Reached
<1>3. ASSUME NEW a \in Account, claims'[a] # NoRec
      PROVE  /\ claims'[a].conn # NoConn
             /\ Reached(TargetOf(claims[a]))'
             /\ TargetOf(claims'[a]) \notin Superseded'
             /\ \A b \in Account \ {a} :
                  claims'[b] # NoRec => TargetOf(claims'[b]) # TargetOf(claims'[a])
  <2>1. /\ claims'[a] = claims[a] /\ claims[a] \in Rec /\ claims[a].conn # NoConn
        /\ Reached(TargetOf(claims[a])) /\ TargetOf(claims[a]) \notin Superseded
        /\ \A b \in Account \ {a} :
             claims[b] # NoRec => TargetOf(claims[b]) # TargetOf(claims[a])
    BY <1>3, Zenon DEF ClaimInv, TypeOK
  <2>2. TargetOf(claims[a]) \in Target /\ claims[a].sid \in Session
    BY <2>1, TargetOfType, RecFields, Zenon
  <2>3. TargetOf(claims[a]).sid # NoSession
    BY <2>2, Zenon DEF TargetOf
  <2>4. PICK t \in Target : t = TargetOf(claims[a])
    BY <2>2, Zenon
  <2>5. Reached(t)' /\ t = TargetOf(claims[a])'
    BY <2>1, <2>4, Zenon DEF TargetOf
  <2>6. Reached(TargetOf(claims[a]))'
    BY <2>5, Zenon DEF Reached
  <2>. QED
    BY <2>1, <2>3, <2>6, Zenon
<1>. QED
  BY <1>2, <1>3, Zenon DEF ClaimInv, TargetOf

\* A target stays reached when no session moves on and no handler gets ready
\* to claim.
LEMMA ReachedKept ==
  ASSUME TypeOK, TypeOK', used \subseteq used',
         \A s \in Session :
           records'[s] # NoRec => /\ records[s] # NoRec
                                  /\ records'[s].epoch = records[s].epoch,
         \A c \in Conn : pc'[c] = "claim" => pc[c] = "claim" /\ rec'[c] = rec[c],
         NEW t \in Target, Reached(t)
  PROVE  Reached(t)'
<1>1. t.sid # NoSession => t.sid \in Session
  BY Zenon DEF Target
<1>. QED
  BY <1>1, Zenon DEF Reached

\* A login claims with an id no target names.
LEMMA LoginReached ==
  ASSUME TypeOK, OwnershipInv,
         NEW c \in Conn, NEW a \in Account, NEW s \in Session,
         NEW out \in Outcomes, LoginCreate(c, a, s, out),
         NEW t \in Target, Reached(t)
  PROVE  Reached(t)'
<1>1. t.sid # NoSession => t.sid \in Session /\ t.sid # s
  BY Zenon DEF Target, Reached, LoginCreate
<1>2. /\ used \subseteq used'
      /\ \A x \in Session : x # s => records'[x] = records[x]
      /\ \A d \in Conn : pc'[d] = "claim" =>
           \/ pc[d] = "claim" /\ rec'[d] = rec[d]
           \/ rec'[d] = NewRecord(s, a, c)
  BY Zenon DEF LoginCreate, Goto, TypeOK
<1>3. NewRecord(s, a, c).sid = s
  BY NewRecordType, Zenon
<1>. QED
  BY <1>1, <1>2, <1>3, Zenon DEF Reached

\* A resume claims with an epoch past every target of its session.
LEMMA ResumeReached ==
  ASSUME TypeOK, TypeOK', OwnershipInv,
         NEW c \in Conn, NEW out \in Outcomes, ResumeSwap(c, out),
         NEW t \in Target, Reached(t)
  PROVE  Reached(t)'
<1> DEFINE s == rec[c].sid
           new == ResumeRecord(rec[c], c)
<1>1. pc[c] = "resume" /\ rec[c] \in Rec /\ rec[c].epoch < MaxEpoch
  BY Zenon DEF ResumeSwap, OwnershipInv, HandlerLocals, TypeOK
<1>2. /\ s \in Session /\ rec[c].epoch \in Nat /\ rec[c] # NoRec
      /\ new.sid = s /\ new.epoch = rec[c].epoch + 1
  BY <1>1, RecFields, ResumeRecordType, Zenon
<1>3. /\ used' = used
      /\ \A d \in Conn : d # c => pc'[d] = pc[d] /\ rec'[d] = rec[d]
  BY DEF ResumeSwap, Goto, TypeOK
<1>4. CASE ~(Unchanged(rec[c]) /\ out # "error")
  <2>1. records' = records /\ pc'[c] = "open"
    BY <1>4, Zenon DEF ResumeSwap, Goto, TypeOK
  <2>. QED
    BY <1>3, <2>1, ReachedKept, Zenon
<1>5. CASE Unchanged(rec[c]) /\ out # "error"
  <2>1. /\ records[s] = rec[c] /\ records'[s] = new
        /\ \A x \in Session : x # s => records'[x] = records[x]
        /\ pc'[c] = "claim" => rec'[c] = new
    BY <1>2, <1>5 DEF ResumeSwap, Unchanged, Goto, TypeOK
  <2>. HIDE DEF s, new
  <2>2. /\ t.sid # NoSession => t.sid \in Session
        /\ t.epoch \in Nat
    BY TargetFields, Zenon
  <2>3. t.sid = s => t.epoch < new.epoch
    <3>1. t.sid = s => t.epoch <= rec[c].epoch
      BY <1>2, <2>1, NoneAssumption, Zenon DEF Reached
    <3>. QED
      BY <1>2, <2>2, <3>1
  <2>. QED
    BY <1>2, <1>3, <2>1, <2>2, <2>3, SMTT(20) DEF Reached
<1>. QED
  BY <1>4, <1>5, Zenon

\* ClaimAccount supersedes the claim it replaces, which is older than its own.
LEMMA ClaimAccountClaims ==
  ASSUME TypeOK, TypeOK', OwnershipInv, ClaimInv,
         NEW c \in Conn, NEW out \in Outcomes, ClaimAccount(c, out)
  PROVE  ClaimInv'
<1>. USE BoundsAssumption, NoneAssumption, NoRecAssumption
<1> DEFINE a == rec[c].acct
           mine == TargetOf(rec[c])
           old == TargetOf(claims[a])
<1>1. /\ pc[c] = "claim" /\ Pending(c) /\ rec[c] \in Rec /\ rec[c].conn = c
      /\ rec[c] # NoRec
  <2>1. pc[c] = "claim" /\ Pending(c)
    BY Zenon DEF ClaimAccount, Pending
  <2>2. rec[c] # NoRec /\ rec[c].conn = c
    BY <2>1, Zenon DEF OwnershipInv, PendingNewest
  <2>. QED
    BY <2>1, <2>2, Zenon DEF TypeOK
<1>2. /\ a \in Account /\ rec[c].sid \in Session /\ rec[c].epoch \in 1..MaxEpoch
      /\ rec[c].epoch \in Nat /\ rec[c].conn # NoConn
  BY <1>1, RecFields, Zenon
<1>3. /\ mine \in Target /\ mine.sid = rec[c].sid /\ mine.epoch = rec[c].epoch
      /\ mine.sid # NoSession /\ mine.epoch # 0
  BY <1>1, <1>2, TargetOfType, TargetOfFields, Zenon
<1>4. /\ UNCHANGED <<records, used, preempts, kicked>>
      /\ \A d \in Conn : d # c => /\ pc'[d] = pc[d] /\ rec'[d] = rec[d]
                                  /\ prev'[d] = prev[d]
      /\ pc'[c] # "claim"
      /\ claims' = claims \/ claims' = [claims EXCEPT ![a] = rec[c]]
      /\ \/ prev'[c] = prev[c] \/ prev'[c] = NoRec
         \/ /\ claims[a] # NoRec /\ prev'[c] = old
            /\ claims' = [claims EXCEPT ![a] = rec[c]]
  BY DEF ClaimAccount, Goto, TypeOK
<1>5. \A t \in Target : Reached(t) => Reached(t)' /\ t # mine
  <2>1. \A t \in Target : Reached(t) => Reached(t)'
    BY <1>4, ReachedKept, ZenonT(40)
  <2>2. ASSUME NEW t \in Target, Reached(t) PROVE t # mine
    <3>1. t = mine => mine.epoch < mine.epoch
      BY <1>1, <1>3, <2>2, Zenon DEF Reached
    <3>. QED
      BY <1>2, <1>3, <3>1, LessIrreflexive, Zenon
  <2>. QED
    BY <2>1, <2>2, Zenon
<1>6. \A t \in Target : t = mine => Reached(t)'
  <2>1. mine.sid \in used
    BY <1>1, <1>2, <1>3, ZenonT(30) DEF OwnershipInv, FreshIds, Holds
  <2>2. records[mine.sid] # NoRec => mine.epoch <= records[mine.sid].epoch
    <3>1. records[mine.sid] # NoRec => records[mine.sid].epoch = mine.epoch
      BY <1>1, <1>3, Zenon DEF OwnershipInv, PendingNewest
    <3>. QED
      BY <1>2, <1>3, <3>1, NotAfterItself, Zenon
  <2>3. \A d \in Conn : pc'[d] = "claim" => rec'[d].sid # mine.sid
    <3>1. SUFFICES ASSUME NEW d \in Conn, pc'[d] = "claim" PROVE rec'[d].sid # mine.sid
      BY Zenon
    <3>2. d # c /\ pc'[d] = pc[d] /\ rec'[d] = rec[d]
      BY <1>4, <3>1, Zenon
    <3>3. Pending(d)
      BY <3>1, <3>2, Zenon DEF Pending
    <3>. QED
      BY <1>1, <1>3, <3>2, <3>3, ZenonT(30) DEF OwnershipInv, PendingNewest
  <2>. HIDE DEF mine
  <2>. QED
    BY <1>3, <1>4, <2>1, <2>2, <2>3, Zenon DEF Reached
<1>7. /\ Superseded \subseteq Target
      /\ \A t \in Superseded : Reached(t)
      /\ \A b \in Account : claims[b] # NoRec =>
           /\ claims[b] \in Rec /\ claims[b].conn # NoConn
           /\ TargetOf(claims[b]) \in Target
           /\ Reached(TargetOf(claims[b]))
           /\ TargetOf(claims[b]) \notin Superseded
           /\ \A d \in Account \ {b} :
                claims[d] # NoRec => TargetOf(claims[d]) # TargetOf(claims[b])
  BY TargetOfType DEF ClaimInv, Superseded, TypeOK
<1>8. \A t \in Superseded' :
        \/ t \in Superseded
        \/ /\ claims[a] # NoRec /\ t = old
           /\ claims' = [claims EXCEPT ![a] = rec[c]]
  <2>. HIDE DEF a, old
  <2>. QED
    BY <1>4, Zenon DEF Superseded
<1>9. CASE claims' = claims
  <2>1. \A t \in Superseded' : t \in Superseded
    <3>1. claims # [claims EXCEPT ![a] = rec[c]] \/ claims[a] = NoRec
      <4>. SUFFICES ASSUME claims = [claims EXCEPT ![a] = rec[c]],
                          claims[a] # NoRec
                   PROVE  FALSE
        BY Zenon
      <4>1. claims[a] = rec[c]
        BY <1>2, Zenon DEF TypeOK
      <4>. QED
        BY <1>2, <1>5, <1>7, <4>1, Zenon
    <3>. QED
      BY <1>8, <1>9, <3>1, Zenon
  <2>2. \A t \in Target : Reached(t) => Reached(t)'
    BY <1>5, Zenon
  <2>. QED
    BY <1>9, <2>1, <2>2, ClaimShrinks, Zenon
<1>10. CASE claims' = [claims EXCEPT ![a] = rec[c]]
  <2>1. /\ claims'[a] = rec[c]
        /\ \A b \in Account : b # a => claims'[b] = claims[b]
    BY <1>2, <1>10, Zenon DEF TypeOK
  <2>2. \A t \in Superseded' : t \in Target /\ Reached(t)' /\ t # mine
    BY <1>2, <1>5, <1>7, <1>8, Zenon
  <2>3. ASSUME NEW b \in Account, claims'[b] # NoRec
        PROVE  /\ claims'[b].conn # NoConn
               /\ Reached(TargetOf(claims[b]))'
               /\ TargetOf(claims'[b]) \notin Superseded'
               /\ \A d \in Account \ {b} :
                    claims'[d] # NoRec
                      => TargetOf(claims'[d]) # TargetOf(claims'[b])
    <3>1. CASE b = a
      <4>1. claims'[b] = rec[c] /\ TargetOf(claims'[b]) = mine
        BY <2>1, <3>1, Zenon
      <4>2. PICK t \in Target : t = mine
        BY <1>3, Zenon
      <4>3. t = TargetOf(claims[b])' /\ Reached(t)'
        BY <1>6, <4>1, <4>2, Zenon DEF TargetOf
      <4>4. Reached(TargetOf(claims[b]))'
        BY <4>3, Zenon DEF Reached
      <4>5. \A d \in Account \ {b} :
              claims'[d] # NoRec => TargetOf(claims'[d]) # mine
        BY <1>5, <1>7, <2>1, <3>1, Zenon
      <4>. QED
        BY <1>2, <2>2, <4>1, <4>4, <4>5, Zenon
    <3>2. CASE b # a
      <4>1. claims'[b] = claims[b] /\ claims[b] # NoRec
        BY <2>1, <2>3, <3>2, Zenon
      <4>2. PICK t \in Target : t = TargetOf(claims[b])
        BY <1>7, <4>1, ZenonT(40)
      <4>3. t = TargetOf(claims[b])' /\ Reached(t)' /\ t # mine
        BY <1>5, <1>7, <4>1, <4>2, ZenonT(40) DEF TargetOf
      <4>4. Reached(TargetOf(claims[b]))'
        BY <4>3, ZenonT(40) DEF Reached
      <4>5. TargetOf(claims'[b]) \notin Superseded'
        BY <1>2, <1>7, <1>8, <3>2, <4>1, Zenon
      <4>6. \A d \in Account \ {b} :
              claims'[d] # NoRec => TargetOf(claims'[d]) # TargetOf(claims'[b])
        BY <1>7, <2>1, <4>1, <4>2, <4>3, ZenonT(40)
      <4>. QED
        BY <1>7, <4>1, <4>4, <4>5, <4>6, Zenon
    <3>. QED
      BY <3>1, <3>2, Zenon
  <2>. QED
    BY <2>2, <2>3, ZenonT(30) DEF ClaimInv, TargetOf
<1>. QED
  BY <1>4, <1>9, <1>10, Zenon

\* The end of Create and Resume supersedes nothing but the claim it replaced
\* and connections without a session.
LEMMA EnterClaims ==
  ASSUME TypeOK, TypeOK', OwnershipInv, ClaimInv,
         NEW c \in Conn, EnterSession(c)
  PROVE  ClaimInv'
<1>. USE BoundsAssumption, NoneAssumption, NoRecAssumption
<1> DEFINE local == accountConnections[Host[c]][rec[c].acct]
           t == IF prev[c] = NoRec /\ local # NoConn
                THEN [sid |-> NoSession, conn |-> local, epoch |-> 0]
                ELSE prev[c]
<1>1. rec[c] \in Rec
  <2>1. Pending(c)
    BY ZenonT(30) DEF EnterSession, Pending
  <2>. QED
    BY <2>1, SMTT(20) DEF OwnershipInv, PendingNewest, TypeOK
<1>2. local \in Conn \union {NoConn}
  BY <1>1, RecFields, HostAssumption, SMTT(20) DEF TypeOK
<1>3. t # NoRec => /\ t \in Target /\ Reached(t)
                   /\ t \in Superseded \/ (t.sid = NoSession /\ t.epoch = 0)
  <2>1. CASE prev[c] = NoRec /\ local # NoConn
    <3>1. t = [sid |-> NoSession, conn |-> local, epoch |-> 0]
      BY <2>1, Zenon
    <3>. HIDE DEF t
    <3>2. t.sid = NoSession /\ t.epoch = 0
      BY <3>1, Zenon
    <3>3. t \in Target
      BY <1>2, <2>1, <3>1 DEF Target
    <3>. QED
      BY <3>2, <3>3, Zenon DEF Reached
  <2>2. CASE ~(prev[c] = NoRec /\ local # NoConn)
    <3>1. t = prev[c]
      BY <2>2, Zenon
    <3>. HIDE DEF t
    <3>2. t # NoRec => t \in Superseded /\ t \in Target
      BY <3>1, Zenon DEF Superseded, TypeOK
    <3>. QED
      BY <3>2, Zenon DEF ClaimInv
  <2>. QED
    BY <2>1, <2>2, ZenonT(30)
<1>4. /\ prev' = [prev EXCEPT ![c] = NoRec]
      /\ \/ /\ t # NoRec
            /\ kicked' = Preempted(t) \/ kicked' = kicked
            /\ preempts' = preempts \union {t}
         \/ kicked' = kicked /\ preempts' = preempts
      /\ UNCHANGED <<records, claims, used, rec>>
      /\ \A d \in Conn : pc'[d] = "claim" => pc[d] = "claim"
  BY Zenon DEF EnterSession, Goto, redis, TypeOK
<1>. HIDE DEF t, local
<1>5. \A k \in kicked' :
        \/ k \in Superseded
        \/ k = t /\ t # NoRec
        \/ k.sid = NoSession /\ k.epoch = 0
  <2>. SUFFICES ASSUME NEW k \in kicked', k \notin kicked
               PROVE  (k = t /\ t # NoRec) \/ (k.sid = NoSession /\ k.epoch = 0)
    BY Zenon DEF Superseded
  <2>1. t # NoRec /\ k \in Preempted(t)
    BY <1>4, Zenon
  <2>2. t \in Target /\ Reached(t)
    BY <1>3, <2>1, Zenon
  <2>. QED
    BY <2>1, <2>2, PreemptedTarget, Zenon
<1>6. \A k \in Superseded' : \/ k \in Superseded
                             \/ k = t /\ t # NoRec
                             \/ k.sid = NoSession /\ k.epoch = 0
  <2>1. \A d \in Conn : prev'[d] # NoRec => prev'[d] = prev[d]
    BY <1>4, Zenon DEF TypeOK
  <2>2. \A k \in preempts' : k \in preempts \/ (k = t /\ t # NoRec)
    BY <1>4, Zenon
  <2>3. \A k \in Superseded' :
          \/ k \in kicked' \/ k \in preempts'
          \/ \E d \in Conn : prev'[d] # NoRec /\ k = prev'[d]
    BY Zenon DEF Superseded
  <2>. QED
    BY <1>5, <2>1, <2>2, <2>3 DEF Superseded
<1>7. \A k \in Target : Reached(k) => Reached(k)'
  BY <1>4, ReachedKept, Zenon
<1>. QED
  BY <1>3, <1>4, <1>6, <1>7, ClaimShrinks, ZenonT(40)

\* Every step keeps the claims apart from what is superseded.
LEMMA ClaimStep == Inv /\ [Next]_vars => ClaimInv'
<1>. SUFFICES ASSUME Inv, [Next]_vars PROVE ClaimInv'
  BY Zenon
<1>. USE BoundsAssumption, NoneAssumption, NoRecAssumption
<1>0. TypeOK /\ TypeOK' /\ OwnershipInv /\ ClaimInv
  BY TypeStep, Zenon DEF Inv
<1>1. ASSUME \A t \in Target : Reached(t) => Reached(t)',
             UNCHANGED <<claims, kicked, preempts, prev>>
      PROVE  ClaimInv'
  BY <1>0, <1>1, ClaimShrinks, ZenonT(40) DEF Superseded
<1>2. ASSUME UNCHANGED <<used, claims, kicked, preempts, prev>>,
             \A s \in Session :
               records'[s] # NoRec => /\ records[s] # NoRec
                                      /\ records'[s].epoch = records[s].epoch,
             \A c \in Conn : pc'[c] = "claim" => pc[c] = "claim" /\ rec'[c] = rec[c]
      PROVE  ClaimInv'
  BY <1>0, <1>1, <1>2, ReachedKept, Zenon
<1>3. ASSUME NEW c \in Conn, Close(c) PROVE ClaimInv'
  BY <1>0, <1>2, <1>3, Zenon DEF Close, Goto, redis, TypeOK
<1>4. ASSUME NEW c \in Conn, NEW a \in Account, NEW s \in Session,
             NEW out \in Outcomes, LoginCreate(c, a, s, out)
      PROVE  ClaimInv'
  BY <1>0, <1>1, <1>4, LoginReached, Zenon DEF LoginCreate
<1>5. ASSUME NEW c \in Conn, NEW delivered \in BOOLEAN, BindSession(c, delivered)
      PROVE  ClaimInv'
  BY <1>0, <1>2, <1>5, Zenon DEF BindSession, Goto, redis, TypeOK
<1>6. ASSUME NEW t \in preempts, DeliverPreempt(t) PROVE ClaimInv'
  <2>1. t \in Target /\ t \in Superseded /\ Reached(t)
    BY <1>0, Zenon DEF ClaimInv, Superseded, TypeOK
  <2>2. \A k \in kicked' : k \in Superseded \/ (k.sid = NoSession /\ k.epoch = 0)
    BY <1>0, <1>6, <2>1, PreemptedTarget, Zenon DEF DeliverPreempt, Superseded
  <2>3. /\ preempts' \subseteq preempts
        /\ UNCHANGED <<records, claims, used, pc, rec, prev>>
    BY <1>6, Zenon DEF DeliverPreempt, redis, handler
  <2>4. \A k \in Superseded' :
          k \in Superseded \/ (k.sid = NoSession /\ k.epoch = 0)
    BY <2>2, <2>3, Zenon DEF Superseded
  <2>5. \A k \in Target : Reached(k) => Reached(k)'
    BY <1>0, <2>3, ReachedKept, Zenon
  <2>. QED
    BY <1>0, <2>3, <2>4, <2>5, ClaimShrinks, Zenon
<1>7. ASSUME NEW t \in preempts, LosePreempt(t) PROVE ClaimInv'
  <2>1. /\ preempts' \subseteq preempts
        /\ UNCHANGED <<records, claims, used, pc, rec, prev, kicked>>
    BY <1>7, Zenon DEF LosePreempt, redis, handler
  <2>2. \A k \in Target : Reached(k) => Reached(k)'
    BY <1>0, <2>1, ReachedKept, Zenon
  <2>. QED
    BY <1>0, <2>1, <2>2, ClaimShrinks, Zenon DEF Superseded
<1>8. ASSUME NEW c \in Conn, NEW s \in Session, ResumeGet(c, s) PROVE ClaimInv'
  BY <1>0, <1>2, <1>8, Zenon DEF ResumeGet, Goto, redis, TypeOK
<1>9. ASSUME NEW c \in Conn, NEW out \in Outcomes, ResumeSwap(c, out)
      PROVE  ClaimInv'
  BY <1>0, <1>1, <1>9, ResumeReached, Zenon DEF ResumeSwap
<1>10. ASSUME NEW c \in Conn, NEW out \in Outcomes, DisconnectGet(c, out)
       PROVE  ClaimInv'
  BY <1>0, <1>2, <1>10, Zenon DEF DisconnectGet, Goto, redis, TypeOK
<1>11. ASSUME NEW c \in Conn, NEW out \in Outcomes, DisconnectSwap(c, out)
       PROVE  ClaimInv'
  <2>1. pc[c] = "detach" /\ rec[c] \in Rec /\ rec[c] # NoRec
    BY <1>0, <1>11, ZenonT(30) DEF DisconnectSwap, OwnershipInv, HandlerLocals, TypeOK
  <2>2. \A s \in Session :
          \/ records'[s] = records[s]
          \/ records[s] = rec[c] /\ records'[s] = Detached(rec[c])
    BY <1>0, <1>11, <2>1, RecFields, Zenon DEF DisconnectSwap, Unchanged, TypeOK
  <2>3. /\ UNCHANGED <<used, claims, kicked, preempts, prev, rec>>
        /\ \A d \in Conn : pc'[d] = "claim" => pc[d] = "claim"
    BY <1>0, <1>11, ZenonT(60) DEF DisconnectSwap, Goto, TypeOK
  <2>. QED
    BY <1>2, <2>1, <2>2, <2>3, DetachedType, ZenonT(40)
<1>12. ASSUME NEW c \in Conn, NEW out \in Outcomes, ReleaseAccount(c, out)
       PROVE  ClaimInv'
  <2>1. /\ UNCHANGED <<records, used, kicked, preempts, prev, rec>>
        /\ \A d \in Conn : pc'[d] = "claim" => pc[d] = "claim"
        /\ \A a \in Account : claims'[a] \in {claims[a], NoRec}
    BY <1>0, <1>12, Zenon DEF ReleaseAccount, Goto, TypeOK
  <2>2. \A k \in Target : Reached(k) => Reached(k)'
    BY <1>0, <2>1, ReachedKept, ZenonT(30)
  <2>. QED
    BY <1>0, <2>1, <2>2, ClaimShrinks, ZenonT(40) DEF Superseded
<1>13. ASSUME NEW c \in Conn, UnindexSession(c) PROVE ClaimInv'
  BY <1>0, <1>2, <1>13, ZenonT(30) DEF UnindexSession, Goto, redis, TypeOK
<1>14. ASSUME NEW t \in timers, NEW out \in Outcomes,
              ExpireGet(t, out) \/ ExpireDelete(t, out)
       PROVE  ClaimInv'
  BY <1>0, <1>2, <1>14, Zenon DEF ExpireGet, ExpireDelete, redis, handler, TypeOK
<1>15. ASSUME NEW s \in Session, Lapse(s) \/ Evict(s) PROVE ClaimInv'
  BY <1>0, <1>2, <1>15, Zenon DEF Lapse, Evict, handler, TypeOK
<1>16. ASSUME NEW a \in Account, EvictClaim(a) PROVE ClaimInv'
  <2>1. /\ UNCHANGED <<records, used, kicked, preempts, prev, pc, rec>>
        /\ \A b \in Account : claims'[b] \in {claims[b], NoRec}
    BY <1>0, <1>16, Zenon DEF EvictClaim, handler, TypeOK
  <2>2. \A k \in Target : Reached(k) => Reached(k)'
    BY <1>0, <2>1, ReachedKept, Zenon
  <2>. QED
    BY <1>0, <2>1, <2>2, ClaimShrinks, ZenonT(30) DEF Superseded
<1>17. ASSUME NEW g \in Gateway, Crash(g) PROVE ClaimInv'
  <2>1. /\ UNCHANGED <<records, claims, used, kicked, preempts>>
        /\ \A d \in Conn : pc'[d] = "gone" \/ (pc'[d] = pc[d] /\ rec'[d] = rec[d])
        /\ \A d \in Conn : prev'[d] = prev[d] \/ prev'[d] = NoRec
    BY <1>17, Zenon DEF Crash, redis
  <2>2. \A k \in Target : Reached(k) => Reached(k)'
    BY <1>0, <2>1, ReachedKept, Zenon
  <2>3. Superseded' \subseteq Superseded
    BY <2>1, Zenon DEF Superseded
  <2>. QED
    BY <1>0, <2>1, <2>2, <2>3, ClaimShrinks, Zenon
<1>18. ASSUME UNCHANGED vars PROVE ClaimInv'
  BY <1>2, <1>18, Zenon DEF vars, redis, handler
<1>19. ASSUME NEW c \in Conn, HandlerStep(c) PROVE ClaimInv'
  BY <1>0, <1>5, <1>9, <1>10, <1>11, <1>12, <1>13, <1>19, ClaimAccountClaims,
     EnterClaims, Zenon DEF HandlerStep
<1>. QED
  BY <1>3, <1>4, <1>6, <1>7, <1>8, <1>14, <1>15, <1>16, <1>17, <1>18, <1>19, Zenon
     DEF Next

\* The session machinery keeps its types and both ownership invariants in
\* every reachable state, whatever fails, is lost or crashes.
THEOREM InvHolds == Spec => []Inv
<1>1. Inv /\ [Next]_vars => Inv'
  BY TypeStep, OwnershipStep, ClaimStep, Zenon DEF Inv
<1>. QED
  BY <1>1, InitInv, PTL DEF Spec

\* Records, connections, handlers and messages keep their shape (Manager,
\* RedisStore, WebSocketHandler).
THEOREM TypeCorrect == Spec => []TypeOK
<1>1. Inv => TypeOK
  BY Zenon DEF Inv
<1> QED
  BY <1>1, InvHolds, PTL

\* A resume token is good for one connection: no two connections are ever
\* bound to the same epoch of a session.
THEOREM OneConnectionPerEpochHolds == Spec => []OneConnectionPerEpoch
<1>1. Inv => OneConnectionPerEpoch
  <2>. SUFFICES ASSUME Inv, NEW c \in Conn, NEW d \in Conn, c # d,
                      bound[c].sid # NoSession, bound[c].sid = bound[d].sid,
                      bound[c].epoch = bound[d].epoch
               PROVE  FALSE
    BY Zenon DEF OneConnectionPerEpoch
  <2>1. /\ bound[c] \in Binding /\ bound[d] \in Binding
        /\ bound[c].epoch # 0
    BY Zenon DEF Inv, TypeOK, OwnershipInv, HandlerLocals
  <2>2. /\ bound[c].sid \in Session /\ bound[c].epoch \in 1..MaxEpoch
        /\ bound[c] = [sid |-> bound[c].sid, epoch |-> bound[c].epoch]
        /\ bound[d] = [sid |-> bound[c].sid, epoch |-> bound[c].epoch]
    BY <2>1, BoundsAssumption, SMTT(20) DEF Binding
  <2>3. /\ Holds(c, bound[c].sid, bound[c].epoch)
        /\ Holds(d, bound[c].sid, bound[c].epoch)
    BY <2>2, Zenon DEF Holds
  <2>. QED
    BY <2>2, <2>3, Zenon DEF Inv, OwnershipInv, HoldersDiffer
<1>. QED
  BY <1>1, InvHolds, PTL

\* A preemption, however late its message is, never closes the connection
\* that holds the account's claim.
THEOREM PreemptSparesClaimantHolds == Spec => []PreemptSparesClaimant
<1>1. Inv => PreemptSparesClaimant
  BY Zenon DEF Inv, ClaimInv, Superseded, PreemptSparesClaimant
<1>. QED
  BY <1>1, InvHolds, PTL

\* The ways a step can change a record: it is removed, created, resumed, or
\* detached by the closed connection it still names.
LEMMA RecordSteps ==
  ASSUME Inv, [Next]_vars, NEW s \in Session
  PROVE  \/ records'[s] \in {records[s], NoRec}
         \/ s \notin used /\ records'[s].state = "authenticated"
         \/ records[s] # NoRec /\ records'[s].state = "authenticated"
         \/ \E c \in Conn : /\ pc[c] = "detach" /\ records[s] = rec[c]
                            /\ s = rec[c].sid
<1> DEFINE Goal == \/ records'[s] \in {records[s], NoRec}
                   \/ s \notin used /\ records'[s].state = "authenticated"
                   \/ records[s] # NoRec /\ records'[s].state = "authenticated"
                   \/ \E c \in Conn : /\ pc[c] = "detach" /\ records[s] = rec[c]
                                      /\ s = rec[c].sid
<1>. SUFFICES Goal
  BY Zenon
<1>0. TypeOK /\ OwnershipInv
  BY Zenon DEF Inv
<1>1. ASSUME NEW c \in Conn, NEW a \in Account, NEW x \in Session,
             NEW out \in Outcomes, LoginCreate(c, a, x, out)
      PROVE  Goal
  BY <1>0, <1>1, NewRecordType, SMTT(20) DEF LoginCreate, TypeOK
<1>2. ASSUME NEW c \in Conn, NEW out \in Outcomes, ResumeSwap(c, out)
      PROVE  Goal
  <2>1. rec[c] \in Rec /\ rec[c].epoch < MaxEpoch /\ rec[c] # NoRec
    BY <1>0, <1>2, ZenonT(30) DEF ResumeSwap, OwnershipInv, HandlerLocals, TypeOK
  <2>2. ResumeRecord(rec[c], c).state = "authenticated"
    BY <2>1, ResumeRecordType, ZenonT(30)
  <2>3. \/ records'[s] = records[s]
        \/ records[s] = rec[c] /\ records'[s] = ResumeRecord(rec[c], c)
    BY <1>0, <1>2, Zenon DEF ResumeSwap, Unchanged, TypeOK
  <2>. QED
    BY <2>1, <2>2, <2>3, ZenonT(30)
<1>3. ASSUME NEW c \in Conn, NEW out \in Outcomes, DisconnectSwap(c, out)
      PROVE  Goal
  BY <1>0, <1>3, Zenon DEF DisconnectSwap, Unchanged, TypeOK
<1>4. ASSUME NEW x \in Session, Lapse(x) \/ Evict(x) PROVE Goal
  BY <1>0, <1>4, Zenon DEF Lapse, Evict, TypeOK
<1>5. ASSUME NEW t \in timers, NEW out \in Outcomes,
             ExpireGet(t, out) \/ ExpireDelete(t, out)
      PROVE  Goal
  BY <1>0, <1>5, Zenon DEF ExpireGet, ExpireDelete, redis, TypeOK
<1>. HIDE DEF Goal
<1>6. records' = records => Goal
  BY Zenon DEF Goal
<1>7. ASSUME NEW c \in Conn, HandlerStep(c) PROVE Goal
  BY <1>2, <1>3, <1>6, <1>7, Zenon
     DEF HandlerStep, ClaimAccount, EnterSession, BindSession, DisconnectGet,
         ReleaseAccount, UnindexSession, redis
<1>. QED
  BY <1>1, <1>4, <1>5, <1>6, <1>7, ZenonT(30)
     DEF Next, vars, redis, Close, ResumeGet, DeliverPreempt, LosePreempt,
         EvictClaim, Crash

\* The close of an old connection never puts a session into `reconnecting`
\* that a newer connection has resumed.
THEOREM StaleCloseHarmlessHolds == Spec => StaleCloseHarmless
<1> DEFINE Step ==
      \A s \in Session :
        Live(s) /\ records'[s] # NoRec /\ records'[s].state = "reconnecting"
          => /\ Ended(records[s].conn)
             /\ bound[records[s].conn] = [sid |-> s, epoch |-> records[s].epoch]
<1>1. Inv /\ [Next]_vars => [Step]_vars
  <2>. SUFFICES ASSUME Inv, [Next]_vars, NEW s \in Session, Live(s),
                      records'[s] # NoRec, records'[s].state = "reconnecting"
               PROVE  /\ Ended(records[s].conn)
                      /\ bound[records[s].conn]
                           = [sid |-> s, epoch |-> records[s].epoch]
    BY Zenon
  <2>1. PICK c \in Conn : /\ pc[c] = "detach" /\ records[s] = rec[c]
                          /\ s = rec[c].sid
    BY RecordSteps, Zenon DEF Live
  <2>2. /\ rec[c].conn = c /\ rec[c].epoch = bound[c].epoch
        /\ rec[c].sid = bound[c].sid /\ bound[c] \in Binding
    BY <2>1, ZenonT(30) DEF Inv, OwnershipInv, HandlerLocals, StillOwns, TypeOK
  <2>3. bound[c] = [sid |-> bound[c].sid, epoch |-> bound[c].epoch]
    BY <2>2, Zenon DEF Binding
  <2>. QED
    BY <2>1, <2>2, <2>3, ZenonT(30) DEF Ended
<1>. QED
  BY <1>1, InvHolds, PTL DEF Spec, StaleCloseHarmless

\* A session that was deleted or evicted is never recreated by a swap that was
\* prepared before.
THEOREM NoResurrectionHolds == Spec => NoResurrection
<1> DEFINE Step == \A s \in used : records[s] = NoRec => records'[s] = NoRec
<1>1. Inv /\ [Next]_vars => [Step]_vars
  <2>. SUFFICES ASSUME Inv, [Next]_vars, NEW s \in used, records[s] = NoRec
               PROVE  records'[s] = NoRec
    BY Zenon
  <2>1. s \in Session
    BY Zenon DEF Inv, TypeOK
  <2>2. \A c \in Conn : pc[c] = "detach" => rec[c] # NoRec
    BY Zenon DEF Inv, OwnershipInv, HandlerLocals
  <2>. QED
    BY <2>1, <2>2, RecordSteps, Zenon
<1>. QED
  BY <1>1, InvHolds, PTL DEF Spec, NoResurrection

\* An account's claim disappears only with its connection or with its TTL,
\* never by the disconnect of a connection it has superseded.
THEOREM ClaimReleasedByOwnerHolds == Spec => ClaimReleasedByOwner
<1> DEFINE Kept(a) ==
             claims[a] # NoRec /\ claims'[a] = NoRec
               => \/ Ended(claims[a].conn)
                  \/ records[claims[a].sid] # claims[a]
                  \/ claims[a].sid \in lapsed
           Step == \A a \in Account : Kept(a)
<1>1. Inv /\ [Next]_vars => [Step]_vars
  <2>. SUFFICES ASSUME Inv, [Next]_vars, NEW a \in Account PROVE Kept(a)
    BY Zenon
  <2>0. TypeOK
    BY Zenon DEF Inv
  <2>1. ASSUME NEW c \in Conn, NEW out \in Outcomes, ReleaseAccount(c, out)
        PROVE  Kept(a)
    BY <2>0, <2>1, Zenon DEF ReleaseAccount, Releases, Ended, TypeOK
  <2>2. ASSUME NEW b \in Account, EvictClaim(b) PROVE Kept(a)
    BY <2>0, <2>2, Zenon DEF EvictClaim, TypeOK
  <2>3. ASSUME NEW c \in Conn, NEW out \in Outcomes, ClaimAccount(c, out)
        PROVE  Kept(a)
    <3>1. rec[c] # NoRec
      BY <2>3, Zenon DEF Inv, OwnershipInv, PendingNewest, Pending, ClaimAccount
    <3>. QED
      BY <2>0, <2>3, <3>1, ZenonT(30) DEF ClaimAccount, TypeOK
  <2>4. claims' = claims => Kept(a)
    BY Zenon
  <2>. HIDE DEF Kept
  <2>5. ASSUME NEW c \in Conn, HandlerStep(c) PROVE Kept(a)
    BY <2>1, <2>3, <2>4, <2>5, Zenon
       DEF HandlerStep, EnterSession, BindSession, ResumeSwap, DisconnectGet,
           DisconnectSwap, UnindexSession, redis
  <2>. QED
    BY <2>2, <2>4, <2>5, ZenonT(60)
       DEF Next, vars, redis, Close, LoginCreate, ResumeGet, DeliverPreempt,
           LosePreempt, ExpireGet, ExpireDelete, Lapse, Evict, Crash
<1>. QED
  BY <1>1, InvHolds, PTL DEF Spec, ClaimReleasedByOwner
===============================================================================
