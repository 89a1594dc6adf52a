-------------------------- MODULE Enrollment_proofs --------------------------
(***************************************************************************)
(* Proofs about Enrollment, for any numbers of logins, installations,      *)
(* usernames, passwords and failed calls, and about Snowflake, which the   *)
(* ids of the documents come from.                                         *)
(***************************************************************************)
EXTENDS Enrollment, Snowflake, FiniteSetTheorems, TLAPS

\* What the unique indexes and the transactions make of the documents: an
\* identity per subject and per account, which exists, and a player per
\* account, the only one that is linked to it.
DocumentInv ==
    /\ \A d, e \in identities : d.kind = e.kind /\ d.subject = e.subject => d = e
    /\ \A d, e \in identities : d.account = e.account => d = e
    /\ \A d \in identities : accounts[d.account] # None
    /\ \A p, q \in players : p.account = q.account => p = q
    /\ \A a \in Login : accounts[a] # None =>
          \A x \in accounts[a] : PlayerDocument(x, a) \in players

\* A token has an id and an account of its own, and comes from a token that is
\* still there.
TokenInv ==
    /\ \A s, t \in tokens : s.id = t.id => s = t
    /\ \A t \in tokens : \E d \in identities : d.account = t.account
    /\ \A s \in tokens : s.from # None => \E t \in tokens : t.id = s.from
    /\ TokensRotateOnce

\* The ids a login has not used yet are nobody's.
FreshInv(l) ==
    /\ login[l].pc \in {"idle", "find", "create"} =>
          /\ \A d \in identities : d.account # l
          /\ \A t \in tokens : t.id # <<l, "created">>
    /\ login[l].pc \in {"idle", "find", "create", "refind", "issue", "findToken", "rotate"} =>
          \A t \in tokens : t.id # <<l, "issued">>

\* The login's account is the one its identity names, if it came with one.
Identified(l) ==
    /\ login[l].account \in Login
    /\ \E d \in identities :
          /\ d.account = login[l].account
          /\ login[l].cred.kind # "refresh" =>
                /\ d.kind = login[l].cred.kind /\ d.subject = login[l].cred.subject
                /\ d.password = login[l].cred.password

\* What a login knows at each of its steps.
LoginInv(l) ==
    /\ login[l].pc # "idle" => login[l].cred \in Request
    /\ login[l].pc \in {"find", "create", "refind", "issue"} => login[l].cred \in Credentials
    /\ login[l].pc \in {"findToken", "rotate"} =>
          login[l].use \in TokenId /\ login[l].cred.kind = "refresh"
    /\ login[l].pc = "rotate" =>
          \E t \in tokens : /\ t.id = login[l].use /\ t.account = login[l].account
                            /\ t.install = login[l].cred.install
    /\ login[l].pc \in {"issue", "ensure", "createPlayer", "refindPlayer", "link", "done"} =>
          Identified(l)
    /\ login[l].pc \in {"ensure", "createPlayer", "refindPlayer", "link", "done"} =>
          login[l].token \in TokenId
    /\ login[l].pc \in {"link", "done"} =>
          PlayerDocument(login[l].player, login[l].account) \in players
    /\ login[l].pc = "done" => login[l].player \in accounts[login[l].account]

EnrollmentInv ==
    TypeOK /\ DocumentInv /\ TokenInv /\ \A l \in Login : FreshInv(l) /\ LoginInv(l)

-----------------------------------------------------------------------------
(* What a step does to its login *)

Others(l) == \A k \in Login \ {l} : login'[k] = login[k]

\* A step of one login.
LEMMA Sets ==
    ASSUME TypeOK, NEW l \in Login, NEW r \in LoginRec, login' = [login EXCEPT ![l] = r]
    PROVE  login' \in [Login -> LoginRec] /\ Others(l) /\ login'[l] = r
BY Zenon DEF TypeOK, Others

\* Goto changes the step only.
LEMMA GotoFacts ==
    ASSUME TypeOK, NEW l \in Login, NEW pc \in Steps, Goto(l, pc)
    PROVE  /\ login' \in [Login -> LoginRec] /\ Others(l)
           /\ login'[l].pc = pc
           /\ login'[l].cred = login[l].cred /\ login'[l].use = login[l].use
           /\ login'[l].account = login[l].account /\ login'[l].token = login[l].token
           /\ login'[l].player = login[l].player
<1> DEFINE r == [login[l] EXCEPT !.pc = pc]
<1>1. login[l] \in LoginRec
  BY Zenon DEF TypeOK
<1>2. r \in LoginRec /\ login' = [login EXCEPT ![l] = r]
  BY <1>1, Zenon DEF Goto, LoginRec
<1>3. /\ r.pc = pc /\ r.cred = login[l].cred /\ r.use = login[l].use
      /\ r.account = login[l].account /\ r.token = login[l].token /\ r.player = login[l].player
  BY <1>1, Zenon DEF LoginRec
<1> HIDE DEF r
<1> QED BY <1>2, <1>3, Sets, Zenon

LEMMA GrantFacts ==
    ASSUME TypeOK, NEW l \in Login, NEW a \in Login, NEW t \in TokenId, Grant(l, Response(a, t))
    PROVE  /\ login' \in [Login -> LoginRec] /\ Others(l)
           /\ login'[l].pc = "ensure" /\ login'[l].account = a /\ login'[l].token = t
           /\ login'[l].cred = login[l].cred
<1> DEFINE r == [login[l] EXCEPT !.pc = "ensure", !.account = a, !.token = t]
<1>1. login[l] \in LoginRec
  BY Zenon DEF TypeOK
<1>2. login' = [login EXCEPT ![l] = r]
  BY Zenon DEF Grant, Response
<1>3. r \in LoginRec
  BY <1>1, Zenon DEF LoginRec, Steps
<1>4. r.pc = "ensure" /\ r.account = a /\ r.token = t /\ r.cred = login[l].cred
  BY <1>1, Zenon DEF LoginRec
<1> HIDE DEF r
<1> QED BY <1>2, <1>3, <1>4, Sets, Zenon

LEMMA WithPlayerFacts ==
    ASSUME TypeOK, NEW l \in Login, NEW p \in Login, WithPlayer(l, p)
    PROVE  /\ login' \in [Login -> LoginRec] /\ Others(l)
           /\ login'[l].pc = "link" /\ login'[l].player = p
           /\ login'[l].cred = login[l].cred /\ login'[l].token = login[l].token
           /\ login'[l].account = login[l].account
<1> DEFINE r == [login[l] EXCEPT !.pc = "link", !.player = p]
<1>1. login[l] \in LoginRec
  BY Zenon DEF TypeOK
<1>2. r \in LoginRec /\ login' = [login EXCEPT ![l] = r]
  BY <1>1, Zenon DEF WithPlayer, LoginRec, Steps
<1>3. /\ r.pc = "link" /\ r.player = p /\ r.cred = login[l].cred
      /\ r.token = login[l].token /\ r.account = login[l].account
  BY <1>1, Zenon DEF LoginRec
<1> HIDE DEF r
<1> QED BY <1>2, <1>3, Sets, Zenon

-----------------------------------------------------------------------------
(* What a step leaves to the other logins *)

\* Nothing that login k relies on is lost, and nothing takes one of its ids.
Keeps(k) ==
    /\ identities \subseteq identities' /\ players \subseteq players'
    /\ \A d \in identities : accounts[d.account] \subseteq accounts'[d.account]
    /\ \A t \in tokens : \E u \in tokens' :
          u.id = t.id /\ u.account = t.account /\ u.install = t.install
    /\ \A d \in identities' : d \in identities \/ d.account # k
    /\ \A t \in tokens' :
          \/ \E u \in tokens : u.id = t.id
          \/ t.id # <<k, "created">> /\ t.id # <<k, "issued">>

LEMMA KeptLogin ==
    ASSUME NEW k \in Login, FreshInv(k), LoginInv(k), login'[k] = login[k], Keeps(k)
    PROVE  FreshInv(k)' /\ LoginInv(k)'
<1>1. FreshInv(k)'
  BY DEF FreshInv, Keeps
<1>2. Identified(k) => Identified(k)'
  BY DEF Identified, Keeps
<1>3. login[k].pc = "done" => accounts[login[k].account] \subseteq accounts'[login[k].account]
  BY SMTT(20) DEF Keeps, LoginInv, Identified
<1>4. LoginInv(k)'
  BY <1>2, <1>3 DEF LoginInv, Keeps, PlayerDocument
<1> QED BY <1>1, <1>4

\* The parts of a step of login l.
LEMMA StepOf ==
    ASSUME EnrollmentInv, NEW l \in Login, login' \in [Login -> LoginRec], Others(l),
           /\ accounts' \in [Login -> (SUBSET Login) \cup {None}]
           /\ identities' \subseteq IdentityRec /\ tokens' \subseteq TokenRec
           /\ players' \subseteq [id : Login, account : Login]
           /\ faults' \in 0 .. MaxFaults,
           DocumentInv', TokenInv', FreshInv(l)', LoginInv(l)', \A k \in Login \ {l} : Keeps(k)
    PROVE  EnrollmentInv'
<1>1. TypeOK'
  BY DEF TypeOK
<1>2. ASSUME NEW k \in Login \ {l}
      PROVE  FreshInv(k)' /\ LoginInv(k)'
  BY <1>2, KeptLogin DEF Others, EnrollmentInv
<1> QED BY <1>1, <1>2 DEF EnrollmentInv

\* No document changes.
Reads == UNCHANGED <<accounts, identities, tokens, players>>

LEMMA ReadStep ==
    ASSUME EnrollmentInv, NEW l \in Login, Reads, login' \in [Login -> LoginRec], Others(l),
           faults' \in 0 .. MaxFaults, FreshInv(l)', LoginInv(l)'
    PROVE  EnrollmentInv'
<1>1. DocumentInv'
  BY DEF EnrollmentInv, DocumentInv, Reads
<1>2. TokenInv'
  BY DEF EnrollmentInv, TokenInv, TokensRotateOnce, Reads
<1>3. \A k \in Login : Keeps(k)
  BY DEF Keeps, Reads
<1> QED BY <1>1, <1>2, <1>3, StepOf DEF EnrollmentInv, TypeOK, Reads

\* A login that fails holds nothing more to be kept.
LEMMA FailedLogin ==
    ASSUME EnrollmentInv, NEW l \in Login, Fail(l), login[l].pc # "idle"
    PROVE  login' \in [Login -> LoginRec] /\ Others(l) /\ FreshInv(l)' /\ LoginInv(l)'
<1>1. /\ login' \in [Login -> LoginRec] /\ Others(l)
      /\ login'[l].pc = "failed" /\ login'[l].cred = login[l].cred
  BY GotoFacts DEF EnrollmentInv, Fail, Steps
<1>2. login[l].cred \in Request
  BY DEF EnrollmentInv, LoginInv
<1> QED BY <1>1, <1>2 DEF FreshInv, LoginInv

\* A fault is counted within its bound.
LEMMA FaultCounted ==
    ASSUME TypeOK, faults < MaxFaults, faults' = faults + 1
    PROVE  faults' \in 0 .. MaxFaults
BY FaultAssumption DEF TypeOK

-----------------------------------------------------------------------------
(* The steps that only read *)

\* A credential is a request with an identity's kind, subject and password.
LEMMA CredentialFacts ==
    ASSUME NEW c \in Credentials
    PROVE  /\ c \in Request /\ c.kind \in {"guest", "password"}
           /\ c.subject \in Install \cup Username /\ c.password \in Password \cup {None}
           /\ c.install \in Install
BY DEF Credentials, Guest, ByPassword, Request

\* What the invariant says of one login.
LEMMA Knows == ASSUME EnrollmentInv, NEW l \in Login PROVE TypeOK /\ FreshInv(l) /\ LoginInv(l)
BY Zenon DEF EnrollmentInv

LEMMA IdentityKnown ==
    ASSUME EnrollmentInv, NEW l \in Login,
           login[l].pc \in {"issue", "ensure", "createPlayer", "refindPlayer", "link", "done"}
    PROVE  Identified(l)
BY Knows, Zenon DEF LoginInv

LEMMA IdentifiedKept ==
    ASSUME NEW l \in Login, Identified(l), identities \subseteq identities',
           login'[l].account = login[l].account, login'[l].cred = login[l].cred
    PROVE  Identified(l)'
BY Zenon DEF Identified

\* Once its account is there a login has no more ids to use.
LEMMA NothingFresh ==
    ASSUME NEW l \in Login, login'[l].pc \in {"ensure", "refindPlayer", "link"}
    PROVE  FreshInv(l)'
BY DEF FreshInv

LEMMA BeginKeeps ==
    ASSUME EnrollmentInv, NEW l \in Login, Begin(l)
    PROVE  EnrollmentInv'
<1>1. PICK c \in Credentials : login' = [login EXCEPT ![l].pc = "find", ![l].cred = c]
  BY Zenon DEF Begin
<1> DEFINE r == [login[l] EXCEPT !.pc = "find", !.cred = c]
<1>2. login[l] \in LoginRec /\ login[l].pc = "idle"
  BY Zenon DEF EnrollmentInv, TypeOK, Begin
<1>3. c \in Request
  BY CredentialFacts
<1>4. r \in LoginRec /\ login' = [login EXCEPT ![l] = r]
  BY <1>1, <1>2, <1>3, Zenon DEF LoginRec, Steps
<1>5. r.pc = "find" /\ r.cred = c
  BY <1>2, Zenon DEF LoginRec
<1> HIDE DEF r
<1>6. login' \in [Login -> LoginRec] /\ Others(l) /\ login'[l].pc = "find" /\ login'[l].cred = c
  BY <1>4, <1>5, Sets, Zenon DEF EnrollmentInv
<1>7. Reads /\ faults' \in 0 .. MaxFaults
  BY DEF Begin, Reads, EnrollmentInv, TypeOK
<1>8. FreshInv(l)'
  BY <1>2, <1>6, <1>7 DEF FreshInv, EnrollmentInv, Reads
<1>9. LoginInv(l)'
  BY <1>3, <1>6 DEF LoginInv
<1> QED BY <1>6, <1>7, <1>8, <1>9, ReadStep

\* A login that found its identity goes on with the identity's account, or
\* fails on the password.
LEMMA UseIdentityFacts ==
    ASSUME EnrollmentInv, NEW l \in Login, login[l].pc \in {"find", "refind"}, Reads,
           UseIdentity(l, Identity(login[l].cred))
    PROVE  login' \in [Login -> LoginRec] /\ Others(l) /\ FreshInv(l)' /\ LoginInv(l)'
<1>1. PICK d \in Identity(login[l].cred) :
          \/ /\ Accepted(login[l].cred, d)
             /\ login' = [login EXCEPT ![l].pc = "issue", ![l].account = d.account]
          \/ Fail(l)
  BY DEF UseIdentity
<1>2. CASE Fail(l)
  BY <1>2, FailedLogin
<1>3. CASE /\ Accepted(login[l].cred, d)
           /\ login' = [login EXCEPT ![l].pc = "issue", ![l].account = d.account]
  <2> DEFINE r == [login[l] EXCEPT !.pc = "issue", !.account = d.account]
  <2>1. d \in identities /\ d.kind = login[l].cred.kind /\ d.subject = login[l].cred.subject
    BY DEF Identity
  <2>2. d.account \in Login
    BY <2>1 DEF EnrollmentInv, TypeOK, IdentityRec
  <2>3. login[l] \in LoginRec
    BY Zenon DEF EnrollmentInv, TypeOK
  <2>4. r \in LoginRec /\ login' = [login EXCEPT ![l] = r]
    BY <1>3, <2>2, <2>3, Zenon DEF LoginRec, Steps
  <2>5. r.pc = "issue" /\ r.account = d.account /\ r.cred = login[l].cred
    BY <2>3, Zenon DEF LoginRec
  <2> HIDE DEF r
  <2>6. /\ login' \in [Login -> LoginRec] /\ Others(l)
        /\ login'[l].pc = "issue" /\ login'[l].account = d.account
        /\ login'[l].cred = login[l].cred
    BY <2>4, <2>5, Sets, Zenon DEF EnrollmentInv
  <2>7. FreshInv(l)'
    BY <2>6 DEF FreshInv, EnrollmentInv, Reads
  <2>8. Identified(l)'
    BY <1>3, <2>1, <2>2, <2>6, Zenon DEF Identified, Accepted, Reads
  <2>9. LoginInv(l)'
    BY <2>6, <2>8 DEF LoginInv, EnrollmentInv
  <2> QED BY <2>6, <2>7, <2>9
<1> QED BY <1>1, <1>2, <1>3

LEMMA FindIdentityKeeps ==
    ASSUME EnrollmentInv, NEW l \in Login, FindIdentity(l)
    PROVE  EnrollmentInv'
<1>1. login[l].pc = "find" /\ Reads /\ faults' \in 0 .. MaxFaults
  BY DEF FindIdentity, Reads, EnrollmentInv, TypeOK
<1>2. CASE Goto(l, "create")
  <2>1. /\ login' \in [Login -> LoginRec] /\ Others(l)
        /\ login'[l].pc = "create" /\ login'[l].cred = login[l].cred
    BY <1>2, GotoFacts, SMTT(20) DEF EnrollmentInv, Steps
  <2>2. FreshInv(l)' /\ LoginInv(l)'
    BY <1>1, <2>1 DEF FreshInv, LoginInv, EnrollmentInv, Reads
  <2> QED BY <1>1, <2>1, <2>2, ReadStep, Zenon
<1>3. CASE UseIdentity(l, Identity(login[l].cred))
  BY <1>1, <1>3, UseIdentityFacts, ReadStep
<1> QED BY <1>2, <1>3 DEF FindIdentity

LEMMA RefindIdentityKeeps ==
    ASSUME EnrollmentInv, NEW l \in Login, RefindIdentity(l)
    PROVE  EnrollmentInv'
<1>1. login[l].pc = "refind" /\ Reads /\ faults' \in 0 .. MaxFaults
  BY DEF RefindIdentity, Reads, EnrollmentInv, TypeOK
<1>2. CASE Fail(l)
  BY <1>1, <1>2, FailedLogin, ReadStep
<1>3. CASE UseIdentity(l, Identity(login[l].cred))
  BY <1>1, <1>3, UseIdentityFacts, ReadStep
<1> QED BY <1>2, <1>3 DEF RefindIdentity

LEMMA BeginRefreshKeeps ==
    ASSUME EnrollmentInv, NEW l \in Login, BeginRefresh(l)
    PROVE  EnrollmentInv'
<1> DEFINE c(i) == [kind |-> "refresh", subject |-> None, password |-> None, install |-> i]
<1>1. PICK k \in Login, i \in Install :
          /\ login[k].pc = "done"
          /\ login' = [login EXCEPT ![l].pc = "findToken", ![l].use = login[k].token,
                                    ![l].cred = c(i)]
  BY Zenon DEF BeginRefresh
<1> DEFINE r == [login[l] EXCEPT !.pc = "findToken", !.use = login[k].token, !.cred = c(i)]
<1>2. login[l] \in LoginRec /\ login[l].pc = "idle"
  BY Zenon DEF EnrollmentInv, TypeOK, BeginRefresh
<1>3. c(i) \in Request /\ c(i).kind = "refresh"
  BY DEF Request
<1>4. login[k].token \in TokenId
  BY <1>1 DEF EnrollmentInv, LoginInv
<1> HIDE DEF c
<1>5. r \in LoginRec /\ login' = [login EXCEPT ![l] = r]
  BY <1>1, <1>2, <1>3, <1>4, Zenon DEF LoginRec, Steps
<1>6. r.pc = "findToken" /\ r.cred = c(i) /\ r.use = login[k].token
  BY <1>2, Zenon DEF LoginRec
<1> HIDE DEF r
<1>7. /\ login' \in [Login -> LoginRec] /\ Others(l) /\ login'[l].pc = "findToken"
      /\ login'[l].cred = c(i) /\ login'[l].use = login[k].token
  BY <1>5, <1>6, Sets, Zenon DEF EnrollmentInv
<1>8. Reads /\ faults' \in 0 .. MaxFaults
  BY DEF BeginRefresh, Reads, EnrollmentInv, TypeOK
<1>9. FreshInv(l)'
  BY <1>2, <1>7, <1>8 DEF FreshInv, EnrollmentInv, Reads
<1>10. LoginInv(l)'
  BY <1>3, <1>4, <1>7 DEF LoginInv
<1> QED BY <1>7, <1>8, <1>9, <1>10, ReadStep, Zenon

LEMMA FindTokenKeeps ==
    ASSUME EnrollmentInv, NEW l \in Login, FindToken(l)
    PROVE  EnrollmentInv'
<1>1. login[l].pc = "findToken" /\ Reads /\ faults' \in 0 .. MaxFaults
  BY DEF FindToken, Reads, EnrollmentInv, TypeOK
<1>2. CASE Fail(l)
  BY <1>1, <1>2, FailedLogin, ReadStep
<1>3. ASSUME NEW x \in Valid(login[l].use), x.install = login[l].cred.install,
             login' = [login EXCEPT ![l].pc = "rotate", ![l].account = x.account]
      PROVE  EnrollmentInv'
  <2> DEFINE r == [login[l] EXCEPT !.pc = "rotate", !.account = x.account]
  <2>1. x \in tokens /\ x.id = login[l].use
    BY DEF Valid
  <2>2. x.account \in Login
    BY <2>1 DEF EnrollmentInv, TypeOK, TokenRec
  <2>3. login[l] \in LoginRec
    BY Zenon DEF EnrollmentInv, TypeOK
  <2>4. r \in LoginRec /\ login' = [login EXCEPT ![l] = r]
    BY <1>3, <2>2, <2>3, Zenon DEF LoginRec, Steps
  <2>5. /\ r.pc = "rotate" /\ r.account = x.account /\ r.cred = login[l].cred
        /\ r.use = login[l].use
    BY <2>3, Zenon DEF LoginRec
  <2> HIDE DEF r
  <2>6. /\ login' \in [Login -> LoginRec] /\ Others(l)
        /\ login'[l].pc = "rotate" /\ login'[l].account = x.account
        /\ login'[l].cred = login[l].cred /\ login'[l].use = login[l].use
    BY <2>4, <2>5, Sets, Zenon DEF EnrollmentInv
  <2>7. FreshInv(l)'
    BY <1>1, <2>6 DEF FreshInv, EnrollmentInv, Reads
  <2>8. LoginInv(l)'
    BY <1>1, <1>3, <2>1, <2>6 DEF LoginInv, EnrollmentInv, Reads
  <2> QED BY <1>1, <2>6, <2>7, <2>8, ReadStep
<1> QED BY <1>2, <1>3 DEF FindToken

\* A login that found a player of its account goes on to link it.
LEMMA PlayerFound ==
    ASSUME EnrollmentInv, NEW l \in Login, login[l].pc \in {"ensure", "refindPlayer"}, Reads,
           NEW p \in DefaultPlayer(login[l].account), WithPlayer(l, p.id)
    PROVE  login' \in [Login -> LoginRec] /\ Others(l) /\ FreshInv(l)' /\ LoginInv(l)'
<1>1. p \in [id : Login, account : Login] /\ p \in players /\ p.account = login[l].account
  BY DEF DefaultPlayer, EnrollmentInv, TypeOK
<1>2. p.id \in Login /\ p = PlayerDocument(p.id, login[l].account)
  BY <1>1 DEF PlayerDocument
<1>3. /\ login' \in [Login -> LoginRec] /\ Others(l)
      /\ login'[l].pc = "link" /\ login'[l].player = p.id
      /\ login'[l].cred = login[l].cred /\ login'[l].token = login[l].token
      /\ login'[l].account = login[l].account
  BY <1>2, WithPlayerFacts DEF EnrollmentInv
<1>4. FreshInv(l)'
  BY <1>3, Zenon DEF FreshInv
<1>5. Identified(l)'
  BY <1>3 DEF EnrollmentInv, LoginInv, Identified, Reads
<1>6. PlayerDocument(login'[l].player, login'[l].account) \in players'
  BY <1>1, <1>2, <1>3 DEF Reads
<1>7. LoginInv(l)'
  BY <1>3, <1>5, <1>6, Zenon DEF LoginInv, EnrollmentInv, PlayerDocument
<1> QED BY <1>3, <1>4, <1>7

LEMMA FindPlayerKeeps ==
    ASSUME EnrollmentInv, NEW l \in Login, FindPlayer(l)
    PROVE  EnrollmentInv'
<1>1. login[l].pc = "ensure" /\ Reads /\ faults' \in 0 .. MaxFaults
  BY Zenon DEF FindPlayer, Reads, EnrollmentInv, TypeOK
<1>2. CASE Goto(l, "createPlayer")
  <2>1. /\ login' \in [Login -> LoginRec] /\ Others(l) /\ login'[l].pc = "createPlayer"
        /\ login'[l].cred = login[l].cred /\ login'[l].account = login[l].account
        /\ login'[l].token = login[l].token
    BY <1>2, GotoFacts, Zenon DEF EnrollmentInv, Steps
  <2>2. FreshInv(l)' /\ LoginInv(l)'
    BY <1>1, <2>1, SMTT(20) DEF FreshInv, LoginInv, Identified, EnrollmentInv, Reads
  <2> QED BY <1>1, <2>1, <2>2, ReadStep, Zenon
<1>3. ASSUME NEW p \in DefaultPlayer(login[l].account), WithPlayer(l, p.id)
      PROVE  EnrollmentInv'
  BY <1>1, <1>3, PlayerFound, ReadStep, Zenon
<1> QED BY <1>2, <1>3 DEF FindPlayer

LEMMA RefindPlayerKeeps ==
    ASSUME EnrollmentInv, NEW l \in Login, RefindPlayer(l)
    PROVE  EnrollmentInv'
<1>1. login[l].pc = "refindPlayer" /\ Reads /\ faults' \in 0 .. MaxFaults
  BY DEF RefindPlayer, Reads, EnrollmentInv, TypeOK
<1>2. CASE Fail(l)
  BY <1>1, <1>2, FailedLogin, ReadStep
<1>3. ASSUME NEW p \in DefaultPlayer(login[l].account), WithPlayer(l, p.id)
      PROVE  EnrollmentInv'
  BY <1>1, <1>3, PlayerFound, ReadStep
<1> QED BY <1>2, <1>3 DEF RefindPlayer

LEMMA CallFailsKeeps ==
    ASSUME EnrollmentInv, NEW l \in Login, CallFails(l)
    PROVE  EnrollmentInv'
<1>1. login[l].pc # "idle" /\ Fail(l) /\ Reads
  BY DEF CallFails, Reads
<1>2. faults' \in 0 .. MaxFaults
  BY FaultCounted DEF CallFails, EnrollmentInv
<1> QED BY <1>1, <1>2, FailedLogin, ReadStep

-----------------------------------------------------------------------------
(* The steps that write *)

LEMMA TokenFields ==
    ASSUME NEW id \in TokenId, NEW a \in Login, NEW i \in Install, NEW from \in TokenId \cup {None}
    PROVE  /\ Token(id, a, i, from) \in TokenRec
           /\ Token(id, a, i, from).id = id /\ Token(id, a, i, from).account = a
           /\ Token(id, a, i, from).install = i /\ Token(id, a, i, from).from = from
BY DEF Token, TokenRec

LEMMA FirstTokenFields ==
    ASSUME NEW l \in Login, NEW a \in Login, NEW i \in Install
    PROVE  /\ Token(<<l, "issued">>, a, i, None) \in TokenRec
           /\ Token(<<l, "issued">>, a, i, None).id = <<l, "issued">>
           /\ Token(<<l, "issued">>, a, i, None).account = a
           /\ Token(<<l, "issued">>, a, i, None).from = None
BY DEF Token, TokenRec, TokenId

\* The same for the token that replaces another.
LEMMA IssuedFields ==
    ASSUME NEW l \in Login, NEW a \in Login, NEW i \in Install, NEW from \in TokenId
    PROVE  /\ Token(<<l, "issued">>, a, i, from) \in TokenRec
           /\ Token(<<l, "issued">>, a, i, from).id = <<l, "issued">>
           /\ Token(<<l, "issued">>, a, i, from).account = a
           /\ Token(<<l, "issued">>, a, i, from).install = i
           /\ Token(<<l, "issued">>, a, i, from).from = from
BY DEF Token, TokenRec, TokenId

\* A token under a new id that replaces no other.
LEMMA TokenAdded ==
    ASSUME EnrollmentInv, NEW t \in TokenRec, tokens' = tokens \cup {t}, t.from = None,
           \A s \in tokens : s.id # t.id,
           identities \subseteq identities', \E d \in identities' : d.account = t.account
    PROVE  TokenInv' /\ tokens' \subseteq TokenRec
<1>1. t.id \in TokenId /\ t.id # None
  BY NoneAssumption DEF TokenRec
<1>2. /\ \A u, v \in tokens' : u.id = v.id => u = v
      /\ \A u \in tokens' : \E d \in identities' : d.account = u.account
      /\ \A u \in tokens' : u.from # None => \E v \in tokens' : v.id = u.from
  BY DEF EnrollmentInv, TokenInv
<1>3. \A u \in tokens : u.from # t.id
  BY <1>1 DEF EnrollmentInv, TokenInv
<1>4. \A u \in tokens : u.id # None
  BY NoneAssumption DEF EnrollmentInv, TypeOK, TokenRec
<1>5. TokensRotateOnce'
  BY <1>1, <1>3, <1>4 DEF EnrollmentInv, TokenInv, TokensRotateOnce
<1> QED BY <1>2, <1>5 DEF TokenInv, EnrollmentInv, TypeOK

\* createAccountAndToken's transaction: account, identity and token together.
LEMMA NewAccountFacts ==
    ASSUME EnrollmentInv, NEW l \in Login, login[l].pc = "create", IdentityIsNew(l),
           NewAccount(l), players' = players
    PROVE  /\ accounts' \in [Login -> (SUBSET Login) \cup {None}]
           /\ identities' \subseteq IdentityRec /\ tokens' \subseteq TokenRec
           /\ DocumentInv' /\ TokenInv'
           /\ \A k \in Login \ {l} : Keeps(k)
           /\ IdentityDocument(login[l].cred, l) \in identities'
           /\ \A t \in tokens' : t.id # <<l, "issued">>
<1> DEFINE c == login[l].cred
           e == IdentityDocument(c, l)
           t == Token(<<l, "created">>, l, c.install, None)
<1>1. /\ c \in Credentials /\ \A d \in identities : d.account # l
      /\ \A s \in tokens : s.id # <<l, "created">> /\ s.id # <<l, "issued">>
  BY DEF EnrollmentInv, LoginInv, FreshInv
<1>2. /\ c.kind \in {"guest", "password"} /\ c.subject \in Install \cup Username
      /\ c.password \in Password \cup {None} /\ c.install \in Install
  BY <1>1, CredentialFacts
<1>3. e \in IdentityRec /\ e.kind = c.kind /\ e.subject = c.subject /\ e.account = l
  BY <1>2, Zenon DEF IdentityDocument, IdentityRec
<1>4. /\ t \in TokenRec /\ t.id = <<l, "created">> /\ t.account = l /\ t.from = None
  BY <1>2, TokenFields DEF TokenId
<1>5. identities' = identities \cup {e} /\ tokens' = tokens \cup {t}
  BY Zenon DEF NewAccount, InsertIdentity, InsertToken
<1>6. accounts' = [accounts EXCEPT ![l] = {}]
  BY DEF NewAccount, InsertAccount
<1> HIDE DEF e, t
<1>7. TokenInv' /\ tokens' \subseteq TokenRec
  BY <1>1, <1>3, <1>4, <1>5, TokenAdded, Zenon
<1>8. /\ accounts' \in [Login -> (SUBSET Login) \cup {None}]
      /\ accounts'[l] = {} /\ \A a \in Login \ {l} : accounts'[a] = accounts[a]
  BY <1>6, Zenon DEF EnrollmentInv, TypeOK
<1>9. identities' \subseteq IdentityRec /\ \A d \in identities' : d.account \in Login
  BY <1>3, <1>5 DEF EnrollmentInv, TypeOK, IdentityRec
<1>10. \A d \in identities : d.kind # c.kind \/ d.subject # c.subject
  BY DEF IdentityIsNew, Identity
<1>11. {} # None
  BY NoneAssumption, Zenon
<1>12. /\ \A d, f \in identities' : d.kind = f.kind /\ d.subject = f.subject => d = f
       /\ \A d, f \in identities' : d.account = f.account => d = f
  BY <1>1, <1>3, <1>5, <1>10, SMTT(20) DEF EnrollmentInv, DocumentInv
<1>13. \A d \in identities' : accounts'[d.account] # None
  BY <1>1, <1>3, <1>5, <1>8, <1>9, <1>11, Zenon DEF EnrollmentInv, DocumentInv
<1>14. \A a \in Login : accounts'[a] # None =>
          \A x \in accounts'[a] : PlayerDocument(x, a) \in players'
  BY <1>8, Zenon DEF EnrollmentInv, DocumentInv
<1>15. DocumentInv'
  BY <1>12, <1>13, <1>14, Zenon DEF DocumentInv, EnrollmentInv, PlayerDocument
<1>16. ASSUME NEW k \in Login \ {l} PROVE Keeps(k)
  <2>1. \A d \in identities : accounts[d.account] \subseteq accounts'[d.account]
    BY <1>1, <1>5, <1>8, <1>9, Zenon
  <2>2. t.id # <<k, "created">> /\ t.id # <<k, "issued">>
    BY <1>4
  <2>3. e.account # k
    BY <1>3
  <2> QED BY <1>5, <2>1, <2>2, <2>3, Zenon DEF Keeps
<1>17. \A s \in tokens' : s.id # <<l, "issued">>
  BY <1>1, <1>4, <1>5
<1> QED BY <1>5, <1>7, <1>8, <1>9, <1>15, <1>16, <1>17, Zenon DEF e

LEMMA CreateAccountKeeps ==
    ASSUME EnrollmentInv, NEW l \in Login, CreateAccount(l)
    PROVE  EnrollmentInv'
<1> DEFINE c == login[l].cred
<1>1. /\ login[l].pc = "create" /\ players' = players /\ faults' \in 0 .. MaxFaults
      /\ c \in Credentials /\ c \in Request
  BY CredentialFacts, Zenon DEF CreateAccount, EnrollmentInv, TypeOK, LoginInv
<1>2. CASE IdentityIsNew(l) /\ NewAccount(l) /\ Grant(l, Response(l, <<l, "created">>))
  <2>1. /\ login' \in [Login -> LoginRec] /\ Others(l) /\ login'[l].pc = "ensure"
        /\ login'[l].account = l /\ login'[l].token = <<l, "created">> /\ login'[l].cred = c
    BY <1>2, GrantFacts DEF EnrollmentInv, TokenId
  <2>2. FreshInv(l)'
    BY <2>1, Zenon DEF FreshInv
  <2>3. Identified(l)'
    <3> DEFINE e == IdentityDocument(c, l)
    <3>1. /\ e \in identities' /\ e.account = l /\ e.kind = c.kind /\ e.subject = c.subject
          /\ e.password = c.password
      BY <1>1, <1>2, NewAccountFacts, Zenon DEF IdentityDocument
    <3> HIDE DEF e
    <3> QED BY <2>1, <3>1, Zenon DEF Identified
  <2>4. LoginInv(l)'
    BY <1>1, <2>1, <2>3 DEF LoginInv, TokenId
  <2>5. players' \subseteq [id : Login, account : Login]
    BY <1>1, Zenon DEF EnrollmentInv, TypeOK
  <2> QED BY <1>1, <1>2, <2>1, <2>2, <2>4, <2>5, NewAccountFacts, StepOf, Zenon
<1>3. CASE Goto(l, "refind") /\ UNCHANGED <<accounts, identities, tokens>>
  <2>1. /\ login' \in [Login -> LoginRec] /\ Others(l) /\ login'[l].pc = "refind"
        /\ login'[l].cred = c
    BY <1>3, GotoFacts, Zenon DEF EnrollmentInv, Steps
  <2>2. Reads
    BY <1>1, <1>3, Zenon DEF Reads
  <2>3. FreshInv(l)' /\ LoginInv(l)'
    BY <1>1, <2>1, <2>2 DEF FreshInv, LoginInv, EnrollmentInv, Reads
  <2> QED BY <1>1, <2>1, <2>2, <2>3, ReadStep, Zenon
<1> QED BY <1>2, <1>3, Zenon DEF CreateAccount

LEMMA CreateAccountFailsKeeps ==
    ASSUME EnrollmentInv, NEW l \in Login, CreateAccountFails(l)
    PROVE  EnrollmentInv'
<1>1. /\ login[l].pc = "create" /\ players' = players /\ Goto(l, "refind")
      /\ login[l].cred \in Credentials /\ login[l].cred \in Request
  BY CredentialFacts, Zenon DEF CreateAccountFails, EnrollmentInv, LoginInv
<1>2. faults' \in 0 .. MaxFaults
  BY FaultCounted, Zenon DEF CreateAccountFails, EnrollmentInv
<1>3. /\ login' \in [Login -> LoginRec] /\ Others(l) /\ login'[l].pc = "refind"
      /\ login'[l].cred = login[l].cred
  BY <1>1, GotoFacts, SMTT(20) DEF EnrollmentInv, Steps
<1>4. LoginInv(l)'
  BY <1>1, <1>3 DEF LoginInv
<1>5. CASE IdentityIsNew(l) /\ NewAccount(l)
  <2>1. FreshInv(l)'
    BY <1>1, <1>3, <1>5, NewAccountFacts, Zenon DEF FreshInv
  <2>2. players' \subseteq [id : Login, account : Login]
    BY <1>1 DEF EnrollmentInv, TypeOK
  <2> QED BY <1>1, <1>2, <1>3, <1>4, <1>5, <2>1, <2>2, NewAccountFacts, StepOf, Zenon
<1>6. CASE UNCHANGED <<accounts, identities, tokens>>
  <2>1. Reads
    BY <1>1, <1>6, Zenon DEF Reads
  <2>2. FreshInv(l)'
    BY <1>1, <1>3, <2>1 DEF FreshInv, EnrollmentInv, Reads
  <2> QED BY <1>2, <1>3, <1>4, <2>1, <2>2, ReadStep
<1> QED BY <1>5, <1>6, Zenon DEF CreateAccountFails, Failed

LEMMA IssueTokenKeeps ==
    ASSUME EnrollmentInv, NEW l \in Login, IssueToken(l)
    PROVE  EnrollmentInv'
<1> DEFINE c == login[l].cred
           a == login[l].account
           t == Token(<<l, "issued">>, a, c.install, None)
<1>1. /\ login[l].pc = "issue" /\ Identified(l) /\ a \in Login /\ c \in Credentials
      /\ c \in Request /\ c.install \in Install
  <2>1. login[l].pc = "issue"
    BY Zenon DEF IssueToken
  <2>2. Identified(l) /\ c \in Credentials
    BY <2>1, Knows, Zenon DEF LoginInv
  <2>3. a \in Login
    BY <2>2, Zenon DEF Identified
  <2> QED BY <2>1, <2>2, <2>3, CredentialFacts, Zenon
<1>2. UNCHANGED <<accounts, identities, players>> /\ faults' \in 0 .. MaxFaults
  BY Zenon DEF IssueToken, EnrollmentInv, TypeOK
<1>3. t \in TokenRec /\ t.id = <<l, "issued">> /\ t.account = a /\ t.from = None
  BY <1>1, FirstTokenFields
<1>4. tokens' = tokens \cup {t}
  BY Zenon DEF IssueToken, InsertToken
<1> HIDE DEF t
<1>5. \A s \in tokens : s.id # <<l, "issued">>
  BY <1>1, Knows, Zenon DEF FreshInv
<1>6. TokenInv' /\ tokens' \subseteq TokenRec
  BY <1>1, <1>2, <1>3, <1>4, <1>5, TokenAdded DEF Identified
<1>7. DocumentInv'
  BY <1>2, Zenon DEF EnrollmentInv, DocumentInv, PlayerDocument
<1>8. /\ login' \in [Login -> LoginRec] /\ Others(l) /\ login'[l].pc = "ensure"
      /\ login'[l].account = a /\ login'[l].token = <<l, "issued">> /\ login'[l].cred = c
  BY <1>1, GrantFacts DEF IssueToken, EnrollmentInv, TokenId
<1>9. FreshInv(l)'
  BY <1>8, NothingFresh, Zenon
<1>10. Identified(l)'
  BY <1>1, <1>2, <1>8, IdentifiedKept, Zenon
<1>11. LoginInv(l)'
  BY <1>1, <1>8, <1>10, SMTT(20) DEF LoginInv, TokenId
<1>12. ASSUME NEW k \in Login \ {l} PROVE Keeps(k)
  <2>1. t.id # <<k, "created">> /\ t.id # <<k, "issued">>
    BY <1>3
  <2> QED BY <1>2, <1>4, <2>1, Zenon DEF Keeps
<1>13. /\ accounts' \in [Login -> (SUBSET Login) \cup {None}] /\ identities' \subseteq IdentityRec
       /\ players' \subseteq [id : Login, account : Login]
  BY <1>2 DEF EnrollmentInv, TypeOK
<1> QED BY <1>2, <1>6, <1>7, <1>8, <1>9, <1>11, <1>12, <1>13, StepOf, Zenon

\* Revoking a token changes nothing else about it.
LEMMA RevokedToken ==
    ASSUME NEW x \in TokenRec
    PROVE  LET y == [x EXCEPT !.revoked = TRUE]
           IN  /\ y \in TokenRec /\ y.revoked
               /\ y.id = x.id /\ y.account = x.account /\ y.install = x.install
               /\ y.from = x.from
BY Zenon DEF TokenRec

LEMMA RevokeKeeps ==
    ASSUME EnrollmentInv, NEW t \in TokenId, Revoke(t)
    PROVE  EnrollmentInv'
<1>1. PICK x \in Valid(t) : tokens' = Revoked(x)
  BY DEF Revoke
<1> DEFINE y == [x EXCEPT !.revoked = TRUE]
<1>2. x \in tokens /\ x \in TokenRec
  BY DEF Valid, EnrollmentInv, TypeOK
<1>3. /\ y \in TokenRec /\ y.revoked
      /\ y.id = x.id /\ y.account = x.account /\ y.install = x.install /\ y.from = x.from
  BY <1>2, RevokedToken
<1>4. tokens' = (tokens \ {x}) \cup {y}
  BY <1>1 DEF Revoked
<1> HIDE DEF y
<1>5. UNCHANGED <<accounts, identities, players, login, faults>>
  BY DEF Revoke
<1>6. /\ \A u, v \in tokens' : u.id = v.id => u = v
      /\ \A u \in tokens' : \E d \in identities' : d.account = u.account
  BY <1>2, <1>3, <1>4, <1>5, SMTT(20) DEF EnrollmentInv, TokenInv
<1>7. \A u \in tokens' : u.from # None => \E v \in tokens' : v.id = u.from
  BY <1>2, <1>3, <1>4, SMTT(20) DEF EnrollmentInv, TokenInv
<1>8. TokensRotateOnce'
  BY <1>2, <1>3, <1>4, SMTT(20) DEF EnrollmentInv, TokenInv, TokensRotateOnce
<1>9. TokenInv'
  BY <1>6, <1>7, <1>8, Zenon DEF TokenInv
<1>10. DocumentInv'
  BY <1>5, Zenon DEF EnrollmentInv, DocumentInv, PlayerDocument
<1>11. \A k \in Login : Keeps(k)
  BY <1>2, <1>3, <1>4, <1>5 DEF Keeps
<1>12. \A k \in Login : FreshInv(k)' /\ LoginInv(k)'
  BY <1>5, <1>11, KeptLogin DEF EnrollmentInv
<1>13. TypeOK'
  BY <1>3, <1>4, <1>5, Zenon DEF EnrollmentInv, TypeOK
<1> QED BY <1>9, <1>10, <1>12, <1>13, Zenon DEF EnrollmentInv

\* Rotate's transaction: the token that was found is revoked and replaced.
LEMMA RotatedFacts ==
    ASSUME EnrollmentInv, NEW l \in Login, login[l].pc = "rotate", Rotated(l),
           UNCHANGED <<accounts, identities, players>>
    PROVE  /\ tokens' \subseteq TokenRec /\ TokenInv' /\ DocumentInv'
           /\ \A k \in Login \ {l} : Keeps(k)
           /\ login[l].account \in Login
           /\ \E d \in identities' : d.account = login[l].account
<1> DEFINE c == login[l].cred
<1>1. PICK x \in Rotatable(login[l].use) :
          tokens' = Revoked(x) \cup {Token(<<l, "issued">>, x.account, c.install, x.id)}
  BY DEF Rotated
<1> DEFINE y == [x EXCEPT !.revoked = TRUE]
           n == Token(<<l, "issued">>, x.account, c.install, x.id)
<1>2. x \in tokens /\ x \in TokenRec /\ x.id = login[l].use /\ ~x.revoked
  BY Zenon DEF Rotatable, Valid, EnrollmentInv, TypeOK
<1>3. x.account = login[l].account /\ x.install = c.install
  BY <1>2 DEF EnrollmentInv, LoginInv, TokenInv
<1>4. x.id \in TokenId /\ x.account \in Login /\ x.install \in Install /\ x.id # None
  BY <1>2, NoneAssumption DEF TokenRec
<1>5. /\ y \in TokenRec /\ y.revoked
      /\ y.id = x.id /\ y.account = x.account /\ y.install = x.install /\ y.from = x.from
  BY <1>2, RevokedToken, Zenon
<1>6. /\ n \in TokenRec /\ n.id = <<l, "issued">> /\ n.account = x.account
      /\ n.install = x.install /\ n.from = x.id
  <2>1. c.install \in Install
    BY <1>3, <1>4, Zenon
  <2>2. /\ n \in TokenRec /\ n.id = <<l, "issued">> /\ n.account = x.account
        /\ n.install = c.install /\ n.from = x.id
    BY <1>4, <2>1, IssuedFields
  <2> QED BY <1>3, <2>2, Zenon
<1>7. tokens' = ((tokens \ {x}) \cup {y}) \cup {n}
  BY <1>1, Zenon DEF Revoked
<1> HIDE DEF y, n
<1>8. \A s \in tokens : s.id # n.id
  BY <1>6, Zenon DEF EnrollmentInv, FreshInv
<1>9. n.id # None
  BY <1>6, NoneAssumption, Zenon DEF TokenRec
<1>10. \A s \in tokens : s.from # n.id
  BY <1>8, <1>9, Zenon DEF EnrollmentInv, TokenInv
<1>11. \A s \in tokens : s.from # x.id
  BY <1>2, Zenon DEF EnrollmentInv, TokenInv, TokensRotateOnce
<1>12. \A u, v \in tokens' : u.id = v.id => u = v
  BY <1>2, <1>5, <1>7, <1>8, SMTT(20) DEF EnrollmentInv, TokenInv
<1>13. \A u \in tokens' : \E d \in identities' : d.account = u.account
  BY <1>2, <1>5, <1>6, <1>7, SMTT(20) DEF EnrollmentInv, TokenInv
<1>14. \A u \in tokens' : u.from # None => \E v \in tokens' : v.id = u.from
  BY <1>2, <1>5, <1>6, <1>7, SMTT(20) DEF EnrollmentInv, TokenInv
<1>15. \A u, v \in tokens' : (u.from # None /\ u.from = v.from) => u = v
  BY <1>2, <1>5, <1>6, <1>7, <1>11, SMTT(20) DEF EnrollmentInv, TokenInv, TokensRotateOnce
<1>16. ASSUME NEW u \in tokens', NEW v \in tokens', u.from = v.id
       PROVE  v.revoked /\ u.account = v.account /\ u.install = v.install
  <2>1. v # n
    BY <1>2, <1>4, <1>5, <1>6, <1>7, <1>8, <1>10, <1>16, Zenon
  <2>2. CASE u = n
    <3>1. v = y
      BY <1>2, <1>5, <1>6, <1>7, <1>16, <2>1, <2>2, SMTT(20) DEF EnrollmentInv, TokenInv
    <3> QED BY <1>5, <1>6, <2>2, <3>1, Zenon
  <2>3. CASE u # n
    BY <1>2, <1>5, <1>7, <1>11, <1>16, <2>1, <2>3, SMTT(20) DEF EnrollmentInv, TokenInv, TokensRotateOnce
  <2> QED BY <2>2, <2>3, Zenon
<1>17. TokenInv'
  BY <1>12, <1>13, <1>14, <1>15, <1>16, Zenon DEF TokenInv, TokensRotateOnce
<1>18. tokens' \subseteq TokenRec
  BY <1>5, <1>6, <1>7, Zenon DEF EnrollmentInv, TypeOK
<1>19. DocumentInv'
  BY Zenon DEF EnrollmentInv, DocumentInv, PlayerDocument
<1>20. ASSUME NEW k \in Login \ {l} PROVE Keeps(k)
  <2>1. n.id # <<k, "created">> /\ n.id # <<k, "issued">>
    BY <1>6, SMTT(20)
  <2> QED BY <1>2, <1>5, <1>7, <2>1, Zenon DEF Keeps
<1>21. \E d \in identities' : d.account = login[l].account
  BY <1>2, <1>3 DEF EnrollmentInv, TokenInv
<1> QED BY <1>3, <1>4, <1>17, <1>18, <1>19, <1>20, <1>21, Zenon

LEMMA RotateKeeps ==
    ASSUME EnrollmentInv, NEW l \in Login, Rotate(l)
    PROVE  EnrollmentInv'
<1>1. /\ login[l].pc = "rotate" /\ UNCHANGED <<accounts, identities, players>>
      /\ login[l].cred \in Request /\ login[l].cred.kind = "refresh" /\ faults' \in 0 .. MaxFaults
  BY Zenon DEF Rotate, EnrollmentInv, LoginInv, TypeOK
<1>2. CASE Rotated(l) /\ Grant(l, Response(login[l].account, <<l, "issued">>))
  <2>1. login[l].account \in Login /\ \E d \in identities' : d.account = login[l].account
    BY <1>1, <1>2, RotatedFacts, Zenon
  <2>2. /\ login' \in [Login -> LoginRec] /\ Others(l) /\ login'[l].pc = "ensure"
        /\ login'[l].account = login[l].account /\ login'[l].token = <<l, "issued">>
        /\ login'[l].cred = login[l].cred
    BY <1>2, <2>1, GrantFacts DEF EnrollmentInv, TokenId
  <2>3. FreshInv(l)'
    BY <2>2, Zenon DEF FreshInv
  <2>4. LoginInv(l)'
    BY <1>1, <2>1, <2>2, SMTT(20) DEF LoginInv, Identified, TokenId
  <2>5. /\ accounts' \in [Login -> (SUBSET Login) \cup {None}] /\ identities' \subseteq IdentityRec
        /\ players' \subseteq [id : Login, account : Login]
    BY <1>1, Zenon DEF EnrollmentInv, TypeOK
  <2> QED BY <1>1, <1>2, <2>2, <2>3, <2>4, <2>5, RotatedFacts, StepOf, Zenon
<1>3. CASE Fail(l) /\ UNCHANGED tokens
  <2>1. Reads
    BY <1>1, <1>3, Zenon DEF Reads
  <2> QED BY <1>1, <1>3, <2>1, FailedLogin, ReadStep, Zenon
<1> QED BY <1>2, <1>3, Zenon DEF Rotate

LEMMA RotateUnknownKeeps ==
    ASSUME EnrollmentInv, NEW l \in Login, RotateUnknown(l)
    PROVE  EnrollmentInv'
<1>1. /\ login[l].pc = "rotate" /\ UNCHANGED <<accounts, identities, players>>
      /\ Rotated(l) /\ Fail(l)
  BY DEF RotateUnknown
<1>2. faults' \in 0 .. MaxFaults
  BY FaultCounted DEF RotateUnknown, EnrollmentInv
<1>3. /\ accounts' \in [Login -> (SUBSET Login) \cup {None}] /\ identities' \subseteq IdentityRec
      /\ players' \subseteq [id : Login, account : Login]
  BY <1>1 DEF EnrollmentInv, TypeOK
<1> QED BY <1>1, <1>2, <1>3, RotatedFacts, FailedLogin, StepOf, Zenon

\* The transaction that creates the default player of an account.
LEMMA NewPlayerFacts ==
    ASSUME EnrollmentInv, NEW l \in Login, login[l].pc = "createPlayer", PlayerIsNew(l),
           NewPlayer(l), UNCHANGED <<accounts, identities, tokens>>
    PROVE  /\ players' \subseteq [id : Login, account : Login] /\ DocumentInv' /\ TokenInv'
           /\ \A k \in Login \ {l} : Keeps(k)
           /\ PlayerDocument(l, login[l].account) \in players'
<1> DEFINE p == PlayerDocument(l, login[l].account)
<1>1. login[l].account \in Login
  BY Zenon DEF EnrollmentInv, LoginInv, Identified
<1>2. p \in [id : Login, account : Login] /\ p.account = login[l].account
  BY <1>1, Zenon DEF PlayerDocument
<1>3. players' = players \cup {p}
  BY Zenon DEF NewPlayer
<1> HIDE DEF p
<1>4. \A q \in players : q.account # login[l].account
  BY Zenon DEF PlayerIsNew, DefaultPlayer
<1>5. \A q, r \in players' : q.account = r.account => q = r
  BY <1>2, <1>3, <1>4 DEF EnrollmentInv, DocumentInv
<1>6. \A a \in Login : accounts'[a] # None =>
          \A x \in accounts'[a] : PlayerDocument(x, a) \in players'
  BY <1>3, Zenon DEF EnrollmentInv, DocumentInv
<1>7. DocumentInv'
  BY <1>5, <1>6, Zenon DEF EnrollmentInv, DocumentInv, PlayerDocument
<1>8. TokenInv'
  BY Zenon DEF EnrollmentInv, TokenInv, TokensRotateOnce
<1>9. \A k \in Login : Keeps(k)
  BY <1>3 DEF Keeps
<1>10. players' \subseteq [id : Login, account : Login]
  BY <1>2, <1>3 DEF EnrollmentInv, TypeOK
<1> QED BY <1>3, <1>7, <1>8, <1>9, <1>10, Zenon DEF p

\* The documents that a step of ensurePlayer leaves alone keep their shape.
LEMMA KeptTypes ==
    ASSUME EnrollmentInv, UNCHANGED <<accounts, identities, tokens>>
    PROVE  /\ accounts' \in [Login -> (SUBSET Login) \cup {None}]
           /\ identities' \subseteq IdentityRec /\ tokens' \subseteq TokenRec
BY Zenon DEF EnrollmentInv, TypeOK

\* A login that lost the race for the player, or its outcome, looks for it.
LEMMA RefindNext ==
    ASSUME EnrollmentInv, NEW l \in Login, login[l].pc = "createPlayer",
           Goto(l, "refindPlayer"), UNCHANGED identities
    PROVE  login' \in [Login -> LoginRec] /\ Others(l) /\ FreshInv(l)' /\ LoginInv(l)'
<1>1. /\ login' \in [Login -> LoginRec] /\ Others(l) /\ login'[l].pc = "refindPlayer"
      /\ login'[l].cred = login[l].cred /\ login'[l].account = login[l].account
      /\ login'[l].token = login[l].token
  BY GotoFacts DEF EnrollmentInv, Steps
<1>2. FreshInv(l)'
  BY <1>1, NothingFresh, Zenon
<1>3. Identified(l)'
  BY <1>1, IdentityKnown, IdentifiedKept, Zenon
<1> QED BY <1>1, <1>2, <1>3, Knows, Zenon DEF LoginInv

LEMMA CreatePlayerKeeps ==
    ASSUME EnrollmentInv, NEW l \in Login, CreatePlayer(l)
    PROVE  EnrollmentInv'
<1>1. /\ login[l].pc = "createPlayer" /\ UNCHANGED <<accounts, identities, tokens>>
      /\ faults' \in 0 .. MaxFaults
  BY Zenon DEF CreatePlayer, EnrollmentInv, TypeOK
<1>2. CASE PlayerIsNew(l) /\ NewPlayer(l) /\ WithPlayer(l, l)
  <2>1. /\ login' \in [Login -> LoginRec] /\ Others(l)
        /\ login'[l].pc = "link" /\ login'[l].player = l
        /\ login'[l].cred = login[l].cred /\ login'[l].token = login[l].token
        /\ login'[l].account = login[l].account
    BY <1>2, WithPlayerFacts DEF EnrollmentInv
  <2>2. FreshInv(l)'
    BY <2>1, NothingFresh, Zenon
  <2>3. PlayerDocument(login'[l].player, login'[l].account) \in players'
    BY <1>1, <1>2, <2>1, NewPlayerFacts, ZenonT(40)
  <2>4. Identified(l)'
    BY <1>1, <2>1, IdentityKnown, IdentifiedKept, Zenon
  <2>5. LoginInv(l)'
    BY <1>1, <2>1, <2>3, <2>4, ZenonT(40) DEF LoginInv, EnrollmentInv, PlayerDocument
  <2> QED BY <1>1, <1>2, <2>1, <2>2, <2>5, NewPlayerFacts, KeptTypes, StepOf, Zenon
<1>3. CASE Goto(l, "refindPlayer") /\ UNCHANGED players
  <2>1. Reads
    BY <1>1, <1>3, Zenon DEF Reads
  <2> QED BY <1>1, <1>3, <2>1, RefindNext, ReadStep, Zenon
<1> QED BY <1>2, <1>3 DEF CreatePlayer

LEMMA CreatePlayerFailsKeeps ==
    ASSUME EnrollmentInv, NEW l \in Login, CreatePlayerFails(l)
    PROVE  EnrollmentInv'
<1>1. /\ login[l].pc = "createPlayer" /\ UNCHANGED <<accounts, identities, tokens>>
      /\ Goto(l, "refindPlayer")
  BY DEF CreatePlayerFails
<1>2. faults' \in 0 .. MaxFaults
  BY FaultCounted, Zenon DEF CreatePlayerFails, EnrollmentInv
<1>3. CASE PlayerIsNew(l) /\ NewPlayer(l)
  BY <1>1, <1>2, <1>3, RefindNext, NewPlayerFacts, KeptTypes, StepOf, Zenon
<1>4. CASE UNCHANGED players
  <2>1. Reads
    BY <1>1, <1>4, Zenon DEF Reads
  <2> QED BY <1>1, <1>2, <2>1, RefindNext, ReadStep, Zenon
<1> QED BY <1>3, <1>4, Zenon DEF CreatePlayerFails, Failed

LEMMA LinkPlayerKeeps ==
    ASSUME EnrollmentInv, NEW l \in Login, LinkPlayer(l)
    PROVE  EnrollmentInv'
<1> DEFINE a == login[l].account
           p == login[l].player
<1>1. /\ login[l].pc = "link" /\ UNCHANGED <<identities, tokens, players>>
      /\ faults' \in 0 .. MaxFaults
  BY Zenon DEF LinkPlayer, EnrollmentInv, TypeOK
<1>2. CASE AddPlayer(a, p) /\ Goto(l, "done")
  <2>1. /\ login' \in [Login -> LoginRec] /\ Others(l) /\ login'[l].pc = "done"
        /\ login'[l].cred = login[l].cred /\ login'[l].account = a
        /\ login'[l].token = login[l].token /\ login'[l].player = p
    BY <1>2, GotoFacts, Zenon DEF EnrollmentInv, Steps
  <2>2. a \in Login /\ PlayerDocument(p, a) \in players /\ Identified(l)
    BY <1>1 DEF EnrollmentInv, LoginInv, Identified
  <2>3. p \in Login
    <3>1. PlayerDocument(p, a) \in [id : Login, account : Login] /\ PlayerDocument(p, a).id = p
      BY <2>2, Zenon DEF EnrollmentInv, TypeOK, PlayerDocument
    <3> QED BY <3>1, Zenon
  <2>4. accounts[a] # None /\ accounts[a] \in SUBSET Login
    BY <1>2, <2>2 DEF AddPlayer, EnrollmentInv, TypeOK
  <2>5. accounts' = [accounts EXCEPT ![a] = @ \cup {p}]
    BY <1>2, Zenon DEF AddPlayer
  <2>6. /\ accounts' \in [Login -> (SUBSET Login) \cup {None}]
        /\ accounts'[a] = accounts[a] \cup {p} /\ accounts'[a] # None
        /\ \A b \in Login \ {a} : accounts'[b] = accounts[b]
    <3>1. (accounts[a] \cup {p}) \in SUBSET Login
      BY <2>3, <2>4, Zenon
    <3>2. accounts[a] \cup {p} # None
      BY <3>1, NoneAssumption, Zenon
    <3> QED BY <2>2, <2>5, <3>1, <3>2, Zenon DEF EnrollmentInv, TypeOK
  <2>7. \A d \in identities : d.account \in Login
    BY Zenon DEF EnrollmentInv, TypeOK, IdentityRec
  <2>8. \A d \in identities : accounts'[d.account] # None
    BY <2>6, <2>7 DEF EnrollmentInv, DocumentInv
  <2>9. \A b \in Login : accounts'[b] # None =>
            \A x \in accounts'[b] : PlayerDocument(x, b) \in players'
    BY <1>1, <2>2, <2>4, <2>6, Zenon DEF EnrollmentInv, DocumentInv
  <2>10. DocumentInv'
    BY <1>1, <2>8, <2>9, ZenonT(40) DEF EnrollmentInv, DocumentInv, PlayerDocument
  <2>11. TokenInv'
    BY <1>1, Zenon DEF EnrollmentInv, TokenInv, TokensRotateOnce
  <2>12. \A d \in identities : accounts[d.account] \subseteq accounts'[d.account]
    BY <2>6, <2>7, Zenon
  <2>13. \A k \in Login : Keeps(k)
    BY <1>1, <2>12, SMTT(20) DEF Keeps
  <2>14. FreshInv(l)'
    BY <2>1 DEF FreshInv
  <2>15. PlayerDocument(login'[l].player, login'[l].account) \in players'
    BY <1>1, <2>1, <2>2, Zenon
  <2>16. Identified(l)' /\ login'[l].player \in accounts'[login'[l].account]
    BY <1>1, <2>1, <2>2, <2>6, Zenon DEF Identified
  <2>17. LoginInv(l)'
    BY <1>1, <2>1, <2>15, <2>16, Zenon DEF LoginInv, EnrollmentInv, PlayerDocument
  <2>18. /\ identities' \subseteq IdentityRec /\ tokens' \subseteq TokenRec
         /\ players' \subseteq [id : Login, account : Login]
    BY <1>1, Zenon DEF EnrollmentInv, TypeOK
  <2> QED BY <1>1, <2>1, <2>6, <2>10, <2>11, <2>13, <2>14, <2>17, <2>18, StepOf, Zenon
<1>3. CASE Fail(l) /\ UNCHANGED accounts
  <2>1. Reads
    BY <1>1, <1>3 DEF Reads
  <2> QED BY <1>1, <1>3, <2>1, FailedLogin, ReadStep, Zenon
<1> QED BY <1>2, <1>3 DEF LinkPlayer, LinkAnswered

-----------------------------------------------------------------------------
(* The invariant, and what it implies *)

LEMMA InitEnrolled == Init => EnrollmentInv
<1> SUFFICES ASSUME Init PROVE EnrollmentInv
  BY Zenon
<1>1. Idle \in LoginRec /\ Idle.pc = "idle"
  BY DEF Idle, LoginRec, Steps
<1>2. \A l \in Login : login[l] = Idle
  BY DEF Init
<1>3. TypeOK
  BY <1>1, FaultAssumption, SMTT(20) DEF Init, TypeOK
<1>4. DocumentInv /\ TokenInv
  BY Zenon DEF Init, DocumentInv, TokenInv, TokensRotateOnce
<1>5. \A l \in Login : FreshInv(l) /\ LoginInv(l)
  BY <1>1, <1>2 DEF Init, FreshInv, LoginInv
<1> QED BY <1>3, <1>4, <1>5 DEF EnrollmentInv

LEMMA StutterEnrolled ==
    ASSUME EnrollmentInv, UNCHANGED vars
    PROVE  EnrollmentInv'
<1>1. TypeOK'
  BY Zenon DEF EnrollmentInv, TypeOK, vars
<1>2. DocumentInv'
  BY Zenon DEF EnrollmentInv, DocumentInv, PlayerDocument, vars
<1>3. TokenInv'
  BY Zenon DEF EnrollmentInv, TokenInv, TokensRotateOnce, vars
<1>4. ASSUME NEW k \in Login PROVE FreshInv(k)' /\ LoginInv(k)'
  <2>1. Keeps(k) /\ login'[k] = login[k]
    BY DEF Keeps, vars
  <2> QED BY <2>1, KeptLogin, Zenon DEF EnrollmentInv
<1> QED BY <1>1, <1>2, <1>3, <1>4, Zenon DEF EnrollmentInv

LEMMA NextEnrolled ==
    ASSUME EnrollmentInv, [Next]_vars
    PROVE  EnrollmentInv'
<1>1. CASE UNCHANGED vars
  BY <1>1, StutterEnrolled, Zenon
<1>2. ASSUME NEW l \in Login, Authenticate(l)
      PROVE  EnrollmentInv'
  BY <1>2, BeginKeeps, FindIdentityKeeps, CreateAccountKeeps, CreateAccountFailsKeeps,
     RefindIdentityKeeps, IssueTokenKeeps, Zenon, SMTT(20) DEF Authenticate
<1>3. ASSUME NEW l \in Login, Refresh(l)
      PROVE  EnrollmentInv'
  BY <1>3, BeginRefreshKeeps, FindTokenKeeps, RotateKeeps, RotateUnknownKeeps, Zenon DEF Refresh
<1>4. ASSUME NEW l \in Login, EnsurePlayer(l)
      PROVE  EnrollmentInv'
  BY <1>4, FindPlayerKeeps, CreatePlayerKeeps, CreatePlayerFailsKeeps, RefindPlayerKeeps,
     LinkPlayerKeeps, Zenon DEF EnsurePlayer
<1> QED BY <1>1, <1>2, <1>3, <1>4, CallFailsKeeps, RevokeKeeps, Zenon DEF Next

\* What the documents and the logins know holds throughout, whatever calls
\* fail and whatever transactions commit without their callers knowing.
THEOREM EnrollmentInvHolds == Spec => []EnrollmentInv
BY InitEnrolled, NextEnrolled, PTL DEF Spec

\* A finished login's account, and the player it answers with.
LEMMA DoneFacts ==
    ASSUME EnrollmentInv, NEW l \in Login, Done(l)
    PROVE  /\ Identified(l) /\ login[l].account \in Login
           /\ PlayerDocument(login[l].player, login[l].account) \in players
           /\ login[l].player \in accounts[login[l].account]
BY DEF EnrollmentInv, LoginInv, Identified, Done

\* An account has one player.
LEMMA OnePlayer ==
    ASSUME EnrollmentInv, NEW a, NEW x, NEW y,
           PlayerDocument(x, a) \in players, PlayerDocument(y, a) \in players
    PROVE  x = y
<1>1. PlayerDocument(x, a) = PlayerDocument(y, a)
  <2>1. PlayerDocument(x, a).account = a /\ PlayerDocument(y, a).account = a
    BY DEF PlayerDocument
  <2> QED BY <2>1 DEF EnrollmentInv, DocumentInv
<1>2. PlayerDocument(x, a).id = x /\ PlayerDocument(y, a).id = y
  BY DEF PlayerDocument
<1> QED BY <1>1, <1>2, Zenon

\* For any number of concurrent logins and failures: logins of one guest or of
\* one username get the same account and the same player, because the unique
\* indexes leave one identity and one default player to be found.
THEOREM LoginsAgreeHolds == Spec => []LoginsAgree
<1>1. EnrollmentInv => LoginsAgree
  <2> SUFFICES ASSUME EnrollmentInv, NEW l \in Login, NEW k \in Login, Done(l), Done(k),
                      login[l].cred.kind # "refresh", SameSubject(l, k)
               PROVE  login[l].account = login[k].account /\ login[l].player = login[k].player
    BY Zenon DEF LoginsAgree
  <2>1. login[l].account = login[k].account
    <3>1. Identified(l) /\ Identified(k)
      BY DoneFacts, Zenon
    <3>2. PICK d \in identities :
              /\ d.account = login[l].account
              /\ d.kind = login[l].cred.kind /\ d.subject = login[l].cred.subject
      BY <3>1, Zenon DEF Identified
    <3>3. login[k].cred.kind = login[l].cred.kind /\ login[k].cred.subject = login[l].cred.subject
      BY Zenon DEF SameSubject
    <3>4. PICK e \in identities :
              /\ e.account = login[k].account
              /\ e.kind = login[k].cred.kind /\ e.subject = login[k].cred.subject
      BY <3>1, <3>3, Zenon DEF Identified
    <3>5. d.kind = e.kind /\ d.subject = e.subject
      BY <3>2, <3>3, <3>4, SMTT(20)
    <3>6. d = e
      BY <3>5, Zenon DEF EnrollmentInv, DocumentInv
    <3> QED BY <3>2, <3>4, <3>6, Zenon
  <2>2. /\ PlayerDocument(login[l].player, login[l].account) \in players
        /\ PlayerDocument(login[k].player, login[l].account) \in players
    BY <2>1, DoneFacts, Zenon
  <2> QED BY <2>1, <2>2, OnePlayer
<1> QED BY <1>1, EnrollmentInvHolds, PTL

\* For any number of concurrent logins and failures: a login that was answered
\* has an account with one identity and one linked player, its own.
THEOREM LoginIsCompleteHolds == Spec => []LoginIsComplete
<1>1. EnrollmentInv => LoginIsComplete
  <2> SUFFICES ASSUME EnrollmentInv, NEW l \in Login, Done(l)
               PROVE  /\ accounts[login[l].account] = {login[l].player}
                      /\ Cardinality({d \in identities : d.account = login[l].account}) = 1
                      /\ [id |-> login[l].player, account |-> login[l].account] \in players
    BY Zenon DEF LoginIsComplete
  <2> DEFINE a == login[l].account
             p == login[l].player
  <2>1. PICK d \in identities : d.account = a
    BY DoneFacts, SMTT(20) DEF Identified
  <2>2. a \in Login /\ p \in accounts[a] /\ PlayerDocument(p, a) \in players
    BY DoneFacts
  <2>3. accounts[a] # None
    BY <2>1, Zenon DEF EnrollmentInv, DocumentInv
  <2>4. \A x \in accounts[a] : x = p
    BY <2>2, <2>3, OnePlayer, Zenon DEF EnrollmentInv, DocumentInv
  <2>5. accounts[a] \in SUBSET Login
    BY <2>2, <2>3 DEF EnrollmentInv, TypeOK
  <2>6. accounts[a] = {p}
    BY <2>2, <2>4, <2>5, Zenon
  <2>7. {e \in identities : e.account = a} = {d}
    BY <2>1 DEF EnrollmentInv, DocumentInv
  <2>8. Cardinality({e \in identities : e.account = a}) = 1
    BY <2>7, FS_Singleton, Zenon
  <2> QED BY <2>2, <2>6, <2>8, Zenon DEF PlayerDocument
<1> QED BY <1>1, EnrollmentInvHolds, PTL

\* A password login that was answered named the password its identity holds.
THEOREM PasswordsHoldHolds == Spec => []PasswordsHold
<1>1. EnrollmentInv => PasswordsHold
  BY DoneFacts, SMTT(20) DEF PasswordsHold, Identified, Identity
<1> QED BY <1>1, EnrollmentInvHolds, PTL

\* However refreshes, revocations and lost outcomes interleave, a refresh token
\* has at most one replacement, for its own account and installation.
THEOREM TokensRotateOnceHolds == Spec => []TokensRotateOnce
<1>1. EnrollmentInv => TokensRotateOnce
  BY DEF EnrollmentInv, TokenInv
<1> QED BY <1>1, EnrollmentInvHolds, PTL

-----------------------------------------------------------------------------
(* Ids *)

\* A larger factor leaves room for any remainder.
LEMMA ProductGap ==
    ASSUME NEW a \in Nat, NEW b \in Nat, NEW k \in Nat, a < b
    PROVE  a * k + k <= b * k
<1> DEFINE c == b - (a + 1)
<1>1. c \in Nat /\ b = a + 1 + c
  OBVIOUS
<1>2. c * k >= 0
  BY <1>1
<1>3. b * k = a * k + k + c * k
  BY <1>1
<1> QED
  BY <1>1, <1>2, <1>3

\* Products of naturals are naturals.
LEMMA EncodeNat ==
    ASSUME NEW m \in Nat, NEW n \in Nat, NEW s \in Nat
    PROVE  m * NodeCount + n \in Nat /\ Encode(m, n, s) \in Nat
BY CountAssumption DEF Encode

\* The ids of a node grow with the millisecond and then with the sequence.
LEMMA EncodeGrows ==
    ASSUME NEW n \in Nat, NEW m \in Nat, NEW k \in Nat,
           NEW s \in 0 .. SeqCount - 1, NEW t \in Nat,
           m < k \/ (m = k /\ s < t)
    PROVE  Encode(m, n, s) < Encode(k, n, t)
<1> DEFINE A == m * NodeCount + n
           B == k * NodeCount + n
<1>0. NodeCount \in Nat /\ SeqCount \in Nat /\ NodeCount > 0 /\ SeqCount > 0 /\ s \in Nat
  BY CountAssumption
<1>1. A \in Nat /\ B \in Nat
  BY <1>0
<1>2. CASE m = k /\ s < t
  <2>1. A * SeqCount \in Nat
    BY <1>0, <1>1
  <2> QED
    BY <1>0, <1>2, <2>1 DEF Encode
<1>3. CASE m < k
  <2>1. m * NodeCount + NodeCount <= k * NodeCount
    BY <1>0, <1>3, ProductGap
  <2>2. m * NodeCount \in Nat /\ k * NodeCount \in Nat
    BY <1>0
  <2>3. A < B
    BY <1>0, <2>1, <2>2
  <2>4. A * SeqCount + SeqCount <= B * SeqCount
    BY <1>0, <1>1, <2>3, ProductGap, Zenon
  <2>5. A * SeqCount \in Nat /\ B * SeqCount \in Nat
    BY <1>0, <1>1
  <2>6. A * SeqCount + s < B * SeqCount + t
    BY <1>0, <2>4, <2>5
  <2> QED
    BY <2>6 DEF Encode
<1> QED
  BY <1>2, <1>3

\* A quotient and a remainder are determined by the number they make.
LEMMA QuotientUnique ==
    ASSUME NEW a \in Nat, NEW b \in Nat, NEW k \in Nat,
           NEW r \in Nat, NEW q \in Nat, r < k, q < k, a * k + r = b * k + q
    PROVE  a = b
<1>1. a * k \in Nat /\ b * k \in Nat
  OBVIOUS
<1>2. CASE a < b
  BY <1>1, <1>2, ProductGap
<1>3. CASE b < a
  BY <1>1, <1>3, ProductGap
<1> QED
  BY <1>2, <1>3

\* An id tells the node it was made on.
LEMMA EncodeTellsNode ==
    ASSUME NEW n \in Node, NEW k \in Node, NEW m \in Nat, NEW j \in Nat,
           NEW s \in 0 .. SeqCount - 1, NEW t \in 0 .. SeqCount - 1,
           Encode(m, n, s) = Encode(j, k, t)
    PROVE  n = k
<1> DEFINE A == m * NodeCount + n
           B == j * NodeCount + k
<1>0. /\ NodeCount \in Nat /\ SeqCount \in Nat /\ s \in Nat /\ t \in Nat
      /\ n \in Nat /\ k \in Nat /\ n < NodeCount /\ k < NodeCount /\ s < SeqCount /\ t < SeqCount
  BY CountAssumption, NodeAssumption
<1>1. A \in Nat /\ B \in Nat
  BY <1>0
<1>2. A * SeqCount + s = B * SeqCount + t
  BY Zenon DEF Encode
<1>3. A = B
  BY <1>0, <1>1, <1>2, QuotientUnique, Zenon
<1>4. m = j
  BY <1>0, <1>3, QuotientUnique, SMTT(20)
<1>5. m * NodeCount \in Nat
  BY <1>0
<1> QED
  BY <1>0, <1>3, <1>4, <1>5

\* Division takes a quotient and a remainder apart again.
LEMMA DivMod ==
    ASSUME NEW a \in Nat, NEW k \in Nat \ {0}, NEW r \in 0 .. k - 1
    PROVE  (a * k + r) \div k = a /\ (a * k + r) % k = r
OBVIOUS

\* Parse gives back the parts that an id was made of.
LEMMA ParseEncode ==
    ASSUME NEW m \in Nat, NEW n \in Node, NEW s \in 0 .. SeqCount - 1
    PROVE  Parse(Encode(m, n, s)) = [milli |-> m, node |-> n, sequence |-> s]
<1> DEFINE A == m * NodeCount + n
           id == A * SeqCount + s
<1>1. n \in Nat /\ n \in 0 .. NodeCount - 1
  BY CountAssumption, NodeAssumption
<1>2. A \in Nat /\ A \div NodeCount = m /\ A % NodeCount = n
  BY <1>1, DivMod, CountAssumption
<1> HIDE DEF A
<1>3. id \div SeqCount = A /\ id % SeqCount = s
  BY <1>2, DivMod, CountAssumption
<1>4. Encode(m, n, s) = id
  BY Zenon DEF Encode, A
<1> QED
  BY <1>2, <1>3, <1>4, Zenon DEF Parse

-----------------------------------------------------------------------------

Ids(n) == {Encode(m, n, s) : m \in Nat, s \in 0 .. SeqCount - 1}

\* What a generator's state says about the ids it has generated.
NodeInv(n) ==
    /\ issued[n] \subseteq Ids(n)
    /\ \A x \in issued[n] : x <= top[n]
    /\ \/ last[n] = -1 /\ top[n] = -1 /\ count[n] = 0
       \/ last[n] \in Nat /\ top[n] = Encode(last[n], n, sequence[n])

IdInv == IdgenTypeOK /\ \A n \in Node : NodeInv(n)

\* The id of a call of Next that ends at milli and s.
LEMMA ReturnStep ==
    ASSUME IdInv, NEW n \in Node, NEW milli \in Nat, NEW s \in 0 .. SeqCount - 1,
           Return(n, milli, s), clock' = clock, waiting' \in [Node -> BOOLEAN],
           last[n] < milli \/ (last[n] = milli /\ sequence[n] < s)
    PROVE  /\ IdInv'
           /\ top'[n] > top[n]
           /\ \A m \in Node : top'[n] \notin issued[m]
           /\ \A m \in Node \ {n} : count'[m] = count[m]
<1> DEFINE id == Encode(milli, n, s)
<1>0. n \in Nat /\ s \in Nat
  BY CountAssumption, NodeAssumption, SMTT(20)
<1>1. id \in Nat /\ id \in Ids(n)
  <2>1. id \in Nat
    BY <1>0, EncodeNat, Zenon
  <2> QED BY <2>1 DEF Ids
<1>2. top[n] < id
  <2>1. CASE last[n] = -1 /\ top[n] = -1 /\ count[n] = 0
    BY <1>1, <2>1, SMTT(20)
  <2>2. CASE last[n] \in Nat /\ top[n] = Encode(last[n], n, sequence[n])
    <3>1. sequence[n] \in 0 .. SeqCount - 1
      BY Zenon DEF IdInv, IdgenTypeOK
    <3> QED
      BY <1>0, <2>2, <3>1, EncodeGrows, Zenon
  <2> QED
    BY <2>1, <2>2, Zenon DEF IdInv, NodeInv
<1>3. /\ last' = [last EXCEPT ![n] = milli]
      /\ sequence' = [sequence EXCEPT ![n] = s]
      /\ count' = [count EXCEPT ![n] = @ + 1]
      /\ top' = [top EXCEPT ![n] = id]
      /\ issued' = [issued EXCEPT ![n] = @ \cup {id}]
  BY Zenon DEF Return
<1>4. IdgenTypeOK'
  <2>1. milli \in Int /\ milli >= -1 /\ id \in Int
    BY <1>1
  <2>2. count[n] + 1 \in Nat
    BY DEF IdInv, IdgenTypeOK
  <2>3. issued[n] \cup {id} \in SUBSET Nat
    BY <1>1, Zenon DEF IdInv, IdgenTypeOK
  <2>4. last' \in [Node -> Int] /\ \A m \in Node : last'[m] >= -1
    BY <1>3, <2>1, Zenon DEF IdInv, IdgenTypeOK
  <2>5. sequence' \in [Node -> 0 .. SeqCount - 1] /\ top' \in [Node -> Int]
    BY <1>3, <2>1, Zenon DEF IdInv, IdgenTypeOK
  <2>6. count' \in [Node -> Nat] /\ issued' \in [Node -> SUBSET Nat]
    BY <1>3, <2>2, <2>3, Zenon DEF IdInv, IdgenTypeOK
  <2> QED
    BY <2>4, <2>5, <2>6, Zenon DEF IdInv, IdgenTypeOK
<1>5. top[n] \in Int /\ \A x \in issued[n] : x \in Nat
  BY Zenon DEF IdInv, IdgenTypeOK
<1>6. last'[n] = milli /\ sequence'[n] = s /\ top'[n] = id /\ issued'[n] = issued[n] \cup {id}
  BY <1>3, Zenon DEF IdInv, IdgenTypeOK
<1>7. NodeInv(n)'
  BY <1>1, <1>2, <1>5, <1>6, SMTT(20) DEF IdInv, NodeInv, Ids
<1>8. \A m \in Node \ {n} : /\ last'[m] = last[m] /\ sequence'[m] = sequence[m]
                            /\ top'[m] = top[m] /\ issued'[m] = issued[m] /\ count'[m] = count[m]
  BY <1>3, ZenonT(40) DEF IdInv, IdgenTypeOK
<1>9. \A m \in Node \ {n} : NodeInv(m)'
  BY <1>8, SMTT(30), Zenon DEF IdInv, NodeInv, Ids
<1>10. \A m \in Node : id \notin issued[m]
  <2> SUFFICES ASSUME NEW m \in Node, id \in issued[m] PROVE FALSE
    BY Zenon
  <2>1. CASE m = n
    BY <1>1, <1>2, <1>5, <2>1, SMTT(20) DEF IdInv, NodeInv
  <2>2. CASE m # n
    <3>1. id \in Ids(m)
      BY DEF IdInv, NodeInv
    <3>2. PICK j \in Nat, t \in 0 .. SeqCount - 1 : id = Encode(j, m, t)
      BY <3>1 DEF Ids
    <3> QED
      BY <2>2, <3>2, EncodeTellsNode, Zenon
  <2> QED
    BY <2>1, <2>2
<1> QED
  BY <1>1, <1>2, <1>4, <1>5, <1>6, <1>7, <1>8, <1>9, <1>10, Zenon DEF IdInv

Fresh ==
    \A n \in Node : count'[n] # count[n] =>
        /\ top'[n] > top[n]
        /\ \A m \in Node : top'[n] \notin issued[m]

\* Every step keeps the invariant and generates no id twice.
LEMMA NextStep ==
    ASSUME IdInv, [IdgenNext]_idgenVars
    PROVE  IdInv' /\ Fresh
<1>1. CASE UNCHANGED <<last, sequence, count, top, issued>>
           /\ clock' \in [Node -> Time] /\ waiting' \in [Node -> BOOLEAN]
  <2>1. IdgenTypeOK'
    BY <1>1, Zenon DEF IdInv, IdgenTypeOK
  <2>2. \A n \in Node : NodeInv(n)'
    BY <1>1, SMTT(20) DEF IdInv, NodeInv, Ids
  <2> QED
    BY <1>1, <2>1, <2>2, Zenon DEF IdInv, Fresh
<1>2. CASE UNCHANGED idgenVars
  BY <1>1, <1>2, Zenon DEF idgenVars, IdInv, IdgenTypeOK
<1>3. ASSUME NEW n \in Node, Tick(n)
      PROVE  IdInv' /\ Fresh
  BY <1>1, <1>3, Zenon DEF Tick, IdInv, IdgenTypeOK
<1>4. ASSUME NEW n \in Node, Exhausted(n)
      PROVE  IdInv' /\ Fresh
  BY <1>1, <1>4, Zenon DEF Exhausted, IdInv, IdgenTypeOK
<1>5. ASSUME NEW n \in Node
      PROVE  /\ currentMilli(n) \in Nat /\ last[n] \in Int /\ last[n] >= -1
             /\ sequence[n] \in 0 .. SeqCount - 1 /\ 0 \in 0 .. SeqCount - 1
  BY CountAssumption, IdgenAssumption, SMTT(20) DEF IdInv, IdgenTypeOK, currentMilli, Time
<1>6. ASSUME NEW n \in Node, GenerateId(n)
      PROVE  IdInv' /\ Fresh
  <2>1. clock' = clock /\ waiting' \in [Node -> BOOLEAN]
    BY <1>6 DEF GenerateId, IdInv, IdgenTypeOK
  <2>2. CASE /\ milliOf(n) = last[n] /\ sequence[n] # SeqCount - 1
             /\ Return(n, last[n], sequence[n] + 1)
    <3>1. last[n] \in Nat
      BY <1>5, <2>2, SMTT(20) DEF milliOf
    <3>2. sequence[n] + 1 \in 0 .. SeqCount - 1 /\ sequence[n] < sequence[n] + 1
      BY <1>5, <2>2, CountAssumption, SMTT(20)
    <3> QED
      BY <2>1, <2>2, <3>1, <3>2, ReturnStep, ZenonT(40) DEF Fresh
  <2>3. CASE milliOf(n) # last[n] /\ Return(n, milliOf(n), 0)
    <3>1. milliOf(n) \in Nat /\ last[n] < milliOf(n)
      BY <1>5, <2>3, SMTT(20) DEF milliOf
    <3> QED
      BY <1>5, <2>1, <2>3, <3>1, ReturnStep, Zenon DEF Fresh
  <2> QED
    BY <1>6, <2>2, <2>3, Zenon DEF GenerateId
<1>7. ASSUME NEW n \in Node, waitNextMilli(n)
      PROVE  IdInv' /\ Fresh
  <2>1. clock' = clock /\ waiting' \in [Node -> BOOLEAN]
    BY <1>7, Zenon DEF waitNextMilli, IdInv, IdgenTypeOK
  <2>2. last[n] < currentMilli(n) /\ Return(n, currentMilli(n), 0)
    BY <1>5, <1>7 DEF waitNextMilli
  <2> QED
    BY <1>5, <2>1, <2>2, ReturnStep, Zenon DEF Fresh
<1> QED
  BY <1>2, <1>3, <1>4, <1>6, <1>7, Zenon DEF IdgenNext

LEMMA InitIds == ASSUME IdgenInit PROVE IdInv
<1>1. 0 \in 0 .. SeqCount - 1
  BY CountAssumption
<1>2. IdgenTypeOK
  BY <1>1, SMTT(20) DEF IdgenInit, IdgenTypeOK
<1>3. \A n \in Node : NodeInv(n)
  BY DEF IdgenInit, NodeInv
<1> QED
  BY <1>2, <1>3 DEF IdInv

LEMMA IdInvHolds == IdgenSpec => []IdInv
<1>0. IdgenInit => IdInv
  BY InitIds
<1>1. IdInv /\ [IdgenNext]_idgenVars => IdInv'
  BY NextStep
<1> QED
  BY <1>0, <1>1, PTL DEF IdgenSpec

\* Whatever the clocks do, and for any widths of sequence and node id, every
\* id that Next returns is larger than the node's last one and is on no node's
\* list of ids already returned.
THEOREM IdsAreFreshHolds ==
    IdgenSpec => []IdgenTypeOK /\ IdsAreFresh
<1>1. IdInv /\ [IdgenNext]_idgenVars => [Fresh]_idgenVars
  BY NextStep
<1>2. IdInv => IdgenTypeOK
  BY Zenon DEF IdInv
<1> QED
  BY <1>1, <1>2, IdInvHolds, PTL DEF IdgenSpec, IdsAreFresh, Fresh

\* Whatever the widths and the clocks, Parse gives the millisecond, the node and
\* the sequence number of every id that Next returns.
THEOREM ParseInvertsNextHolds ==
    IdgenSpec => []ParseInvertsNext
<1>1. IdInv => ParseInvertsNext
  <2> SUFFICES ASSUME IdInv, NEW n \in Node, count[n] # 0
               PROVE  Parse(top[n]) = [milli |-> last[n], node |-> n, sequence |-> sequence[n]]
    BY Zenon DEF ParseInvertsNext
  <2>1. last[n] \in Nat /\ top[n] = Encode(last[n], n, sequence[n])
    BY DEF IdInv, NodeInv
  <2>2. sequence[n] \in 0 .. SeqCount - 1
    BY DEF IdInv, IdgenTypeOK
  <2> QED
    BY <2>1, <2>2, ParseEncode, Zenon
<1> QED
  BY <1>1, IdInvHolds, PTL
=============================================================================
