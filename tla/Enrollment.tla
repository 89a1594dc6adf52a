----------------------------- MODULE Enrollment -----------------------------
(***************************************************************************)
(* How a login becomes an account and a player: the core of the            *)
(* UserCenter's authentication (domain_auth_component.go), the Lobby's     *)
(* ensurePlayer (player_component.go) and the link back to the account,    *)
(* as the Gateway calls them one after the other for every login.          *)
(*                                                                         *)
(* Logins run concurrently.  Each MongoDB call is a step, a transaction is *)
(* one step.  Any step may fail, and a transaction may commit although its *)
(* caller is told that it failed.  A login makes at most one account, one  *)
(* player and two tokens, so their fresh ids are named after the login.    *)
(* The idempotency records around the core are module Idempotency.         *)
(***************************************************************************)
EXTENDS Naturals, FiniteSets

CONSTANTS
    Login,      \* login attempts
    Install,    \* installations; the subjects of guest identities
    Username,   \* the subjects of password identities
    Password,
    MaxFaults,  \* bound on failed calls
    None        \* not set

ASSUME FaultAssumption == MaxFaults \in Nat
Guest(i) == [kind |-> "guest", subject |-> i, password |-> None, install |-> i]
ByPassword(u, w, i) == [kind |-> "password", subject |-> u, password |-> w, install |-> i]

\* What a login of a new session asks for; a refresh names a token instead.
Credentials ==
    {Guest(i) : i \in Install}
        \cup {ByPassword(u, w, i) : u \in Username, w \in Password, i \in Install}

\* The two tokens a login may store: with a new account, or by itself.
TokenId == Login \X {"created", "issued"}

ASSUME NoneAssumption ==
    /\ None \notin Login \cup Install \cup Username \cup Password
    /\ None \notin TokenId
    /\ \A linked \in SUBSET Login : linked # None

VARIABLES
    accounts,    \* accounts: id -> the linked players, None before it exists
    identities,  \* identities: [kind, subject, password, account]
    tokens,      \* refresh tokens: [id, account, install, revoked, from]
    players,     \* the Lobby's players: [id, account], all default players
    login,       \* the logins
    faults

vars == <<accounts, identities, tokens, players, login, faults>>

Identity(c) == {d \in identities : d.kind = c.kind /\ d.subject = c.subject}
DefaultPlayer(a) == {p \in players : p.account = a}

Idle == [pc |-> "idle", cred |-> None, use |-> None,
         account |-> None, token |-> None, player |-> None]

Goto(l, pc) == login' = [login EXCEPT ![l].pc = pc]

\* guestResult, passwordResult and their like: the account and a refresh token.
Response(a, t) == [account |-> a, token |-> t]

\* The Gateway takes the UserCenter's response and goes to the Lobby.
Grant(l, response) ==
    login' = [login EXCEPT ![l].pc = "ensure", ![l].account = response.account,
                           ![l].token = response.token]

\* An error is the login's answer.
Fail(l) == Goto(l, "failed")

-----------------------------------------------------------------------------
(* UserCenter: the writes of its repositories *)

\* A transaction whose caller is told that it failed: it was aborted, or it
\* committed and the outcome was lost.
Failed(committed, aborted) == committed \/ aborted

\* A new account has no players.
InsertAccount(a) == accounts' = [accounts EXCEPT ![a] = {}]

\* identityDocumentFromDomain: provider, subject and password hash, if any.
IdentityDocument(c, a) ==
    [kind |-> c.kind, subject |-> c.subject, password |-> c.password, account |-> a]

InsertIdentity(c, a) == identities' = identities \cup {IdentityDocument(c, a)}

Token(id, a, i, from) ==
    [id |-> id, account |-> a, install |-> i, revoked |-> FALSE, from |-> from]

InsertToken(t) == tokens' = tokens \cup {t}

\* The tokens after one of them is revoked.
Revoked(x) == (tokens \ {x}) \cup {[x EXCEPT !.revoked = TRUE]}

-----------------------------------------------------------------------------
(* UserCenter: guest and password logins *)

Begin(l) ==
    /\ login[l].pc = "idle"
    /\ \E c \in Credentials : login' = [login EXCEPT ![l].pc = "find", ![l].cred = c]
    /\ UNCHANGED <<accounts, identities, tokens, players, faults>>

\* Mutant of Accepted: the password of an existing identity is not compared.
AcceptedAlways(c, d) == TRUE

\* The password check of passwordAuthenticateCore; a guest has none.
Accepted(c, d) == d.password = c.password

\* The identity a login found: its token is issued next, or it is refused.
UseIdentity(l, found) ==
    \E d \in found :
        \/ /\ Accepted(login[l].cred, d)
           /\ login' = [login EXCEPT ![l].pc = "issue", ![l].account = d.account]
        \/ ~Accepted(login[l].cred, d) /\ Fail(l)

FindIdentity(l) ==
    LET found == Identity(login[l].cred)
    IN  /\ login[l].pc = "find"
        /\ \/ found = {} /\ Goto(l, "create")
           \/ UseIdentity(l, found)
        /\ UNCHANGED <<accounts, identities, tokens, players, faults>>

\* The writes of createAccountAndToken's transaction.
NewAccount(l) ==
    LET c == login[l].cred
    IN  /\ InsertAccount(l)
        /\ InsertIdentity(c, l)
        /\ InsertToken(Token(<<l, "created">>, l, c.install, None))

\* Mutant of IdentityIsNew: the index on provider and subject is not unique.
IdentityIsNewAlways(l) == TRUE

\* The unique index on provider and subject.
IdentityIsNew(l) == Identity(login[l].cred) = {}

CreateAccount(l) ==
    /\ login[l].pc = "create"
    /\ \/ /\ IdentityIsNew(l)
          /\ NewAccount(l)
          /\ Grant(l, Response(l, <<l, "created">>))
       \/ /\ ~IdentityIsNew(l)
          /\ Goto(l, "refind")
          /\ UNCHANGED <<accounts, identities, tokens>>
    /\ UNCHANGED <<players, faults>>

\* The transaction fails, or it commits and its outcome is lost.
CreateAccountFails(l) ==
    /\ login[l].pc = "create"
    /\ faults < MaxFaults
    /\ faults' = faults + 1
    /\ Failed(IdentityIsNew(l) /\ NewAccount(l), UNCHANGED <<accounts, identities, tokens>>)
    /\ Goto(l, "refind")
    /\ UNCHANGED players

\* After a failed creation the identity is looked up once more.
RefindIdentity(l) ==
    LET found == Identity(login[l].cred)
    IN  /\ login[l].pc = "refind"
        /\ \/ found = {} /\ Fail(l)
           \/ UseIdentity(l, found)
        /\ UNCHANGED <<accounts, identities, tokens, players, faults>>

IssueToken(l) ==
    /\ login[l].pc = "issue"
    /\ InsertToken(Token(<<l, "issued">>, login[l].account, login[l].cred.install, None))
    /\ Grant(l, Response(login[l].account, <<l, "issued">>))
    /\ UNCHANGED <<accounts, identities, players, faults>>

-----------------------------------------------------------------------------
(* UserCenter: refresh and revocation *)

\* A client refreshes with a token it was given, from any installation.
BeginRefresh(l) ==
    /\ login[l].pc = "idle"
    /\ \E k \in Login, i \in Install :
          /\ login[k].pc = "done"
          /\ login' = [login EXCEPT ![l].pc = "findToken", ![l].use = login[k].token,
                                    ![l].cred = [kind |-> "refresh", subject |-> None,
                                                 password |-> None, install |-> i]]
    /\ UNCHANGED <<accounts, identities, tokens, players, faults>>

Valid(t) == {x \in tokens : x.id = t /\ ~x.revoked}

\* FindValid and IsUsable.
FindToken(l) ==
    LET found == {x \in Valid(login[l].use) : x.install = login[l].cred.install}
    IN  /\ login[l].pc = "findToken"
        /\ \/ found = {} /\ Fail(l)
           \/ \E x \in found :
                 login' = [login EXCEPT ![l].pc = "rotate", ![l].account = x.account]
        /\ UNCHANGED <<accounts, identities, tokens, players, faults>>

\* Mutant of Rotatable: the update does not ask for an unrevoked token.
RotatableAny(t) == {x \in tokens : x.id = t}

\* The filter of Rotate's update.
Rotatable(t) == Valid(t)

\* Rotate's transaction: revoke the token and insert its replacement.
Rotated(l) ==
    \E x \in Rotatable(login[l].use) :
        tokens' = Revoked(x) \cup
            {Token(<<l, "issued">>, x.account, login[l].cred.install, x.id)}

Rotate(l) ==
    /\ login[l].pc = "rotate"
    /\ \/ Rotated(l) /\ Grant(l, Response(login[l].account, <<l, "issued">>))
       \/ Rotatable(login[l].use) = {} /\ Fail(l) /\ UNCHANGED tokens
    /\ UNCHANGED <<accounts, identities, players, faults>>

\* Rotate commits and its outcome is lost.
RotateUnknown(l) ==
    /\ login[l].pc = "rotate"
    /\ faults < MaxFaults
    /\ faults' = faults + 1
    /\ Rotated(l)
    /\ Fail(l)
    /\ UNCHANGED <<accounts, identities, players>>

\* revokeRefreshToken: FindValid, then an update with the same filter.  A token
\* that expires is as unusable as a revoked one, and takes this step too.
Revoke(t) ==
    /\ \E x \in Valid(t) : tokens' = Revoked(x)
    /\ UNCHANGED <<accounts, identities, players, login, faults>>

-----------------------------------------------------------------------------
(* Lobby: ensurePlayer *)

\* ensurePlayer goes on with a player, found or created, and links it.
WithPlayer(l, p) == login' = [login EXCEPT ![l].pc = "link", ![l].player = p]

FindPlayer(l) ==
    LET found == DefaultPlayer(login[l].account)
    IN  /\ login[l].pc = "ensure"
        /\ \/ found = {} /\ Goto(l, "createPlayer")
           \/ \E p \in found : WithPlayer(l, p.id)
        /\ UNCHANGED <<accounts, identities, tokens, players, faults>>

\* playerDocumentFromDomain, without the profile.
PlayerDocument(id, a) == [id |-> id, account |-> a]

NewPlayer(l) == players' = players \cup {PlayerDocument(l, login[l].account)}

\* The partial unique index on account_id where is_default.
PlayerIsNew(l) == DefaultPlayer(login[l].account) = {}

\* The transaction that creates player, assets and snapshot.
CreatePlayer(l) ==
    /\ login[l].pc = "createPlayer"
    /\ \/ /\ PlayerIsNew(l)
          /\ NewPlayer(l)
          /\ WithPlayer(l, l)
       \/ ~PlayerIsNew(l) /\ Goto(l, "refindPlayer") /\ UNCHANGED players
    /\ UNCHANGED <<accounts, identities, tokens, faults>>

CreatePlayerFails(l) ==
    /\ login[l].pc = "createPlayer"
    /\ faults < MaxFaults
    /\ faults' = faults + 1
    /\ Failed(PlayerIsNew(l) /\ NewPlayer(l), UNCHANGED players)
    /\ Goto(l, "refindPlayer")
    /\ UNCHANGED <<accounts, identities, tokens>>

RefindPlayer(l) ==
    LET found == DefaultPlayer(login[l].account)
    IN  /\ login[l].pc = "refindPlayer"
        /\ \/ found = {} /\ Fail(l)
           \/ \E p \in found : WithPlayer(l, p.id)
        /\ UNCHANGED <<accounts, identities, tokens, players, faults>>

\* Mutant of LinkPlayer: the login is answered and the link is not written.
LinkPlayerSkipped(l) ==
    /\ login[l].pc = "link"
    /\ Goto(l, "done")
    /\ UNCHANGED <<accounts, identities, tokens, players, faults>>

\* The update that adds the player to the account's set; it fails for an
\* account that does not exist.
AddPlayer(a, p) ==
    accounts[a] # None /\ accounts' = [accounts EXCEPT ![a] = @ \cup {p}]

\* UserCenterPlayerLinker: the UserCenter's answer or error ends ensurePlayer.
LinkAnswered(l, linked) == IF linked THEN Goto(l, "done") ELSE Fail(l)

\* The Lobby has the UserCenter link the player, and answers.
LinkPlayer(l) ==
    /\ login[l].pc = "link"
    /\ \/ AddPlayer(login[l].account, login[l].player) /\ LinkAnswered(l, TRUE)
       \/ /\ accounts[login[l].account] = None
          /\ LinkAnswered(l, FALSE)
          /\ UNCHANGED accounts
    /\ UNCHANGED <<identities, tokens, players, faults>>

\* A call fails without an effect, or its process ends.
CallFails(l) ==
    /\ login[l].pc \in {"find", "refind", "issue", "findToken", "rotate",
                        "ensure", "refindPlayer", "link"}
    /\ faults < MaxFaults
    /\ faults' = faults + 1
    /\ Fail(l)
    /\ UNCHANGED <<accounts, identities, tokens, players>>

-----------------------------------------------------------------------------

Init ==
    /\ accounts = [l \in Login |-> None]
    /\ identities = {}
    /\ tokens = {}
    /\ players = {}
    /\ login = [l \in Login |-> Idle]
    /\ faults = 0

Authenticate(l) ==
    \/ Begin(l) \/ FindIdentity(l) \/ CreateAccount(l) \/ CreateAccountFails(l)
    \/ RefindIdentity(l) \/ IssueToken(l)

Refresh(l) == BeginRefresh(l) \/ FindToken(l) \/ Rotate(l) \/ RotateUnknown(l)

EnsurePlayer(l) ==
    \/ FindPlayer(l) \/ CreatePlayer(l) \/ CreatePlayerFails(l) \/ RefindPlayer(l)
    \/ LinkPlayer(l)

Next ==
    \/ \E l \in Login : Authenticate(l) \/ Refresh(l) \/ EnsurePlayer(l) \/ CallFails(l)
    \/ \E t \in TokenId : Revoke(t)

Spec == Init /\ [][Next]_vars

-----------------------------------------------------------------------------
(* Properties *)

IdentityRec == [kind : {"guest", "password"}, subject : Install \cup Username,
                password : Password \cup {None}, account : Login]

TokenRec == [id : TokenId, account : Login, install : Install, revoked : BOOLEAN,
             from : TokenId \cup {None}]

Request == [kind : {"guest", "password", "refresh"},
            subject : Install \cup Username \cup {None},
            password : Password \cup {None}, install : Install]

Steps == {"idle", "find", "create", "refind", "issue", "findToken", "rotate", "ensure",
          "createPlayer", "refindPlayer", "link", "done", "failed"}

LoginRec == [pc : Steps, cred : Request \cup {None}, use : TokenId \cup {None},
             account : Login \cup {None}, token : TokenId \cup {None}, player : Login \cup {None}]

\* Every document and every login keeps its shape.
TypeOK ==
    /\ accounts \in [Login -> (SUBSET Login) \cup {None}]
    /\ identities \subseteq IdentityRec
    /\ tokens \subseteq TokenRec
    /\ players \subseteq [id : Login, account : Login]
    /\ login \in [Login -> LoginRec]
    /\ faults \in 0 .. MaxFaults

Done(l) == login[l].pc = "done"
SameSubject(l, k) ==
    login[l].cred.kind = login[k].cred.kind /\ login[l].cred.subject = login[k].cred.subject

\* Logins of one guest, or of one username, all get the same account and the
\* same player, although several of them may find neither and create both.
LoginsAgree ==
    \A l, k \in Login :
        (Done(l) /\ Done(k) /\ login[l].cred.kind # "refresh" /\ SameSubject(l, k)) =>
            (login[l].account = login[k].account /\ login[l].player = login[k].player)

\* A login that succeeded left a complete account: the account exists, belongs
\* to one identity, and its only linked player is its player in the Lobby.
LoginIsComplete ==
    \A l \in Login : Done(l) =>
        /\ accounts[login[l].account] = {login[l].player}
        /\ Cardinality({d \in identities : d.account = login[l].account}) = 1
        /\ [id |-> login[l].player, account |-> login[l].account] \in players

\* A password login succeeds only with the password the account was created
\* with, also when two logins with different passwords create it at once.
PasswordsHold ==
    \A l \in Login : (Done(l) /\ login[l].cred.kind = "password") =>
        \E d \in Identity(login[l].cred) :
            d.account = login[l].account /\ d.password = login[l].cred.password

\* A refresh token is exchanged at most once, and its replacement keeps the
\* account and the installation.
TokensRotateOnce ==
    \A s, t \in tokens :
        /\ (s.from # None /\ s.from = t.from) => s = t
        /\ s.from = t.id => t.revoked /\ s.account = t.account /\ s.install = t.install
=============================================================================
