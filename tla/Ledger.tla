------------------------------- MODULE Ledger -------------------------------
(***************************************************************************)
(* What the Lobby promises to those who settle with it, without handlers,  *)
(* lookups, transactions or snapshots: a settlement changes the balances   *)
(* in one step and at most once per settlement id, a request is refused    *)
(* only for a reason that holds when it is refused, and an answer tells    *)
(* the balances at one moment between the request and the answer.  Module  *)
(* Settlement implements it.                                               *)
(***************************************************************************)
EXTENDS Integers

CONSTANTS
    SettlementId, Player, Request,
    Submission,  \* the pairs <<settlement id, body>> that may be asked for
    NoEntry,     \* no settlement under that id yet
    Opening      \* the balances and the version every player starts with

VARIABLES
    entries,  \* the settlements made: settlement id -> body
    holdings, \* player -> balances and the version that counts their changes
    asked     \* request -> what was asked and, in the end, the answer

vars == <<entries, holdings, asked>>

Pending(s) == [status |-> "pending", sub |-> s]
Ended(status, s) == [status |-> status, sub |-> s]

Init ==
    /\ entries = [id \in SettlementId |-> NoEntry]
    /\ holdings = [p \in Player |-> Opening]
    /\ asked = [r \in Request |-> [status |-> "none"]]

Ask(r) ==
    /\ asked[r].status = "none"
    /\ \E s \in Submission : asked' = [asked EXCEPT ![r] = Pending(s)]
    /\ UNCHANGED <<entries, holdings>>

Covered(b) == b.delta < 0 => holdings[b.player].bal[b.asset] >= -b.delta

Changed(b) ==
    LET old == holdings[b.player]
    IN  [bal |-> [old.bal EXCEPT ![b.asset] = @ + b.delta], version |-> old.version + 1]

\* The settlement is made; the request may be told nothing of it.
Apply(r) ==
    LET id == asked[r].sub[1]
        b == asked[r].sub[2]
    IN  /\ asked[r].status = "pending"
        /\ entries[id] = NoEntry
        /\ Covered(b)
        /\ entries' = [entries EXCEPT ![id] = b]
        /\ holdings' = [holdings EXCEPT ![b.player] = Changed(b)]
        /\ \/ UNCHANGED asked
           \/ asked' = [asked EXCEPT ![r] = Ended("failed", asked[r].sub)]

\* The settlement with that id was made, by this request or an earlier one.
Answer(r) ==
    LET e == entries[asked[r].sub[1]]
    IN  /\ asked[r].status = "pending"
        /\ e # NoEntry
        /\ asked' = [asked EXCEPT ![r] =
              [status |-> "ok", sub |-> asked[r].sub,
               balance |-> holdings[e.player].bal[e.asset],
               version |-> holdings[e.player].version]]
        /\ UNCHANGED <<entries, holdings>>

\* Another settlement was made under the id.
Conflict(r) ==
    /\ asked[r].status = "pending"
    /\ entries[asked[r].sub[1]] \notin {NoEntry, asked[r].sub[2]}
    /\ asked' = [asked EXCEPT ![r] = Ended("conflict", asked[r].sub)]
    /\ UNCHANGED <<entries, holdings>>

\* The settlement was not made, and the player cannot pay.
Refuse(r) ==
    /\ asked[r].status = "pending"
    /\ entries[asked[r].sub[1]] = NoEntry
    /\ ~Covered(asked[r].sub[2])
    /\ asked' = [asked EXCEPT ![r] = Ended("insufficient", asked[r].sub)]
    /\ UNCHANGED <<entries, holdings>>

Fail(r) ==
    /\ asked[r].status = "pending"
    /\ asked' = [asked EXCEPT ![r] = Ended("failed", asked[r].sub)]
    /\ UNCHANGED <<entries, holdings>>

Next ==
    \E r \in Request :
        Ask(r) \/ Apply(r) \/ Answer(r) \/ Conflict(r) \/ Refuse(r) \/ Fail(r)

Spec == Init /\ [][Next]_vars
=============================================================================
