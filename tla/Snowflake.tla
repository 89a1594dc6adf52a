------------------------------ MODULE Snowflake ------------------------------
(***************************************************************************)
(* The id generators of common/idgen/snowflake.go, one per node, each      *)
(* behind a mutex and each with a clock of its own that may be set forward *)
(* and back at any time.                                                   *)
(***************************************************************************)
EXTENDS Integers

CONSTANTS
    NodeCount,  \* 2^NodeBits
    SeqCount,   \* 2^SequenceBits
    Node,       \* the node ids in use
    MaxClock,   \* bound on the clocks, in milliseconds since the epoch
    MaxIds      \* bound on the ids a node generates

ASSUME CountAssumption == NodeCount \in Nat \ {0} /\ SeqCount \in Nat \ {0}
ASSUME NodeAssumption == Node \subseteq 0 .. NodeCount - 1
ASSUME IdgenAssumption == MaxClock \in Nat /\ MaxIds \in Nat

VARIABLES
    clock,     \* the node's time, before the epoch when negative
    last,      \* lastMilli
    sequence,  \* sequence
    waiting,   \* whether Next is in waitNextMilli, with the mutex held
    count,     \* ids generated
    top,       \* the id generated last, -1 before the first
    issued     \* history variable: every id generated

idgenVars == <<clock, last, sequence, waiting, count, top, issued>>

Time == -1 .. MaxClock

currentMilli(n) == IF clock[n] < 0 THEN 0 ELSE clock[n]

\* The shifts and ors of Next: the parts do not overlap.
Encode(milli, n, s) == (milli * NodeCount + n) * SeqCount + s

\* Mutant of Parse: the node id is not masked.
ParseUnmasked(id) == [milli |-> (id \div SeqCount) \div NodeCount,
                      node |-> id \div SeqCount,
                      sequence |-> id % SeqCount]

\* The parts that Parse takes an id apart into.
Parse(id) == [milli |-> (id \div SeqCount) \div NodeCount,
              node |-> (id \div SeqCount) % NodeCount,
              sequence |-> id % SeqCount]

\* A clock runs, or somebody sets it.
Tick(n) ==
    /\ \E t \in Time : clock' = [clock EXCEPT ![n] = t]
    /\ UNCHANGED <<last, sequence, waiting, count, top, issued>>

\* The end of Next: the parts are stored and the id returned.
Return(n, milli, s) ==
    /\ last' = [last EXCEPT ![n] = milli]
    /\ sequence' = [sequence EXCEPT ![n] = s]
    /\ count' = [count EXCEPT ![n] = @ + 1]
    /\ top' = [top EXCEPT ![n] = Encode(milli, n, s)]
    /\ issued' = [issued EXCEPT ![n] = @ \cup {Encode(milli, n, s)}]

\* Mutant of milliOf: a clock that was set back is believed.
milliOfClock(n) == currentMilli(n)

\* The time Next works with: never behind the last one.
milliOf(n) == IF currentMilli(n) < last[n] THEN last[n] ELSE currentMilli(n)

\* Next with a sequence number left in its millisecond.
GenerateId(n) ==
    /\ ~waiting[n]
    /\ count[n] < MaxIds
    /\ \/ /\ milliOf(n) = last[n] /\ sequence[n] # SeqCount - 1
          /\ Return(n, last[n], sequence[n] + 1)
       \/ /\ milliOf(n) # last[n]
          /\ Return(n, milliOf(n), 0)
    /\ UNCHANGED <<clock, waiting>>

\* Next without one: it waits for the next millisecond.
Exhausted(n) ==
    /\ ~waiting[n]
    /\ count[n] < MaxIds
    /\ milliOf(n) = last[n] /\ sequence[n] = SeqCount - 1
    /\ waiting' = [waiting EXCEPT ![n] = TRUE]
    /\ UNCHANGED <<clock, last, sequence, count, top, issued>>

\* waitNextMilli sleeps until its clock has passed the exhausted millisecond.
waitNextMilli(n) ==
    /\ waiting[n]
    /\ currentMilli(n) > last[n]
    /\ waiting' = [waiting EXCEPT ![n] = FALSE]
    /\ Return(n, currentMilli(n), 0)
    /\ UNCHANGED clock

IdgenInit ==
    /\ clock \in [Node -> Time]
    /\ last = [n \in Node |-> -1]
    /\ sequence = [n \in Node |-> 0]
    /\ waiting = [n \in Node |-> FALSE]
    /\ count = [n \in Node |-> 0]
    /\ top = [n \in Node |-> -1]
    /\ issued = [n \in Node |-> {}]

IdgenNext == \E n \in Node : Tick(n) \/ GenerateId(n) \/ Exhausted(n) \/ waitNextMilli(n)

IdgenSpec == IdgenInit /\ [][IdgenNext]_idgenVars

-----------------------------------------------------------------------------

\* Every variable keeps its type.
IdgenTypeOK ==
    /\ clock \in [Node -> Time]
    /\ last \in [Node -> Int] /\ \A n \in Node : last[n] >= -1
    /\ sequence \in [Node -> 0 .. SeqCount - 1]
    /\ waiting \in [Node -> BOOLEAN]
    /\ count \in [Node -> Nat]
    /\ top \in [Node -> Int]
    /\ issued \in [Node -> SUBSET Nat]

\* Next never returns an id again, on any node, however the clocks are set: a
\* node's ids grow, and the node id keeps them apart from the other nodes'.
IdsAreFresh ==
    [][\A n \in Node : count'[n] # count[n] =>
          /\ top'[n] > top[n]
          /\ \A m \in Node : top'[n] \notin issued[m]]_idgenVars

\* Parse takes an id apart into the parts Next made it of.
ParseInvertsNext ==
    \A n \in Node : count[n] # 0 =>
        Parse(top[n]) = [milli |-> last[n], node |-> n, sequence |-> sequence[n]]
=============================================================================
