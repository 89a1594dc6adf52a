-------------------------- MODULE BattleRoom_proofs --------------------------
(***************************************************************************)
(* Proofs about BattleRoom, for any players, clients, size of the ring     *)
(* buffer and bounds.                                                      *)
(***************************************************************************)
EXTENDS BattleRoom, SequenceTheorems, WellFoundedInduction, TLAPS

-----------------------------------------------------------------------------
(* Folds over a sequence *)

\* Induction over the natural numbers, for a set.
LEMMA NatInduct ==
    ASSUME NEW S, 0 \in S, \A n \in Nat : n \in S => n + 1 \in S
    PROVE  Nat \subseteq S
<1> DEFINE T == Nat \ S
<1>1. SUFFICES ASSUME T # {} PROVE FALSE
  OBVIOUS
<1>2. PICK x \in T : \A y \in T : ~ (<<y, x>> \in OpToRel(<, Nat))
  BY <1>1, WFMin, NatLessThanWellFounded, Zenon
<1>3. x \in T /\ \A y \in T : ~(y < x)
  BY <1>2, Zenon DEF OpToRel
<1>4. x \in Nat /\ x # 0 /\ x - 1 \in Nat /\ x - 1 < x /\ (x - 1) + 1 = x
  BY <1>3
<1>5. x - 1 \notin T
  BY <1>3, <1>4
<1> QED BY <1>3, <1>4, <1>5

\* The function ForEach computes its result with, for a step that is a
\* function of the accumulator and an element.
Folds(step, base, seq, f, n) ==
    f = [s \in SUBSET (1 .. n) |->
           IF s = {} THEN base ELSE step[<<f[s \ {Max(s)}], seq[Max(s)]>>]]

LEMMA MaxLast ==
    ASSUME NEW n \in Nat, NEW s \in SUBSET (1 .. n + 1), n + 1 \in s
    PROVE  Max(s) = n + 1 /\ s \ {Max(s)} \in SUBSET (1 .. n)
<1>1. \A y \in s : y \in Int /\ n + 1 >= y
  OBVIOUS
<1>2. \E x \in s : \A y \in s : x >= y
  <2> WITNESS n + 1 \in s
  <2> QED BY <1>1
<1>3. Max(s) \in s /\ \A y \in s : Max(s) >= y
  BY <1>2, Zenon DEF Max
<1>4. Max(s) \in Int /\ n + 1 >= Max(s) /\ Max(s) >= n + 1
  BY <1>1, <1>3, Zenon
<1>5. Max(s) = n + 1
  BY <1>4
<1> QED BY <1>5

LEMMA MaxIn ==
    ASSUME NEW n \in Nat, NEW s \in SUBSET (1 .. n), s # {}
    PROVE  Max(s) \in s
<1> DEFINE G == {m \in Nat : \A t \in SUBSET (1 .. m) : t # {} => Max(t) \in t}
<1>1. 0 \in G
  <2>1. 1 .. 0 = {}
    OBVIOUS
  <2> QED BY <2>1, Zenon
<1>2. ASSUME NEW m \in Nat, m \in G PROVE m + 1 \in G
  <2> SUFFICES ASSUME NEW t \in SUBSET (1 .. m + 1), t # {} PROVE Max(t) \in t
    OBVIOUS
  <2>1. CASE m + 1 \in t
    BY <2>1, MaxLast, SMTT(20)
  <2>2. CASE m + 1 \notin t
    <3>1. t \in SUBSET (1 .. m)
      BY <2>2
    <3> QED BY <3>1, <1>2
  <2> QED BY <2>1, <2>2
<1> HIDE DEF G
<1>3. Nat \subseteq G
  BY <1>1, <1>2, NatInduct
<1> QED BY <1>3 DEF G

LEMMA FoldExists ==
    ASSUME NEW A, NEW X, NEW step \in [A \X X -> A], NEW base \in A, NEW seq \in Seq(X)
    PROVE  \E f \in [SUBSET (1 .. Len(seq)) -> A] : Folds(step, base, seq, f, Len(seq))
<1> DEFINE G == {n \in Nat : n <= Len(seq) =>
                    \E f \in [SUBSET (1 .. n) -> A] : Folds(step, base, seq, f, n)}
<1>1. 0 \in G
  <2> DEFINE f == [s \in SUBSET (1 .. 0) |-> base]
  <2>1. 1 .. 0 = {}
    OBVIOUS
  <2>2. \A s \in SUBSET (1 .. 0) : s = {}
    BY <2>1
  <2>3. f = [s \in SUBSET (1 .. 0) |->
               IF s = {} THEN base ELSE step[<<f[s \ {Max(s)}], seq[Max(s)]>>]]
    BY <2>2
  <2>4. f \in [SUBSET (1 .. 0) -> A] /\ Folds(step, base, seq, f, 0)
    BY <2>3 DEF Folds
  <2> QED BY <2>4
<1>2. ASSUME NEW n \in Nat, n \in G PROVE n + 1 \in G
  <2> SUFFICES ASSUME n + 1 <= Len(seq)
               PROVE  \E f \in [SUBSET (1 .. n + 1) -> A] : Folds(step, base, seq, f, n + 1)
    <3>1. n + 1 \in Nat
      OBVIOUS
    <3> QED BY <3>1, Zenon
  <2>0. n <= Len(seq)
    OBVIOUS
  <2>1. PICK f \in [SUBSET (1 .. n) -> A] : Folds(step, base, seq, f, n)
    BY <1>2, <2>0, Zenon
  <2> DEFINE e == seq[n + 1]
             g == [s \in SUBSET (1 .. n + 1) |->
                     IF n + 1 \in s THEN step[<<f[s \ {n + 1}], e>>] ELSE f[s]]
  <2>2. e \in X
    OBVIOUS
  <2>3. \A s \in SUBSET (1 .. n + 1) : n + 1 \in s => s \ {n + 1} \in SUBSET (1 .. n)
    OBVIOUS
  <2>4. \A s \in SUBSET (1 .. n + 1) : n + 1 \notin s => s \in SUBSET (1 .. n)
    OBVIOUS
  <2>5. \A s \in SUBSET (1 .. n) : s \in SUBSET (1 .. n + 1) /\ n + 1 \notin s /\ g[s] = f[s]
    OBVIOUS
  <2>6. g \in [SUBSET (1 .. n + 1) -> A]
    BY <2>2, <2>3, <2>4
  <2>7. ASSUME NEW s \in SUBSET (1 .. n + 1)
        PROVE  g[s] = IF s = {} THEN base ELSE step[<<g[s \ {Max(s)}], seq[Max(s)]>>]
    <3>1. CASE n + 1 \in s
      <4>1. Max(s) = n + 1 /\ s \ {Max(s)} \in SUBSET (1 .. n)
        BY <3>1, MaxLast, Zenon
      <4> QED BY <3>1, <4>1, <2>5
    <3>2. CASE n + 1 \notin s
      <4>1. s \in SUBSET (1 .. n) /\ g[s] = f[s]
        BY <3>2, <2>4
      <4>2. f[s] = IF s = {} THEN base ELSE step[<<f[s \ {Max(s)}], seq[Max(s)]>>]
        BY <4>1, <2>1, Zenon DEF Folds
      <4>3. s \ {Max(s)} \in SUBSET (1 .. n)
        BY <4>1, Zenon
      <4>4. g[s \ {Max(s)}] = f[s \ {Max(s)}]
        BY <4>3, <2>5
      <4> HIDE DEF g
      <4> QED BY <4>1, <4>2, <4>4
    <3> QED BY <3>1, <3>2
  <2>8. g = [s \in SUBSET (1 .. n + 1) |-> g[s]]
    OBVIOUS
  <2> HIDE DEF g
  <2>9. Folds(step, base, seq, g, n + 1)
    BY <2>7, <2>8, Zenon DEF Folds
  <2> QED BY <2>6, <2>9
<1> HIDE DEF G
<1>3. Nat \subseteq G
  BY <1>1, <1>2, NatInduct
<1>4. Len(seq) \in Nat /\ Len(seq) <= Len(seq)
  OBVIOUS
<1> QED BY <1>3, <1>4, Zenon DEF G

\* The subsets that ForEach goes through on the way to the whole sequence.
LEMMA Initials ==
    ASSUME NEW n \in Nat
    PROVE  /\ 1 .. n + 1 # {} /\ Max(1 .. n + 1) = n + 1
           /\ (1 .. n + 1) \ {n + 1} = 1 .. n /\ 1 .. 0 = {}
<1>1. n + 1 \in 1 .. n + 1 /\ 1 .. n + 1 \in SUBSET (1 .. n + 1)
  OBVIOUS
<1>2. Max(1 .. n + 1) = n + 1
  BY <1>1, MaxLast, Zenon
<1>3. (1 .. n + 1) \ {n + 1} = 1 .. n /\ 1 .. 0 = {}
  OBVIOUS
<1> QED BY <1>1, <1>2, <1>3

-----------------------------------------------------------------------------
(* What a callback leaves *)

RunAcc == [players : Players, ok : BOOLEAN]

RunStep(acc, op) ==
    IF acc.ok /\ Applies(op, acc.players)
    THEN [acc EXCEPT !.players = Applied(op, @)]
    ELSE [acc EXCEPT !.ok = FALSE]

RunFolds(base, ops, f) ==
    f = [s \in SUBSET DOMAIN ops |->
           IF s = {} THEN base ELSE RunStep(f[s \ {Max(s)}], ops[Max(s)])]

LEMMA RunIsFold ==
    ASSUME NEW ops, NEW players
    PROVE  RunOps(ops, players)
             = (CHOOSE f : RunFolds([players |-> players, ok |-> TRUE], ops, f))[DOMAIN ops]
BY DEF RunOps, ForEach, MapThenFoldSet, RunFolds, RunStep

LEMMA RunStepType ==
    ASSUME NEW acc \in RunAcc, NEW op \in Op
    PROVE  RunStep(acc, op) \in RunAcc
<1>1. acc.players \in Players /\ acc.ok \in BOOLEAN
  BY DEF RunAcc
<1>2. op.player \in Player /\ (IF op.kind = "remove" THEN Absent ELSE op.hp) \in HP \union {Absent}
  BY DEF Op
<1>3. Applied(op, acc.players) \in Players
  BY <1>1, <1>2 DEF Applied, Players
<1>4. [acc EXCEPT !.players = Applied(op, @)] \in RunAcc
  BY <1>3 DEF RunAcc
<1>5. [acc EXCEPT !.ok = FALSE] \in RunAcc
  BY Zenon DEF RunAcc
<1> QED BY <1>4, <1>5 DEF RunStep

LEMMA RunOpsType ==
    ASSUME NEW ops \in Seq(Op), NEW players \in Players
    PROVE  RunOps(ops, players) \in RunAcc
<1> DEFINE base == [players |-> players, ok |-> TRUE]
           step == [x \in RunAcc \X Op |-> RunStep(x[1], x[2])]
           N == Len(ops)
<1>1. base \in RunAcc
  BY DEF RunAcc
<1>2. step \in [RunAcc \X Op -> RunAcc]
  BY RunStepType
<1>3. N \in Nat /\ DOMAIN ops = 1 .. N
  OBVIOUS
<1>4. \A a \in RunAcc, x \in Op : step[<<a, x>>] = RunStep(a, x)
  OBVIOUS
<1> HIDE DEF step, base
<1>5. PICK f \in [SUBSET (1 .. N) -> RunAcc] : Folds(step, base, ops, f, N)
  BY <1>1, <1>2, FoldExists, Zenon
<1>6. RunFolds(base, ops, f)
  <2>1. ASSUME NEW s \in SUBSET (1 .. N)
        PROVE  f[s] = IF s = {} THEN base ELSE RunStep(f[s \ {Max(s)}], ops[Max(s)])
    <3>1. f[s] = IF s = {} THEN base ELSE step[<<f[s \ {Max(s)}], ops[Max(s)]>>]
      BY <1>5, Zenon DEF Folds
    <3>2. CASE s = {}
      BY <3>1, <3>2
    <3>3. CASE s # {}
      <4>0. Max(s) \in s
        BY <1>3, <3>3, MaxIn, Zenon
      <4>1. Max(s) \in 1 .. N
        BY <4>0, Zenon
      <4>a. f[s \ {Max(s)}] \in RunAcc
        BY Zenon
      <4>b. ops[Max(s)] \in Op
        BY <1>3, <4>1
      <4>2. f[s \ {Max(s)}] \in RunAcc /\ ops[Max(s)] \in Op
        BY <4>a, <4>b
      <4> QED BY <3>1, <3>3, <4>2, <1>4
    <3> QED BY <3>2, <3>3
  <2>2. f = [s \in SUBSET (1 .. N) |-> f[s]]
    OBVIOUS
  <2> QED BY <1>3, <2>1, <2>2, Zenon DEF RunFolds
<1> DEFINE g == CHOOSE h : RunFolds(base, ops, h)
<1>7. RunFolds(base, ops, g)
  BY <1>6
<1>8. RunOps(ops, players) = g[1 .. N]
  BY <1>3, RunIsFold DEF base
<1> HIDE DEF g
<1>9. \A s \in SUBSET (1 .. N) :
          g[s] = IF s = {} THEN base ELSE RunStep(g[s \ {Max(s)}], ops[Max(s)])
  BY <1>3, <1>7, Zenon DEF RunFolds
<1> DEFINE G == {n \in Nat : n <= N => g[1 .. n] \in RunAcc}
<1>10. 0 \in G
  BY <1>1, <1>9, Initials, Zenon
<1>11. ASSUME NEW n \in Nat, n \in G PROVE n + 1 \in G
  <2> SUFFICES ASSUME n + 1 <= N PROVE g[1 .. n + 1] \in RunAcc
    OBVIOUS
  <2>1. g[1 .. n] \in RunAcc /\ ops[n + 1] \in Op
    BY <1>3, <1>11
  <2>2. 1 .. n + 1 \in SUBSET (1 .. N)
    BY <1>3
  <2>3. g[1 .. n + 1] = RunStep(g[(1 .. n + 1) \ {n + 1}], ops[n + 1])
    BY <1>9, <2>2, Initials, Zenon
  <2>4. g[1 .. n + 1] = RunStep(g[1 .. n], ops[n + 1])
    BY <2>3, Initials, Zenon
  <2> QED BY <2>1, <2>4, RunStepType
<1> HIDE DEF G
<1>12. N \in G
  BY <1>3, <1>10, <1>11, NatInduct
<1>13. g[1 .. N] \in RunAcc
  BY <1>3, <1>12 DEF G
<1> QED BY <1>8, <1>13

LEMMA RunsType ==
    ASSUME NEW r \in Room, NEW run \in Runs(r)
    PROVE  run.players \in Players
<1>1. PICK ops \in Callbacks : run = RunOps(ops, r.players)
  BY DEF Runs
<1>2. PICK n \in 1 .. MaxOps : ops \in [1 .. n -> Op]
  BY <1>1 DEF Callbacks
<1>3. ops \in Seq(Op)
  BY <1>2, BoundsAssumption
<1>4. run \in RunAcc
  BY <1>1, <1>3, RunOpsType DEF Room
<1> QED BY <1>4 DEF RunAcc

-----------------------------------------------------------------------------
(* What the composed deltas say *)

Status == {"created", "running"}

ComposeAcc ==
    [next : 0 .. MaxVersion, status : Status, upsert : Players, removed : SUBSET Player]

ComposeBase(from) ==
    [next |-> from, status |-> "created", upsert |-> [p \in Player |-> Absent], removed |-> {}]

ComposeStep(to, acc, delta) ==
    IF Continues(delta, acc, to) THEN Merge(acc, delta) ELSE acc

ComposeFolds(from, to, ring, f) ==
    f = [s \in SUBSET DOMAIN ring |->
           IF s = {} THEN ComposeBase(from)
           ELSE ComposeStep(to, f[s \ {Max(s)}], ring[Max(s)])]

LEMMA ComposeIsFold ==
    ASSUME NEW ring, NEW from, NEW to
    PROVE  ComposeDeltas(ring, from, to)
             = (CHOOSE f : ComposeFolds(from, to, ring, f))[DOMAIN ring]
BY DEF ComposeDeltas, ForEach, MapThenFoldSet, ComposeFolds, ComposeStep, ComposeBase

LEMMA DeltaFields ==
    ASSUME NEW d \in Delta
    PROVE  /\ d.from \in 1 .. MaxVersion /\ d.to \in 1 .. MaxVersion /\ d.to \in 0 .. MaxVersion
           /\ d.status \in Status /\ d.upsert \in Players /\ d.removed \in SUBSET Player
<1>1. d.from \in 1 .. MaxVersion /\ d.to \in 1 .. MaxVersion
      /\ d.status \in Status /\ d.upsert \in Players /\ d.removed \in SUBSET Player
  BY DEF Delta, Status
<1>2. d.to \in 0 .. MaxVersion
  BY <1>1
<1> QED BY <1>1, <1>2

LEMMA ComposeStepType ==
    ASSUME NEW acc \in ComposeAcc, NEW d \in Delta, NEW to
    PROVE  ComposeStep(to, acc, d) \in ComposeAcc
<1>1. acc.upsert \in Players /\ acc.removed \in SUBSET Player
  BY DEF ComposeAcc
<1>2. d.to \in 0 .. MaxVersion /\ d.status \in Status /\ d.upsert \in Players
      /\ d.removed \in SUBSET Player
  BY DeltaFields
<1>3. [p \in Player |-> IF p \in d.removed THEN Absent
                        ELSE IF d.upsert[p] # Absent THEN d.upsert[p] ELSE acc.upsert[p]]
        \in Players
  BY <1>1, <1>2 DEF Players
<1>4. (acc.removed \ {p \in Player : d.upsert[p] # Absent}) \union d.removed \in SUBSET Player
  BY <1>1, <1>2
<1>5. Merge(acc, d) \in ComposeAcc
  BY <1>2, <1>3, <1>4 DEF Merge, ComposeAcc
<1> QED BY <1>5 DEF ComposeStep

\* The accumulator after every delta of the ring.
Composes(from, to, ring, h) ==
    /\ h \in [0 .. Len(ring) -> ComposeAcc]
    /\ h[0] = ComposeBase(from)
    /\ \A n \in 0 .. Len(ring) - 1 : h[n + 1] = ComposeStep(to, h[n], ring[n + 1])
    /\ ComposeDeltas(ring, from, to) = h[Len(ring)]

LEMMA ComposeRuns ==
    ASSUME NEW ring \in Seq(Delta), NEW from \in 0 .. MaxVersion, NEW to
    PROVE  \E h : Composes(from, to, ring, h)
<1> DEFINE base == ComposeBase(from)
           step == [x \in ComposeAcc \X Delta |-> ComposeStep(to, x[1], x[2])]
           N == Len(ring)
<1>1. base \in ComposeAcc
  <2>1. [p \in Player |-> Absent] \in Players
    BY DEF Players
  <2> QED BY <2>1 DEF ComposeBase, ComposeAcc, Status
<1>2. step \in [ComposeAcc \X Delta -> ComposeAcc]
  BY ComposeStepType
<1>3. N \in Nat /\ DOMAIN ring = 1 .. N
  OBVIOUS
<1>4. \A a \in ComposeAcc, x \in Delta : step[<<a, x>>] = ComposeStep(to, a, x)
  OBVIOUS
<1> HIDE DEF step, base
<1>5. PICK f \in [SUBSET (1 .. N) -> ComposeAcc] : Folds(step, base, ring, f, N)
  BY <1>1, <1>2, FoldExists, Zenon
<1>6. ComposeFolds(from, to, ring, f)
  <2>1. ASSUME NEW s \in SUBSET (1 .. N)
        PROVE  f[s] = IF s = {} THEN base ELSE ComposeStep(to, f[s \ {Max(s)}], ring[Max(s)])
    <3>1. f[s] = IF s = {} THEN base ELSE step[<<f[s \ {Max(s)}], ring[Max(s)]>>]
      BY <1>5, Zenon DEF Folds
    <3>2. CASE s = {}
      BY <3>1, <3>2
    <3>3. CASE s # {}
      <4>1. Max(s) \in s
        BY <1>3, <3>3, MaxIn, Zenon
      <4>2. Max(s) \in 1 .. N
        BY <4>1, Zenon
      <4>3. f[s \ {Max(s)}] \in ComposeAcc
        BY Zenon
      <4>4. ring[Max(s)] \in Delta
        BY <1>3, <4>2
      <4> QED BY <3>1, <3>3, <4>3, <4>4, <1>4
    <3> QED BY <3>2, <3>3
  <2>2. f = [s \in SUBSET (1 .. N) |-> f[s]]
    OBVIOUS
  <2> QED BY <1>3, <2>1, <2>2, Zenon DEF ComposeFolds, base
<1> DEFINE g == CHOOSE u : ComposeFolds(from, to, ring, u)
<1>7. ComposeFolds(from, to, ring, g)
  BY <1>6
<1>8. ComposeDeltas(ring, from, to) = g[1 .. N]
  BY <1>3, ComposeIsFold, Zenon
<1> HIDE DEF g
<1>9. \A s \in SUBSET (1 .. N) :
          g[s] = IF s = {} THEN base ELSE ComposeStep(to, g[s \ {Max(s)}], ring[Max(s)])
  BY <1>3, <1>7, Zenon DEF ComposeFolds, base
<1>10. g[1 .. 0] = base
  BY <1>9, Initials, Zenon
<1>11. ASSUME NEW n \in Nat, n + 1 <= N
       PROVE  g[1 .. n + 1] = ComposeStep(to, g[1 .. n], ring[n + 1])
  <2>1. 1 .. n + 1 \in SUBSET (1 .. N)
    BY <1>3, <1>11
  <2>2. g[1 .. n + 1] = ComposeStep(to, g[(1 .. n + 1) \ {n + 1}], ring[n + 1])
    BY <1>9, <2>1, Initials, Zenon
  <2> QED BY <2>2, Initials, Zenon
<1> DEFINE G == {n \in Nat : n <= N => g[1 .. n] \in ComposeAcc}
<1>12. 0 \in G
  BY <1>1, <1>10
<1>13. ASSUME NEW n \in Nat, n \in G PROVE n + 1 \in G
  <2> SUFFICES ASSUME n + 1 <= N PROVE g[1 .. n + 1] \in ComposeAcc
    OBVIOUS
  <2>1. g[1 .. n] \in ComposeAcc /\ ring[n + 1] \in Delta
    BY <1>3, <1>13
  <2> QED BY <2>1, <1>11, ComposeStepType
<1> HIDE DEF G
<1>14. Nat \subseteq G
  BY <1>12, <1>13, NatInduct
<1> DEFINE h == [n \in 0 .. N |-> g[1 .. n]]
<1>15. h \in [0 .. N -> ComposeAcc]
  <2>1. \A n \in 0 .. N : g[1 .. n] \in ComposeAcc
    BY <1>3, <1>14 DEF G
  <2> QED BY <2>1
<1>16. h[0] = base /\ ComposeDeltas(ring, from, to) = h[N]
  BY <1>3, <1>8, <1>10
<1>17. ASSUME NEW n \in 0 .. N - 1 PROVE h[n + 1] = ComposeStep(to, h[n], ring[n + 1])
  <2>1. n \in Nat /\ n + 1 <= N /\ n \in 0 .. N /\ n + 1 \in 0 .. N
    BY <1>3
  <2> QED BY <2>1, <1>11
<1> HIDE DEF h
<1>18. Composes(from, to, ring, h)
  BY <1>15, <1>16, <1>17 DEF Composes, base
<1> QED BY <1>18

\* The players of a room after a delta.
Patch(players, upsert, removed) ==
    [p \in Player |-> IF p \in removed THEN Absent
                      ELSE IF upsert[p] # Absent THEN upsert[p] ELSE players[p]]

LEMMA RoomFields ==
    ASSUME NEW r \in Room
    PROVE  /\ r.version \in 1 .. MaxVersion /\ r.status \in Status /\ r.players \in Players
           /\ r = [version |-> r.version, status |-> r.status, players |-> r.players]
BY DEF Room, Status

LEMMA RoomMade ==
    ASSUME NEW v \in 1 .. MaxVersion, NEW t \in Status, NEW players \in Players
    PROVE  LET r == [version |-> v, status |-> t, players |-> players]
           IN  r \in Room /\ r.version = v /\ r.status = t /\ r.players = players
BY DEF Room, Status

LEMMA PatchOfDelta ==
    ASSUME NEW a \in Room, NEW b \in Room
    PROVE  Patch(a.players, Upserted(a, b), Removed(a, b)) = b.players
<1>1. a.players \in Players /\ b.players \in Players
  BY RoomFields
<1>2. b.players = [p \in Player |-> b.players[p]]
  BY <1>1 DEF Players
<1> QED BY <1>1, <1>2 DEF Patch, Upserted, Removed

LEMMA PatchMerged ==
    ASSUME NEW players, NEW acc \in ComposeAcc, NEW d \in Delta
    PROVE  Patch(players, Merge(acc, d).upsert, Merge(acc, d).removed)
             = Patch(Patch(players, acc.upsert, acc.removed), d.upsert, d.removed)
<1> DEFINE up == [p \in Player |-> IF p \in d.removed THEN Absent
                                   ELSE IF d.upsert[p] # Absent THEN d.upsert[p]
                                        ELSE acc.upsert[p]]
           gone == (acc.removed \ {p \in Player : d.upsert[p] # Absent}) \union d.removed
<1>1. Merge(acc, d).upsert = up /\ Merge(acc, d).removed = gone
  BY DEF Merge
<1>2. ASSUME NEW p \in Player
      PROVE  Patch(players, up, gone)[p]
               = Patch(Patch(players, acc.upsert, acc.removed), d.upsert, d.removed)[p]
  BY DEF Patch
<1>3. Patch(players, up, gone)
        = Patch(Patch(players, acc.upsert, acc.removed), d.upsert, d.removed)
  BY <1>2 DEF Patch
<1> QED BY <1>1, <1>3

\* A room for every version.
History(H) == H \in [1 .. MaxVersion -> Room] /\ \A v \in 1 .. MaxVersion : H[v].version = v

\* Every delta of the ring leads from a version to the next.
RingOf(H, ring) ==
    \A i \in DOMAIN ring :
        /\ ring[i].to = ring[i].from + 1
        /\ ring[i] = DeltaOf(H[ring[i].from], H[ring[i].to])

LEMMA EmptyRing ==
    ASSUME NEW H
    PROVE  RingOf(H, <<>>)
<1>1. \A i : i \notin DOMAIN <<>>
  OBVIOUS
<1> QED BY <1>1, Zenon DEF RingOf

\* What the accumulator stands for: the way from one version to another.
Leads(H, from, acc) ==
    /\ acc.next \in 1 .. MaxVersion
    /\ Patch(H[from].players, acc.upsert, acc.removed) = H[acc.next].players
    /\ acc.next = from \/ acc.status = H[acc.next].status

LEMMA DeltaOfFields ==
    ASSUME NEW a, NEW b
    PROVE  /\ DeltaOf(a, b).status = b.status /\ DeltaOf(a, b).upsert = Upserted(a, b)
           /\ DeltaOf(a, b).removed = Removed(a, b)
           /\ DeltaOf(a, b).from = a.version /\ DeltaOf(a, b).to = b.version
BY DEF DeltaOf

LEMMA StepLeads ==
    ASSUME NEW H, History(H), NEW from \in 1 .. MaxVersion, NEW to,
           NEW acc \in ComposeAcc, Leads(H, from, acc),
           NEW d \in Delta, d.to = d.from + 1, d = DeltaOf(H[d.from], H[d.to])
    PROVE  Leads(H, from, ComposeStep(to, acc, d))
<1>1. CASE ~Continues(d, acc, to)
  BY <1>1 DEF ComposeStep
<1>2. CASE Continues(d, acc, to)
  <2> DEFINE m == Merge(acc, d)
             x == d.from
             y == d.to
  <2>1. x \in 1 .. MaxVersion /\ y \in 1 .. MaxVersion
    BY DeltaFields
  <2>2. H[x] \in Room /\ H[y] \in Room
    BY <2>1 DEF History
  <2>3. d.status = H[y].status /\ d.upsert = Upserted(H[x], H[y]) /\ d.removed = Removed(H[x], H[y])
    <3>1. \A a, b : d = DeltaOf(a, b) =>
              d.status = b.status /\ d.upsert = Upserted(a, b) /\ d.removed = Removed(a, b)
      BY DeltaOfFields
    <3> QED BY <3>1
  <2>4. m.next = y /\ m.status = d.status
    BY DEF Merge
  <2>5. x = acc.next
    BY <1>2 DEF Continues
  <2>6. Patch(H[from].players, acc.upsert, acc.removed) = H[x].players
    BY <2>5 DEF Leads
  <2>7. Patch(H[from].players, m.upsert, m.removed) = Patch(H[x].players, d.upsert, d.removed)
    <3>1. Patch(H[from].players, m.upsert, m.removed)
            = Patch(Patch(H[from].players, acc.upsert, acc.removed), d.upsert, d.removed)
      BY PatchMerged, Zenon
    <3> QED BY <2>6, <3>1, Zenon
  <2>8. Patch(H[x].players, d.upsert, d.removed) = H[y].players
    BY <2>2, <2>3, PatchOfDelta
  <2>9. ComposeStep(to, acc, d) = m
    BY <1>2 DEF ComposeStep
  <2> HIDE DEF m
  <2> QED BY <2>1, <2>3, <2>4, <2>7, <2>8, <2>9 DEF Leads
<1> QED BY <1>1, <1>2

LEMMA ComposeLeads ==
    ASSUME NEW H, History(H), NEW ring \in Seq(Delta), RingOf(H, ring),
           NEW from \in 1 .. MaxVersion, NEW to
    PROVE  Leads(H, from, ComposeDeltas(ring, from, to))
<1> DEFINE N == Len(ring)
<1>1. from \in 0 .. MaxVersion
  OBVIOUS
<1>2. PICK h : Composes(from, to, ring, h)
  BY <1>1, ComposeRuns
<1>3. N \in Nat /\ DOMAIN ring = 1 .. N
  OBVIOUS
<1> DEFINE G == {n \in Nat : n <= N => Leads(H, from, h[n])}
<1>4. 0 \in G
  <2>1. h[0] = ComposeBase(from)
    BY <1>2 DEF Composes
  <2>2. H[from] \in Room
    BY DEF History
  <2>3. H[from].players \in Players
    BY <2>2, RoomFields
  <2>4. H[from].players = [p \in Player |-> H[from].players[p]]
    BY <2>3 DEF Players
  <2>5. Patch(H[from].players, [p \in Player |-> Absent], {}) = H[from].players
    BY <2>4 DEF Patch
  <2>6. Leads(H, from, ComposeBase(from))
    BY <2>5 DEF Leads, ComposeBase
  <2> QED BY <2>1, <2>6
<1>5. ASSUME NEW n \in Nat, n \in G PROVE n + 1 \in G
  <2> SUFFICES ASSUME n + 1 <= N PROVE Leads(H, from, h[n + 1])
    OBVIOUS
  <2>1. n \in 0 .. N - 1 /\ n \in 0 .. N /\ n + 1 \in 1 .. N /\ n <= N
    BY <1>3
  <2>2. Leads(H, from, h[n])
    BY <1>5, <2>1
  <2>3. h[n + 1] = ComposeStep(to, h[n], ring[n + 1]) /\ h[n] \in ComposeAcc
    BY <1>2, <2>1 DEF Composes
  <2>4. ring[n + 1] \in Delta
    BY <2>1, <1>3
  <2>5. ring[n + 1].to = ring[n + 1].from + 1
        /\ ring[n + 1] = DeltaOf(H[ring[n + 1].from], H[ring[n + 1].to])
    BY <2>1, <1>3 DEF RingOf
  <2> QED BY <2>2, <2>3, <2>4, <2>5, StepLeads
<1> HIDE DEF G
<1>6. N \in G
  BY <1>3, <1>4, <1>5, NatInduct
<1>7. Leads(H, from, h[N])
  BY <1>3, <1>6 DEF G
<1> QED BY <1>2, <1>7 DEF Composes

\* A client without state gets no delta: none starts at version 0.
LEMMA ComposeFromNothing ==
    ASSUME NEW ring \in Seq(Delta), NEW to
    PROVE  ComposeDeltas(ring, 0, to).next = 0
<1> DEFINE N == Len(ring)
<1>1. 0 \in 0 .. MaxVersion
  BY BoundsAssumption
<1>2. PICK h : Composes(0, to, ring, h)
  BY <1>1, ComposeRuns
<1>3. N \in Nat /\ DOMAIN ring = 1 .. N
  OBVIOUS
<1> DEFINE G == {n \in Nat : n <= N => h[n].next = 0}
<1>4. 0 \in G
  BY <1>2 DEF Composes, ComposeBase
<1>5. ASSUME NEW n \in Nat, n \in G PROVE n + 1 \in G
  <2> SUFFICES ASSUME n + 1 <= N PROVE h[n + 1].next = 0
    OBVIOUS
  <2>1. n \in 0 .. N - 1 /\ n + 1 \in 1 .. N /\ n <= N
    BY <1>3
  <2>2. h[n + 1] = ComposeStep(to, h[n], ring[n + 1]) /\ h[n].next = 0
    BY <1>2, <1>5, <2>1 DEF Composes
  <2>3. ring[n + 1] \in Delta
    BY <2>1, <1>3
  <2>4. ring[n + 1].from # 0
    BY <2>3, DeltaFields
  <2> QED BY <2>2, <2>4 DEF ComposeStep, Continues
<1> HIDE DEF G
<1>6. N \in G
  BY <1>3, <1>4, <1>5, NatInduct
<1>7. h[N].next = 0
  BY <1>3, <1>6 DEF G
<1> QED BY <1>2, <1>7 DEF Composes

LEMMA ComposeType ==
    ASSUME NEW ring \in Seq(Delta), NEW from \in 0 .. MaxVersion, NEW to
    PROVE  ComposeDeltas(ring, from, to) \in ComposeAcc
<1>1. PICK h : Composes(from, to, ring, h)
  BY ComposeRuns, Zenon
<1>2. Len(ring) \in 0 .. Len(ring)
  OBVIOUS
<1> QED BY <1>1, <1>2 DEF Composes

-----------------------------------------------------------------------------
(* The invariant *)

\* The newest version that anyone may have been shown.
Newest == IF room # NoRoom THEN room.version ELSE store.version

\* Memory and MongoDB hold rooms of the history; the document may be one
\* version ahead, after a write that was executed and reported as failed.
RoomOf(H) ==
    /\ room # NoRoom =>
         /\ room = H[room.version]
         /\ store # NoRoom
         /\ store.version \in {room.version, room.version + 1}
         /\ store.version = room.version => store = ToDocument(room)
         /\ \A i \in DOMAIN deltas : deltas[i].to <= room.version
    /\ room = NoRoom =>
         /\ deltas = <<>>
         /\ store # NoRoom => store = ToDocument(H[store.version])
    /\ RingOf(H, deltas)

Shown(H, r) == store # NoRoom /\ r = H[r.version] /\ r.version <= Newest

ClientOf(H, c) ==
    /\ seen[c] # NoRoom => Shown(H, seen[c])
    /\ pc[c] = "compose" => room # NoRoom /\ Shown(H, found[c])
    /\ pc[c] = "install" /\ room = NoRoom => store # NoRoom /\ found[c] = FromDocument(store)

\* Every version stands for one room, whose later copies all agree.
Told(H) == RoomOf(H) /\ \A c \in Client : ClientOf(H, c)

FoundOK == \A c \in Client : pc[c] \in {"install", "compose"} => found[c] # NoRoom

StoreOK == store # NoRoom => \E r \in Room : store = ToDocument(r)

RoomInv ==
    /\ TypeOK
    /\ FoundOK
    /\ StoreOK
    /\ breaches = {} => \E H : History(H) /\ Told(H)

-----------------------------------------------------------------------------
(* Documents and deltas *)

LEMMA MapType ==
    ASSUME NEW list \in SUBSET PlayerState
    PROVE  PlayerMap(list) \in Players
<1>1. ASSUME NEW p \in Player, \E x \in list : x.id = p
      PROVE  (CHOOSE x \in list : x.id = p).hp \in HP
  <2>1. (CHOOSE x \in list : x.id = p) \in PlayerState
    BY <1>1
  <2> QED BY <2>1 DEF PlayerState
<1> QED BY <1>1 DEF PlayerMap, Players

LEMMA MapOfList ==
    ASSUME NEW players \in Players
    PROVE  PlayerMap(PlayerList(players)) = players
<1> DEFINE list == PlayerList(players)
<1>1. ASSUME NEW p \in Player PROVE PlayerMap(list)[p] = players[p]
  <2>1. \A x \in list : x.id \in Player /\ x.hp \in HP /\ players[x.id] = x.hp
    BY DEF PlayerList, PlayerState
  <2>2. CASE players[p] = Absent
    <3>1. ~\E x \in list : x.id = p
      BY <2>1, <2>2, AbsentAssumption
    <3> QED BY <2>2, <3>1 DEF PlayerMap
  <2>3. CASE players[p] # Absent
    <3> DEFINE y == [id |-> p, hp |-> players[p]]
    <3>1. players[p] \in HP
      BY <2>3 DEF Players
    <3>2. y \in PlayerState /\ y.id = p /\ y.hp = players[p]
      BY <3>1 DEF PlayerState
    <3>3. y \in list
      BY <3>2 DEF PlayerList
    <3> DEFINE z == CHOOSE x \in list : x.id = p
    <3>4. z \in list /\ z.id = p
      BY <3>2, <3>3
    <3>5. z.hp = players[p]
      BY <2>1, <3>4
    <3>6. PlayerMap(list)[p] = z.hp
      BY <3>2, <3>3 DEF PlayerMap
    <3> QED BY <3>5, <3>6
  <2> QED BY <2>2, <2>3
<1>2. PlayerMap(list) = [p \in Player |-> PlayerMap(list)[p]]
  BY DEF PlayerMap
<1>3. players = [p \in Player |-> players[p]]
  BY DEF Players
<1> HIDE DEF list
<1> QED BY <1>1, <1>2, <1>3 DEF list

LEMMA DocumentOfRoom ==
    ASSUME NEW r \in Room
    PROVE  /\ ToDocument(r) \in Document
           /\ ToDocument(r) # NoRoom
           /\ ToDocument(r).version = r.version
           /\ FromDocument(ToDocument(r)) = r
           /\ ShowSnapshot(MarshalRoomSnapshot(r)) = r
<1>1. PlayerList(r.players) \in SUBSET PlayerState
  BY DEF PlayerList
<1>2. r.version \in 1 .. MaxVersion /\ r.status \in Status /\ r.players \in Players
      /\ r = [version |-> r.version, status |-> r.status, players |-> r.players]
  BY RoomFields
<1>3. ToDocument(r) \in Document
  BY <1>1, <1>2 DEF ToDocument, Document, Status
<1>4. PlayerMap(PlayerList(r.players)) = r.players
  BY <1>2, MapOfList
<1>5. FromDocument(ToDocument(r))
        = [version |-> r.version, status |-> r.status, players |-> PlayerMap(PlayerList(r.players))]
  BY DEF FromDocument, ToDocument
<1>6. ShowSnapshot(MarshalRoomSnapshot(r))
        = [version |-> r.version, status |-> r.status, players |-> PlayerMap(PlayerList(r.players))]
  BY DEF ShowSnapshot, MarshalRoomSnapshot
<1>7. ToDocument(r).version = r.version
  BY DEF ToDocument
<1> QED BY <1>2, <1>3, <1>4, <1>5, <1>6, <1>7, NoRoomAssumption

LEMMA RoomOfDocument ==
    ASSUME NEW d \in Document
    PROVE  FromDocument(d) \in Room /\ FromDocument(d) # NoRoom /\ FromDocument(d).version = d.version
<1>1. d.version \in 1 .. MaxVersion /\ d.status \in Status /\ d.players \in SUBSET PlayerState
  BY DEF Document, Status
<1>2. PlayerMap(d.players) \in Players
  BY <1>1, MapType
<1>3. FromDocument(d) \in Room /\ FromDocument(d).version = d.version
  BY <1>1, <1>2, RoomMade DEF FromDocument
<1> QED BY <1>3, NoRoomAssumption

LEMMA DeltaOfType ==
    ASSUME NEW a \in Room, NEW b \in Room
    PROVE  DeltaOf(a, b) \in Delta
<1>1. /\ a.version \in 1 .. MaxVersion /\ b.version \in 1 .. MaxVersion /\ b.status \in Status
      /\ a.players \in Players /\ b.players \in Players
  BY RoomFields
<1>2. Upserted(a, b) \in Players
  BY <1>1 DEF Upserted, Players
<1>3. Removed(a, b) \in SUBSET Player
  BY DEF Removed
<1> QED BY <1>1, <1>2, <1>3 DEF DeltaOf, Delta, Status

\* The ring keeps the newest deltas and holds nothing else.
LEMMA RecordDeltaIs ==
    ASSUME deltas \in Seq(Delta), Len(deltas) <= DeltaSize, NEW a \in Room, NEW b \in Room
    PROVE  /\ RecordDelta(a, b) \in Seq(Delta) /\ Len(RecordDelta(a, b)) <= DeltaSize
           /\ \A i \in DOMAIN RecordDelta(a, b) :
                 \/ RecordDelta(a, b)[i] = DeltaOf(a, b)
                 \/ \E j \in DOMAIN deltas : RecordDelta(a, b)[i] = deltas[j]
<1> DEFINE d == DeltaOf(a, b)
           all == Append(deltas, d)
           n == Len(all)
           k == n - DeltaSize + 1
<1>1. d \in Delta
  BY DeltaOfType
<1> HIDE DEF d
<1>2. all \in Seq(Delta) /\ n = Len(deltas) + 1 /\ n \in Nat
  BY <1>1
<1>3. \A i \in 1 .. n : all[i] = d \/ \E j \in DOMAIN deltas : all[i] = deltas[j]
  BY <1>1
<1>4. DeltaSize \in Nat /\ DeltaSize # 0
  BY BoundsAssumption
<1> HIDE DEF all
<1>5. CASE n > DeltaSize
  <2>1. RecordDelta(a, b) = SubSeq(all, k, n)
    BY <1>5, Zenon DEF RecordDelta, all, d
  <2>2. k \in 1 .. n + 1 /\ n \in 0 .. n /\ k \in Int /\ n - k + 1 = DeltaSize /\ ~(k > n)
    BY <1>2, <1>4, <1>5
  <2>3. /\ SubSeq(all, k, n) \in Seq(Delta)
        /\ Len(SubSeq(all, k, n)) = DeltaSize
        /\ \A i \in 1 .. DeltaSize : SubSeq(all, k, n)[i] = all[k + i - 1]
    <3>1. \A i \in k .. n : all[i] \in Delta
      BY <1>2, <2>2
    <3>2. n \in Int /\ k \in Int /\ k <= n /\ n - k + 1 = DeltaSize
      BY <1>2, <2>2
    <3> HIDE DEF k, n
    <3>3. /\ SubSeq(all, k, n) \in Seq(Delta)
          /\ Len(SubSeq(all, k, n)) = IF k <= n THEN n - k + 1 ELSE 0
          /\ \A i \in 1 .. n - k + 1 : SubSeq(all, k, n)[i] = all[k + i - 1]
      BY <3>1, <3>2, SubSeqProperties
    <3> QED BY <3>2, <3>3, Zenon
  <2>4. DOMAIN SubSeq(all, k, n) = 1 .. DeltaSize
    BY <2>3
  <2>5. \A i \in 1 .. DeltaSize : k + i - 1 \in 1 .. n
    BY <1>2, <1>4, <2>2
  <2>6. DeltaSize <= DeltaSize
    BY <1>4
  <2> QED BY <2>1, <2>3, <2>4, <2>5, <2>6, <1>3, ZenonT(40) DEF d
<1>6. CASE ~(n > DeltaSize)
  <2>1. RecordDelta(a, b) = all
    BY <1>6 DEF RecordDelta, all, d
  <2>2. DOMAIN all = 1 .. n /\ n <= DeltaSize
    BY <1>2, <1>4, <1>6
  <2> QED BY <2>1, <2>2, <1>2, <1>3 DEF d
<1> QED BY <1>5, <1>6

-----------------------------------------------------------------------------
(* Types *)

LEMMA SaveType ==
    ASSUME TypeOK, NEW r \in Room, NEW out \in Outcomes, Save(r, out)
    PROVE  /\ store' \in Document \union {NoRoom} /\ faults' \in 0 .. MaxFaults
           /\ store' = IF out = "error" THEN store ELSE ToDocument(r)
<1>1. ToDocument(r) \in Document
  BY DocumentOfRoom
<1>2. store' = IF out = "error" THEN store ELSE ToDocument(r)
  BY DEF Save
<1>3. faults' \in 0 .. MaxFaults
  BY BoundsAssumption DEF Save, TypeOK
<1> QED BY <1>1, <1>2, <1>3 DEF TypeOK

LEMMA BreachType ==
    ASSUME TypeOK, NEW kind \in Breaches, NEW happened, Breach(kind, happened)
    PROVE  /\ breaches' \subseteq Breaches
           /\ breaches' = {} => breaches = {} /\ ~happened
BY Zenon DEF Breach, TypeOK

LEMMA NewRoomIs ==
    ASSUME NEW players \in Players
    PROVE  NewRoom(players) \in Room /\ NewRoom(players).version = 1 /\ 1 \in 1 .. MaxVersion
<1>1. 1 \in 1 .. MaxVersion /\ "created" \in Status
  BY BoundsAssumption DEF Status
<1> QED BY <1>1, RoomMade DEF NewRoom

LEMMA AdvanceTickIs ==
    ASSUME NEW r \in Room, NEW players \in Players, r.version < MaxVersion
    PROVE  AdvanceTick(r, players) \in Room /\ AdvanceTick(r, players).version = r.version + 1
<1>1. r.version + 1 \in 1 .. MaxVersion /\ "running" \in Status
  BY RoomFields, BoundsAssumption DEF Status
<1> QED BY <1>1, RoomMade DEF AdvanceTick

LEMMA CreateType ==
    ASSUME TypeOK, FoundOK, NEW players \in Players, NEW out \in Outcomes, Create(players, out)
    PROVE  TypeOK' /\ FoundOK'
<1> DEFINE r == NewRoom(players)
<1>1. r \in Room
  BY NewRoomIs
<1>2. Save(r, out) /\ Breach("recreated", store \notin {NoRoom, ToDocument(r)})
      /\ room' = (IF out = "ok" THEN r ELSE room)
      /\ deltas' = (IF out = "ok" THEN <<>> ELSE deltas)
      /\ UNCHANGED <<pc, player, found, seen>>
  BY DEF Create
<1> HIDE DEF r
<1>3. store' \in Document \union {NoRoom} /\ faults' \in 0 .. MaxFaults
  BY <1>1, <1>2, SaveType
<1>4. breaches' \subseteq Breaches
  <2>1. "recreated" \in Breaches
    BY DEF Breaches
  <2> QED BY <1>2, <2>1, BreachType
<1>5. deltas' \in Seq(Delta) /\ Len(deltas') <= DeltaSize
  BY <1>2, BoundsAssumption DEF TypeOK
<1>6. room' \in Room \union {NoRoom}
  BY <1>1, <1>2 DEF TypeOK
<1> QED BY <1>2, <1>3, <1>4, <1>5, <1>6 DEF TypeOK, FoundOK

LEMMA MutateFailsType ==
    ASSUME TypeOK, FoundOK, room # NoRoom, NEW run \in Runs(room), MutateFails(run)
    PROVE  TypeOK' /\ FoundOK'
<1>1. room \in Room
  BY DEF TypeOK
<1>2. run.players \in Players
  BY <1>1, RunsType
<1>3. room' \in Room
  BY <1>1, <1>2 DEF MutateFails, Room
<1>4. breaches' \subseteq Breaches
  <2>1. "torn" \in Breaches /\ Breach("torn", run.players # room.players)
    BY DEF Breaches, MutateFails
  <2> QED BY <2>1, BreachType
<1> QED BY <1>3, <1>4 DEF TypeOK, FoundOK, MutateFails

LEMMA MutateType ==
    ASSUME TypeOK, FoundOK, room # NoRoom, NEW run \in Runs(room), NEW out \in Outcomes,
           Mutate(run, out)
    PROVE  TypeOK' /\ FoundOK'
<1> DEFINE c == AdvanceTick(room, run.players)
<1>1. room \in Room /\ room.version < MaxVersion
  BY DEF TypeOK, Mutate
<1>2. c \in Room
  BY <1>1, RunsType, AdvanceTickIs
<1>3. /\ Save(c, out) /\ room' = (IF out = "ok" THEN c ELSE room)
      /\ deltas' = (IF out = "ok" THEN RecordDelta(room, c) ELSE deltas)
      /\ UNCHANGED <<pc, player, found, seen, breaches>>
  BY DEF Mutate, RolledBack
<1> HIDE DEF c
<1>4. store' \in Document \union {NoRoom} /\ faults' \in 0 .. MaxFaults
  BY <1>2, <1>3, SaveType
<1>5. deltas' \in Seq(Delta) /\ Len(deltas') <= DeltaSize
  <2>1. RecordDelta(room, c) \in Seq(Delta) /\ Len(RecordDelta(room, c)) <= DeltaSize
    BY <1>1, <1>2, RecordDeltaIs DEF TypeOK
  <2> QED BY <1>3, <2>1 DEF TypeOK
<1>6. room' \in Room \union {NoRoom}
  BY <1>1, <1>2, <1>3
<1> QED BY <1>3, <1>4, <1>5, <1>6 DEF TypeOK, FoundOK

LEMMA FindType ==
    ASSUME TypeOK, FoundOK, NEW c \in Client, Lookup(c) \/ Find(c)
    PROVE  TypeOK' /\ FoundOK'
<1>1. CASE Lookup(c)
  <2>1. \/ room # NoRoom /\ room \in Room /\ pc' = [pc EXCEPT ![c] = "compose"]
           /\ found' = [found EXCEPT ![c] = room]
        \/ pc' = [pc EXCEPT ![c] = "find"] /\ found' = found
    BY <1>1, Zenon DEF Lookup, InRoom, TypeOK
  <2>2. UNCHANGED <<room, deltas, store, player, seen, faults, breaches>>
    BY <1>1 DEF Lookup
  <2>3. pc' \in [Client -> Steps] /\ found' \in [Client -> Room \union {NoRoom}] /\ FoundOK'
    BY <2>1 DEF TypeOK, FoundOK, Steps
  <2> QED BY <2>2, <2>3 DEF TypeOK
<1>2. CASE Find(c)
  <2>1. store # NoRoom => FromDocument(store) \in Room /\ FromDocument(store) # NoRoom
    BY RoomOfDocument DEF TypeOK
  <2>2. \/ store # NoRoom /\ pc' = [pc EXCEPT ![c] = "install"]
           /\ found' = [found EXCEPT ![c] = FromDocument(store)]
        \/ pc' = [pc EXCEPT ![c] = "idle"] /\ found' = found
    BY <1>2 DEF Find
  <2>3. UNCHANGED <<room, deltas, store, player, seen, faults, breaches>>
    BY <1>2 DEF Find
  <2>4. pc' \in [Client -> Steps] /\ found' \in [Client -> Room \union {NoRoom}] /\ FoundOK'
    BY <2>1, <2>2, ZenonT(40) DEF TypeOK, FoundOK, Steps
  <2> QED BY <2>3, <2>4 DEF TypeOK
<1> QED BY <1>1, <1>2

LEMMA InstallType ==
    ASSUME TypeOK, FoundOK, NEW c \in Client, Install(c)
    PROVE  TypeOK' /\ FoundOK'
<1>1. found[c] \in Room
  BY DEF Install, FoundOK, TypeOK
<1>2. room' = found[c] /\ pc' = [pc EXCEPT ![c] = "compose"]
      /\ UNCHANGED <<deltas, store, player, found, seen, faults>>
  BY DEF Install
<1>3. breaches' \subseteq Breaches
  <2>1. "stale" \in Breaches /\ Breach("stale", room \notin {NoRoom, found[c]})
    BY DEF Breaches, Install
  <2> QED BY <2>1, BreachType
<1>4. pc' \in [Client -> Steps] /\ FoundOK'
  BY <1>1, <1>2, NoRoomAssumption, Zenon DEF TypeOK, FoundOK, Steps
<1> QED BY <1>1, <1>2, <1>3, <1>4 DEF TypeOK

\* What a restore of client c answers with.
Answer(c, allowIncremental) ==
    LET last == Version(seen[c])
        to == found[c].version
        delta == ComposeDeltas(deltas, last, to)
    IN  Restored(RestoreMode(last, to, delta, allowIncremental), seen[c], delta, found[c])

LEMMA VersionIs ==
    ASSUME TypeOK, NEW c \in Client
    PROVE  /\ Version(seen[c]) \in 0 .. MaxVersion
           /\ seen[c] # NoRoom =>
                /\ seen[c] \in Room /\ Version(seen[c]) = seen[c].version
                /\ Version(seen[c]) \in 1 .. MaxVersion
           /\ seen[c] = NoRoom => Version(seen[c]) = 0
<1>1. seen[c] \in Room \union {NoRoom}
  BY DEF TypeOK
<1>2. seen[c] # NoRoom => seen[c].version \in 1 .. MaxVersion
  BY <1>1, RoomFields
<1> QED BY <1>1, <1>2, BoundsAssumption DEF Version

LEMMA AnswerType ==
    ASSUME TypeOK, FoundOK, NEW c \in Client, pc[c] = "compose", NEW allow \in BOOLEAN
    PROVE  Answer(c, allow) \in Room \union {NoRoom}
<1> DEFINE last == Version(seen[c])
           to == found[c].version
           delta == ComposeDeltas(deltas, last, to)
           mode == RestoreMode(last, to, delta, allow)
<1>1. found[c] \in Room
  BY DEF FoundOK, TypeOK
<1>2. last \in 0 .. MaxVersion /\ to \in 1 .. MaxVersion
  BY <1>1, VersionIs, RoomFields
<1>3. delta \in ComposeAcc /\ (last = 0 => delta.next = 0)
  BY <1>2, ComposeType, ComposeFromNothing, Zenon DEF TypeOK
<1> HIDE DEF delta
<1>4. Answer(c, allow) = Restored(mode, seen[c], delta, found[c])
  BY DEF Answer, delta
<1>5. CASE mode = "noop"
  BY <1>4, <1>5 DEF Restored, TypeOK
<1>6. CASE mode = "full"
  BY <1>1, <1>4, <1>6, DocumentOfRoom DEF Restored
<1>7. CASE mode = "delta"
  <2>1. delta.next = to /\ last # 0
    BY <1>2, <1>3, <1>7 DEF RestoreMode
  <2>2. seen[c] \in Room
    BY <2>1, VersionIs
  <2>3. Answer(c, allow) = ApplyDelta(seen[c], delta)
    BY <1>4, <1>7 DEF Restored
  <2>4. delta.status \in Status /\ delta.upsert \in Players
    BY <1>3 DEF ComposeAcc
  <2>5. seen[c].players \in Players
    BY <2>2, RoomFields
  <2>6. [p \in Player |-> IF p \in delta.removed THEN Absent
                          ELSE IF delta.upsert[p] # Absent THEN delta.upsert[p]
                          ELSE seen[c].players[p]] \in Players
    BY <2>4, <2>5 DEF Players
  <2>7. ApplyDelta(seen[c], delta) \in Room
    BY <1>2, <2>1, <2>4, <2>6, RoomMade DEF ApplyDelta
  <2> QED BY <2>3, <2>7
<1>8. mode \in {"noop", "full", "delta"}
  BY DEF RestoreMode
<1> QED BY <1>5, <1>6, <1>7, <1>8

LEMMA ComposeIs ==
    ASSUME NEW c \in Client, NEW allow \in BOOLEAN, Compose(c, allow)
    PROVE  /\ pc[c] = "compose"
           /\ seen' = [seen EXCEPT ![c] = Answer(c, allow)] \/ seen' = seen
           /\ pc' = [pc EXCEPT ![c] = "idle"]
           /\ found' = [found EXCEPT ![c] = NoRoom]
           /\ UNCHANGED <<room, deltas, store, player, faults, breaches>>
BY Zenon DEF Compose, Relay, Answer

LEMMA ComposeActionType ==
    ASSUME TypeOK, FoundOK, NEW c \in Client, NEW allow \in BOOLEAN, Compose(c, allow)
    PROVE  TypeOK' /\ FoundOK'
<1>1. Answer(c, allow) \in Room \union {NoRoom}
  BY AnswerType, ComposeIs
<1>2. /\ seen' = [seen EXCEPT ![c] = Answer(c, allow)] \/ seen' = seen
      /\ pc' = [pc EXCEPT ![c] = "idle"]
      /\ found' = [found EXCEPT ![c] = NoRoom]
      /\ UNCHANGED <<room, deltas, store, player, faults, breaches>>
  BY ComposeIs
<1>3. seen' \in [Client -> Room \union {NoRoom}]
  BY <1>1, <1>2 DEF TypeOK
<1>4. pc' \in [Client -> Steps] /\ found' \in [Client -> Room \union {NoRoom}] /\ FoundOK'
  BY <1>2 DEF TypeOK, FoundOK, Steps
<1> QED BY <1>2, <1>3, <1>4 DEF TypeOK

LEMMA RestartType ==
    ASSUME TypeOK, FoundOK, Restart
    PROVE  TypeOK' /\ FoundOK'
<1>1. deltas' \in Seq(Delta) /\ Len(deltas') <= DeltaSize
  BY BoundsAssumption DEF Restart
<1>2. faults' \in 0 .. MaxFaults
  BY BoundsAssumption DEF Restart, TypeOK
<1>3. pc' \in [Client -> Steps] /\ found' \in [Client -> Room \union {NoRoom}] /\ FoundOK'
  BY DEF Restart, FoundOK, Steps
<1> QED BY <1>1, <1>2, <1>3 DEF Restart, TypeOK

-----------------------------------------------------------------------------
(* Restores *)

\* In every mode the client shows the room that was looked up.
LEMMA AnswerIsFound ==
    ASSUME TypeOK, FoundOK, NEW H, History(H), Told(H), NEW c \in Client, pc[c] = "compose",
           NEW allow \in BOOLEAN
    PROVE  Answer(c, allow) = found[c]
<1> DEFINE last == Version(seen[c])
           to == found[c].version
           delta == ComposeDeltas(deltas, last, to)
           mode == RestoreMode(last, to, delta, allow)
<1>1. found[c] \in Room /\ found[c] = H[to] /\ ClientOf(H, c) /\ RingOf(H, deltas)
  BY DEF FoundOK, TypeOK, Told, ClientOf, Shown, RoomOf
<1>2. last \in 0 .. MaxVersion /\ to \in 1 .. MaxVersion
  BY <1>1, VersionIs, RoomFields, ZenonT(40)
<1>3. last # 0 => /\ last \in 1 .. MaxVersion /\ seen[c] \in Room /\ last = seen[c].version
                  /\ seen[c] = H[last]
  BY <1>1, VersionIs DEF ClientOf, Shown
<1>4. last = 0 => delta.next = 0
  BY ComposeFromNothing, Zenon DEF TypeOK
<1>5. last # 0 => Leads(H, last, delta)
  BY <1>1, <1>3, ComposeLeads, Zenon DEF TypeOK
<1> HIDE DEF delta
<1>6. Answer(c, allow) = Restored(mode, seen[c], delta, found[c])
  BY DEF Answer, delta
<1>7. CASE mode = "noop"
  <2>1. last = to
    BY <1>7, ZenonT(40) DEF RestoreMode
  <2>2. seen[c] = found[c]
    BY <1>1, <1>2, <1>3, <2>1
  <2> QED BY <1>6, <1>7, <2>2 DEF Restored
<1>8. CASE mode = "full"
  BY <1>1, <1>6, <1>8, DocumentOfRoom DEF Restored
<1>9. CASE mode = "delta"
  <2>1. delta.next = to /\ last # to /\ last # 0
    BY <1>2, <1>4, <1>9, Zenon DEF RestoreMode
  <2>2. /\ Patch(seen[c].players, delta.upsert, delta.removed) = found[c].players
        /\ delta.status = found[c].status
    BY <1>1, <1>3, <1>5, <2>1, Zenon DEF Leads
  <2>3. ApplyDelta(seen[c], delta)
          = [version |-> to, status |-> found[c].status, players |-> found[c].players]
    BY <2>1, <2>2 DEF ApplyDelta, Patch
  <2>4. ApplyDelta(seen[c], delta) = found[c]
    BY <1>1, <2>3, RoomFields
  <2> QED BY <1>6, <1>9, <2>4 DEF Restored
<1>10. mode \in {"noop", "full", "delta"}
  BY DEF RestoreMode
<1> QED BY <1>7, <1>8, <1>9, <1>10, Zenon

LEMMA ComposeTold ==
    ASSUME TypeOK, FoundOK, NEW H, History(H), Told(H), NEW c \in Client, NEW allow \in BOOLEAN,
           Compose(c, allow)
    PROVE  Told(H)'
<1>1. /\ pc[c] = "compose"
      /\ seen' = [seen EXCEPT ![c] = Answer(c, allow)] \/ seen' = seen
      /\ pc' = [pc EXCEPT ![c] = "idle"]
      /\ found' = [found EXCEPT ![c] = NoRoom]
      /\ UNCHANGED <<room, deltas, store, player, faults, breaches>>
  BY ComposeIs
<1>2. Answer(c, allow) = found[c]
  BY <1>1, AnswerIsFound, Zenon
<1>3. RoomOf(H)'
  BY <1>1, Zenon DEF Told, RoomOf, RingOf
<1>4. ASSUME NEW k \in Client PROVE ClientOf(H, k)'
  <2>1. ClientOf(H, k) /\ (k = c => Shown(H, found[c]))
    BY <1>1, Zenon DEF Told, ClientOf
  <2>2. \A r : Shown(H, r) => Shown(H, r)'
    BY <1>1 DEF Shown, Newest
  <2>3. seen'[k] # NoRoom => Shown(H, seen'[k])
    BY <1>1, <1>2, <2>1 DEF ClientOf, TypeOK
  <2>4. pc'[k] \in {"compose", "install"} => pc'[k] = pc[k] /\ found'[k] = found[k]
    BY <1>1 DEF TypeOK
  <2>5. seen'[k] # NoRoom => Shown(H, seen[k])'
    BY <2>3, <1>1, Zenon DEF Shown, Newest
  <2>6. pc'[k] = "compose" => room' # NoRoom /\ Shown(H, found[k])'
    BY <2>1, <2>4, <1>1 DEF ClientOf, Shown, Newest
  <2>7. pc'[k] = "install" /\ room' = NoRoom =>
            store' # NoRoom /\ found'[k] = FromDocument(store')
    BY <2>1, <2>4, <1>1 DEF ClientOf
  <2> QED BY <2>5, <2>6, <2>7 DEF ClientOf
<1> QED BY <1>3, <1>4 DEF Told

LEMMA LookupTold ==
    ASSUME TypeOK, FoundOK, NEW H, History(H), Told(H), NEW c \in Client, Lookup(c)
    PROVE  Told(H)'
<1>1. UNCHANGED <<room, deltas, store, seen>>
  BY DEF Lookup
<1>2. \/ room # NoRoom /\ pc' = [pc EXCEPT ![c] = "compose"] /\ found' = [found EXCEPT ![c] = room]
      \/ pc' = [pc EXCEPT ![c] = "find"] /\ found' = found
  BY Zenon DEF Lookup, InRoom
<1>3. RoomOf(H)'
  BY <1>1, Zenon DEF Told, RoomOf, RingOf
<1>4. room # NoRoom => Shown(H, room)
  <2>1. room # NoRoom => room \in Room /\ room.version \in 1 .. MaxVersion
    BY RoomFields, Zenon DEF TypeOK
  <2> QED BY <2>1 DEF Told, RoomOf, Shown, Newest
<1>5. ASSUME NEW k \in Client PROVE ClientOf(H, k)'
  <2>1. ClientOf(H, k)
    BY Zenon DEF Told
  <2>2. seen'[k] # NoRoom => Shown(H, seen[k])'
    BY <1>1, <2>1, Zenon DEF ClientOf, Shown, Newest
  <2>3. pc'[k] = "compose" => room # NoRoom /\ Shown(H, found'[k])
    BY <1>2, <1>4, <2>1, Zenon DEF ClientOf, TypeOK
  <2>4. pc'[k] = "compose" => room' # NoRoom /\ Shown(H, found[k])'
    BY <2>3, <1>1 DEF Shown, Newest
  <2>5. pc'[k] = "install" => pc[k] = "install" /\ found'[k] = found[k]
    BY <1>2, Zenon DEF TypeOK
  <2>6. pc'[k] = "install" /\ room' = NoRoom =>
            store' # NoRoom /\ found'[k] = FromDocument(store')
    BY <2>1, <2>5, <1>1, Zenon DEF ClientOf
  <2> QED BY <2>2, <2>4, <2>6 DEF ClientOf
<1> QED BY <1>3, <1>5 DEF Told

LEMMA FindTold ==
    ASSUME TypeOK, FoundOK, NEW H, History(H), Told(H), NEW c \in Client, Find(c)
    PROVE  Told(H)'
<1>1. UNCHANGED <<room, deltas, store, seen>>
  BY DEF Find
<1>2. \/ /\ store # NoRoom /\ pc' = [pc EXCEPT ![c] = "install"]
         /\ found' = [found EXCEPT ![c] = FromDocument(store)]
      \/ pc' = [pc EXCEPT ![c] = "idle"] /\ found' = found
  BY Zenon DEF Find
<1>3. RoomOf(H)'
  BY <1>1 DEF Told, RoomOf, RingOf
<1>4. ASSUME NEW k \in Client PROVE ClientOf(H, k)'
  <2>1. ClientOf(H, k)
    BY DEF Told
  <2>2. seen'[k] # NoRoom => Shown(H, seen[k])'
    BY <1>1, <2>1 DEF ClientOf, Shown, Newest
  <2>3. pc'[k] = "compose" => pc[k] = "compose" /\ found'[k] = found[k]
    BY <1>2, Zenon DEF TypeOK
  <2>4. pc'[k] = "compose" => room' # NoRoom /\ Shown(H, found[k])'
    BY <2>1, <2>3, <1>1, Zenon DEF ClientOf, Shown, Newest
  <2>5. pc'[k] = "install" /\ room = NoRoom => store # NoRoom /\ found'[k] = FromDocument(store)
    BY <1>2, <2>1 DEF ClientOf, TypeOK
  <2>6. pc'[k] = "install" /\ room' = NoRoom =>
            store' # NoRoom /\ found'[k] = FromDocument(store')
    BY <2>5, <1>1
  <2> QED BY <2>2, <2>4, <2>6 DEF ClientOf
<1> QED BY <1>3, <1>4 DEF Told

\* A stale install is a breach; another one finds the room in memory, or none.
LEMMA InstallTold ==
    ASSUME TypeOK, FoundOK, NEW H, History(H), Told(H), NEW c \in Client, Install(c),
           breaches' = {}
    PROVE  Told(H)'
<1>1. pc[c] = "install" /\ room' = found[c] /\ pc' = [pc EXCEPT ![c] = "compose"]
      /\ UNCHANGED <<deltas, store, found, seen>>
  BY DEF Install
<1>2. found[c] \in Room /\ found[c] # NoRoom
  BY <1>1, Zenon DEF FoundOK, TypeOK
<1>3. room = NoRoom \/ room = found[c]
  BY DEF Install, Breach
<1>4. found[c].version \in 1 .. MaxVersion
  BY <1>2, RoomFields
<1>5. ClientOf(H, c) /\ RoomOf(H)
  BY Zenon DEF Told
<1>6. /\ store # NoRoom
      /\ found[c] = H[found[c].version]
      /\ store.version \in {found[c].version, found[c].version + 1}
      /\ store.version = found[c].version => store = ToDocument(found[c])
      /\ \A i \in DOMAIN deltas : deltas[i].to <= found[c].version
      /\ Newest = found[c].version
  <2>1. CASE room = NoRoom
    <3>1. store # NoRoom /\ found[c] = FromDocument(store) /\ deltas = <<>>
          /\ store = ToDocument(H[store.version])
      BY <1>1, <1>5, <2>1, Zenon DEF ClientOf, RoomOf
    <3>2. store.version \in 1 .. MaxVersion
      BY <3>1 DEF TypeOK, Document
    <3>3. H[store.version] \in Room /\ H[store.version].version = store.version
      BY <3>2 DEF History
    <3>4. FromDocument(store) = H[store.version]
      BY <3>1, <3>3, DocumentOfRoom, Zenon
    <3>5. found[c].version = store.version /\ found[c] = H[found[c].version]
      BY <3>1, <3>3, <3>4, Zenon
    <3>6. Newest = store.version
      BY <2>1, Zenon DEF Newest
    <3> QED BY <3>1, <3>4, <3>5, <3>6, SMTT(20)
  <2>2. CASE room = found[c]
    BY <2>2, <1>2, <1>5, Zenon DEF RoomOf, Newest
  <2> QED BY <1>3, <2>1, <2>2, Zenon
<1>7. RoomOf(H)'
  BY <1>1, <1>2, <1>5, <1>6, ZenonT(40) DEF RoomOf, RingOf
<1>8. Newest' = Newest
  BY <1>1, <1>2, <1>6, Zenon DEF Newest
<1>9. ASSUME NEW k \in Client PROVE ClientOf(H, k)'
  <2>1. ClientOf(H, k)
    BY Zenon DEF Told
  <2>2. seen'[k] # NoRoom => Shown(H, seen[k])'
    BY <1>1, <1>8, <2>1 DEF ClientOf, Shown
  <2>3. pc'[k] = "compose" => k = c \/ pc[k] = "compose"
    BY <1>1, Zenon DEF TypeOK
  <2>4. k = c => Shown(H, found[k])'
    BY <1>1, <1>4, <1>6, <1>8, SMTT(20) DEF Shown
  <2>5. pc[k] = "compose" => Shown(H, found[k])'
    BY <1>1, <1>8, <2>1 DEF ClientOf, Shown
  <2> QED BY <1>1, <1>2, <2>2, <2>3, <2>4, <2>5 DEF ClientOf
<1> QED BY <1>7, <1>9 DEF Told

-----------------------------------------------------------------------------
(* Creating and changing the room *)

\* What the clients hold is older than what is added to the history.
LEMMA ClientsKept ==
    ASSUME TypeOK, FoundOK, NEW H, NEW G, \A k \in Client : ClientOf(H, k),
           UNCHANGED <<pc, found, seen>>, room # NoRoom, room' # NoRoom, store' # NoRoom,
           room'.version \in Nat, room.version <= room'.version,
           \A v \in 1 .. room.version : G[v] = H[v]
    PROVE  \A k \in Client : ClientOf(G, k)'
<1>1. Newest = room.version /\ Newest' = room'.version
  BY DEF Newest
<1>2. room \in Room /\ room.version \in Nat
  BY RoomFields DEF TypeOK
<1>3. ASSUME NEW r \in Room, Shown(H, r) PROVE r = G[r.version] /\ r.version <= room'.version
  <2>1. r.version \in Nat /\ 1 <= r.version /\ r.version <= room.version /\ r = H[r.version]
    BY <1>1, <1>3, RoomFields DEF Shown
  <2>2. r.version \in 1 .. room.version
    BY <1>2, <2>1, SMTT(20)
  <2> QED BY <1>2, <2>1, <2>2
<1>4. ASSUME NEW k \in Client PROVE ClientOf(G, k)'
  <2>1. ClientOf(H, k)
    OBVIOUS
  <2>2. seen'[k] = seen[k] /\ found'[k] = found[k] /\ pc'[k] = pc[k]
    BY Zenon
  <2>3. seen[k] # NoRoom => seen[k] \in Room /\ Shown(H, seen[k])
    BY <2>1, Zenon DEF ClientOf, TypeOK
  <2>4. seen'[k] # NoRoom => Shown(G, seen[k])'
    BY <1>1, <1>3, <2>2, <2>3, Zenon DEF Shown
  <2>5. pc[k] = "compose" => Shown(H, found[k])
    BY <2>1, Zenon DEF ClientOf
  <2>6. pc[k] = "compose" /\ found[k] \in Room => Shown(G, found[k])'
    BY <1>1, <1>3, <2>2, <2>5, ZenonT(30) DEF Shown
  <2>7. pc[k] = "compose" => found[k] \in Room
    BY DEF FoundOK, TypeOK
  <2> QED BY <2>2, <2>4, <2>6, <2>7 DEF ClientOf
<1> QED BY <1>4

\* A failed callback, an invalid room and a failed write leave the room as it
\* was, or tear it.
LEMMA RoomKept ==
    ASSUME TypeOK, FoundOK, NEW H, History(H), Told(H), room # NoRoom,
           UNCHANGED <<room, deltas, pc, found, seen>>,
           \/ store' = store
           \/ /\ store' # NoRoom /\ store'.version = room.version + 1
    PROVE  Told(H)'
<1>1. room \in Room /\ room.version \in Nat
  BY RoomFields DEF TypeOK
<1>2. RoomOf(H) /\ \A k \in Client : ClientOf(H, k)
  BY DEF Told
<1>3. store' # NoRoom
  BY <1>2, Zenon DEF RoomOf
<1>4. RoomOf(H)'
  BY <1>1, <1>2, <1>3 DEF RoomOf, RingOf
<1>5. \A k \in Client : ClientOf(H, k)'
  <2>1. room' # NoRoom /\ room'.version \in Nat /\ room.version <= room'.version
    BY <1>1
  <2>2. \A v \in 1 .. room.version : H[v] = H[v]
    OBVIOUS
  <2> QED BY <1>2, <1>3, <2>1, <2>2, ClientsKept
<1> QED BY <1>4, <1>5 DEF Told

LEMMA MutateFailsTold ==
    ASSUME TypeOK, FoundOK, NEW H, History(H), Told(H), room # NoRoom,
           NEW run \in Runs(room), MutateFails(run) \/ MutateInvalid(run), breaches' = {}
    PROVE  Told(H)'
<1>1. CASE MutateInvalid(run)
  <2>1. UNCHANGED <<room, deltas, store, pc, found, seen>>
    BY <1>1 DEF MutateInvalid, RolledBack
  <2> QED BY <2>1, RoomKept
<1>2. CASE MutateFails(run)
  <2>1. run.players = room.players
    BY <1>2 DEF MutateFails, Breach
  <2>2. room' = [room EXCEPT !.players = room.players]
    BY <1>2, <2>1 DEF MutateFails
  <2>3. room \in Room
    BY DEF TypeOK
  <2>4. [room EXCEPT !.players = room.players] = room
    BY <2>3 DEF Room
  <2>5. UNCHANGED <<room, deltas, store, pc, found, seen>>
    BY <1>2, <2>2, <2>4 DEF MutateFails
  <2> QED BY <2>5, RoomKept
<1> QED BY <1>1, <1>2

LEMMA MutateTold ==
    ASSUME TypeOK, FoundOK, NEW H, History(H), Told(H), room # NoRoom,
           NEW run \in Runs(room), NEW out \in Outcomes, Mutate(run, out)
    PROVE  \E G : History(G) /\ Told(G)'
<1> DEFINE c == AdvanceTick(room, run.players)
           v == room.version
<1>1. room \in Room /\ v < MaxVersion /\ v \in 1 .. MaxVersion
  BY RoomFields DEF TypeOK, Mutate
<1>2. c \in Room /\ c.version = v + 1 /\ v + 1 \in 1 .. MaxVersion /\ c # NoRoom
  BY <1>1, RunsType, AdvanceTickIs, BoundsAssumption, NoRoomAssumption, SMTT(20)
<1>3. /\ Save(c, out) /\ room' = (IF out = "ok" THEN c ELSE room)
      /\ deltas' = (IF out = "ok" THEN RecordDelta(room, c) ELSE deltas)
      /\ UNCHANGED <<pc, found, seen>>
  BY DEF Mutate, RolledBack
<1> HIDE DEF c
<1>4. store' = IF out = "error" THEN store ELSE ToDocument(c)
  BY <1>2, <1>3, SaveType
<1>5. ToDocument(c) # NoRoom /\ ToDocument(c).version = v + 1
  BY <1>2, DocumentOfRoom
<1>6. CASE out # "ok"
  <2>1. UNCHANGED <<room, deltas, pc, found, seen>>
    BY <1>3, <1>6
  <2>2. store' = store \/ (store' # NoRoom /\ store'.version = room.version + 1)
    BY <1>4, <1>5
  <2>3. Told(H)'
    BY <2>1, <2>2, RoomKept
  <2> QED BY <2>3
<1>7. CASE out = "ok"
  <2>1. room' = c /\ deltas' = RecordDelta(room, c) /\ store' = ToDocument(c)
    BY <1>3, <1>4, <1>7
  <2>2. PICK G : G = [H EXCEPT ![v + 1] = c]
    BY Zenon
  <2>3. /\ G \in [1 .. MaxVersion -> Room]
        /\ G[v + 1] = c
        /\ \A w \in 1 .. MaxVersion : w # v + 1 => G[w] = H[w]
    BY <1>2, <2>2 DEF History
  <2>4. History(G)
    BY <1>2, <2>3 DEF History
  <2>5. \A w \in 1 .. v : w \in 1 .. MaxVersion /\ w # v + 1 /\ G[w] = H[w]
    <3>0. v \in Nat /\ MaxVersion \in Nat /\ v < MaxVersion
      BY <1>1, BoundsAssumption
    <3> HIDE DEF v
    <3>1. \A w \in 1 .. v : w \in 1 .. MaxVersion /\ w # v + 1
      BY <3>0
    <3> QED BY <2>3, <3>1
  <2>6. RoomOf(H) /\ \A k \in Client : ClientOf(H, k)
    BY Zenon DEF Told
  <2>7. G[v] = room /\ v \in 1 .. v
    BY <1>1, <2>5, <2>6, SMTT(20) DEF RoomOf
  <2>8. ASSUME NEW i \in DOMAIN deltas'
        PROVE  /\ deltas'[i].to <= v + 1
               /\ deltas'[i].to = deltas'[i].from + 1
               /\ deltas'[i] = DeltaOf(G[deltas'[i].from], G[deltas'[i].to])
    <3>1. \/ deltas'[i] = DeltaOf(room, c)
          \/ \E j \in DOMAIN deltas : deltas'[i] = deltas[j]
      BY <1>1, <1>2, <2>1, RecordDeltaIs, ZenonT(40) DEF TypeOK
    <3>2. CASE deltas'[i] = DeltaOf(room, c)
      <4>1. DeltaOf(room, c).from = v /\ DeltaOf(room, c).to = v + 1
        BY <1>2, DeltaOfFields
      <4>2. v + 1 <= v + 1
        BY <1>1
      <4>3. DeltaOf(room, c) = DeltaOf(G[v], G[v + 1])
        BY <2>3, <2>7, Zenon
      <4> QED BY <3>2, <4>1, <4>2, <4>3, ZenonT(40)
    <3>3. ASSUME NEW j \in DOMAIN deltas, deltas'[i] = deltas[j]
          PROVE  /\ deltas'[i].to <= v + 1
                 /\ deltas'[i].to = deltas'[i].from + 1
                 /\ deltas'[i] = DeltaOf(G[deltas'[i].from], G[deltas'[i].to])
      <4> DEFINE d == deltas[j]
      <4>1. d \in Delta
        BY DEF TypeOK
      <4>2. d.from \in 1 .. MaxVersion /\ d.to \in 1 .. MaxVersion
        BY <4>1, DeltaFields, Zenon
      <4>3. d.to <= v /\ d.to = d.from + 1 /\ d = DeltaOf(H[d.from], H[d.to])
        BY <2>6, ZenonT(40) DEF RoomOf, RingOf
      <4>4. d.from \in 1 .. v /\ d.to \in 1 .. v /\ d.to <= v + 1
        BY <1>1, <4>2, <4>3, SMTT(20)
      <4>5. G[d.from] = H[d.from] /\ G[d.to] = H[d.to]
        BY <2>5, <4>4, Zenon
      <4> HIDE DEF d
      <4>6. d = DeltaOf(G[d.from], G[d.to])
        BY <4>3, <4>5, Zenon
      <4>7. deltas'[i] = d
        BY <3>3, Zenon DEF d
      <4> QED BY <4>3, <4>4, <4>6, <4>7, SMTT(20)
    <3> QED BY <3>1, <3>2, <3>3, Zenon
  <2>9. RoomOf(G)'
    <3>1. RingOf(G, deltas)'
      BY <2>8, ZenonT(40) DEF RingOf
    <3>2. /\ room' # NoRoom /\ room' = G[room'.version] /\ store' # NoRoom
          /\ store'.version = room'.version /\ store' = ToDocument(room')
          /\ \A i \in DOMAIN deltas' : deltas'[i].to <= room'.version
      BY <1>2, <1>5, <2>1, <2>3, <2>8, Zenon
    <3> QED BY <3>1, <3>2, Zenon DEF RoomOf
  <2>10. room'.version \in Nat /\ room.version <= room'.version
    BY <1>1, <1>2, <2>1, SMTT(20)
  <2>11. \A k \in Client : ClientOf(G, k)'
    BY <1>2, <1>3, <1>5, <2>1, <2>5, <2>6, <2>10, ClientsKept, Zenon
  <2>12. Told(G)'
    BY <2>9, <2>11 DEF Told
  <2> QED BY <2>4, <2>12
<1> QED BY <1>6, <1>7, Zenon

LEMMA CreateTold ==
    ASSUME TypeOK, FoundOK, NEW H, History(H), Told(H), NEW players \in Players,
           NEW out \in Outcomes, Create(players, out), breaches' = {}
    PROVE  \E G : History(G) /\ Told(G)'
<1> DEFINE r == NewRoom(players)
<1>1. r \in Room /\ r.version = 1 /\ 1 \in 1 .. MaxVersion /\ r # NoRoom
  BY NewRoomIs, NoRoomAssumption
<1>2. /\ room = NoRoom /\ Save(r, out)
      /\ room' = (IF out = "ok" THEN r ELSE room)
      /\ deltas' = (IF out = "ok" THEN <<>> ELSE deltas)
      /\ UNCHANGED <<pc, found, seen>>
      /\ store \in {NoRoom, ToDocument(r)}
  BY DEF Create, Breach
<1> HIDE DEF r
<1>3. store' = IF out = "error" THEN store ELSE ToDocument(r)
  BY <1>1, <1>2, SaveType
<1>4. ToDocument(r) # NoRoom /\ ToDocument(r).version = 1 /\ FromDocument(ToDocument(r)) = r
  BY <1>1, DocumentOfRoom, Zenon
<1>5. RoomOf(H) /\ deltas = <<>> /\ \A k \in Client : ClientOf(H, k)
  BY <1>2, Zenon DEF Told, RoomOf
<1>6. PICK G : G = [H EXCEPT ![1] = r]
  BY Zenon
<1>7. G \in [1 .. MaxVersion -> Room] /\ G[1] = r /\ History(G)
  BY <1>1, <1>6 DEF History
<1>8. store # NoRoom => G = H
  <2>1. store # NoRoom => H[1] \in Room /\ ToDocument(H[1]) = ToDocument(r)
    BY <1>1, <1>2, <1>4, <1>5, Zenon DEF RoomOf, History
  <2>2. store # NoRoom => H[1] = r
    BY <1>4, <2>1, DocumentOfRoom
  <2> QED BY <1>6, <2>2 DEF History
<1>9. RoomOf(G)'
  <2>1. deltas' = <<>>
    BY <1>2, <1>5, Zenon
  <2>2. RingOf(G, deltas)'
    <3>1. RingOf(G, deltas')
      BY <2>1, EmptyRing, Zenon
    <3> QED BY <3>1, Zenon DEF RingOf
  <2>3. CASE out = "ok"
    <3>1. room' = r /\ store' = ToDocument(r)
      BY <1>2, <1>3, <2>3
    <3>2. /\ room' # NoRoom /\ room' = G[room'.version] /\ store' # NoRoom
          /\ store'.version = room'.version /\ store' = ToDocument(room')
      BY <1>1, <1>4, <1>7, <3>1
    <3>3. \A i \in DOMAIN deltas' : deltas'[i].to <= room'.version
      BY <2>1
    <3> QED BY <2>2, <3>2, <3>3 DEF RoomOf
  <2>4. CASE out # "ok"
    <3>1. room' = NoRoom /\ store' \in {NoRoom, ToDocument(r)}
      BY <1>2, <1>3, <2>4
    <3>2. store' # NoRoom => store' = ToDocument(G[store'.version])
      BY <1>4, <1>7, <3>1
    <3> QED BY <2>1, <2>2, <3>1, <3>2 DEF RoomOf
  <2> QED BY <2>3, <2>4
<1>10. ASSUME NEW k \in Client PROVE ClientOf(G, k)'
  <2>1. ClientOf(H, k) /\ seen'[k] = seen[k] /\ found'[k] = found[k] /\ pc'[k] = pc[k]
    BY <1>2, <1>5, ZenonT(40)
  <2>2. CASE store = NoRoom
    BY <1>2, <2>1, <2>2, ZenonT(40) DEF ClientOf, Shown
  <2>3. CASE store # NoRoom
    <3>1. G = H /\ store' = store /\ store = ToDocument(r)
      BY <1>2, <1>3, <1>8, <2>3
    <3>2. Newest' = Newest
      BY <1>1, <1>2, <1>4, <3>1, Zenon DEF Newest
    <3>3. seen'[k] # NoRoom => Shown(G, seen[k])'
      BY <2>1, <3>1, <3>2, Zenon DEF ClientOf, Shown
    <3>4. pc'[k] # "compose"
      BY <1>2, <2>1, Zenon DEF ClientOf
    <3>5. pc'[k] = "install" => store' # NoRoom /\ found'[k] = FromDocument(store')
      BY <1>2, <2>1, <3>1, Zenon DEF ClientOf
    <3> QED BY <3>3, <3>4, <3>5, Zenon DEF ClientOf
  <2> QED BY <2>2, <2>3, Zenon
<1>11. Told(G)'
  BY <1>9, <1>10 DEF Told
<1> QED BY <1>7, <1>11

\* After a restart the document counts, also one that Mutate took for failed.
LEMMA RestartTold ==
    ASSUME TypeOK, FoundOK, StoreOK, NEW H, History(H), Told(H), Restart
    PROVE  \E G : History(G) /\ Told(G)'
<1>1. /\ room' = NoRoom /\ deltas' = <<>> /\ store' = store /\ seen' = seen
      /\ \A k \in Client : pc'[k] = "idle"
  BY DEF Restart
<1>2. RoomOf(H) /\ \A k \in Client : ClientOf(H, k)
  BY DEF Told
<1>3. CASE store = NoRoom
  <2>1. RoomOf(H)'
    <3>1. RingOf(H, deltas')
      BY <1>1, EmptyRing, Zenon
    <3> QED BY <1>1, <1>3, <3>1, Zenon DEF RoomOf, RingOf
  <2>2. \A k \in Client : ClientOf(H, k)'
    BY <1>1, <1>2, <1>3, Zenon DEF ClientOf, Shown
  <2>3. Told(H)'
    BY <2>1, <2>2 DEF Told
  <2> QED BY <2>3, Zenon
<1>4. CASE store # NoRoom
  <2> DEFINE w == store.version
             r == FromDocument(store)
  <2>1. store \in Document /\ w \in 1 .. MaxVersion
    BY <1>4 DEF TypeOK, Document
  <2>2. r \in Room /\ r.version = w
    BY <2>1, RoomOfDocument
  <2>3. room # NoRoom => room \in Room /\ room.version \in 1 .. MaxVersion
    BY RoomFields DEF TypeOK
  <2>4. H[w] \in Room
    BY <2>1 DEF History
  <2>5. PICK G : G = [H EXCEPT ![w] = r]
    BY Zenon
  <2>6. /\ G \in [1 .. MaxVersion -> Room] /\ G[w] = r
        /\ \A u \in 1 .. MaxVersion : u # w => G[u] = H[u]
    BY <2>1, <2>2, <2>5 DEF History
  <2>7. History(G)
    BY <2>2, <2>6 DEF History
  <2>8. Newest \in 1 .. MaxVersion /\ Newest <= w
    BY <1>2, <2>1, <2>3 DEF Newest, RoomOf
  <2>9. Newest = w => H[w] = r
    <3>1. CASE room = NoRoom
      BY <1>2, <1>4, <2>4, <3>1, DocumentOfRoom, Zenon DEF RoomOf
    <3>2. CASE room # NoRoom
      BY <1>2, <2>3, <3>2, DocumentOfRoom, ZenonT(40) DEF RoomOf, Newest
    <3> QED BY <3>1, <3>2, Zenon
  <2>10. ToDocument(r) = store
    BY <1>4, DocumentOfRoom, Zenon DEF StoreOK
  <2>11. RoomOf(G)'
    <3>1. store' = ToDocument(G[store'.version])
      BY <1>1, <2>6, <2>10
    <3>2. RingOf(G, deltas)'
      BY <1>1 DEF RingOf
    <3> QED BY <1>1, <3>1, <3>2 DEF RoomOf
  <2>12. ASSUME NEW q \in Room, Shown(H, q) PROVE q = G[q.version] /\ q.version <= w
    <3>1. q.version \in 1 .. MaxVersion /\ q.version <= Newest /\ q = H[q.version]
      BY <2>12, RoomFields DEF Shown
    <3>2. q.version <= w
      BY <2>1, <2>8, <3>1, SMTT(20)
    <3>3. CASE q.version = w
      <4>1. Newest = w
        BY <2>1, <2>8, <3>1, <3>3, SMTT(20)
      <4> QED BY <2>6, <2>9, <3>1, <3>2, <3>3, <4>1, Zenon
    <3>4. CASE q.version # w
      BY <2>6, <3>1, <3>2, <3>4, Zenon
    <3> QED BY <3>3, <3>4
  <2>13. ASSUME NEW k \in Client PROVE ClientOf(G, k)'
    <3>1. seen'[k] = seen[k] /\ pc'[k] = "idle" /\ Newest' = w /\ store' # NoRoom
      BY <1>1, <1>4 DEF Newest
    <3>2. seen[k] # NoRoom => seen[k] \in Room /\ Shown(H, seen[k])
      BY <1>2, Zenon DEF ClientOf, TypeOK
    <3>3. seen'[k] # NoRoom => Shown(G, seen[k])'
      BY <2>12, <3>1, <3>2, Zenon DEF Shown
    <3> QED BY <3>1, <3>3 DEF ClientOf
  <2>14. Told(G)'
    BY <2>11, <2>13 DEF Told
  <2> QED BY <2>7, <2>14
<1> QED BY <1>3, <1>4

-----------------------------------------------------------------------------
(* The theorems *)

LEMMA RoomInvInit == Init => RoomInv
<1> SUFFICES ASSUME Init PROVE RoomInv
  OBVIOUS
<1>1. TypeOK
  <2>1. deltas \in Seq(Delta) /\ Len(deltas) <= DeltaSize
    BY BoundsAssumption DEF Init
  <2>2. faults \in 0 .. MaxFaults
    BY BoundsAssumption DEF Init
  <2> QED BY <2>1, <2>2 DEF Init, TypeOK, Steps
<1>2. FoundOK /\ StoreOK
  BY DEF Init, FoundOK, StoreOK
<1>3. \E H : History(H) /\ Told(H)
  <2> DEFINE r(v) == [version |-> v, status |-> "created", players |-> [p \in Player |-> Absent]]
  <2>1. [p \in Player |-> Absent] \in Players /\ "created" \in Status
    BY DEF Players, Status
  <2>2. \A v \in 1 .. MaxVersion : r(v) \in Room /\ r(v).version = v
    BY <2>1, RoomMade
  <2> HIDE DEF r
  <2>3. PICK H : H = [v \in 1 .. MaxVersion |-> r(v)]
    BY Zenon
  <2>4. History(H)
    BY <2>2, <2>3 DEF History
  <2>5. RoomOf(H)
    BY DEF Init, RoomOf, RingOf
  <2>6. \A k \in Client : ClientOf(H, k)
    BY DEF Init, ClientOf
  <2>7. Told(H)
    BY <2>5, <2>6 DEF Told
  <2> QED BY <2>4, <2>7
<1> QED BY <1>1, <1>2, <1>3 DEF RoomInv

LEMMA StoreKept ==
    ASSUME StoreOK, store' = store PROVE StoreOK'
BY DEF StoreOK

LEMMA StoreSaved ==
    ASSUME StoreOK, TypeOK, NEW r \in Room, NEW out \in Outcomes, Save(r, out) PROVE StoreOK'
<1>1. store' = store \/ store' = ToDocument(r)
  BY SaveType
<1> QED BY <1>1 DEF StoreOK

LEMMA BreachesStay == ASSUME TypeOK, [Next]_vars, breaches' = {} PROVE breaches = {}
<1>1. \A kind \in Breaches : \A happened : Breach(kind, happened) => breaches = {}
  BY BreachType
<1>2. "recreated" \in Breaches /\ "torn" \in Breaches /\ "stale" \in Breaches
  BY DEF Breaches
<1> QED BY <1>1, <1>2, Zenon DEF Next, vars, Create, MutateFails, MutateInvalid, Mutate, Lookup,
           Find,
                          Install, Compose, Restart

\* One step: the types, and the history while nothing is breached.
Kept == TypeOK' /\ FoundOK' /\ StoreOK' /\ (breaches' = {} => \E G : History(G) /\ Told(G)')

LEMMA RoomInvStep ==
    ASSUME RoomInv, [Next]_vars
    PROVE  Kept
<1>1. TypeOK /\ FoundOK /\ StoreOK
  BY DEF RoomInv
<1>2. breaches' = {} => \E H : History(H) /\ Told(H)
  BY <1>1, BreachesStay DEF RoomInv
<1>3. CASE UNCHANGED vars
  <2>1. TypeOK' /\ FoundOK' /\ StoreOK'
    BY <1>1, <1>3, Zenon DEF TypeOK, FoundOK, StoreOK, vars
  <2>2. ASSUME NEW H, Told(H) PROVE Told(H)'
    BY <1>3, <2>2, Zenon DEF Told, RoomOf, ClientOf, Shown, Newest, RingOf, vars
  <2> QED BY <1>2, <2>1, <2>2, Zenon DEF Kept
<1>4. ASSUME NEW players \in Players, NEW out \in Outcomes, Create(players, out) PROVE Kept
  <2>1. Save(NewRoom(players), out) /\ NewRoom(players) \in Room
    BY <1>4, NewRoomIs DEF Create
  <2>2. TypeOK' /\ FoundOK' /\ StoreOK'
    BY <1>1, <1>4, <2>1, CreateType, StoreSaved
  <2> QED BY <1>1, <1>2, <1>4, <2>2, CreateTold, SMTT(20) DEF Kept
<1>5. ASSUME room # NoRoom, NEW run \in Runs(room), MutateFails(run) PROVE Kept
  <2>1. TypeOK' /\ FoundOK' /\ StoreOK'
    BY <1>1, <1>5, MutateFailsType, StoreKept DEF MutateFails
  <2> QED BY <1>1, <1>2, <1>5, <2>1, MutateFailsTold DEF Kept
<1>6. ASSUME room # NoRoom, NEW run \in Runs(room), MutateInvalid(run) PROVE Kept
  <2>1. UNCHANGED <<room, deltas, store, pc, player, found, seen, faults, breaches>>
    BY <1>6 DEF MutateInvalid, RolledBack
  <2>2. TypeOK' /\ FoundOK' /\ StoreOK'
    BY <1>1, <2>1 DEF TypeOK, FoundOK, StoreOK
  <2> QED BY <1>1, <1>2, <1>6, <2>2, MutateFailsTold DEF Kept
<1>7. ASSUME room # NoRoom, NEW run \in Runs(room), NEW out \in Outcomes, Mutate(run, out)
      PROVE  Kept
  <2>1. room \in Room /\ room.version < MaxVersion /\ Save(AdvanceTick(room, run.players), out)
    BY <1>1, <1>7 DEF TypeOK, Mutate
  <2>2. AdvanceTick(room, run.players) \in Room
    BY <1>7, <2>1, RunsType, AdvanceTickIs, Zenon
  <2>3. TypeOK' /\ FoundOK' /\ StoreOK'
    BY <1>1, <1>7, <2>1, <2>2, MutateType, StoreSaved, Zenon
  <2> QED BY <1>1, <1>2, <1>7, <2>3, MutateTold, Zenon DEF Kept
<1>8. ASSUME NEW c \in Client, Lookup(c) PROVE Kept
  <2>1. TypeOK' /\ FoundOK' /\ StoreOK'
    BY <1>1, <1>8, FindType, StoreKept, Zenon DEF Lookup
  <2> QED BY <1>1, <1>2, <1>8, <2>1, LookupTold, Zenon DEF Kept
<1>9. ASSUME NEW c \in Client, Find(c) PROVE Kept
  <2>1. TypeOK' /\ FoundOK' /\ StoreOK'
    BY <1>1, <1>9, FindType, StoreKept, Zenon DEF Find
  <2> QED BY <1>1, <1>2, <1>9, <2>1, FindTold DEF Kept
<1>10. ASSUME NEW c \in Client, Install(c) PROVE Kept
  <2>1. TypeOK' /\ FoundOK' /\ StoreOK'
    BY <1>1, <1>10, InstallType, StoreKept, Zenon DEF Install
  <2> QED BY <1>1, <1>2, <1>10, <2>1, InstallTold DEF Kept
<1>11. ASSUME NEW c \in Client, NEW allow \in BOOLEAN, Compose(c, allow) PROVE Kept
  <2>1. TypeOK' /\ FoundOK' /\ StoreOK'
    BY <1>1, <1>11, ComposeActionType, StoreKept, Zenon DEF Compose
  <2> QED BY <1>1, <1>2, <1>11, <2>1, ComposeTold DEF Kept
<1>12. CASE Restart
  <2>1. TypeOK' /\ FoundOK' /\ StoreOK'
    BY <1>1, <1>12, RestartType, StoreKept DEF Restart
  <2> QED BY <1>1, <1>2, <1>12, <2>1, RestartTold DEF Kept
<1> QED BY <1>3, <1>4, <1>5, <1>6, <1>7, <1>8, <1>9, <1>10, <1>11, <1>12, ZenonT(40) DEF Next

LEMMA KeptIs == Kept <=> RoomInv'
BY DEF Kept, RoomInv, History

\* The inductive invariant: until a version is taken away from its room, there
\* is a history with one room for every version, and memory, MongoDB, the ring
\* buffer, the running restores and the clients all hold parts of it.
THEOREM RoomInvHolds == Spec => []RoomInv
<1>1. RoomInv /\ [Next]_vars => RoomInv'
  BY RoomInvStep, KeptIs
<1> QED BY <1>1, RoomInvInit, PTL DEF Spec

\* NOOP is right: a client that shows the current version shows the current room.
THEOREM SameVersionSameRoomHolds == Spec => []SameVersionSameRoom
<1>1. RoomInv => SameVersionSameRoom
  BY Zenon DEF RoomInv, SameVersionSameRoom, Told, RoomOf, ClientOf, Shown
<1> QED BY <1>1, RoomInvHolds, PTL

\* Mutate stores before it shows: what a client has seen survives a restart.
THEOREM SeenIsDurableHolds == Spec => []SeenIsDurable
<1>1. RoomInv => SeenIsDurable
  <2> SUFFICES ASSUME RoomInv, breaches = {}, NEW c \in Client
               PROVE  Version(seen[c]) <= Version(store)
    BY DEF SeenIsDurable
  <2>1. TypeOK
    BY DEF RoomInv
  <2>2. PICK H : RoomOf(H) /\ ClientOf(H, c)
    BY DEF RoomInv, Told
  <2>3. CASE seen[c] = NoRoom
    <3>1. Version(store) \in Nat
      BY <2>1, BoundsAssumption, SMTT(20) DEF Version, TypeOK, Document
    <3> QED BY <2>3, <3>1 DEF Version
  <2>4. CASE seen[c] # NoRoom
    <3>1. store # NoRoom /\ seen[c].version <= Newest /\ seen[c].version \in 1 .. MaxVersion
      BY <2>1, <2>2, <2>4, RoomFields, Zenon DEF ClientOf, Shown, TypeOK
    <3>2. store.version \in 1 .. MaxVersion
      BY <2>1, <3>1, Zenon DEF TypeOK, Document
    <3>3. room # NoRoom => room.version \in 1 .. MaxVersion
      BY <2>1, RoomFields, Zenon DEF TypeOK
    <3>4. Newest <= store.version /\ Newest \in 1 .. MaxVersion
      BY <2>2, <3>2, <3>3, SMTT(20) DEF Newest, RoomOf
    <3>5. seen[c].version <= store.version
      BY <3>1, <3>2, <3>4
    <3> QED BY <2>4, <3>1, <3>5, Zenon DEF Version
  <2> QED BY <2>3, <2>4
<1> QED BY <1>1, RoomInvHolds, PTL

\* In every mode a restore leaves the client with the room it looked up.
THEOREM RestoreYieldsRoomHolds == Spec => RestoreYieldsRoom
<1>1. RoomInv /\ [Next]_vars =>
        [\A c \in Client : breaches = {} /\ seen'[c] # seen[c] => seen'[c] = found[c]]_vars
  <2> SUFFICES ASSUME RoomInv, Next, NEW c \in Client, breaches = {}, seen'[c] # seen[c]
               PROVE  seen'[c] = found[c]
    OBVIOUS
  <2>1. TypeOK /\ FoundOK
    BY DEF RoomInv
  <2>2. PICK H : History(H) /\ Told(H)
    BY DEF RoomInv
  <2>3. PICK k \in Client, allow \in BOOLEAN : Compose(k, allow)
    BY Zenon DEF Next, Create, MutateFails, MutateInvalid, Mutate, Lookup, Find, Install, Restart
  <2>4. pc[k] = "compose" /\ (seen' = [seen EXCEPT ![k] = Answer(k, allow)] \/ seen' = seen)
    BY <2>3, ComposeIs
  <2>5. Answer(k, allow) = found[k]
    BY <2>1, <2>2, <2>4, AnswerIsFound
  <2> QED BY <2>1, <2>4, <2>5 DEF TypeOK
<1> QED BY <1>1, RoomInvHolds, PTL DEF Spec, RestoreYieldsRoom
=============================================================================
