-------------------------- MODULE ShardmasterProofs --------------------------
(***************************************************************************)
(* What holds of the shard master for any number of groups, shards, clients *)
(* and requests: the two walks over the shards end, and do what they should;*)
(* Shardmaster implements ConfigLog.                                        *)
(***************************************************************************)
EXTENDS Shardmaster, FiniteSetTheorems, WellFoundedInduction, SequenceTheorems, TLAPS

USE GidAssumption, BoundAssumption DEF NoGid
-----------------------------------------------------------------------------
(* Numbers.  Sets of them have a least element, since 1 .. n is finite and   *)
(* the finite sets are well ordered by inclusion; so a set with 0 and with   *)
(* every next number has them all, and a step taken again and again makes a  *)
(* function.                                                                *)

LEMMA LeastNumber ==
  ASSUME NEW S \in SUBSET Nat, S # {}
  PROVE  \E m \in S : \A n \in S : m <= n
<1> DEFINE T == {1 .. n : n \in S}
<1>1. IsWellFoundedOn(StrictSubsetOrdering(Nat), FiniteSubsetsOf(Nat))
  BY FS_StrictSubsetOrderingWellFounded
<1>2. ASSUME NEW n \in S PROVE 1 .. n \in FiniteSubsetsOf(Nat)
  <2>1. IsFiniteSet(1 .. n)
    BY FS_Interval
  <2>2. 1 .. n \subseteq Nat
    OBVIOUS
  <2> QED BY <2>1, <2>2 DEF FiniteSubsetsOf
<1>3. T \subseteq FiniteSubsetsOf(Nat) /\ T # {}
  BY <1>2
<1>4. PICK x \in T : \A y \in T : ~ (<<y, x>> \in StrictSubsetOrdering(Nat))
  BY <1>1, <1>3, WFMin
<1>5. PICK m \in S : x = 1 .. m
  BY <1>4
<1>6. ASSUME NEW n \in S, n < m PROVE FALSE
  <2>1. 1 .. n \in T /\ 1 .. n \subseteq 1 .. m /\ 1 .. n # 1 .. m
    BY <1>6
  <2>2. 1 .. n \subseteq Nat /\ 1 .. m \subseteq Nat
    OBVIOUS
  <2> QED BY <1>4, <1>5, <2>1, <2>2 DEF StrictSubsetOrdering
<1> QED BY <1>6

LEMMA NumberInduction ==
  ASSUME NEW S, 0 \in S, \A n \in Nat : n \in S => n + 1 \in S
  PROVE  Nat \subseteq S
<1> SUFFICES ASSUME Nat \ S # {} PROVE FALSE
  OBVIOUS
<1>1. PICK m \in Nat \ S : \A n \in Nat \ S : m <= n
  BY LeastNumber
<1>2. m - 1 \in Nat /\ m - 1 \in S
  BY <1>1
<1> QED BY <1>1, <1>2

IsWalk(f, N, start, step) ==
  f = [i \in 0 .. N |-> IF i = 0 THEN start ELSE step[<<i - 1, f[i - 1]>>]]

LEMMA Iterated ==
  ASSUME NEW N \in Nat, NEW S, NEW start \in S, NEW step \in [Nat \X S -> S]
  PROVE  \E f \in [0 .. N -> S] : IsWalk(f, N, start, step)
<1> DEFINE Steps(f, n) == \A i \in 1 .. n : f[i] = step[<<i - 1, f[i - 1]>>]
           Reached == {n \in Nat : \E f \in [0 .. n -> S] : f[0] = start /\ Steps(f, n)}
<1>1. 0 \in Reached
  <2> DEFINE g == [i \in 0 .. 0 |-> start]
  <2>1. g \in [0 .. 0 -> S] /\ g[0] = start /\ Steps(g, 0)
    OBVIOUS
  <2> HIDE DEF g, Steps
  <2>2. \E f \in [0 .. 0 -> S] : f[0] = start /\ Steps(f, 0)
    BY <2>1
  <2> QED BY <2>2
<1>2. ASSUME NEW n \in Reached PROVE n + 1 \in Reached
  <2>1. PICK f \in [0 .. n -> S] : f[0] = start /\ Steps(f, n)
    BY <1>2
  <2> DEFINE g == [i \in 0 .. n + 1 |-> IF i <= n THEN f[i] ELSE step[<<n, f[n]>>]]
  <2>2. step[<<n, f[n]>>] \in S
    BY <2>1
  <2>3. g \in [0 .. n + 1 -> S] /\ g[0] = start
    BY <2>1, <2>2
  <2>4. ASSUME NEW i \in 1 .. n + 1 PROVE g[i] = step[<<i - 1, g[i - 1]>>]
    <3>1. i - 1 \in 0 .. n /\ g[i - 1] = f[i - 1]
      OBVIOUS
    <3>2. CASE i \in 1 .. n
      BY <2>1, <3>1, <3>2
    <3>3. CASE i = n + 1
      <4>1. g[i] = step[<<n, f[n]>>] /\ i - 1 = n
        BY <3>3
      <4> QED BY <3>1, <4>1
    <3> QED BY <3>2, <3>3
  <2>5. Steps(g, n + 1)
    BY <2>4
  <2> HIDE DEF g, Steps
  <2>6. \E h \in [0 .. n + 1 -> S] : h[0] = start /\ Steps(h, n + 1)
    BY <2>3, <2>5
  <2> QED BY <2>6
<1>3. N \in Reached
  <2> HIDE DEF Reached
  <2>1. \A n \in Nat : n \in Reached => n + 1 \in Reached
    BY <1>2
  <2> QED BY <1>1, <2>1, NumberInduction
<1>4. PICK f \in [0 .. N -> S] : f[0] = start /\ Steps(f, N)
  BY <1>3
<1> DEFINE g == [i \in 0 .. N |-> IF i = 0 THEN start ELSE step[<<i - 1, f[i - 1]>>]]
<1>5. ASSUME NEW i \in 0 .. N PROVE f[i] = g[i]
  BY <1>4
<1>6. f = g
  BY <1>4, <1>5
<1> QED BY <1>4, <1>6 DEF IsWalk

(* What holds at the start of a walk and is kept by its steps holds always.  *)
LEMMA Walked ==
  ASSUME NEW N \in Nat, NEW Good, 0 \in Good, \A i \in 0 .. N - 1 : i \in Good => i + 1 \in Good
  PROVE  0 .. N \subseteq Good
<1> DEFINE G == {n \in Nat : n <= N => n \in Good}
<1>1. ASSUME NEW n \in Nat, n \in G PROVE n + 1 \in G
  BY <1>1
<1>2. 0 \in G
  OBVIOUS
<1>3. Nat \subseteq G
  <2> HIDE DEF G
  <2> QED BY <1>1, <1>2, NumberInduction
<1> QED BY <1>3
-----------------------------------------------------------------------------
(* The walk of Join.                                                        *)

Assigned == [Shards -> Gid \union {NoGid}]

LEMMA OrderIsSequence ==
  ASSUME NEW S \in SUBSET Gid, NEW o \in Orders(S)
  PROVE  /\ o \in Seq(S) /\ Len(o) \in Nat /\ Len(o) = Cardinality(S)
         /\ S # {} => Len(o) >= 1
         /\ S = {} => o = <<>>
         /\ o = <<>> <=> Len(o) = 0
         /\ \A k \in 1 .. Len(o) : o[k] \in S
<1>1. IsFiniteSet(S) /\ Cardinality(S) \in Nat
  BY FS_Subset, FS_CardinalityType
<1>2. o \in [1 .. Cardinality(S) -> S] /\ \A a \in S : \E k \in DOMAIN o : o[k] = a
  BY DEF Orders
<1>3. o \in Seq(S)
  BY <1>1, <1>2, IsASeq
<1>4. Len(o) = Cardinality(S)
  BY <1>1, <1>2, <1>3, LenProperties
<1>5. Cardinality(S) = 0 <=> S = {}
  BY <1>1, FS_EmptySet
<1>6. o = <<>> <=> Len(o) = 0
  BY <1>3, EmptySeq
<1> QED BY <1>1, <1>2, <1>3, <1>4, <1>5, <1>6

JoinState(n, newGids) ==
  [shards : Assigned, groups : {n}, more : Int, count : [Gid -> Nat],
   j : {0} \union 0 .. Len(newGids) - 1, fault : BOOLEAN]

JoinStart(shards, n) ==
  [shards |-> shards, groups |-> n, more |-> NShards % n,
   count |-> [g \in Gid |-> 0], j |-> 0, fault |-> FALSE]

LEMMA JoinStartTyped ==
  ASSUME NEW n \in Nat \ {0}, NEW shards \in Assigned, NEW newGids
  PROVE  JoinStart(shards, n) \in JoinState(n, newGids)
<1>1. NShards % n \in Int
  OBVIOUS
<1> QED BY <1>1 DEF JoinStart, JoinState

KeptStep(s, t, i) ==
  /\ s.shards[i] \in Gid
  /\ t.shards = s.shards /\ t.fault = FALSE
  /\ t.count = [s.count EXCEPT ![s.shards[i]] = s.count[s.shards[i]] + 1]
TakenStep(s, t, i, S) ==
  /\ t.fault = FALSE
  /\ \E to \in S : /\ t.shards = [s.shards EXCEPT ![i] = to]
                  /\ t.count = [s.count EXCEPT ![to] = s.count[to] + 1]

(* A step keeps the shard where it is, gives it to a new group, or fails.   *)
LEMMA JoinKept ==
  ASSUME NEW newGids, NEW n, NEW s \in JoinState(n, newGids), NEW i \in Shards, NEW min,
         ~s.fault, ~Surplus(s, s.shards[i], min)
  PROVE  /\ JoinStep(s, i, newGids, min) \in JoinState(n, newGids)
         /\ KeptStep(s, JoinStep(s, i, newGids, min), i)
<1> DEFINE gid == s.shards[i]
           c == [s.count EXCEPT ![gid] = s.count[gid] + 1]
           m == IF s.count[gid] + 1 = min THEN s.more - 1 ELSE s.more
           t == [s EXCEPT !.count = c, !.more = m]
<1>1. JoinStep(s, i, newGids, min) = t
  BY Zenon DEF JoinStep
<1>2. /\ s.shards \in Assigned /\ s.count \in [Gid -> Nat] /\ s.more \in Int
  BY DEF JoinState
<1>3. gid \in Gid
  BY <1>2 DEF Surplus, Assigned
<1>4. c \in [Gid -> Nat] /\ m \in Int
  BY <1>2, <1>3
<1> HIDE DEF c, m
<1>5. t \in JoinState(n, newGids)
  BY <1>4 DEF JoinState
<1>6. t.shards = s.shards /\ t.fault = s.fault /\ t.count = c
  BY DEF JoinState
<1>7. s.fault \in BOOLEAN
  BY DEF JoinState
<1> QED BY <1>1, <1>3, <1>5, <1>6, <1>7 DEF c, KeptStep

LEMMA JoinTaken ==
  ASSUME NEW S \in SUBSET Gid, NEW newGids \in Orders(S), NEW n, NEW s \in JoinState(n, newGids),
         NEW i \in Shards, NEW min, ~s.fault, Surplus(s, s.shards[i], min), newGids # <<>>
  PROVE  /\ JoinStep(s, i, newGids, min) \in JoinState(n, newGids)
         /\ TakenStep(s, JoinStep(s, i, newGids, min), i, S)
<1> DEFINE to == newGids[s.j + 1]
           c == [s.count EXCEPT ![to] = s.count[to] + 1]
           w == [s.shards EXCEPT ![i] = to]
           j == (s.j + 1) % Len(newGids)
           t == [s EXCEPT !.shards = w, !.count = c, !.j = j]
<1>1. JoinStep(s, i, newGids, min) = t
  BY Zenon DEF JoinStep
<1>2. Len(newGids) \in Nat /\ Len(newGids) >= 1 /\ s.j \in {0} \union 0 .. Len(newGids) - 1
  BY OrderIsSequence DEF JoinState
<1>3. s.j + 1 \in 1 .. Len(newGids)
  BY <1>2
<1>4. to \in S /\ to \in Gid
  BY <1>3, OrderIsSequence
<1>5. j \in 0 .. Len(newGids) - 1
  BY <1>2
<1>6. /\ s.shards \in Assigned /\ s.count \in [Gid -> Nat]
  BY DEF JoinState
<1>7. c \in [Gid -> Nat] /\ w \in Assigned
  BY <1>4, <1>6 DEF Assigned
<1> HIDE DEF c, w, j, to
<1>8. t \in JoinState(n, newGids)
  BY <1>5, <1>7 DEF JoinState
<1>9. t.shards = w /\ t.fault = s.fault /\ t.count = c /\ s.fault \in BOOLEAN
  BY DEF JoinState
<1> QED BY <1>1, <1>4, <1>8, <1>9 DEF c, w, TakenStep

LEMMA JoinFails ==
  ASSUME NEW newGids, NEW n, NEW s \in JoinState(n, newGids), NEW i, NEW min,
         s.fault \/ (Surplus(s, s.shards[i], min) /\ newGids = <<>>)
  PROVE  LET t == JoinStep(s, i, newGids, min) IN t \in JoinState(n, newGids) /\ t.fault
<1>1. JoinStep(s, i, newGids, min) = IF s.fault THEN s ELSE [s EXCEPT !.fault = TRUE]
  BY Zenon DEF JoinStep
<1> QED BY <1>1 DEF JoinState

LEMMA JoinStepTyped ==
  ASSUME NEW S \in SUBSET Gid, NEW newGids \in Orders(S), NEW n,
         NEW s \in JoinState(n, newGids), NEW i \in Shards, NEW min
  PROVE  JoinStep(s, i, newGids, min) \in JoinState(n, newGids)
<1>1. CASE s.fault \/ (Surplus(s, s.shards[i], min) /\ newGids = <<>>)
  BY <1>1, JoinFails
<1>2. CASE ~s.fault /\ ~Surplus(s, s.shards[i], min)
  BY <1>2, JoinKept
<1>3. CASE ~s.fault /\ Surplus(s, s.shards[i], min) /\ newGids # <<>>
  BY <1>3, JoinTaken
<1> QED BY <1>1, <1>2, <1>3

LEMMA JoinWalkSteps ==
  ASSUME NEW S \in SUBSET Gid, NEW newGids \in Orders(S), NEW n \in Nat \ {0},
         NEW shards \in Assigned
  PROVE  LET walk == JoinWalk(shards, n, newGids)
         IN /\ walk \in [0 .. NShards -> JoinState(n, newGids)]
            /\ walk[0] = JoinStart(shards, n)
            /\ \A i \in 0 .. NShards - 1 :
                 walk[i + 1] = JoinStep(walk[i], i, newGids, NShards \div n)
<1> DEFINE min == NShards \div n
           States == JoinState(n, newGids)
           step == [p \in Nat \X States |->
                      IF p[1] \in Shards THEN JoinStep(p[2], p[1], newGids, min) ELSE p[2]]
           Body(f) == [i \in 0 .. NShards |-> IF i = 0 THEN JoinStart(shards, n)
                                              ELSE JoinStep(f[i - 1], i - 1, newGids, min)]
           walk == JoinWalk(shards, n, newGids)
<1>1. step \in [Nat \X States -> States]
  <2>1. ASSUME NEW p \in Nat \X States
        PROVE  (IF p[1] \in Shards THEN JoinStep(p[2], p[1], newGids, min) ELSE p[2]) \in States
    BY JoinStepTyped
  <2> QED BY <2>1
<1>2. JoinStart(shards, n) \in States
  BY JoinStartTyped
<1>3. PICK f \in [0 .. NShards -> States] : IsWalk(f, NShards, JoinStart(shards, n), step)
  <2> HIDE DEF step, States
  <2> QED BY <1>1, <1>2, Iterated
<1>4. ASSUME NEW i \in 1 .. NShards
      PROVE  step[<<i - 1, f[i - 1]>>] = JoinStep(f[i - 1], i - 1, newGids, min)
  <2>1. i - 1 \in Shards /\ i - 1 \in Nat /\ i - 1 \in 0 .. NShards
    BY DEF Shards
  <2> HIDE DEF States
  <2>2. f[i - 1] \in States
    BY <2>1
  <2> QED BY <2>1, <2>2
<1>5. f = Body(f)
  <2> HIDE DEF step, States
  <2>1. ASSUME NEW i \in 0 .. NShards PROVE f[i] = Body(f)[i]
    <3>1. f[i] = IF i = 0 THEN JoinStart(shards, n) ELSE step[<<i - 1, f[i - 1]>>]
      BY <1>3 DEF IsWalk
    <3>2. i # 0 => i \in 1 .. NShards
      OBVIOUS
    <3> QED BY <1>4, <3>1, <3>2
  <2>2. f \in [0 .. NShards -> States]
    OBVIOUS
  <2> QED BY <2>1, <2>2
<1>6. walk = CHOOSE w : w = Body(w)
  BY DEF JoinWalk, JoinStart
<1>7. walk = Body(walk)
  <2> HIDE DEF walk, Body
  <2> QED BY <1>5, <1>6
<1> HIDE DEF walk
<1>8. walk[0] = JoinStart(shards, n)
  BY <1>7
<1>9. ASSUME NEW i \in 0 .. NShards - 1
      PROVE  walk[i + 1] = JoinStep(walk[i], i, newGids, min)
  BY <1>7
<1>10. \A i \in 0 .. NShards : walk[i] \in States
  <2> DEFINE Good == {i \in 0 .. NShards : walk[i] \in States}
  <2>1. ASSUME NEW i \in 0 .. NShards - 1, i \in Good PROVE i + 1 \in Good
    BY <1>9, <2>1, JoinStepTyped DEF Shards
  <2>2. 0 \in Good
    BY <1>2, <1>8
  <2>3. 0 .. NShards \subseteq Good
    <3> HIDE DEF Good
    <3> QED BY <2>1, <2>2, Walked
  <2> QED BY <2>3
<1>11. walk \in [0 .. NShards -> States]
  BY <1>7, <1>10
<1> QED BY <1>8, <1>9, <1>11 DEF walk

(* Up to shard i the walk has counted what each old group keeps, has left no *)
(* shard unassigned, and has taken from a group only what is beyond min.     *)
Kept(s, i, g) == {k \in 0 .. i - 1 : s.shards[k] = g}
Walking(s, i, old, S, min) ==
  /\ \A k \in Shards : s.shards[k] = old[k] \/ s.shards[k] \in S
  /\ \A k \in Shards : k >= i => s.shards[k] = old[k]
  /\ \A k \in Shards : k < i => s.shards[k] # NoGid
  /\ \A g \in Gid \ S : s.count[g] = Cardinality(Kept(s, i, g))
  /\ \A g \in Gid \ S : (\E k \in 0 .. i - 1 : old[k] = g /\ s.shards[k] # g) => s.count[g] >= min

LEMMA KeptFinite ==
  ASSUME NEW s, NEW i \in Nat, NEW g
  PROVE  IsFiniteSet(Kept(s, i, g)) /\ Cardinality(Kept(s, i, g)) \in Nat
<1>1. IsFiniteSet(0 .. i - 1) /\ Kept(s, i, g) \subseteq 0 .. i - 1
  BY FS_Interval DEF Kept
<1> QED BY <1>1, FS_Subset, FS_CardinalityType

LEMMA WalkingKept ==
  ASSUME NEW S \in SUBSET Gid, NEW newGids, NEW n, NEW s \in JoinState(n, newGids),
         NEW i \in Shards, NEW min \in Nat, NEW old \in Assigned, Walking(s, i, old, S, min),
         ~s.fault, ~Surplus(s, s.shards[i], min)
  PROVE  Walking(JoinStep(s, i, newGids, min), i + 1, old, S, min)
<1> DEFINE t == JoinStep(s, i, newGids, min)
           gid == s.shards[i]
<1>0. t = JoinStep(s, i, newGids, min)
  OBVIOUS
<1> HIDE DEF t
<1>1. /\ gid \in Gid /\ t.shards = s.shards
      /\ t.count = [s.count EXCEPT ![gid] = s.count[gid] + 1]
  <2>1. KeptStep(s, JoinStep(s, i, newGids, min), i)
    BY JoinKept
  <2> QED BY <1>0, <2>1 DEF KeptStep
<1>2. /\ s.count \in [Gid -> Nat] /\ s.shards \in Assigned
      /\ i \in Nat /\ 0 .. i - 1 \subseteq Shards
  BY DEF JoinState, Shards
<1>3. ASSUME NEW g \in Gid \ S PROVE t.count[g] = Cardinality(Kept(t, i + 1, g))
  <2>1. CASE g = gid
    <3>1. Kept(t, i + 1, g) = Kept(s, i, g) \union {i} /\ i \notin Kept(s, i, g)
      BY <1>1, <1>2, <2>1 DEF Kept
    <3>2. Cardinality(Kept(t, i + 1, g)) = Cardinality(Kept(s, i, g)) + 1
      BY <1>2, <3>1, KeptFinite, FS_AddElement
    <3> QED BY <1>1, <1>2, <2>1, <3>2 DEF Walking
  <2>2. CASE g # gid
    <3>1. Kept(t, i + 1, g) = Kept(s, i, g)
      BY <1>1, <1>2, <2>2 DEF Kept
    <3> QED BY <1>1, <1>2, <2>2, <3>1 DEF Walking
  <2> QED BY <2>1, <2>2
<1>4. ASSUME NEW g \in Gid \ S, NEW k \in 0 .. i, old[k] = g, t.shards[k] # g
      PROVE  t.count[g] >= min
  <2>1. k # i
    BY <1>1, <1>2, <1>4 DEF Walking
  <2>2. k \in 0 .. i - 1 /\ s.shards[k] # g
    BY <1>1, <1>2, <1>4, <2>1
  <2>3. s.count[g] >= min
    BY <1>4, <2>2 DEF Walking
  <2> QED BY <1>1, <1>2, <2>3
<1>5. \A k \in Shards : k < i + 1 => t.shards[k] # NoGid
  BY <1>1, <1>2 DEF Walking, Shards
<1>6. \A k \in Shards : /\ t.shards[k] = old[k] \/ t.shards[k] \in S
                        /\ k >= i + 1 => t.shards[k] = old[k]
  BY <1>1, <1>2 DEF Walking, Shards
<1>7. (i + 1) - 1 = i
  BY <1>2
<1> QED BY <1>3, <1>4, <1>5, <1>6, <1>7, <1>0 DEF Walking

LEMMA WalkingTaken ==
  ASSUME NEW S \in SUBSET Gid, NEW newGids \in Orders(S), NEW n, NEW s \in JoinState(n, newGids),
         NEW i \in Shards, NEW min \in Nat, NEW old \in Assigned, Walking(s, i, old, S, min),
         ~s.fault, Surplus(s, s.shards[i], min), newGids # <<>>
  PROVE  Walking(JoinStep(s, i, newGids, min), i + 1, old, S, min)
<1> DEFINE t == JoinStep(s, i, newGids, min)
           gid == s.shards[i]
<1>0. t = JoinStep(s, i, newGids, min)
  OBVIOUS
<1> HIDE DEF t
<1>1. PICK to \in S : /\ t.shards = [s.shards EXCEPT ![i] = to]
                      /\ t.count = [s.count EXCEPT ![to] = s.count[to] + 1]
  <2>1. TakenStep(s, JoinStep(s, i, newGids, min), i, S)
    BY JoinTaken
  <2> QED BY <1>0, <2>1 DEF TakenStep
<1>2. /\ s.count \in [Gid -> Nat] /\ s.shards \in Assigned
      /\ s.shards \in [Shards -> Gid \union {NoGid}]
      /\ i \in Nat /\ 0 .. i - 1 \subseteq Shards /\ i \notin 0 .. i - 1
  BY DEF JoinState, Shards, Assigned
<1>3. \A k \in Shards : t.shards[k] = IF k = i THEN to ELSE s.shards[k]
  BY <1>1, <1>2
<1>4. \A g \in Gid \ S : t.count[g] = s.count[g]
  BY <1>1, <1>2
<1>5. ASSUME NEW g \in Gid \ S PROVE t.count[g] = Cardinality(Kept(t, i + 1, g))
  <2>1. Kept(t, i + 1, g) = Kept(s, i, g)
    BY <1>2, <1>3 DEF Kept, Shards
  <2> QED BY <1>4, <2>1 DEF Walking
<1>6. ASSUME NEW g \in Gid \ S, NEW k \in 0 .. i, old[k] = g, t.shards[k] # g
      PROVE  t.count[g] >= min
  <2>1. CASE k = i
    <3>1. gid = g
      BY <1>6, <2>1 DEF Walking
    <3>2. s.count[g] = min
      BY <3>1 DEF Surplus
    <3> QED BY <1>2, <1>4, <3>2
  <2>2. CASE k # i
    <3>1. k \in 0 .. i - 1 /\ s.shards[k] # g
      BY <1>2, <1>3, <1>6, <2>2
    <3>2. s.count[g] >= min
      BY <1>6, <3>1 DEF Walking
    <3> QED BY <1>4, <3>2
  <2> QED BY <2>1, <2>2
<1>7. \A k \in Shards : k < i + 1 => t.shards[k] # NoGid
  BY <1>2, <1>3 DEF Walking, Shards
<1>8. \A k \in Shards : /\ t.shards[k] = old[k] \/ t.shards[k] \in S
                        /\ k >= i + 1 => t.shards[k] = old[k]
  BY <1>2, <1>3 DEF Walking, Shards
<1>9. (i + 1) - 1 = i
  BY <1>2
<1> QED BY <1>5, <1>6, <1>7, <1>8, <1>9, <1>0 DEF Walking

(* What Join makes of the shards, unless the process ends.                  *)
LEMMA JoinResult ==
  ASSUME NEW S \in SUBSET Gid, NEW newGids \in Orders(S), NEW n \in Nat \ {0},
         NEW old \in Assigned
  PROVE  LET s == JoinShards(old, n, newGids)
         IN /\ s.shards \in Assigned /\ s.fault \in BOOLEAN
            /\ ~s.fault => Walking(s, NShards, old, S, NShards \div n)
<1> DEFINE walk == JoinWalk(old, n, newGids)
           min == NShards \div n
           Good == {i \in 0 .. NShards : ~walk[i].fault => Walking(walk[i], i, old, S, min)}
<1>1. /\ walk \in [0 .. NShards -> JoinState(n, newGids)]
      /\ walk[0] = JoinStart(old, n)
      /\ \A i \in 0 .. NShards - 1 : walk[i + 1] = JoinStep(walk[i], i, newGids, min)
  BY JoinWalkSteps
<1>2. min \in Nat
  OBVIOUS
<1> HIDE DEF walk, min
<1>3. 0 \in Good
  <2>1. \A g : Kept(walk[0], 0, g) = {}
    BY DEF Kept
  <2>2. walk[0].shards = old /\ walk[0].count = [g \in Gid |-> 0]
    BY <1>1 DEF JoinStart
  <2>3. Cardinality({}) = 0
    BY FS_EmptySet
  <2>4. Walking(walk[0], 0, old, S, min)
    BY <2>1, <2>2, <2>3 DEF Walking, Shards
  <2> QED BY <2>4
<1>4. ASSUME NEW i \in 0 .. NShards - 1, i \in Good PROVE i + 1 \in Good
  <2>1. /\ i \in Shards /\ walk[i] \in JoinState(n, newGids)
        /\ walk[i + 1] = JoinStep(walk[i], i, newGids, min)
    BY <1>1 DEF Shards
  <2>2. CASE walk[i].fault \/ (Surplus(walk[i], walk[i].shards[i], min) /\ newGids = <<>>)
    BY <2>1, <2>2, JoinFails
  <2>3. CASE ~walk[i].fault /\ ~Surplus(walk[i], walk[i].shards[i], min)
    BY <1>2, <1>4, <2>1, <2>3, WalkingKept
  <2>4. CASE ~walk[i].fault /\ Surplus(walk[i], walk[i].shards[i], min) /\ newGids # <<>>
    BY <1>2, <1>4, <2>1, <2>4, WalkingTaken
  <2> QED BY <2>2, <2>3, <2>4
<1>5. NShards \in Good
  <2> HIDE DEF Good
  <2>1. 0 .. NShards \subseteq Good
    BY <1>3, <1>4, Walked
  <2> QED BY <2>1
<1>6. walk[NShards] \in JoinState(n, newGids)
  BY <1>1
<1>7. JoinShards(old, n, newGids) = walk[NShards]
  BY DEF JoinShards, walk
<1> QED BY <1>5, <1>6, <1>7 DEF JoinState, min

-----------------------------------------------------------------------------
(* The walk of Leave.                                                       *)

LeaveState(rest) ==
  [shards : Assigned, count : [Gid \union {NoGid} -> Nat],
   i : 0 .. NShards, j : 0 .. Len(rest) - 1]

LeaveStart(shards) ==
  [shards |-> shards, count |-> [g \in Gid \union {NoGid} |-> 0], i |-> 0, j |-> 0]

(* A step keeps the shard where it is, hands it on and goes to the next, or  *)
(* hands it to a group below its share and goes back to the first.          *)
LeaveKeeps(s, t, gids) ==
  /\ s.shards[s.i] \notin gids
  /\ t.shards = s.shards /\ t.i = s.i + 1
  /\ t.count = [s.count EXCEPT ![s.shards[s.i]] = s.count[s.shards[s.i]] + 1]
Hands(s, t, to) ==
  /\ t.shards = [s.shards EXCEPT ![s.i] = to]
  /\ t.count = [s.count EXCEPT ![to] = s.count[to] + 1]
LeaveGoesOn(s, t, S) == t.i = s.i + 1 /\ \E to \in S : Hands(s, t, to)
LeaveGoesBack(s, t, S, per) == t.i = 0 /\ \E to \in S : s.count[to] < per /\ Hands(s, t, to)

LEMMA LeaveKept ==
  ASSUME NEW rest, NEW s \in LeaveState(rest), NEW gids, NEW per,
         s.i # NShards, ~MovesAway(s, gids, per)
  PROVE  /\ LeaveStep(s, gids, rest, per) \in LeaveState(rest)
         /\ LeaveKeeps(s, LeaveStep(s, gids, rest, per), gids)
<1> DEFINE gid == s.shards[s.i]
           c == [s.count EXCEPT ![gid] = s.count[gid] + 1]
           i == s.i + 1
           t == [s EXCEPT !.count = c, !.i = i]
<1>1. LeaveStep(s, gids, rest, per) = t
  BY Zenon DEF LeaveStep
<1>2. s.shards \in Assigned /\ s.count \in [Gid \union {NoGid} -> Nat] /\ s.i \in 0 .. NShards
  BY DEF LeaveState
<1>3. gid \in Gid \union {NoGid}
  BY <1>2 DEF Assigned, Shards
<1>4. c \in [Gid \union {NoGid} -> Nat] /\ i \in 0 .. NShards
  BY <1>2, <1>3
<1> HIDE DEF c, i
<1>5. t \in LeaveState(rest)
  BY <1>4 DEF LeaveState
<1>6. t.shards = s.shards /\ t.i = i /\ t.count = c
  BY DEF LeaveState
<1>7. gid \notin gids
  BY DEF MovesAway
<1> QED BY <1>1, <1>5, <1>6, <1>7 DEF c, i, LeaveKeeps

LEMMA LeaveMoved ==
  ASSUME NEW S \in SUBSET Gid, S # {}, NEW rest \in Orders(S), NEW s \in LeaveState(rest),
         NEW gids, NEW per, s.i # NShards, MovesAway(s, gids, per)
  PROVE  /\ LeaveStep(s, gids, rest, per) \in LeaveState(rest)
         /\ \/ LeaveGoesOn(s, LeaveStep(s, gids, rest, per), S)
            \/ LeaveGoesBack(s, LeaveStep(s, gids, rest, per), S, per)
<1> DEFINE poor == Poor(s, rest, per)
           least == CHOOSE k \in poor : \A l \in poor : k <= l
           at == IF poor = {} THEN s.j + 1 ELSE least
           to == Receiver(s, rest, per)
           c == [s.count EXCEPT ![to] = s.count[to] + 1]
           w == [s.shards EXCEPT ![s.i] = to]
           i == IF poor = {} THEN s.i + 1 ELSE 0
           j == IF poor = {} THEN (s.j + 1) % Len(rest) ELSE 0
           t == [s EXCEPT !.shards = w, !.count = c, !.i = i, !.j = j]
<1>1. LeaveStep(s, gids, rest, per) = t
  BY Zenon DEF LeaveStep
<1>2. /\ s.shards \in Assigned /\ s.count \in [Gid \union {NoGid} -> Nat]
      /\ s.i \in 0 .. NShards /\ s.j \in 0 .. Len(rest) - 1
  BY DEF LeaveState
<1>0. to = rest[at] /\ poor = {k \in DOMAIN rest : s.count[rest[k]] < per}
  BY Zenon DEF Poor, Receiver
<1>3. /\ Len(rest) \in Nat /\ Len(rest) >= 1 /\ DOMAIN rest = 1 .. Len(rest)
      /\ \A k \in 1 .. Len(rest) : rest[k] \in S
  BY OrderIsSequence
<1>4. poor # {} => least \in poor
  <2>1. poor \in SUBSET Nat
    BY <1>0, <1>3
  <2> HIDE DEF poor
  <2>2. poor # {} => \E k \in poor : \A l \in poor : k <= l
    BY <2>1, LeastNumber
  <2> QED BY <2>2
<1> HIDE DEF least, to, poor
<1>5. at \in 1 .. Len(rest)
  BY <1>0, <1>2, <1>3, <1>4
<1>6. to \in S /\ to \in Gid
  BY <1>0, <1>3, <1>5
<1>7. poor # {} => s.count[to] < per
  BY <1>0, <1>4
<1>8. i \in 0 .. NShards /\ j \in 0 .. Len(rest) - 1
  BY <1>2, <1>3
<1>9. i = s.i + 1 \/ (i = 0 /\ s.count[to] < per)
  BY <1>7
<1>10. c \in [Gid \union {NoGid} -> Nat] /\ w \in Assigned
  <2>1. c \in [Gid \union {NoGid} -> Nat]
    BY <1>2, <1>6
  <2>2. w \in Assigned
    BY <1>2, <1>6 DEF Assigned
  <2> QED BY <2>1, <2>2
<1> HIDE DEF c, w, i, j
<1>11. t \in LeaveState(rest)
  BY <1>8, <1>10 DEF LeaveState
<1>12. t.shards = w /\ t.count = c /\ t.i = i
  BY DEF LeaveState
<1>13. Hands(s, t, to)
  BY <1>12 DEF Hands, c, w
<1>14. LeaveGoesOn(s, t, S) \/ LeaveGoesBack(s, t, S, per)
  <2> HIDE DEF t
  <2> QED BY <1>6, <1>9, <1>12, <1>13 DEF LeaveGoesOn, LeaveGoesBack
<1> QED BY <1>1, <1>11, <1>14

LEMMA LeaveStepTyped ==
  ASSUME NEW S \in SUBSET Gid, S # {}, NEW rest \in Orders(S), NEW s \in LeaveState(rest),
         NEW gids, NEW per
  PROVE  LeaveStep(s, gids, rest, per) \in LeaveState(rest)
<1>1. CASE s.i = NShards
  <2>1. LeaveStep(s, gids, rest, per) = s
    BY <1>1, Zenon DEF LeaveStep
  <2> QED BY <2>1
<1>2. CASE s.i # NShards /\ ~MovesAway(s, gids, per)
  BY <1>2, LeaveKept
<1>3. CASE s.i # NShards /\ MovesAway(s, gids, per)
  BY <1>3, LeaveMoved
<1> QED BY <1>1, <1>2, <1>3

LEMMA LeaveWalkSteps ==
  ASSUME NEW S \in SUBSET Gid, S # {}, NEW rest \in Orders(S), NEW gids,
         NEW shards \in Assigned, LeaveSteps(rest) \in Nat
  PROVE  LET walk == LeaveWalk(shards, gids, rest)
         IN /\ walk \in [0 .. LeaveSteps(rest) -> LeaveState(rest)]
            /\ walk[0] = LeaveStart(shards)
            /\ \A k \in 0 .. LeaveSteps(rest) - 1 :
                 walk[k + 1] = LeaveStep(walk[k], gids, rest, Share(rest))
<1> DEFINE per == Share(rest)
           N == LeaveSteps(rest)
           States == LeaveState(rest)
           step == [p \in Nat \X States |-> LeaveStep(p[2], gids, rest, per)]
           Body(f) == [k \in 0 .. N |-> IF k = 0 THEN LeaveStart(shards)
                                        ELSE LeaveStep(f[k - 1], gids, rest, per)]
           walk == LeaveWalk(shards, gids, rest)
<1>1. step \in [Nat \X States -> States]
  <2>1. ASSUME NEW p \in Nat \X States PROVE LeaveStep(p[2], gids, rest, per) \in States
    BY LeaveStepTyped
  <2> QED BY <2>1
<1>2. LeaveStart(shards) \in States
  <2>1. Len(rest) \in Nat /\ Len(rest) >= 1
    BY OrderIsSequence
  <2> QED BY <2>1 DEF LeaveStart, LeaveState
<1> HIDE DEF N
<1>3. PICK f \in [0 .. N -> States] : IsWalk(f, N, LeaveStart(shards), step)
  <2>1. N \in Nat
    BY DEF N
  <2> HIDE DEF step, States
  <2> QED BY <1>1, <1>2, <2>1, Iterated
<1>4. ASSUME NEW k \in 1 .. N PROVE step[<<k - 1, f[k - 1]>>] = LeaveStep(f[k - 1], gids, rest, per)
  <2>1. k - 1 \in Nat /\ k - 1 \in 0 .. N
    BY DEF N
  <2> HIDE DEF States
  <2>2. f[k - 1] \in States
    BY <2>1
  <2> QED BY <2>1, <2>2
<1>5. f = Body(f)
  <2> HIDE DEF step, States
  <2>1. ASSUME NEW k \in 0 .. N PROVE f[k] = Body(f)[k]
    <3>1. f[k] = IF k = 0 THEN LeaveStart(shards) ELSE step[<<k - 1, f[k - 1]>>]
      BY <1>3 DEF IsWalk
    <3>2. k # 0 => k \in 1 .. N
      BY DEF N
    <3> QED BY <1>4, <3>1, <3>2
  <2>2. f \in [0 .. N -> States]
    OBVIOUS
  <2> QED BY <2>1, <2>2
<1>6. walk = CHOOSE w : w = Body(w)
  BY DEF LeaveWalk, LeaveStart, N
<1>7. walk = Body(walk)
  <2> HIDE DEF walk, Body
  <2> QED BY <1>5, <1>6
<1> HIDE DEF walk
<1>8. walk[0] = LeaveStart(shards)
  BY <1>7 DEF N
<1>9. ASSUME NEW k \in 0 .. N - 1
      PROVE  walk[k + 1] = LeaveStep(walk[k], gids, rest, per)
  <2>1. k + 1 \in 0 .. N /\ k + 1 # 0 /\ (k + 1) - 1 = k
    BY DEF N
  <2> QED BY <1>7, <2>1
<1>10. \A k \in 0 .. N : walk[k] \in States
  <2> DEFINE Good == {k \in 0 .. N : walk[k] \in States}
  <2>1. ASSUME NEW k \in 0 .. N - 1, k \in Good PROVE k + 1 \in Good
    <3>1. k + 1 \in 0 .. N
      BY DEF N
    <3>2. walk[k] \in LeaveState(rest)
      BY <2>1
    <3> QED BY <1>9, <3>1, <3>2, LeaveStepTyped
  <2>2. 0 \in Good
    BY <1>2, <1>8 DEF N
  <2>3. 0 .. N \subseteq Good
    <3> HIDE DEF Good
    <3> QED BY <2>1, <2>2, Walked DEF N
  <2> QED BY <2>3
<1>11. walk \in [0 .. N -> States]
  BY <1>7, <1>10
<1> QED BY <1>8, <1>9, <1>11 DEF walk, N

(* What the groups that stay still lack, a pair for every missing shard.     *)
Lacking(count, S, per) == {p \in S \X (0 .. per - 1) : count[p[1]] <= p[2]}

LEMMA LackingFinite ==
  ASSUME NEW S \in SUBSET Gid, NEW per \in Nat, NEW count
  PROVE  /\ IsFiniteSet(Lacking(count, S, per)) /\ Cardinality(Lacking(count, S, per)) \in Nat
         /\ Cardinality(Lacking(count, S, per)) \in 0 .. per * Cardinality(S)
         /\ per * Cardinality(S) \in Nat
<1>1. IsFiniteSet(S) /\ Cardinality(S) \in Nat
  BY FS_Subset, FS_CardinalityType
<1>2. IsFiniteSet(0 .. per - 1) /\ Cardinality(0 .. per - 1) = per
  BY FS_Interval
<1>3. IsFiniteSet(S \X (0 .. per - 1)) /\ Cardinality(S \X (0 .. per - 1)) = Cardinality(S) * per
  BY <1>1, <1>2, FS_Product
<1>4. Lacking(count, S, per) \in SUBSET (S \X (0 .. per - 1))
  BY DEF Lacking
<1>5. /\ IsFiniteSet(Lacking(count, S, per)) /\ Cardinality(Lacking(count, S, per)) \in Nat
      /\ Cardinality(Lacking(count, S, per)) <= Cardinality(S) * per
  BY <1>3, <1>4, FS_Subset, FS_CardinalityType
<1>6. Cardinality(S) * per = per * Cardinality(S) /\ per * Cardinality(S) \in Nat
  BY <1>1
<1> QED BY <1>5, <1>6

(* Counting a shard leaves no more lacking, and less of a group below per.   *)
LEMMA LackingLess ==
  ASSUME NEW S \in SUBSET Gid, NEW per \in Nat, NEW count \in [Gid \union {NoGid} -> Nat],
         NEW g \in Gid \union {NoGid}
  PROVE  LET after == [count EXCEPT ![g] = count[g] + 1]
         IN /\ Cardinality(Lacking(after, S, per)) <= Cardinality(Lacking(count, S, per))
            /\ g \in S /\ count[g] < per =>
                 Cardinality(Lacking(after, S, per)) < Cardinality(Lacking(count, S, per))
<1> DEFINE after == [count EXCEPT ![g] = count[g] + 1]
           L == Lacking(count, S, per)
           A == Lacking(after, S, per)
<1>1. A \in SUBSET L
  BY DEF Lacking
<1>2. g \in S /\ count[g] < per => <<g, count[g]>> \in L /\ <<g, count[g]>> \notin A
  BY DEF Lacking
<1>3. IsFiniteSet(L) /\ Cardinality(L) \in Nat /\ Cardinality(A) \in Nat
  BY LackingFinite
<1> HIDE DEF L, A
<1>4. Cardinality(A) <= Cardinality(L) /\ (Cardinality(A) = Cardinality(L) => A = L)
  BY <1>1, <1>3, FS_Subset
<1> QED BY <1>2, <1>3, <1>4 DEF L, A

(* After k steps the loop has come to the end, or has gone back only as      *)
(* often as shards were lacking, and once through the shards in between.     *)
Filled(s, S, per) == per * Cardinality(S) - Cardinality(Lacking(s.count, S, per))
Leaving(s, k, old, gids, S, per) ==
  /\ \A m \in Shards : s.shards[m] = old[m] \/ s.shards[m] \in S
  /\ \A m \in Shards : m < s.i => s.shards[m] \notin gids
  /\ s.i = NShards \/ k <= Filled(s, S, per) * NShards + s.i

LEMMA FilledGrows ==
  ASSUME NEW S \in SUBSET Gid, NEW per \in Nat, NEW s, s.count \in [Gid \union {NoGid} -> Nat],
         NEW t, NEW g \in Gid \union {NoGid}, t.count = [s.count EXCEPT ![g] = s.count[g] + 1]
  PROVE  /\ Filled(s, S, per) \in Nat /\ Filled(t, S, per) \in Nat
         /\ Filled(s, S, per) <= Filled(t, S, per)
         /\ g \in S /\ s.count[g] < per => Filled(s, S, per) + 1 <= Filled(t, S, per)
<1> DEFINE l == Cardinality(Lacking(s.count, S, per))
           a == Cardinality(Lacking(t.count, S, per))
           M == per * Cardinality(S)
<1>1. l \in 0 .. M /\ a \in 0 .. M /\ M \in Nat
  BY LackingFinite
<1>2. a <= l /\ (g \in S /\ s.count[g] < per => a < l)
  BY LackingLess
<1> HIDE DEF l, a, M
<1>3. /\ M - l \in Nat /\ M - a \in Nat /\ M - l <= M - a
      /\ g \in S /\ s.count[g] < per => (M - l) + 1 <= M - a
  BY <1>1, <1>2
<1> QED BY <1>3 DEF Filled, l, a, M

LEMMA Times ==
  ASSUME NEW a \in Nat, NEW b \in Nat, NEW n \in Nat
  PROVE  /\ a * n \in Nat
         /\ a <= b => a * n <= b * n
         /\ a + 1 <= b => a * n + n <= b * n
<1>1. a * n \in Nat /\ b * n \in Nat
  OBVIOUS
<1>2. ASSUME a <= b PROVE a * n <= b * n
  <2>1. (b - a) \in Nat /\ (b - a) * n >= 0
    BY <1>2
  <2>2. b * n = a * n + (b - a) * n
    BY <1>2
  <2> QED BY <1>1, <2>1, <2>2
<1>3. ASSUME a + 1 <= b PROVE a * n + n <= b * n
  <2>1. (b - (a + 1)) \in Nat /\ (b - (a + 1)) * n >= 0
    BY <1>3
  <2>2. b * n = a * n + n + (b - (a + 1)) * n
    BY <1>3
  <2> QED BY <1>1, <2>1, <2>2
<1> QED BY <1>1, <1>2, <1>3

LEMMA LeavingKept ==
  ASSUME NEW S \in SUBSET Gid, NEW per \in Nat, NEW rest, NEW s \in LeaveState(rest),
         NEW t \in LeaveState(rest), NEW k \in Nat, NEW old, NEW gids,
         Leaving(s, k, old, gids, S, per), s.i # NShards, LeaveKeeps(s, t, gids)
  PROVE  Leaving(t, k + 1, old, gids, S, per)
<1>1. /\ s.shards \in Assigned /\ s.count \in [Gid \union {NoGid} -> Nat]
      /\ s.i \in Shards /\ s.i \in Nat
  BY DEF LeaveState, Shards
<1>2. s.shards[s.i] \in Gid \union {NoGid}
  BY <1>1 DEF Assigned
<1>3. /\ Filled(s, S, per) \in Nat /\ Filled(t, S, per) \in Nat
      /\ Filled(s, S, per) <= Filled(t, S, per)
  BY <1>1, <1>2, FilledGrows DEF LeaveKeeps
<1>4. k + 1 <= Filled(t, S, per) * NShards + t.i
  <2>1. Filled(s, S, per) * NShards <= Filled(t, S, per) * NShards
        /\ Filled(s, S, per) * NShards \in Nat /\ Filled(t, S, per) * NShards \in Nat
    BY <1>3, Times
  <2>2. k <= Filled(s, S, per) * NShards + s.i
    BY DEF Leaving
  <2> QED BY <1>1, <2>1, <2>2 DEF LeaveKeeps
<1>5. \A m \in Shards : m < t.i => t.shards[m] \notin gids
  BY <1>1 DEF Leaving, LeaveKeeps, Shards
<1> QED BY <1>4, <1>5 DEF Leaving, LeaveKeeps

LEMMA LeavingMoved ==
  ASSUME NEW S \in SUBSET Gid, NEW per \in Nat, NEW rest, NEW s \in LeaveState(rest),
         NEW t \in LeaveState(rest), NEW k \in Nat, NEW old, NEW gids, S \intersect gids = {},
         Leaving(s, k, old, gids, S, per), s.i # NShards,
         LeaveGoesOn(s, t, S) \/ LeaveGoesBack(s, t, S, per)
  PROVE  Leaving(t, k + 1, old, gids, S, per)
<1>1. /\ s.shards \in [Shards -> Gid \union {NoGid}] /\ s.count \in [Gid \union {NoGid} -> Nat]
      /\ s.i \in Shards /\ s.i \in Nat /\ s.i <= NShards - 1
  BY DEF LeaveState, Shards, Assigned
<1>2. PICK to \in S : /\ Hands(s, t, to)
                      /\ t.i = s.i + 1 \/ (t.i = 0 /\ s.count[to] < per)
  BY DEF LeaveGoesOn, LeaveGoesBack
<1>3. /\ Filled(s, S, per) \in Nat /\ Filled(t, S, per) \in Nat
      /\ Filled(s, S, per) <= Filled(t, S, per)
      /\ s.count[to] < per => Filled(s, S, per) + 1 <= Filled(t, S, per)
  BY <1>1, <1>2, FilledGrows DEF Hands
<1>4. k <= Filled(s, S, per) * NShards + s.i
  BY DEF Leaving
<1>5. k + 1 <= Filled(t, S, per) * NShards + t.i
  <2>1. Filled(s, S, per) * NShards \in Nat /\ Filled(t, S, per) * NShards \in Nat
    BY <1>3, Times
  <2>2. CASE t.i = s.i + 1
    <3>1. Filled(s, S, per) * NShards <= Filled(t, S, per) * NShards
      BY <1>3, Times
    <3> QED BY <1>1, <1>4, <2>1, <2>2, <3>1
  <2>3. CASE t.i = 0 /\ s.count[to] < per
    <3>1. Filled(s, S, per) * NShards + NShards <= Filled(t, S, per) * NShards
      BY <1>3, <2>3, Times
    <3> QED BY <1>1, <1>4, <2>1, <2>3, <3>1
  <2> QED BY <1>2, <2>2, <2>3
<1>6. \A m \in Shards : t.shards[m] = IF m = s.i THEN to ELSE s.shards[m]
  BY <1>1, <1>2 DEF Hands
<1>7. \A m \in Shards : t.shards[m] = old[m] \/ t.shards[m] \in S
  BY <1>6 DEF Leaving
<1>8. \A m \in Shards : m < t.i => t.shards[m] \notin gids
  <2>1. CASE t.i = s.i + 1
    BY <1>1, <1>6, <2>1 DEF Leaving, Shards
  <2>2. CASE t.i = 0
    BY <2>2 DEF Shards
  <2> QED BY <1>2, <2>1, <2>2
<1> QED BY <1>5, <1>7, <1>8 DEF Leaving

(* The loop of Leave ends: after LeaveSteps steps it is past the last shard, *)
(* the groups that leave have no shard left, and what was moved is with one  *)
(* that stays.                                                              *)
THEOREM LeaveEnds ==
  ASSUME NEW S \in SUBSET Gid, S # {}, NEW rest \in Orders(S), NEW gids, S \intersect gids = {},
         NEW old \in Assigned
  PROVE  /\ LeaveShards(old, gids, rest) \in Assigned
         /\ LeaveWalk(old, gids, rest)[LeaveSteps(rest)].i = NShards
         /\ \A m \in Shards : /\ LeaveShards(old, gids, rest)[m] \notin gids
                              /\ \/ LeaveShards(old, gids, rest)[m] = old[m]
                                 \/ LeaveShards(old, gids, rest)[m] \in S
<1> DEFINE per == Share(rest)
           N == LeaveSteps(rest)
           walk == LeaveWalk(old, gids, rest)
           Good == {k \in 0 .. N : Leaving(walk[k], k, old, gids, S, per)}
<1>1. Len(rest) \in Nat /\ Len(rest) >= 1 /\ Len(rest) = Cardinality(S)
  BY OrderIsSequence
<1>2. per \in Nat
  BY <1>1 DEF Share
<1>3. per * Cardinality(S) \in Nat /\ N = (per * Cardinality(S) + 1) * NShards
  BY <1>1, <1>2 DEF LeaveSteps
<1>4. N \in Nat /\ N = (per * Cardinality(S)) * NShards + NShards
  <2> DEFINE M == per * Cardinality(S)
  <2>1. M \in Nat
    BY <1>3
  <2> HIDE DEF M
  <2>2. (M + 1) * NShards = M * NShards + NShards /\ M * NShards \in Nat
    BY <2>1
  <2> QED BY <1>3, <2>2 DEF M
<1>5. /\ walk \in [0 .. N -> LeaveState(rest)]
      /\ walk[0] = LeaveStart(old)
      /\ \A k \in 0 .. N - 1 : walk[k + 1] = LeaveStep(walk[k], gids, rest, per)
  BY <1>4, LeaveWalkSteps
<1> HIDE DEF walk, per, N
<1>6. 0 \in Good
  <2>1. walk[0].shards = old /\ walk[0].i = 0 /\ walk[0].count \in [Gid \union {NoGid} -> Nat]
    BY <1>5 DEF LeaveStart
  <2>2. Cardinality(Lacking(walk[0].count, S, per)) \in 0 .. per * Cardinality(S)
    BY <1>2, LackingFinite
  <2>3. Filled(walk[0], S, per) \in Nat
    BY <1>3, <2>2 DEF Filled
  <2>4. Filled(walk[0], S, per) * NShards \in Nat
    BY <2>3, Times
  <2>5. Leaving(walk[0], 0, old, gids, S, per)
    BY <2>1, <2>4 DEF Leaving, Shards
  <2> QED BY <1>4, <2>5
<1>7. ASSUME NEW k \in 0 .. N - 1, k \in Good PROVE k + 1 \in Good
  <2>1. /\ walk[k] \in LeaveState(rest) /\ walk[k + 1] \in LeaveState(rest)
        /\ walk[k + 1] = LeaveStep(walk[k], gids, rest, per)
        /\ k \in Nat /\ k + 1 \in 0 .. N
    BY <1>4, <1>5
  <2>2. Leaving(walk[k], k, old, gids, S, per)
    BY <1>7
  <2>3. CASE walk[k].i = NShards
    <3>1. walk[k + 1] = walk[k]
      BY <2>1, <2>3, Zenon DEF LeaveStep
    <3> QED BY <2>1, <2>2, <2>3, <3>1 DEF Leaving
  <2>4. CASE walk[k].i # NShards /\ ~MovesAway(walk[k], gids, per)
    <3>1. LeaveKeeps(walk[k], walk[k + 1], gids)
      BY <2>1, <2>4, LeaveKept
    <3>2. Leaving(walk[k + 1], k + 1, old, gids, S, per)
      BY <1>2, <2>1, <2>2, <2>4, <3>1, LeavingKept
    <3> QED BY <2>1, <3>2
  <2>5. CASE walk[k].i # NShards /\ MovesAway(walk[k], gids, per)
    <3>1. \/ LeaveGoesOn(walk[k], walk[k + 1], S)
          \/ LeaveGoesBack(walk[k], walk[k + 1], S, per)
      BY <2>1, <2>5, LeaveMoved
    <3>2. Leaving(walk[k + 1], k + 1, old, gids, S, per)
      BY <1>2, <2>1, <2>2, <2>5, <3>1, LeavingMoved
    <3> QED BY <2>1, <3>2
  <2> QED BY <2>3, <2>4, <2>5
<1>8. N \in Good
  <2> HIDE DEF Good
  <2>1. 0 .. N \subseteq Good
    BY <1>4, <1>6, <1>7, Walked
  <2> QED BY <1>4, <2>1
<1>9. Leaving(walk[N], N, old, gids, S, per) /\ walk[N] \in LeaveState(rest)
  BY <1>4, <1>5, <1>8
<1>10. walk[N].i = NShards
  <2> SUFFICES ASSUME walk[N].i # NShards PROVE FALSE
    OBVIOUS
  <2> DEFINE M == per * Cardinality(S)
             F == Filled(walk[N], S, per)
  <2>1. walk[N].i \in Nat /\ walk[N].i <= NShards - 1
    BY <1>9 DEF LeaveState
  <2>2. N <= F * NShards + walk[N].i
    BY <1>9 DEF Leaving
  <2>3. F \in Nat /\ F <= M /\ M \in Nat
    BY <1>2, LackingFinite DEF Filled
  <2> HIDE DEF F, M
  <2>4. F * NShards <= M * NShards /\ F * NShards \in Nat /\ M * NShards \in Nat
    BY <2>3, Times
  <2>5. N = M * NShards + NShards
    BY <1>4 DEF M
  <2> QED BY <2>1, <2>2, <2>4, <2>5
<1>11. LeaveShards(old, gids, rest) = walk[N].shards
  BY DEF LeaveShards, walk, N
<1>12. walk[N].shards \in Assigned
  BY <1>9 DEF LeaveState
<1>13. \A m \in Shards : m < NShards
  BY DEF Shards
<1> QED BY <1>9, <1>10, <1>11, <1>12, <1>13 DEF Leaving, walk, N
-----------------------------------------------------------------------------
(* The steps.  A request makes no configuration or one; a Move, a Join and a *)
(* Leave each make one that serves the shards.                              *)

Configuration == [shards : Assigned, groups : SUBSET Gid]
Configured == configs \in Seq(Configuration) /\ Len(configs) >= 1

LEMMA LastTyped ==
  ASSUME Configured
  PROVE  LastConfig = configs[Len(configs)] /\ LastConfig \in Configuration
<1>1. -1 + 1 \notin DOMAIN configs
  BY DEF Configured
<1> QED BY <1>1 DEF LastConfig, Config, Configured

LEMMA AppendedLast ==
  ASSUME Configured, NEW config \in Configuration, configs' = Append(configs, config)
  PROVE  LastConfig' = config
<1>1. /\ configs' \in Seq(Configuration) /\ Len(configs') = Len(configs) + 1
      /\ configs'[Len(configs')] = config
  BY DEF Configured
<1>2. -1 + 1 \notin DOMAIN configs'
  BY <1>1
<1> QED BY <1>1, <1>2 DEF LastConfig, Config

LEMMA SameShards ==
  ASSUME NEW old \in Configuration, NEW groups \in SUBSET Gid,
         old.groups \subseteq groups,
         groups = old.groups \/ Cardinality(groups) > NShards
  PROVE  LET new == [shards |-> old.shards, groups |-> groups]
         IN Serves(old, new) /\ TakesSurplus(old, new)
<1> DEFINE new == [shards |-> old.shards, groups |-> groups]
<1>1. new.shards = old.shards /\ new.groups = groups
  OBVIOUS
<1>2. ~Joins(old, new)
  <2>1. IsFiniteSet(groups)
    BY FS_Subset
  <2>2. Cardinality(groups) \in Nat
    BY <2>1, FS_CardinalityType
  <2> QED BY <2>2 DEF Joins
<1>3. \A i \in Shards : Stranded(new, i) => Stranded(old, i)
  BY DEF Stranded
<1>4. Moved(old, new) = {}
  BY DEF Moved
<1> QED BY <1>2, <1>3, <1>4 DEF Serves, TakesSurplus

LEMMA NobodyServed ==
  ASSUME NEW old \in Configuration, NEW new \in Configuration, new.groups = {}
  PROVE  Serves(old, new) /\ TakesSurplus(old, new)
BY DEF Serves, TakesSurplus, Joins

LEMMA JoinServes ==
  ASSUME NEW old \in Configuration, NEW groups \in SUBSET Gid, groups # {},
         Cardinality(groups) <= NShards, old.groups \subseteq groups,
         NEW newGids \in Orders(groups \ old.groups),
         NEW s, s = JoinShards(old.shards, Cardinality(groups), newGids), ~s.fault
  PROVE  LET new == [shards |-> s.shards, groups |-> groups]
         IN new \in Configuration /\ Serves(old, new) /\ TakesSurplus(old, new)
<1> DEFINE new == [shards |-> s.shards, groups |-> groups]
           S == groups \ old.groups
           n == Cardinality(groups)
           min == NShards \div n
<1>1. n \in Nat \ {0}
  <2>1. IsFiniteSet(groups)
    BY FS_Subset
  <2> QED BY <2>1, FS_CardinalityType, FS_EmptySet
<1>2. old.shards \in Assigned /\ old.groups \in SUBSET Gid /\ S \in SUBSET Gid
  BY DEF Configuration
<1>3. s.shards \in Assigned /\ Walking(s, NShards, old.shards, S, min)
  BY <1>1, <1>2, JoinResult
<1>4. new \in Configuration
  BY <1>3 DEF Configuration
<1>5. new.shards = s.shards /\ new.groups = groups
  OBVIOUS
<1> HIDE DEF new, S, n
<1>6. \A i \in Shards : /\ new.shards[i] = old.shards[i] \/ new.shards[i] \in S
                        /\ new.shards[i] # NoGid
  BY <1>3, <1>5 DEF Walking, Shards
<1>7. Serves(old, new)
  BY <1>5, <1>6 DEF Serves, Stranded, Moved, S
<1>8. \A i \in Moved(old, new) : new.shards[i] \in new.groups \ old.groups
  BY <1>5, <1>6 DEF Moved, S
<1>9. ASSUME NEW g \in old.groups
      PROVE  Load(new, g) = Load(old, g) \/ Load(new, g) >= min
  <2>1. g \in Gid \ S
    BY <1>2 DEF S
  <2>2. Load(new, g) = s.count[g]
    <3>1. Kept(s, NShards, g) = {i \in Shards : new.shards[i] = g}
      BY <1>5 DEF Kept, Shards
    <3> QED BY <1>3, <2>1, <3>1 DEF Load, Walking
  <2>3. CASE \E k \in Shards : old.shards[k] = g /\ s.shards[k] # g
    <3>1. s.count[g] >= min
      BY <1>3, <2>1, <2>3 DEF Walking, Shards
    <3> QED BY <2>2, <3>1
  <2>4. CASE ~ \E k \in Shards : old.shards[k] = g /\ s.shards[k] # g
    <3>1. {i \in Shards : new.shards[i] = g} = {i \in Shards : old.shards[i] = g}
      BY <1>5, <1>6, <2>1, <2>4
    <3> QED BY <3>1 DEF Load
  <2> QED BY <2>3, <2>4
<1>10. TakesSurplus(old, new)
  BY <1>5, <1>8, <1>9 DEF TakesSurplus, n
<1> QED BY <1>4, <1>7, <1>10 DEF new

LEMMA LeaveServes ==
  ASSUME NEW old \in Configuration, NEW gids \in SUBSET Gid, old.groups \ gids # {},
         NEW rest \in Orders(old.groups \ gids)
  PROVE  LET new == [shards |-> LeaveShards(old.shards, gids, rest), groups |-> old.groups \ gids]
         IN new \in Configuration /\ Serves(old, new) /\ TakesSurplus(old, new)
<1> DEFINE S == old.groups \ gids
           w == LeaveShards(old.shards, gids, rest)
           new == [shards |-> w, groups |-> S]
<1>1. old.shards \in Assigned /\ S \in SUBSET Gid /\ S # {} /\ S \intersect gids = {}
  BY DEF Configuration
<1>2. /\ w \in Assigned
      /\ \A m \in Shards : w[m] \notin gids /\ (w[m] = old.shards[m] \/ w[m] \in S)
  <2> DEFINE shards == old.shards
  <2>1. rest \in Orders(S) /\ shards \in Assigned /\ w = LeaveShards(shards, gids, rest)
    BY <1>1
  <2> HIDE DEF S, shards, w
  <2>2. /\ LeaveShards(shards, gids, rest) \in Assigned
        /\ \A m \in Shards : /\ LeaveShards(shards, gids, rest)[m] \notin gids
                             /\ \/ LeaveShards(shards, gids, rest)[m] = shards[m]
                                \/ LeaveShards(shards, gids, rest)[m] \in S
    BY <1>1, <2>1, LeaveEnds
  <2> QED BY <2>1, <2>2 DEF shards
<1> HIDE DEF w
<1>3. new \in Configuration
  BY <1>1, <1>2 DEF Configuration
<1>4. new.shards = w /\ new.groups = S
  OBVIOUS
<1>5. ~Joins(old, new)
  BY <1>4 DEF Joins
<1>6. Serves(old, new)
  BY <1>2, <1>4, <1>5 DEF Serves, Stranded, Moved
<1> QED BY <1>3, <1>5, <1>6 DEF TakesSurplus, w

LEMMA MoveServes ==
  ASSUME NEW old \in Configuration, NEW shard \in Shards, NEW gid \in Gid
  PROVE  LET new == [shards |-> [old.shards EXCEPT ![shard] = gid], groups |-> old.groups]
         IN new \in Configuration /\ Serves(old, new) /\ TakesSurplus(old, new)
<1> DEFINE w == [old.shards EXCEPT ![shard] = gid]
           new == [shards |-> w, groups |-> old.groups]
<1>1. old.shards \in [Shards -> Gid \union {NoGid}] /\ old.groups \in SUBSET Gid
  BY DEF Configuration, Assigned
<1>2. w \in Assigned /\ \A i \in Shards : i # shard => w[i] = old.shards[i]
  BY <1>1 DEF Assigned
<1> HIDE DEF w
<1>3. new \in Configuration
  BY <1>1, <1>2 DEF Configuration
<1>4. new.shards = w /\ new.groups = old.groups
  OBVIOUS
<1>5. ~Joins(old, new)
  BY <1>4 DEF Joins
<1>6. Cardinality(Moved(old, new)) <= 1
  <2>1. Moved(old, new) \in SUBSET {shard}
    BY <1>2, <1>4 DEF Moved
  <2>2. IsFiniteSet({shard}) /\ Cardinality({shard}) = 1
    BY FS_Singleton
  <2> QED BY <2>1, <2>2, FS_Subset, FS_CardinalityType
<1>7. ~ (Cardinality(Moved(old, new)) > 1)
  <2>1. IsFiniteSet(Moved(old, new))
    <3>1. Moved(old, new) \in SUBSET {shard}
      BY <1>2, <1>4 DEF Moved
    <3> QED BY <3>1, FS_Singleton, FS_Subset
  <2> QED BY <1>6, <2>1, FS_CardinalityType
<1>8. Serves(old, new)
  BY <1>4, <1>7 DEF Serves
<1> QED BY <1>3, <1>5, <1>8 DEF TakesSurplus, w
-----------------------------------------------------------------------------
(* A step in terms of the configuration it makes.                           *)
Carries(config) ==
  /\ config \in Configuration
  /\ Serves(LastConfig, config) /\ TakesSurplus(LastConfig, config)
  /\ \E c \in Client : \E n \in Numbers(c) :
       Accepted(c, n) /\ AppendNewConfig(c, n, config.shards, config.groups)

Leaves ==
  /\ UNCHANGED <<configs, cache>>
  /\ flag' \in BOOLEAN /\ crashed' \in BOOLEAN
  /\ queryConfig' = queryConfig \/ queryConfig' \in {configs[k] : k \in DOMAIN configs}

LEMMA Carried ==
  ASSUME NEW c \in Client, NEW n \in Numbers(c), Accepted(c, n),
         NEW shards, NEW groups, AppendNewConfig(c, n, shards, groups),
         [shards |-> shards, groups |-> groups] \in Configuration,
         Serves(LastConfig, [shards |-> shards, groups |-> groups]),
         TakesSurplus(LastConfig, [shards |-> shards, groups |-> groups])
  PROVE  \E config : Carries(config)
<1> DEFINE config == [shards |-> shards, groups |-> groups]
<1>1. config.shards = shards /\ config.groups = groups
  OBVIOUS
<1>2. Carries(config)
  <2> HIDE DEF config
  <2>1. config \in Configuration /\ Serves(LastConfig, config) /\ TakesSurplus(LastConfig, config)
    BY DEF config
  <2> QED BY <1>1, <2>1 DEF Carries
<1> QED BY <1>2

LEMMA NextCarries ==
  ASSUME Configured, crashed \in BOOLEAN, Next
  PROVE  Leaves \/ \E config : Carries(config)
<1> DEFINE old == LastConfig
<1>1. old \in Configuration /\ old.groups \in SUBSET Gid /\ old.shards \in Assigned
  BY LastTyped DEF Configuration
<1>2. ASSUME Refuse PROVE Leaves
  BY <1>2 DEF Refuse, Leaves
<1>3. ASSUME NEW c \in Client, NEW n \in Numbers(c), NEW gids \in SUBSET Gid,
             OnJoinApply(c, n, gids)
      PROVE  Leaves \/ \E config : Carries(config)
  <2> DEFINE groups == old.groups \union gids
  <2>1. groups \in SUBSET Gid /\ old.groups \subseteq groups
    BY <1>1
  <2>2. CASE ~Accepted(c, n)
    BY <1>2, <1>3, <2>2 DEF OnJoinApply
  <2>3. CASE Accepted(c, n) /\ groups = {}
    <3>1. AppendNewConfig(c, n, NoShards, groups)
      BY <1>3, <2>3 DEF OnJoinApply
    <3>2. [shards |-> NoShards, groups |-> groups] \in Configuration
      BY <2>1 DEF Configuration, NoShards, Assigned
    <3>3. /\ Serves(old, [shards |-> NoShards, groups |-> groups])
          /\ TakesSurplus(old, [shards |-> NoShards, groups |-> groups])
      BY <1>1, <2>3, <3>2, NobodyServed
    <3> QED BY <2>3, <3>1, <3>2, <3>3, Carried
  <2>4. CASE Accepted(c, n) /\ groups # {} /\ Cardinality(groups) > NShards
    <3>1. AppendNewConfig(c, n, old.shards, groups)
      BY <1>3, <2>4 DEF OnJoinApply
    <3>2. [shards |-> old.shards, groups |-> groups] \in Configuration
      BY <1>1, <2>1 DEF Configuration
    <3>3. /\ Serves(old, [shards |-> old.shards, groups |-> groups])
          /\ TakesSurplus(old, [shards |-> old.shards, groups |-> groups])
      <4> HIDE DEF old, groups
      <4> QED BY <1>1, <2>1, <2>4, SameShards
    <3> QED BY <2>4, <3>1, <3>2, <3>3, Carried
  <2>5. CASE Accepted(c, n) /\ groups # {} /\ ~ (Cardinality(groups) > NShards)
    <3>1. PICK newGids \in Orders(gids \ old.groups) : Rebalance(c, n, groups, newGids)
      BY <1>3, <2>5 DEF OnJoinApply
    <3> DEFINE s == JoinShards(old.shards, Cardinality(groups), newGids)
    <3>2. CASE s.fault
      <4>1. crashed' = TRUE /\ flag' = TRUE /\ UNCHANGED <<configs, cache, queryConfig>>
        BY <3>1, <3>2 DEF Rebalance
      <4> QED BY <4>1 DEF Leaves
    <3>3. CASE ~s.fault
      <4>1. AppendNewConfig(c, n, s.shards, groups)
        BY <3>1, <3>3 DEF Rebalance
      <4>2. gids \ old.groups = groups \ old.groups /\ Cardinality(groups) <= NShards
        <5>1. IsFiniteSet(groups)
          BY <2>1, FS_Subset
        <5>2. Cardinality(groups) \in Nat
          BY <5>1, FS_CardinalityType
        <5> QED BY <2>5, <5>2
      <4>3. newGids \in Orders(groups \ old.groups)
        BY <4>2
      <4>4. /\ [shards |-> s.shards, groups |-> groups] \in Configuration
            /\ Serves(old, [shards |-> s.shards, groups |-> groups])
            /\ TakesSurplus(old, [shards |-> s.shards, groups |-> groups])
        <5>1. s = JoinShards(old.shards, Cardinality(groups), newGids)
          OBVIOUS
        <5> HIDE DEF old, groups, s
        <5> QED BY <1>1, <2>1, <2>5, <3>3, <4>2, <4>3, <5>1, JoinServes
      <4> HIDE DEF s
      <4> QED BY <2>5, <4>1, <4>4, Carried
    <3> QED BY <3>2, <3>3
  <2> QED BY <2>2, <2>3, <2>4, <2>5
<1>4. ASSUME NEW c \in Client, NEW n \in Numbers(c), NEW gids \in SUBSET Gid,
             OnLeaveApply(c, n, gids)
      PROVE  Leaves \/ \E config : Carries(config)
  <2> DEFINE groups == old.groups \ gids
  <2>1. CASE ~Accepted(c, n)
    BY <1>2, <1>4, <2>1 DEF OnLeaveApply
  <2>2. CASE Accepted(c, n) /\ groups = {}
    <3>1. AppendNewConfig(c, n, NoShards, groups)
      BY <1>4, <2>2 DEF OnLeaveApply
    <3>2. [shards |-> NoShards, groups |-> groups] \in Configuration
      BY <2>2 DEF Configuration, NoShards, Assigned
    <3>3. /\ Serves(old, [shards |-> NoShards, groups |-> groups])
          /\ TakesSurplus(old, [shards |-> NoShards, groups |-> groups])
      BY <1>1, <2>2, <3>2, NobodyServed
    <3> QED BY <2>2, <3>1, <3>2, <3>3, Carried
  <2>3. CASE Accepted(c, n) /\ groups # {}
    <3>1. PICK rest \in Orders(groups) :
            AppendNewConfig(c, n, LeaveShards(old.shards, gids, rest), groups)
      BY <1>4, <2>3 DEF OnLeaveApply
    <3> DEFINE w == LeaveShards(old.shards, gids, rest)
    <3>2. /\ [shards |-> w, groups |-> groups] \in Configuration
          /\ Serves(old, [shards |-> w, groups |-> groups])
          /\ TakesSurplus(old, [shards |-> w, groups |-> groups])
      <4> HIDE DEF old
      <4> QED BY <1>1, <2>3, LeaveServes
    <3> HIDE DEF w
    <3> QED BY <2>3, <3>1, <3>2, Carried DEF w
  <2> QED BY <2>1, <2>2, <2>3
<1>5. ASSUME NEW c \in Client, NEW n \in Numbers(c), NEW shard \in Shards, NEW gid \in Gid,
             OnMoveApply(c, n, shard, gid)
      PROVE  Leaves \/ \E config : Carries(config)
  <2>1. CASE ~Accepted(c, n)
    BY <1>2, <1>5, <2>1 DEF OnMoveApply
  <2>2. CASE Accepted(c, n)
    <3> DEFINE w == [old.shards EXCEPT ![shard] = gid]
    <3>1. AppendNewConfig(c, n, w, old.groups)
      BY <1>5, <2>2 DEF OnMoveApply
    <3>2. /\ [shards |-> w, groups |-> old.groups] \in Configuration
          /\ Serves(old, [shards |-> w, groups |-> old.groups])
          /\ TakesSurplus(old, [shards |-> w, groups |-> old.groups])
      <4> HIDE DEF old
      <4> QED BY <1>1, MoveServes
    <3> HIDE DEF w
    <3> QED BY <2>2, <3>1, <3>2, Carried
  <2> QED BY <2>1, <2>2
<1>6. ASSUME NEW num, OnQueryApply(num) PROVE Leaves
  <2>1. queryConfig' = Config(num) /\ UNCHANGED <<configs, cache, crashed>> /\ flag' = TRUE
    BY <1>6 DEF OnQueryApply
  <2>2. Config(num) \in {configs[k] : k \in DOMAIN configs}
    BY DEF Config, Configured
  <2> QED BY <2>1, <2>2 DEF Leaves
<1> QED BY <1>3, <1>4, <1>5, <1>6 DEF Next
-----------------------------------------------------------------------------
(* The theorems.                                                            *)

(* A configuration, but for the first, was made by a request of its own.     *)
Requests(done) == {p \in Client \X (1 .. MaxSeq) : p[2] <= done[p[1]]}
Readable == {configs[k] : k \in DOMAIN configs}
TypeInv ==
  /\ Configured
  /\ Len(configs) <= 1 + Cardinality(Requests(cache))
  /\ cache \in [Client -> 0 .. MaxSeq]
  /\ flag \in BOOLEAN /\ crashed \in BOOLEAN
  /\ queryConfig \in Readable \union {[shards |-> <<>>, groups |-> {}]}

LEMMA RequestsFinite ==
  ASSUME NEW done
  PROVE  /\ IsFiniteSet(Requests(done)) /\ Cardinality(Requests(done)) \in Nat
         /\ Cardinality(Requests(done)) <= MaxSeq * Cardinality(Client)
<1>1. IsFiniteSet(1 .. MaxSeq) /\ Cardinality(1 .. MaxSeq) = MaxSeq
  BY FS_Interval
<1>2. /\ IsFiniteSet(Client \X (1 .. MaxSeq))
      /\ Cardinality(Client \X (1 .. MaxSeq)) = Cardinality(Client) * MaxSeq
  BY <1>1, ClientAssumption, FS_Product
<1>3. Requests(done) \in SUBSET (Client \X (1 .. MaxSeq))
  BY DEF Requests
<1>4. Cardinality(Client) * MaxSeq = MaxSeq * Cardinality(Client)
  BY ClientAssumption, FS_CardinalityType
<1> QED BY <1>2, <1>3, <1>4, FS_Subset, FS_CardinalityType

LEMMA TypeInit == Init => TypeInv
<1> SUFFICES ASSUME Init PROVE TypeInv
  OBVIOUS
<1>1. FirstConfig \in Configuration
  BY DEF FirstConfig, NoShards, Configuration, Assigned
<1>2. configs \in Seq(Configuration) /\ Len(configs) = 1
  <2> HIDE DEF FirstConfig
  <2> QED BY <1>1 DEF Init
<1>3. Cardinality(Requests(cache)) \in Nat
  BY RequestsFinite
<1>4. Configured /\ Len(configs) <= 1 + Cardinality(Requests(cache))
  BY <1>2, <1>3 DEF Configured
<1>5. cache \in [Client -> 0 .. MaxSeq]
  BY DEF Init
<1>6. queryConfig \in {[shards |-> <<>>, groups |-> {}]} /\ flag \in BOOLEAN /\ crashed \in BOOLEAN
  BY DEF Init
<1> QED BY <1>4, <1>5, <1>6 DEF TypeInv

LEMMA TypeStep == TypeInv /\ [Next]_vars => TypeInv'
<1> SUFFICES ASSUME TypeInv, [Next]_vars PROVE TypeInv'
  OBVIOUS
<1>1. CASE UNCHANGED vars
  BY <1>1 DEF vars, TypeInv, Configured, Requests, Readable
<1>2. CASE Leaves
  BY <1>2 DEF Leaves, TypeInv, Configured, Requests, Readable
<1>3. ASSUME NEW config, Carries(config) PROVE TypeInv'
  <2>1. PICK c \in Client : \E n \in Numbers(c) :
          Accepted(c, n) /\ AppendNewConfig(c, n, config.shards, config.groups)
    BY <1>3 DEF Carries
  <2>0. PICK n \in Numbers(c) :
          Accepted(c, n) /\ AppendNewConfig(c, n, config.shards, config.groups)
    BY <2>1
  <2>2. config \in Configuration /\ configs' = Append(configs, config)
    <3>1. config \in Configuration
      BY <1>3 DEF Carries
    <3>2. config = [shards |-> config.shards, groups |-> config.groups]
      BY <3>1 DEF Configuration
    <3> QED BY <2>0, <3>1, <3>2 DEF AppendNewConfig
  <2>3. /\ n \in 1 .. MaxSeq /\ n = cache[c] + 1
        /\ cache' = [cache EXCEPT ![c] = n] /\ cache \in [Client -> 0 .. MaxSeq]
        /\ flag' = TRUE /\ queryConfig' = queryConfig /\ crashed' = crashed
    BY <2>0 DEF Numbers, Accepted, AppendNewConfig, TypeInv
  <2>4. cache' \in [Client -> 0 .. MaxSeq]
    BY <2>3
  <2>5. /\ configs' \in Seq(Configuration) /\ Len(configs') = Len(configs) + 1
        /\ Len(configs) \in Nat
        /\ Readable \subseteq Readable'
    <3>1. configs \in Seq(Configuration)
      BY DEF TypeInv, Configured
    <3>2. /\ configs' \in Seq(Configuration) /\ Len(configs') = Len(configs) + 1
          /\ \A k \in 1 .. Len(configs) : configs'[k] = configs[k]
      BY <2>2, <3>1, AppendProperties
    <3>3. DOMAIN configs = 1 .. Len(configs) /\ DOMAIN configs' = 1 .. Len(configs')
      BY <3>1, <3>2
    <3>4. Len(configs) \in Nat /\ 1 .. Len(configs) \subseteq 1 .. Len(configs')
      BY <3>1, <3>2
    <3> QED BY <3>2, <3>3, <3>4 DEF Readable
  <2>6. Cardinality(Requests(cache)) + 1 <= Cardinality(Requests(cache'))
    <3>1. /\ Requests(cache) \in SUBSET Requests(cache')
          /\ <<c, n>> \in Requests(cache') /\ <<c, n>> \notin Requests(cache)
      BY <2>3 DEF Requests
    <3>2. IsFiniteSet(Requests(cache')) /\ Cardinality(Requests(cache')) \in Nat
      BY RequestsFinite
    <3>3. Cardinality(Requests(cache)) \in Nat
      BY RequestsFinite
    <3> QED BY <3>1, <3>2, <3>3, FS_Subset
  <2>7. Cardinality(Requests(cache)) \in Nat /\ Cardinality(Requests(cache')) \in Nat
    BY RequestsFinite
  <2>8. Configured' /\ Len(configs') <= 1 + Cardinality(Requests(cache'))
    BY <2>5, <2>6, <2>7 DEF TypeInv, Configured
  <2> QED BY <2>3, <2>4, <2>5, <2>8 DEF TypeInv
<1> QED BY <1>1, <1>2, <1>3, NextCarries DEF TypeInv

LEMMA TypeInvariant == Spec => []TypeInv
BY TypeInit, TypeStep, PTL DEF Spec

(* No request, carried out or its copy, makes a second configuration: there  *)
(* are never more of them than requests, and each assigns shards to groups    *)
(* that somebody asked for (do_apply, append_new_config).                    *)
THEOREM TypeCorrect == Spec => []TypeOK
<1>1. TypeInv => TypeOK
  <2> SUFFICES ASSUME TypeInv PROVE TypeOK
    OBVIOUS
  <2>1. /\ Len(configs) \in Nat /\ Len(configs) >= 1
        /\ Len(configs) <= 1 + Cardinality(Requests(cache))
    BY DEF TypeInv, Configured
  <2>2. MaxSeq * Cardinality(Client) \in Nat
    BY ClientAssumption, FS_CardinalityType
  <2>3. Len(configs) \in 1 .. 1 + MaxSeq * Cardinality(Client)
    <3> DEFINE M == MaxSeq * Cardinality(Client)
    <3>1. M \in Nat /\ Cardinality(Requests(cache)) <= M /\ Cardinality(Requests(cache)) \in Nat
      BY <2>2, RequestsFinite
    <3> HIDE DEF M
    <3>2. Len(configs) \in 1 .. 1 + M
      BY <2>1, <3>1
    <3> QED BY <3>2 DEF M
  <2> QED BY <2>3 DEF TypeInv, TypeOK, Configured, Configuration, Assigned, Readable
<1> QED BY <1>1, TypeInvariant, PTL

LEMMA CarriedOut ==
  ASSUME TypeInv, [Next]_vars, configs' # configs
  PROVE  /\ LastConfig' \in Configuration
         /\ configs' = Append(configs, LastConfig')
         /\ Serves(LastConfig, LastConfig') /\ TakesSurplus(LastConfig, LastConfig')
<1>1. Next /\ ~Leaves /\ Configured /\ crashed \in BOOLEAN
  BY DEF vars, Leaves, TypeInv
<1>2. PICK config : Carries(config)
  BY <1>1, NextCarries
<1>3. config \in Configuration /\ Serves(LastConfig, config) /\ TakesSurplus(LastConfig, config)
  BY <1>2 DEF Carries
<1>4. configs' = Append(configs, config)
  <2>1. config = [shards |-> config.shards, groups |-> config.groups]
    BY <1>3 DEF Configuration
  <2> QED BY <1>2, <2>1 DEF Carries, AppendNewConfig
<1>5. LastConfig' = config
  BY <1>1, <1>3, <1>4, AppendedLast
<1> QED BY <1>3, <1>4, <1>5

(* A Join or a Leave strands no shard that was served, and leaves none        *)
(* unassigned while there are shards for all the groups (do_apply, the Join  *)
(* and the Leave callback).                                                 *)
THEOREM Served == Spec => ShardsServed
<1>1. TypeInv /\ [Next]_vars => [configs' # configs => Serves(LastConfig, LastConfig')]_vars
  BY CarriedOut
<1> QED BY <1>1, TypeInvariant, PTL DEF Spec, ShardsServed

(* A Join takes from a group only what it has beyond its share (do_apply, the *)
(* Join callback).                                                          *)
THEOREM OnlySurplusTaken == Spec => JoinTakesSurplus
<1>1. TypeInv /\ [Next]_vars => [configs' # configs => TakesSurplus(LastConfig, LastConfig')]_vars
  BY CarriedOut
<1> QED BY <1>1, TypeInvariant, PTL DEF Spec, JoinTakesSurplus

(* Shardmaster implements ConfigLog: whatever is asked for, configurations    *)
(* are only added (append_new_config, get_config).                          *)
THEOREM Implements == Spec => OnlyExtended
<1> DEFINE Shown == [k \in DOMAIN configs |-> configs[k].shards]
<1>1. Init => Assignments!Init
  <2> SUFFICES ASSUME Init PROVE Assignments!Init
    OBVIOUS
  <2>1. configs = <<FirstConfig>> /\ FirstConfig.shards = [s \in Shards |-> NoGid]
    BY DEF Init, FirstConfig, NoShards
  <2> HIDE DEF FirstConfig
  <2>2. DOMAIN configs = 1 .. 1 /\ configs[1] = FirstConfig
    BY <2>1
  <2>3. Shown = <<[s \in Shards |-> NoGid]>>
    BY <2>1, <2>2
  <2> QED BY <2>3 DEF Assignments!Init
<1>2. TypeInv /\ [Next]_vars => [Assignments!Next]_Shown
  <2> SUFFICES ASSUME TypeInv, [Next]_vars, configs' # configs PROVE Assignments!Next
    BY DEF Assignments!Next
  <2> DEFINE config == LastConfig'
  <2>1. config \in Configuration /\ configs' = Append(configs, config)
    BY CarriedOut
  <2> HIDE DEF config
  <2>2. configs \in Seq(Configuration) /\ Len(configs) \in Nat
    BY DEF TypeInv, Configured
  <2>3. /\ configs' \in Seq(Configuration) /\ Len(configs') = Len(configs) + 1
        /\ \A k \in 1 .. Len(configs) : configs'[k] = configs[k]
        /\ configs'[Len(configs) + 1] = config
    BY <2>1, <2>2, AppendProperties
  <2>4. DOMAIN configs = 1 .. Len(configs) /\ DOMAIN configs' = 1 .. Len(configs) + 1
    BY <2>2, <2>3
  <2>5. config.shards \in Assigned
    BY <2>1 DEF Configuration
  <2>6. Shown \in Seq(Assigned) /\ Len(Shown) = Len(configs)
    <3>1. \A k \in 1 .. Len(configs) : configs[k].shards \in Assigned
      <4>1. ASSUME NEW k \in 1 .. Len(configs) PROVE configs[k] \in Configuration
        BY <2>2
      <4> QED BY <4>1 DEF Configuration
    <3>2. Shown \in [1 .. Len(configs) -> Assigned]
      BY <2>4, <3>1
    <3> QED BY <2>2, <3>2, IsASeq, LenProperties
  <2>7. Shown' = Append(Shown, config.shards)
    <3>1. /\ Append(Shown, config.shards) \in Seq(Assigned)
          /\ Len(Append(Shown, config.shards)) = Len(configs) + 1
          /\ \A k \in 1 .. Len(configs) : Append(Shown, config.shards)[k] = Shown[k]
          /\ Append(Shown, config.shards)[Len(configs) + 1] = config.shards
      BY <2>5, <2>6, AppendProperties
    <3>2. Shown' = [k \in 1 .. Len(configs) + 1 |-> configs'[k].shards]
      BY <2>4
    <3>3. Append(Shown, config.shards) \in [1 .. Len(configs) + 1 -> Assigned]
      BY <3>1, LenProperties
    <3>4. ASSUME NEW k \in 1 .. Len(configs) + 1
          PROVE  Append(Shown, config.shards)[k] = configs'[k].shards
      BY <2>2, <2>3, <2>4, <3>1
    <3> QED BY <3>1, <3>2, <3>3, <3>4
  <2>8. Shown'[Len(Shown')] = config.shards
    BY <2>3, <2>5, <2>6, <2>7, AppendProperties
  <2> QED BY <2>5, <2>7, <2>8 DEF Assignments!Next, Assignments!Extend, Assignments!Latest,
                                  Assignments!Assignment, Assigned
<1> QED BY <1>1, <1>2, TypeInvariant, PTL DEF Spec, OnlyExtended, Assignments!Spec
=============================================================================
