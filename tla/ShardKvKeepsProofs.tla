------------------------- MODULE ShardKvKeepsProofs -------------------------
(* What was carried out is not lost by the sharded server, who serves a key  *)
(* has the latest of it, and nothing is carried out twice, for any number of *)
(* groups, shards, keys and configurations: first for the code as written,   *)
(* then, with the shards going from group to group, wired or not.            *)
EXTENDS ShardKvProofs

(* LatestKept does not say where the value is: with the owner of the shard   *)
(* while it has one, and with whoever gave it up once the shard is away,     *)
(* which must be for good, or a later owner would carry on without it.       *)
Held(k) == \E g \in Gid : Key2Shard(k) \in ownShards[g] /\ data[g][k] = latest[k]
Copied(k) == \E g \in Gid : \E x \in migratingShards[g] : <<k, latest[k]>> \in x.data
Away(s) == \E g \in Gid : First(g, s) /\ config[g].num >= 1 /\ s \notin ownShards[g]
Safe(k) == Held(k) \/ (Copied(k) /\ Away(Key2Shard(k)))

SafeUnlessTorn == ~torn => \A k \in Key : latest[k] # <<>> => Safe(k)

LatestOfKeys == latest = [k \in Key |-> latest[k]]
KeepsInv == FirstInv /\ LatestOfKeys /\ SafeUnlessTorn

LEMMA InitKeeps == Init => KeepsInv
<1>1. Init => LatestOfKeys /\ SafeUnlessTorn
  BY DEF Init, LatestOfKeys, SafeUnlessTorn
<1> QED BY <1>1, InitFirstInv DEF KeepsInv

LEMMA KeepTypes ==
  ASSUME FirstInv
  PROVE  /\ ownShards \in [Gid -> SUBSET Shard] /\ migratingShards \in [Gid -> SUBSET Copies]
         /\ data \in [Gid -> [Key -> Values]] /\ config \in [Gid -> Configs]
         /\ \A g \in Gid : config[g].num \in Nat
         /\ \A g \in Gid : config[g].num = 0 => ownShards[g] = {}
         /\ \A k \in Key : Key2Shard(k) \in Shard
<1>1. \A k \in Key : Key2Shard(k) \in Shard
  BY DEF Key, Key2Shard
<1>2. /\ ownShards \in [Gid -> SUBSET Shard] /\ migratingShards \in [Gid -> SUBSET Copies]
      /\ data \in [Gid -> [Key -> Values]] /\ config \in [Gid -> Configs]
  BY DEF FirstInv, TypeInv, TypeOK, ShardTypeOK, StoreTypeOK, ConfigTypeOK
<1>3. \A g \in Gid : config[g].num \in Nat
  BY Numbers DEF FirstInv
<1>4. \A g \in Gid : config[g].num = 0 => ownShards[g] = {}
  BY DEF FirstInv, TypeInv, Known
<1> QED BY <1>1, <1>2, <1>3, <1>4

(* Steps that touch neither the shards nor what is stored of them.           *)
LEMMA KeepsSame ==
  ASSUME KeepsInv, FirstInv',
         UNCHANGED <<config, ownShards, migratingShards, data, latest, torn>>,
         \A g \in Gid, s \in Shard : First(g, s) => First(g, s)'
  PROVE  KeepsInv'
<1>1. ASSUME NEW k \in Key, Safe(k) PROVE Safe(k)'
  <2>1. Held(k) => Held(k)'
    BY DEF Held
  <2>2. Copied(k) => Copied(k)'
    BY DEF Copied
  <2>3. Away(Key2Shard(k)) => Away(Key2Shard(k))'
    BY KeepTypes DEF Away, KeepsInv
  <2> QED BY <1>1, <2>1, <2>2, <2>3 DEF Safe
<1>2. SafeUnlessTorn' /\ LatestOfKeys'
  BY <1>1 DEF KeepsInv, SafeUnlessTorn, LatestOfKeys
<1> QED BY <1>2 DEF KeepsInv

(* The shard master's next configuration leaves the first as it is.          *)
LEMMA FirstStays ==
  ASSUME FirstInv, NewConfiguration
  PROVE  \A g \in Gid, s \in Shard : First(g, s) => First(g, s)'
<1>1. PICK assigned \in Master!Assignment : master' = Append(master, assigned)
  BY DEF NewConfiguration, Master!Extend
<1>2. master \in Seq(Master!Assignment) /\ master # <<>>
  BY DEF FirstInv, TypeInv, TypeOK, ConfigTypeOK
<1>3. /\ Len(master) \in Nat /\ Len(master') = Len(master) + 1
      /\ \A k \in 1 .. Len(master) : master'[k] = master[k]
  BY <1>1, <1>2, AppendProperties, LenProperties
<1> QED BY <1>3 DEF First

(* A request is carried out by the owner of its shard.                      *)
LEMMA OnPutAppendApplyKeepsAll ==
  ASSUME KeepsInv, FirstInv', NEW g \in Gid, OnPutAppendApply(g)
  PROVE  KeepsInv'
<1> DEFINE e == queue[g][1]
           key == asked[e.id].key
           value == IF asked[e.id].op = "put" THEN <<e.id>> ELSE Append(data[g][key], e.id)
<1>1. UNCHANGED <<master, config, ownShards, migratingShards, torn>>
  BY DEF OnPutAppendApply, Applies, ownVars
<1>2. \A h \in Gid, s \in Shard : First(h, s) => First(h, s)'
  BY <1>1 DEF First
<1>3. CASE UNCHANGED <<data, latest>>
  BY <1>1, <1>2, <1>3, KeepsSame
<1>4. CASE /\ Key2Shard(key) \in ownShards[g]
           /\ data' = [data EXCEPT ![g][key] = value]
           /\ latest' = [latest EXCEPT ![key] = value]
  <2> HIDE DEF key, value
  <2>0. LatestOfKeys /\ LatestOfKeys'
    BY <1>4 DEF KeepsInv, LatestOfKeys
  <2>1. data \in [Gid -> [Key -> Values]] /\ data' \in [Gid -> [Key -> Values]]
        /\ \A k \in Key : Key2Shard(k) \in Shard
    BY KeepTypes DEF KeepsInv, FirstInv, TypeInv, TypeOK, StoreTypeOK
  <2>2. ASSUME NEW k \in Key, k # key, Safe(k) PROVE Safe(k)'
    <3>1. /\ latest'[k] = latest[k]
          /\ \A h \in Gid : data'[h][k] = data[h][k]
      BY <1>4, <2>1, <2>2
    <3>2. Held(k) => Held(k)'
      BY <1>1, <3>1 DEF Held
    <3>3. Copied(k) => Copied(k)'
      BY <1>1, <3>1 DEF Copied
    <3>4. Away(Key2Shard(k)) => Away(Key2Shard(k))'
      BY <1>1, <1>2, <2>1 DEF Away
    <3> QED BY <2>2, <3>2, <3>3, <3>4 DEF Safe
  <2>3. ASSUME NEW k \in Key, k = key PROVE Safe(k)'
    <3>1. data'[g][k] = value /\ latest'[k] = value
      BY <1>4, <2>0, <2>1, <2>3 DEF LatestOfKeys
    <3>2. Held(k)'
      BY <1>1, <1>4, <2>3, <3>1 DEF Held
    <3> QED BY <3>2 DEF Safe
  <2>4. SafeUnlessTorn'
    <3> SUFFICES ASSUME ~torn, NEW k \in Key, latest'[k] # <<>> PROVE Safe(k)'
      BY <1>1 DEF SafeUnlessTorn
    <3>1. CASE k = key
      BY <2>3, <3>1
    <3>2. CASE k # key
      <4>1. latest'[k] = latest[k]
        BY <1>4, <2>0, <3>2 DEF LatestOfKeys
      <4> QED BY <2>2, <3>2, <4>1 DEF KeepsInv, SafeUnlessTorn
    <3> QED BY <3>1, <3>2
  <2> QED BY <2>0, <2>4 DEF KeepsInv
<1> QED BY <1>3, <1>4 DEF OnPutAppendApply, Serves, historyVars

(* A new configuration: the shards of a group that has left configuration 0  *)
(* only become fewer, and what is given up whole is copied.                  *)
LEMMA ApplyNewConfKeepsAll ==
  ASSUME KeepsInv, FirstInv', NEW g \in Gid, NEW new \in Configs, new.num = config[g].num + 1,
         ApplyNewConf(g, new), UNCHANGED <<master, latest>>
  PROVE  KeepsInv'
<1> DEFINE kept == Kept(g, new)
           lost == ownShards[g] \ kept
<1>1. /\ config' = [config EXCEPT ![g] = new]
      /\ ownShards' = [ownShards EXCEPT ![g] = kept]
  BY DEF ApplyNewConf
<1>2. PICK keys \in [lost -> SUBSET Key], ids \in [lost -> SUBSET DOMAIN asked] :
        /\ \A s \in lost : keys[s] \in Walks({k \in KeysOf(s) : data[g][k] # <<>>})
        /\ migratingShards' = [migratingShards EXCEPT ![g] =
             @ \union {GivenUp(g, config[g].num, s, keys[s], ids[s]) : s \in lost}]
        /\ data' = [data EXCEPT ![g] =
             [k \in Key |-> IF \E s \in lost : k \in keys[s] THEN <<>> ELSE @[k]]]
        /\ torn' = \/ torn
                   \/ \E s \in lost : \/ ids[s] # cache[g] \cap Ids(KeysOf(s))
                                      \/ \E k \in KeysOf(s) \ keys[s] : data[g][k] # <<>>
  BY DEF ApplyNewConf
<1>3. /\ ownShards \in [Gid -> SUBSET Shard] /\ migratingShards \in [Gid -> SUBSET Copies]
      /\ data \in [Gid -> [Key -> Values]] /\ config \in [Gid -> Configs]
      /\ config[g].num \in Nat /\ (config[g].num = 0 => ownShards[g] = {})
      /\ \A k \in Key : Key2Shard(k) \in Shard
  BY KeepTypes DEF KeepsInv
<1> HIDE DEF kept, lost
<1>4. /\ ownShards'[g] = kept /\ config'[g].num = config[g].num + 1
      /\ \A h \in Gid \ {g} : /\ ownShards'[h] = ownShards[h] /\ config'[h] = config[h]
                             /\ data'[h] = data[h]
  BY <1>1, <1>2, <1>3
<1>5. config[g].num # 0 => kept \subseteq ownShards[g]
  BY DEF kept, Kept
<1>6. \A h \in Gid, s \in Shard : First(h, s) => First(h, s)'
  BY DEF First
<1>7. ASSUME NEW s \in Shard, Away(s) PROVE Away(s)'
  <2>1. PICK h \in Gid : First(h, s) /\ config[h].num >= 1 /\ s \notin ownShards[h]
    BY <1>7 DEF Away
  <2>2. config'[h].num >= 1 /\ s \notin ownShards'[h]
    BY <1>3, <1>4, <1>5, <2>1
  <2> QED BY <1>6, <2>1, <2>2 DEF Away
<1>8. ASSUME NEW k \in Key, Copied(k) PROVE Copied(k)'
  <2>1. \A h \in Gid : migratingShards[h] \subseteq migratingShards'[h]
    BY <1>2, <1>3
  <2> QED BY <1>8, <2>1 DEF Copied
<1>9. ASSUME ~torn', NEW k \in Key, latest[k] # <<>>, Held(k)
      PROVE  Safe(k)'
  <2> DEFINE s == Key2Shard(k)
  <2>1. PICK h \in Gid : s \in ownShards[h] /\ data[h][k] = latest[k]
    BY <1>9 DEF Held
  <2>2. CASE h # g
    <3>1. Held(k)'
      BY <1>4, <2>1, <2>2 DEF Held
    <3> QED BY <3>1 DEF Safe
  <2>3. CASE h = g /\ s \in kept
    <3>1. \A t \in lost : k \notin keys[t]
      BY <1>2, <2>3 DEF Walks, KeysOf, lost
    <3>2. data'[g][k] = data[g][k]
      BY <1>2, <1>3, <3>1
    <3>3. Held(k)'
      BY <1>4, <2>1, <2>3, <3>2 DEF Held
    <3> QED BY <3>3 DEF Safe
  <2>4. CASE h = g /\ s \notin kept
    <3>1. s \in lost /\ k \in KeysOf(s) /\ config[g].num # 0
      BY <1>3, <2>1, <2>4 DEF lost, KeysOf
    <3>2. k \in keys[s]
      BY <1>2, <1>9, <2>1, <2>4, <3>1
    <3>3. PICK x : x = GivenUp(g, config[g].num, s, keys[s], ids[s])
      OBVIOUS
    <3>4. <<k, latest[k]>> \in x.data
      BY <2>1, <2>4, <3>2, <3>3 DEF GivenUp
    <3>5. x \in migratingShards'[g]
      BY <1>2, <1>3, <3>1, <3>3
    <3>6. Copied(k)'
      BY <3>4, <3>5 DEF Copied
    <3>7. First(g, s) /\ s \in Shard
      BY <1>3, <2>1, <2>4 DEF KeepsInv, FirstInv, AtFirst
    <3>8. Away(s)'
      BY <1>3, <1>4, <1>6, <2>4, <3>7 DEF Away
    <3> QED BY <3>6, <3>8 DEF Safe
  <2> QED BY <2>2, <2>3, <2>4
<1>10. SafeUnlessTorn'
  <2> SUFFICES ASSUME ~torn', NEW k \in Key, latest[k] # <<>> PROVE Safe(k)'
    BY DEF SafeUnlessTorn
  <2>1. ~torn
    BY <1>2
  <2> QED BY <1>3, <1>7, <1>8, <1>9, <2>1 DEF KeepsInv, SafeUnlessTorn, Safe
<1>11. LatestOfKeys'
  BY DEF KeepsInv, LatestOfKeys
<1> QED BY <1>10, <1>11 DEF KeepsInv

LEMMA CallbacksKeepAll ==
  ASSUME KeepsInv, FirstInv', NEW g \in Gid,
         \/ OnPutAppendApply(g) \/ OnNewConfigApply(g) \/ OnApply(g)
         \/ OnShardMigrationReplyApply(g) \/ OnShardCleanupApply(g)
  PROVE  KeepsInv'
<1>1. TypeInv /\ FirstInv
  BY DEF KeepsInv, FirstInv
<1>2. ~OnShardMigrationReplyApply(g) /\ ~OnShardCleanupApply(g)
  <2>1. \A kind : Applies(g, kind) => queue[g][1] \in Sent(g) /\ queue[g][1].kind = kind
    BY <1>1, Applied
  <2>2. queue[g][1] \in Sent(g) =>
          queue[g][1].kind \notin {"shardmigrationreply", "shardcleanup"}
    BY <1>1 DEF FirstInv, AtFirst, FirstEntry
  <2> QED BY <2>1, <2>2 DEF OnShardMigrationReplyApply, OnShardCleanupApply
<1>3. CASE OnApply(g)
  <2>1. UNCHANGED <<master, config, ownShards, migratingShards, data, latest, torn>>
    BY <1>3 DEF OnApply, Applies, applyVars, ownVars, storeVars, historyVars
  <2> QED BY <2>1, KeepsSame DEF First
<1>4. CASE OnNewConfigApply(g)
  <2>1. UNCHANGED <<master, latest>> /\ Applies(g, "newconfig")
    BY <1>4 DEF OnNewConfigApply, Applies, historyVars
  <2>2. CASE UNCHANGED <<config, ownShards, migratingShards, data, torn>>
    BY <2>1, <2>2, KeepsSame DEF First
  <2>3. CASE Newer(g, queue[g][1].config.num) /\ ApplyNewConf(g, queue[g][1].config)
    <3>1. PICK new : new = queue[g][1].config
      OBVIOUS
    <3>2. new \in Configs /\ new.num = config[g].num + 1
      BY <1>1, <2>1, <2>3, <3>1, NextNumber
    <3> QED BY <2>1, <2>3, <3>1, <3>2, ApplyNewConfKeepsAll
  <2> QED BY <1>4, <2>2, <2>3 DEF OnNewConfigApply, ownVars, storeVars
<1> QED BY <1>2, <1>3, <1>4, OnPutAppendApplyKeepsAll

LEMMA NextKeeps == ASSUME ~Wired, KeepsInv, [Next]_vars PROVE KeepsInv'
<1>0. FirstInv'
  BY NextFirstInv DEF KeepsInv
<1>1. CASE NewConfiguration
  <2>1. UNCHANGED <<config, ownShards, migratingShards, data, latest, torn>>
    BY <1>1 DEF NewConfiguration, ownVars, storeVars, historyVars, boundVars
  <2> QED BY <1>0, <1>1, <2>1, FirstStays, KeepsSame DEF KeepsInv
<1>2. ASSUME UNCHANGED <<master, config, ownShards, migratingShards, data, latest, torn>>
      PROVE  KeepsInv'
  BY <1>0, <1>2, KeepsSame DEF First
<1> USE DEF ownVars, storeVars, historyVars, boundVars
<1>3. ASSUME NEW g \in Gid, Poll(g) \/ Pull(g) PROVE KeepsInv'
  BY <1>2, <1>3 DEF Poll, Pull
<1>4. ASSUME NEW g \in Gid, NEW p \in pulls[g],
             OnShardMigration(g, p) \/ PullFails(g, p) \/ DoPull(g, p)
      PROVE  KeepsInv'
  BY <1>2, <1>4 DEF OnShardMigration, PullFails, DoPull
<1>5. ASSUME NEW g \in Gid, NEW c \in cleaningShards[g],
             OnShardCleanup(g, c[1], c[2]) \/ DoClean(g, c[1], c[2])
      PROVE  KeepsInv'
  BY <1>5 DEF OnShardCleanup, DoClean
<1>6. ASSUME NEW g \in Gid, NEW num,
             AskAgain(g, num) \/ \E key \in Key, op \in Op : Ask(g, key, op, num)
      PROVE  KeepsInv'
  BY <1>2, <1>6 DEF AskAgain, Ask, OnPutAppend
<1>7. ASSUME NEW g \in Gid,
             \/ OnPutAppendApply(g) \/ OnNewConfigApply(g) \/ OnApply(g)
             \/ OnShardMigrationReplyApply(g) \/ OnShardCleanupApply(g)
      PROVE  KeepsInv'
  BY <1>0, <1>7, CallbacksKeepAll
<1>8. ASSUME NEW g \in Gid, NewLeader(g) PROVE KeepsInv'
  BY <1>2, <1>8 DEF NewLeader
<1>9. CASE UNCHANGED vars
  BY <1>2, <1>9 DEF vars
<1> QED BY <1>1, <1>3, <1>4, <1>5, <1>6, <1>7, <1>8, <1>9 DEF Next

(* As written, what the last request made of a key is never lost: it is with *)
(* the owner of its shard, or with whoever gave the shard up, unless the     *)
(* walk that gave it up ended early; whatever the polls were told of the     *)
(* configurations, and however often the leaders of the groups changed.      *)
THEOREM LastIsKept == ASSUME ~Wired PROVE Spec => []LatestKept
<1>1. KeepsInv => LatestKept
  BY DEF KeepsInv, SafeUnlessTorn, Safe, Held, Copied, LatestKept
<1>2. KeepsInv /\ [Next]_vars => KeepsInv'
  BY NextKeeps
<1> QED BY <1>1, <1>2, InitKeeps, PTL DEF Spec
-----------------------------------------------------------------------------
(* Whoever owns a shard has the latest of its keys, and remembers the last   *)
(* request if it was carried out.  Nobody else ever owned the shard, and     *)
(* nothing was carried out before its owner left configuration 0.           *)

Begun(s) == \E g \in Gid : First(g, s) /\ config[g].num >= 1
OwnerIsCurrent ==
  \A g \in Gid, k \in Key : Key2Shard(k) \in ownShards[g] => data[g][k] = latest[k]
NothingBefore ==
  /\ \A k \in Key : latest[k] # <<>> => Begun(Key2Shard(k))
  /\ \A g \in Gid : config[g].num = 0 => data[g] = [k \in Key |-> <<>>]

CurrentInv == FirstInv /\ LatestOfKeys /\ OwnerIsCurrent /\ NothingBefore

Counted ==
  /\ executed \in [Request -> Nat]
  /\ \A r \in Request : executed[r] > 0 => r <= Len(asked) /\ Begun(Key2Shard(asked[r].key))
LastRemembered ==
  asked # <<>> =>
    LET r == Len(asked)
    IN /\ executed[r] <= 1
       /\ \A g \in Gid :
            executed[r] > 0 /\ Key2Shard(asked[r].key) \in ownShards[g] => r \in cache[g]

OnceInv == FirstInv /\ Counted /\ LastRemembered

LEMMA InitCurrent == Init => CurrentInv
<1> SUFFICES ASSUME Init PROVE CurrentInv
  OBVIOUS
<1>1. LatestOfKeys /\ OwnerIsCurrent /\ NothingBefore
  BY DEF Init, LatestOfKeys, OwnerIsCurrent, NothingBefore
<1> QED BY <1>1, InitFirstInv DEF CurrentInv

LEMMA InitOnce == Init => OnceInv
<1> SUFFICES ASSUME Init PROVE OnceInv
  OBVIOUS
<1>1. Counted /\ LastRemembered
  BY DEF Init, Counted, LastRemembered, Request
<1> QED BY <1>1, InitFirstInv DEF OnceInv

(* Of a shard only one group is ever the owner.                              *)
LEMMA OneFirst ==
  ASSUME FirstInv, NEW g \in Gid, NEW h \in Gid, NEW s \in Shard,
         s \in ownShards[g], s \in ownShards[h]
  PROVE  g = h
BY DEF FirstInv, AtFirst, First

(* What owns a shard has begun.                                             *)
LEMMA OwnersBegun ==
  ASSUME FirstInv, NEW g \in Gid, NEW s \in Shard, s \in ownShards[g]
  PROVE  Begun(s)
<1>1. First(g, s) /\ config[g].num # 0 /\ config[g].num \in Nat
  BY KeepTypes DEF FirstInv, AtFirst
<1> QED BY <1>1 DEF Begun

LEMMA BegunStays ==
  ASSUME FirstInv, FirstInv',
         \A g \in Gid, s \in Shard : First(g, s) => First(g, s)',
         \A g \in Gid : config'[g].num >= config[g].num,
         NEW s \in Shard, Begun(s)
  PROVE  Begun(s)'
<1>1. PICK g \in Gid : First(g, s) /\ config[g].num >= 1
  BY DEF Begun
<1>2. config[g].num \in Nat /\ config'[g].num \in Nat
  BY KeepTypes DEF FirstInv, TypeInv, TypeOK, ConfigTypeOK, Configs
<1> QED BY <1>1, <1>2 DEF Begun

LEMMA CurrentSame ==
  ASSUME CurrentInv, FirstInv', UNCHANGED <<config, ownShards, data, latest>>,
         \A g \in Gid, s \in Shard : First(g, s) => First(g, s)'
  PROVE  CurrentInv'
<1>1. \A k \in Key : Key2Shard(k) \in Shard
  BY KeepTypes DEF CurrentInv
<1>2. \A g \in Gid : config'[g].num >= config[g].num
  BY KeepTypes DEF CurrentInv
<1>3. \A s \in Shard : Begun(s) => Begun(s)'
  BY <1>2, BegunStays DEF CurrentInv
<1>4. LatestOfKeys' /\ OwnerIsCurrent' /\ NothingBefore'
  BY <1>1, <1>3 DEF CurrentInv, LatestOfKeys, OwnerIsCurrent, NothingBefore
<1> QED BY <1>4 DEF CurrentInv

LEMMA OnceSame ==
  ASSUME OnceInv, FirstInv', UNCHANGED <<config, ownShards, cache, asked, executed>>,
         \A g \in Gid, s \in Shard : First(g, s) => First(g, s)'
  PROVE  OnceInv'
<1>1. ASSUME NEW r \in Request, executed[r] > 0
      PROVE  Key2Shard(asked[r].key) \in Shard
  <2>1. r \in DOMAIN asked /\ asked \in Seq([key : Key, op : Op])
    BY <1>1, AskedKnown DEF OnceInv, Counted, FirstInv, TypeInv, TypeOK, StoreTypeOK, Request
  <2>2. asked[r] \in [key : Key, op : Op]
    BY <2>1, ElementOfSeq, LenProperties
  <2> QED BY <2>2, KeepTypes DEF OnceInv
<1>2. \A g \in Gid : config'[g].num >= config[g].num
  BY KeepTypes DEF OnceInv
<1>3. \A s \in Shard : Begun(s) => Begun(s)'
  BY <1>2, BegunStays DEF OnceInv
<1>4. Counted'
  BY <1>1, <1>3 DEF OnceInv, Counted
<1>5. LastRemembered'
  BY DEF OnceInv, LastRemembered
<1> QED BY <1>4, <1>5 DEF OnceInv

(* Where an entry that is applied asks for a request.                        *)
LEMMA AppliedRequest ==
  ASSUME FirstInv, NEW g \in Gid, Applies(g, "putappend")
  PROVE  /\ queue[g][1].id \in DOMAIN asked /\ queue[g][1].id \in 1 .. Len(asked)
         /\ queue[g][1].id \in Request
         /\ asked[queue[g][1].id].key \in Key
         /\ UNCHANGED <<master, asked>>
<1>1. queue[g][1].id \in DOMAIN asked /\ UNCHANGED <<master, asked>>
  BY Applied DEF FirstInv, GoodEntry
<1>2. /\ asked \in Seq([key : Key, op : Op]) /\ DOMAIN asked \subseteq Request
      /\ DOMAIN asked = 1 .. Len(asked)
  BY AskedKnown DEF FirstInv, TypeInv, TypeOK, StoreTypeOK
<1>3. asked[queue[g][1].id] \in [key : Key, op : Op]
  BY <1>1, <1>2, ElementOfSeq, LenProperties
<1> QED BY <1>1, <1>2, <1>3

LEMMA OnPutAppendApplyCurrent ==
  ASSUME CurrentInv, FirstInv', NEW g \in Gid, OnPutAppendApply(g)
  PROVE  CurrentInv'
<1> DEFINE e == queue[g][1]
           key == asked[e.id].key
           value == IF asked[e.id].op = "put" THEN <<e.id>> ELSE Append(data[g][key], e.id)
<1>1. UNCHANGED <<master, config, ownShards>>
  BY DEF OnPutAppendApply, Applies, ownVars
<1>2. \A h \in Gid, s \in Shard : First(h, s) => First(h, s)'
  BY <1>1 DEF First
<1>3. CASE UNCHANGED <<data, latest>>
  BY <1>1, <1>2, <1>3, CurrentSame
<1>4. CASE /\ Key2Shard(key) \in ownShards[g]
           /\ data' = [data EXCEPT ![g][key] = value]
           /\ latest' = [latest EXCEPT ![key] = value]
  <2>1. key \in Key
    BY AppliedRequest DEF CurrentInv, OnPutAppendApply
  <2> HIDE DEF key, value
  <2>2. LatestOfKeys /\ LatestOfKeys'
    BY <1>4 DEF CurrentInv, LatestOfKeys
  <2>3. /\ data \in [Gid -> [Key -> Values]]
        /\ \A k \in Key : Key2Shard(k) \in Shard
        /\ config[g].num # 0
    BY <1>4, KeepTypes DEF CurrentInv
  <2>4. \A k \in Key \ {key} : /\ latest'[k] = latest[k]
                               /\ \A h \in Gid : data'[h][k] = data[h][k]
    BY <1>4, <2>2, <2>3 DEF LatestOfKeys
  <2>5. data'[g][key] = value /\ latest'[key] = value
    BY <1>4, <2>1, <2>2, <2>3 DEF LatestOfKeys
  <2>6. \A h \in Gid : Key2Shard(key) \in ownShards[h] => h = g
    BY <1>4, <2>1, <2>3, OneFirst DEF CurrentInv
  <2>7. OwnerIsCurrent'
    BY <1>1, <2>4, <2>5, <2>6 DEF CurrentInv, OwnerIsCurrent
  <2>8. Begun(Key2Shard(key))
    BY <1>4, <2>1, <2>3, OwnersBegun DEF CurrentInv
  <2>9. \A s \in Shard : Begun(s) => Begun(s)'
    BY <1>1, <1>2 DEF Begun
  <2>10. \A h \in Gid : config[h].num = 0 => data'[h] = data[h]
    BY <1>4, <2>3
  <2>11. NothingBefore'
    BY <1>1, <2>1, <2>3, <2>4, <2>8, <2>9, <2>10 DEF CurrentInv, NothingBefore
  <2> QED BY <2>2, <2>7, <2>11 DEF CurrentInv
<1> QED BY <1>3, <1>4 DEF OnPutAppendApply, Serves, historyVars

LEMMA OnPutAppendApplyOnce ==
  ASSUME OnceInv, FirstInv', NEW g \in Gid, OnPutAppendApply(g)
  PROVE  OnceInv'
<1> DEFINE id == queue[g][1].id
           shard == Key2Shard(asked[id].key)
           last == Len(asked)
<1>1. /\ UNCHANGED <<master, config, ownShards, asked>>
      /\ id \in 1 .. last /\ id \in Request /\ shard \in Shard /\ last \in Nat
      /\ cache' = [cache EXCEPT ![g] = (@ \ {id - 1}) \union {id}]
  BY AppliedRequest, KeepTypes DEF OnPutAppendApply, ownVars, OnceInv
<1>2. /\ cache \in [Gid -> SUBSET DOMAIN asked]
      /\ \A h \in Gid, s \in Shard : First(h, s) => First(h, s)'
      /\ \A s : Begun(s) => Begun(s)'
  BY <1>1 DEF OnceInv, FirstInv, TypeInv, TypeOK, StoreTypeOK, First, Begun
<1>3. \/ executed' = executed
      \/ /\ shard \in ownShards[g] /\ id \notin cache[g]
         /\ executed' = [executed EXCEPT ![id] = @ + 1]
  BY DEF OnPutAppendApply, Serves, Fresh, historyVars
<1> HIDE DEF id, shard, last
<1>4. \A h \in Gid : last \in cache[h] => last \in cache'[h]
  <2>1. id - 1 # last
    BY <1>1
  <2> QED BY <1>1, <1>2, <2>1
<1>5. id \in cache'[g]
  BY <1>1, <1>2
<1>6. CASE executed' = executed
  <2>1. Counted' /\ LastRemembered'
    BY <1>1, <1>2, <1>4, <1>6 DEF OnceInv, Counted, LastRemembered, last
  <2> QED BY <2>1 DEF OnceInv
<1>7. CASE /\ shard \in ownShards[g] /\ id \notin cache[g]
           /\ executed' = [executed EXCEPT ![id] = @ + 1]
  <2>1. Begun(shard)
    BY <1>1, <1>7, OwnersBegun DEF OnceInv
  <2>2. Counted'
    BY <1>1, <1>2, <1>7, <2>1 DEF OnceInv, Counted, shard, last
  <2>3. CASE id = last
    <3>1. executed[id] = 0
      BY <1>1, <1>7, <2>3 DEF OnceInv, Counted, LastRemembered, last, shard
    <3>2. executed'[id] = 1
      BY <1>1, <1>7, <3>1 DEF OnceInv, Counted
    <3>3. \A h \in Gid : shard \in ownShards[h] => h = g
      BY <1>1, <1>7, OneFirst DEF OnceInv
    <3> QED BY <1>1, <1>5, <2>2, <2>3, <3>2, <3>3 DEF OnceInv, LastRemembered, last, shard
  <2>4. CASE id # last
    <3>1. asked # <<>> => executed'[last] = executed[last]
      BY <1>7, <2>4 DEF OnceInv, Counted
    <3>2. LastRemembered'
      BY <1>1, <1>4, <3>1 DEF OnceInv, LastRemembered, last
    <3> QED BY <2>2, <3>2 DEF OnceInv
  <2> QED BY <2>3, <2>4
<1> QED BY <1>3, <1>6, <1>7

(* A new request has not been carried out, so its past is of no concern.    *)
LEMMA AskOnce ==
  ASSUME OnceInv, FirstInv', NEW g \in Gid, NEW key \in Key, NEW op \in Op, NEW num,
         Ask(g, key, op, num)
  PROVE  OnceInv'
<1>1. /\ asked' = Append(asked, [key |-> key, op |-> op])
      /\ asked \in Seq([key : Key, op : Op]) /\ Len(asked) \in Nat
      /\ UNCHANGED <<master, config, executed>>
  BY LenProperties DEF Ask, OnPutAppend, OnceInv, FirstInv, TypeInv, TypeOK, StoreTypeOK, ownVars,
     historyVars
<1>2. /\ Len(asked') = Len(asked) + 1
      /\ \A r \in 1 .. Len(asked) : asked'[r] = asked[r]
  <2>1. [key |-> key, op |-> op] \in [key : Key, op : Op]
    OBVIOUS
  <2> QED BY <1>1, <2>1, AppendProperties
<1>3. \A s : Begun(s) => Begun(s)'
  BY <1>1 DEF First, Begun
<1>4. Counted'
  BY <1>1, <1>2, <1>3 DEF OnceInv, Counted, Request
<1>5. Len(asked') \in Request
  BY <1>1, <1>2, BoundAssumption DEF FirstInv, TypeInv, TypeOK, StoreTypeOK, Request
<1>6. executed[Len(asked')] = 0
  BY <1>1, <1>2, <1>5 DEF OnceInv, Counted
<1>7. LastRemembered'
  BY <1>1, <1>6 DEF LastRemembered
<1> QED BY <1>4, <1>7 DEF OnceInv

(* A new configuration.  What a group keeps of its shards it keeps whole; a  *)
(* shard it has at once, in the first configuration, is one of which nothing *)
(* was ever asked.                                                          *)
LEMMA ApplyNewConfBegins ==
  ASSUME FirstInv, FirstInv', NEW g \in Gid, NEW new \in Configs, new.num = config[g].num + 1,
         ApplyNewConf(g, new), UNCHANGED master
  PROVE  /\ config' = [config EXCEPT ![g] = new]
         /\ ownShards' = [ownShards EXCEPT ![g] = Kept(g, new)]
         /\ config[g].num # 0 => Kept(g, new) \subseteq ownShards[g]
         /\ \A h \in Gid : config'[h].num >= config[h].num
         /\ \A s \in Shard : Begun(s) => Begun(s)'
         /\ config[g].num = 0 => \A s \in Kept(g, new) : s \in Shard /\ ~Begun(s)
<1>1. /\ config' = [config EXCEPT ![g] = new]
      /\ ownShards' = [ownShards EXCEPT ![g] = Kept(g, new)]
  BY DEF ApplyNewConf
<1>2. /\ config \in [Gid -> Configs] /\ ownShards \in [Gid -> SUBSET Shard]
      /\ \A h \in Gid : config[h].num \in Nat
  BY KeepTypes
<1>3. config[g].num # 0 => Kept(g, new) \subseteq ownShards[g]
  BY DEF Kept
<1>4. \A h \in Gid : config'[h].num >= config[h].num
  BY <1>1, <1>2
<1>5. \A h, s : First(h, s) <=> First(h, s)'
  BY DEF First
<1>6. \A s \in Shard : Begun(s) => Begun(s)'
  BY <1>4, <1>5, BegunStays
<1>7. ASSUME config[g].num = 0, NEW s \in Kept(g, new) PROVE s \in Shard /\ ~Begun(s)
  <2>1. s \in Shard /\ s \in ownShards'[g]
    BY <1>1, <1>2, <1>7 DEF Kept, Mine
  <2>2. First(g, s)
    BY <1>5, <2>1 DEF FirstInv, AtFirst
  <2>3. \A h \in Gid : First(h, s) => h = g
    BY <2>2 DEF First
  <2> QED BY <1>7, <2>1, <2>3 DEF Begun
<1> QED BY <1>1, <1>3, <1>4, <1>6, <1>7

LEMMA ApplyNewConfCurrent ==
  ASSUME CurrentInv, FirstInv', NEW g \in Gid, NEW new \in Configs, new.num = config[g].num + 1,
         ApplyNewConf(g, new), UNCHANGED <<master, latest>>
  PROVE  CurrentInv'
<1> DEFINE kept == Kept(g, new)
           lost == ownShards[g] \ kept
<1>1. PICK keys \in [lost -> SUBSET Key] :
        /\ \A s \in lost : keys[s] \in Walks({k \in KeysOf(s) : data[g][k] # <<>>})
        /\ data' = [data EXCEPT ![g] =
             [k \in Key |-> IF \E s \in lost : k \in keys[s] THEN <<>> ELSE @[k]]]
  BY DEF ApplyNewConf
<1>2. /\ config' = [config EXCEPT ![g] = new]
      /\ ownShards' = [ownShards EXCEPT ![g] = kept]
      /\ config[g].num # 0 => kept \subseteq ownShards[g]
      /\ \A s \in Shard : Begun(s) => Begun(s)'
      /\ config[g].num = 0 => \A s \in kept : s \in Shard /\ ~Begun(s)
  BY ApplyNewConfBegins DEF CurrentInv
<1>3. /\ ownShards \in [Gid -> SUBSET Shard] /\ data \in [Gid -> [Key -> Values]]
      /\ config \in [Gid -> Configs] /\ config[g].num \in Nat
      /\ \A k \in Key : Key2Shard(k) \in Shard
      /\ config[g].num = 0 => ownShards[g] = {}
  BY KeepTypes DEF CurrentInv
<1> HIDE DEF kept
<1>4. ASSUME NEW k \in Key, Key2Shard(k) \in kept PROVE data'[g][k] = data[g][k]
  <2>1. \A s \in lost : k \notin keys[s]
    BY <1>1, <1>4 DEF Walks, KeysOf
  <2> QED BY <1>1, <1>3, <2>1
<1>5. ASSUME NEW k \in Key, Key2Shard(k) \in kept PROVE data[g][k] = latest[k]
  <2>1. CASE config[g].num # 0
    BY <1>2, <1>5, <2>1 DEF CurrentInv, OwnerIsCurrent
  <2>2. CASE config[g].num = 0
    BY <1>2, <1>3, <1>5, <2>2 DEF CurrentInv, NothingBefore
  <2> QED BY <2>1, <2>2
<1>6. OwnerIsCurrent'
  BY <1>1, <1>2, <1>3, <1>4, <1>5 DEF CurrentInv, OwnerIsCurrent
<1>7. NothingBefore'
  BY <1>1, <1>2, <1>3 DEF CurrentInv, NothingBefore
<1>8. LatestOfKeys'
  BY DEF CurrentInv, LatestOfKeys
<1> QED BY <1>6, <1>7, <1>8 DEF CurrentInv

LEMMA ApplyNewConfOnce ==
  ASSUME OnceInv, FirstInv', NEW g \in Gid, NEW new \in Configs, new.num = config[g].num + 1,
         ApplyNewConf(g, new), UNCHANGED <<master, asked, executed>>
  PROVE  OnceInv'
<1> DEFINE kept == Kept(g, new)
           lost == ownShards[g] \ kept
           last == Len(asked)
           shard == Key2Shard(asked[last].key)
<1>1. PICK ids \in [lost -> SUBSET DOMAIN asked] :
        /\ \A s \in lost : ids[s] \in Walks(cache[g] \cap Ids(KeysOf(s)))
        /\ cache' = [cache EXCEPT ![g] = @ \ UNION {ids[s] : s \in lost}]
  BY DEF ApplyNewConf
<1>2. /\ ownShards' = [ownShards EXCEPT ![g] = kept]
      /\ config[g].num # 0 => kept \subseteq ownShards[g]
      /\ \A s \in Shard : Begun(s) => Begun(s)'
      /\ config[g].num = 0 => \A s \in kept : s \in Shard /\ ~Begun(s)
  BY ApplyNewConfBegins DEF OnceInv
<1>3. /\ ownShards \in [Gid -> SUBSET Shard] /\ cache \in [Gid -> SUBSET DOMAIN asked]
      /\ config[g].num \in Nat /\ asked \in Seq([key : Key, op : Op])
      /\ DOMAIN asked = 1 .. Len(asked) /\ DOMAIN asked \subseteq Request /\ Len(asked) \in Nat
  BY KeepTypes, AskedKnown, LenProperties DEF OnceInv, FirstInv, TypeInv, TypeOK, StoreTypeOK
<1> HIDE DEF kept
<1>4. \A r \in DOMAIN asked : Key2Shard(asked[r].key) \in Shard
  <2>1. \A r \in DOMAIN asked : asked[r] \in [key : Key, op : Op]
    BY <1>3, ElementOfSeq
  <2> QED BY <2>1, KeepTypes DEF OnceInv
<1>5. Counted'
  <2>1. \A r \in Request : r <= Len(asked) => r \in DOMAIN asked
    BY <1>3, BoundAssumption DEF Request
  <2>2. UNCHANGED <<asked, executed>>
    OBVIOUS
  <2> QED BY <1>2, <1>4, <2>1, <2>2 DEF OnceInv, Counted
<1>6. ASSUME asked # <<>>, executed[last] > 0, NEW h \in Gid, shard \in ownShards'[h]
      PROVE  last \in cache'[h]
  <2>1. last \in DOMAIN asked /\ last \in Request /\ Begun(shard)
    BY <1>3, <1>6, EmptySeq DEF OnceInv, Counted
  <2>2. CASE h # g
    BY <1>1, <1>2, <1>3, <1>6, <2>2 DEF OnceInv, LastRemembered
  <2>3. CASE h = g
    <3>1. shard \in kept /\ shard \in ownShards[g]
      BY <1>2, <1>3, <1>6, <2>1, <2>3
    <3>2. last \in cache[g]
      BY <1>6, <3>1 DEF OnceInv, LastRemembered
    <3>3. ASSUME NEW s \in lost PROVE last \notin ids[s]
      <4>1. ids[s] \subseteq Ids(KeysOf(s))
        BY <1>1 DEF Walks
      <4>2. last \in Ids(KeysOf(s)) => shard = s
        BY DEF Ids, KeysOf
      <4> QED BY <3>1, <4>1, <4>2
    <3> QED BY <1>1, <1>3, <2>3, <3>2, <3>3
  <2> QED BY <2>2, <2>3
<1>7. LastRemembered'
  BY <1>6 DEF OnceInv, LastRemembered
<1> QED BY <1>5, <1>7 DEF OnceInv

LEMMA CallbacksCurrent ==
  ASSUME FirstInv, FirstInv', NEW g \in Gid,
         \/ OnPutAppendApply(g) \/ OnNewConfigApply(g) \/ OnApply(g)
         \/ OnShardMigrationReplyApply(g) \/ OnShardCleanupApply(g)
  PROVE  (CurrentInv => CurrentInv') /\ (OnceInv => OnceInv')
<1>1. ~OnShardMigrationReplyApply(g) /\ ~OnShardCleanupApply(g)
  <2>1. \A kind : Applies(g, kind) => queue[g][1] \in Sent(g) /\ queue[g][1].kind = kind
    BY Applied DEF FirstInv
  <2>2. queue[g][1] \in Sent(g) =>
          queue[g][1].kind \notin {"shardmigrationreply", "shardcleanup"}
    BY DEF FirstInv, AtFirst, FirstEntry
  <2> QED BY <2>1, <2>2 DEF OnShardMigrationReplyApply, OnShardCleanupApply
<1>2. ASSUME UNCHANGED <<master, config, ownShards, data, cache, asked, executed, latest>>
      PROVE  (CurrentInv => CurrentInv') /\ (OnceInv => OnceInv')
  BY <1>2, CurrentSame, OnceSame DEF First
<1>3. CASE OnApply(g)
  BY <1>2, <1>3 DEF OnApply, Applies, applyVars, ownVars, storeVars, historyVars
<1>4. CASE OnNewConfigApply(g)
  <2>1. UNCHANGED <<master, latest, asked, executed>> /\ Applies(g, "newconfig")
    BY <1>4 DEF OnNewConfigApply, Applies, historyVars
  <2>2. CASE UNCHANGED <<config, ownShards, data, cache>>
    BY <1>2, <2>1, <2>2
  <2>3. CASE Newer(g, queue[g][1].config.num) /\ ApplyNewConf(g, queue[g][1].config)
    <3>1. PICK new : new = queue[g][1].config
      OBVIOUS
    <3>2. new \in Configs /\ new.num = config[g].num + 1
      BY <2>1, <2>3, <3>1, NextNumber DEF FirstInv
    <3> QED BY <2>1, <2>3, <3>1, <3>2, ApplyNewConfCurrent, ApplyNewConfOnce
  <2> QED BY <1>4, <2>2, <2>3 DEF OnNewConfigApply, ownVars, storeVars
<1> QED BY <1>1, <1>3, <1>4, OnPutAppendApplyCurrent, OnPutAppendApplyOnce

LEMMA NextCurrent ==
  ASSUME ~Wired, FirstInv, [Next]_vars
  PROVE  (CurrentInv => CurrentInv') /\ (OnceInv => OnceInv')
<1> DEFINE Preserved == (CurrentInv => CurrentInv') /\ (OnceInv => OnceInv')
<1>0. FirstInv'
  BY NextFirstInv
<1>1. CASE NewConfiguration
  <2>1. UNCHANGED <<config, ownShards, data, cache, asked, executed, latest>>
    BY <1>1 DEF NewConfiguration, ownVars, storeVars, historyVars
  <2> QED BY <1>0, <1>1, <2>1, FirstStays, CurrentSame, OnceSame
<1>2. ASSUME UNCHANGED <<master, config, ownShards, data, cache, executed, latest>>
      PROVE  (CurrentInv => CurrentInv') /\ (UNCHANGED asked => (OnceInv => OnceInv'))
  BY <1>0, <1>2, CurrentSame, OnceSame DEF First
<1> USE DEF ownVars, storeVars, historyVars
<1>3. ASSUME NEW g \in Gid, Poll(g) \/ Pull(g) PROVE Preserved
  BY <1>2, <1>3 DEF Poll, Pull
<1>4. ASSUME NEW g \in Gid, NEW p \in pulls[g],
             OnShardMigration(g, p) \/ PullFails(g, p) \/ DoPull(g, p)
      PROVE  Preserved
  BY <1>2, <1>4 DEF OnShardMigration, PullFails, DoPull
<1>5. ASSUME NEW g \in Gid, NEW c \in cleaningShards[g],
             OnShardCleanup(g, c[1], c[2]) \/ DoClean(g, c[1], c[2])
      PROVE  Preserved
  <2>1. OnShardCleanup(g, c[1], c[2]) => Wired
    BY Zenon DEF OnShardCleanup
  <2>2. DoClean(g, c[1], c[2]) => Wired
    BY Zenon DEF DoClean
  <2> QED BY <1>5, <2>1, <2>2
<1>6. ASSUME NEW g \in Gid, NEW num, AskAgain(g, num) PROVE Preserved
  BY <1>2, <1>6 DEF AskAgain, OnPutAppend
<1>7. ASSUME NEW g \in Gid, NEW num, NEW key \in Key, NEW op \in Op, Ask(g, key, op, num)
      PROVE  Preserved
  <2>1. CurrentInv => CurrentInv'
    BY <1>2, <1>7 DEF Ask, OnPutAppend
  <2> QED BY <1>0, <1>7, <2>1, AskOnce
<1>8. ASSUME NEW g \in Gid,
             \/ OnPutAppendApply(g) \/ OnNewConfigApply(g) \/ OnApply(g)
             \/ OnShardMigrationReplyApply(g) \/ OnShardCleanupApply(g)
      PROVE  Preserved
  BY <1>0, <1>8, CallbacksCurrent
<1>9. ASSUME NEW g \in Gid, NewLeader(g) PROVE Preserved
  BY <1>2, <1>9 DEF NewLeader
<1>10. CASE UNCHANGED vars
  BY <1>2, <1>10 DEF vars
<1> QED BY <1>1, <1>3, <1>4, <1>5, <1>6, <1>7, <1>8, <1>9, <1>10 DEF Next

(* As written, whoever answers a Get answers with what the last request that *)
(* was carried out has left: the owner of a shard is its only owner ever, so *)
(* no late configuration or new leader lets another answer in its place.    *)
THEOREM OwnersUpToDate == ASSUME ~Wired PROVE Spec => []ServedUpToDate
<1>1. CurrentInv => ServedUpToDate
  BY DEF CurrentInv, OwnerIsCurrent, ServedUpToDate, GetAnswer, Serves
<1>2. CurrentInv /\ [Next]_vars => CurrentInv'
  BY NextCurrent DEF CurrentInv
<1> QED BY <1>1, <1>2, InitCurrent, PTL DEF Spec

(* As written, a request the client still sends is carried out once at most, *)
(* wherever it is sent and however often: its owner remembers it, whatever   *)
(* else it forgets with a shard or with a later request.                    *)
THEOREM OnceOnly == ASSUME ~Wired PROVE Spec => []AtMostOnce
<1>1. OnceInv => AtMostOnce
  <2> SUFFICES ASSUME OnceInv, asked # <<>> PROVE ~(executed[Len(asked)] > 1)
    BY DEF AtMostOnce
  <2>1. executed \in [Request -> Nat] /\ executed[Len(asked)] <= 1
    BY DEF OnceInv, Counted, LastRemembered
  <2>2. Len(asked) \in Request
    BY AskedKnown, EmptySeq, LenProperties
    DEF OnceInv, FirstInv, TypeInv, TypeOK, StoreTypeOK
  <2> QED BY <2>1, <2>2
<1>2. OnceInv /\ [Next]_vars => OnceInv'
  BY NextCurrent DEF OnceInv
<1> QED BY <1>1, <1>2, InitOnce, PTL DEF Spec
-----------------------------------------------------------------------------
(* Whether it is wired or not: as long as nothing upsets the take-over, each *)
(* shard goes from hand to hand.                                            *)
At(g, n) == ConfigAt(g, n).shards
Regular == ~torn /\ ~hasty /\ Agreed

(* Under configuration n the shard s has come to g; the group that had it    *)
(* has left configuration n; it left it, and the next group has not got it.  *)
There(g, s, n) ==
  n <= config[g].num /\ At(g, n)[s] = g /\ (n < config[g].num \/ s \in ownShards[g])
LeftBy(g, s, n) == At(g, n)[s] \in Gid /\ config[At(g, n)[s]].num > n
Transit(h, s, n) ==
  /\ n \in 1 .. config[h].num - 1 /\ At(h, n)[s] = h
  /\ \A g \in Gid : ~There(g, s, n + 1)

Passed ==
  \A g \in Gid, s \in Shard : \A n \in 1 .. config[g].num :
    There(g, s, n) => \A m \in 1 .. n - 1 : LeftBy(g, s, m)

(* What a group is given it has or waits for; it waits for others only.      *)
NotForgotten ==
  \A g \in Gid, s \in Shard :
    /\ config[g].shards[s] = g => s \in ownShards[g] \/ waitingShards[g][s] # None
    /\ waitingShards[g][s] # None => At(g, config[g].num - 1)[s] # g

(* What the owner of a shard should have of it: the latest of its keys, and  *)
(* in its memory the last request if it was carried out.                    *)
LatestOf(s) == {<<k, latest[k]>> : k \in {j \in KeysOf(s) : latest[j] # <<>>}}
Remembers(s, ids) ==
  (asked # <<>> /\ executed[Len(asked)] > 0 /\ Key2Shard(asked[Len(asked)].key) = s)
    => Len(asked) \in ids
Current(s, pairs, ids) == pairs = LatestOf(s) /\ Remembers(s, ids)

GoodAnswer(g, s, a) ==
  a.num >= 1 => /\ LeftBy(g, s, a.num)
                /\ Transit(At(g, a.num)[s], s, a.num) => Current(s, a.data, a.cache)
PullGood(g, p) == p.from = At(g, p.num)[p.shard] /\ GoodAnswer(g, p.shard, p.answer)
ReplyGood(g, e) == e.kind = "shardmigrationreply" => GoodAnswer(g, e.shard, e.answer)
CleanupGood(e) ==
  e.kind = "shardcleanup" => \E h \in Gid : There(h, e.shard, e.num + 1)
AnswersGood ==
  \A g \in Gid : /\ \A p \in pulls[g] : PullGood(g, p)
                 /\ \A e \in Sent(g) : ReplyGood(g, e)
CleanedThere ==
  \A g \in Gid : /\ \A c \in cleaningShards[g] : There(g, c[2], c[1] + 1)
                 /\ \A e \in Sent(g) : CleanupGood(e)

CopiesCurrent ==
  \A h \in Gid, s \in Shard : \A n \in 1 .. config[h].num :
    Transit(h, s, n) => Current(s, Given(h, s, n).data, Given(h, s, n).cache)
OwnersCurrent ==
  \A g \in Gid : \A s \in ownShards[g] :
    (\A k \in KeysOf(s) : data[g][k] = latest[k]) /\ Remembers(s, cache[g])
OwnersHave ==
  \A g \in Gid, k \in Key : data[g][k] # <<>> => Key2Shard(k) \in ownShards[g]

(* Nothing is carried out on a shard before its first owner has it.         *)
Started(s) == \E g \in Gid : config[g].num >= 1 /\ At(g, 1)[s] = g
NothingEarly ==
  /\ \A k \in Key : latest[k] # <<>> => Started(Key2Shard(k))
  /\ executed \in [Request -> Nat]
  /\ \A r \in Request : executed[r] > 0 => r <= Len(asked) /\ Started(Key2Shard(asked[r].key))
  /\ asked # <<>> => executed[Len(asked)] <= 1

Hands ==
  /\ OwnersInv /\ LatestOfKeys /\ Regular
  /\ Passed /\ NotForgotten /\ AnswersGood /\ CleanedThere
  /\ CopiesCurrent /\ OwnersCurrent /\ OwnersHave /\ NothingEarly
HandInv == OwnersInv /\ LatestOfKeys /\ (Regular => Hands)

(* What every step is: configurations are added, owners lose shards with a   *)
(* new configuration only.                                                  *)
Onward ==
  /\ \A g \in Gid : config[g].num \in Nat /\ config'[g].num \in Nat
                    /\ config[g].num <= config'[g].num
  /\ \A g \in Gid : \A n \in 0 .. config[g].num : ConfigAt(g, n)' = ConfigAt(g, n)
  /\ \A g \in Gid : config'[g].num = config[g].num => ownShards[g] \subseteq ownShards'[g]
  /\ torn => torn'
  /\ hasty => hasty'

LEMMA HandTypes ==
  ASSUME OwnersInv
  PROVE  /\ ownShards \in [Gid -> SUBSET Shard] /\ migratingShards \in [Gid -> SUBSET Copies]
         /\ waitingShards \in [Gid -> [Shard -> Nat \union {None}]]
         /\ data \in [Gid -> [Key -> Values]] /\ config \in [Gid -> Configs]
         /\ cache \in [Gid -> SUBSET DOMAIN asked]
         /\ cleaningShards \in [Gid -> SUBSET (Nat \X Shard)]
         /\ \A g \in Gid : config[g].num \in Nat
         /\ \A g \in Gid : config[g].num = 0 => ownShards[g] = {}
         /\ \A k \in Key : Key2Shard(k) \in Shard
         /\ asked \in Seq([key : Key, op : Op]) /\ DOMAIN asked = 1 .. Len(asked)
         /\ DOMAIN asked \subseteq Request /\ Len(asked) \in Nat
<1>1. \A k \in Key : Key2Shard(k) \in Shard
  BY DEF Key, Key2Shard
<1>2. /\ ownShards \in [Gid -> SUBSET Shard] /\ migratingShards \in [Gid -> SUBSET Copies]
      /\ waitingShards \in [Gid -> [Shard -> Nat \union {None}]]
      /\ data \in [Gid -> [Key -> Values]] /\ config \in [Gid -> Configs]
      /\ cache \in [Gid -> SUBSET DOMAIN asked]
      /\ cleaningShards \in [Gid -> SUBSET (Nat \X Shard)]
      /\ asked \in Seq([key : Key, op : Op])
  BY DEF OwnersInv, TypeInv, TypeOK, ShardTypeOK, StoreTypeOK, ConfigTypeOK
<1>3. \A g \in Gid : config[g].num \in Nat
  BY Numbers DEF OwnersInv
<1>4. \A g \in Gid : config[g].num = 0 => ownShards[g] = {}
  BY DEF OwnersInv, TypeInv, Known
<1>5. DOMAIN asked = 1 .. Len(asked) /\ DOMAIN asked \subseteq Request /\ Len(asked) \in Nat
  BY <1>2, AskedKnown, LenProperties DEF OwnersInv, TypeInv, TypeOK
<1> QED BY <1>1, <1>2, <1>3, <1>4, <1>5

LEMMA SameAt ==
  ASSUME Agreed, NEW g \in Gid, NEW h \in Gid, NEW n \in 0 .. config[g].num, n <= config[h].num
  PROVE  At(g, n) = At(h, n)
BY DEF Agreed, At

LEMMA AtStays ==
  ASSUME Onward, NEW g \in Gid, NEW n \in 0 .. config[g].num
  PROVE  At(g, n)' = At(g, n)
BY DEF Onward, At

LEMMA RegularBefore == ASSUME Onward, Regular' PROVE Regular
<1>1. ASSUME NEW g \in Gid, NEW h \in Gid, NEW n \in 0 .. config[g].num, n <= config[h].num
      PROVE  ConfigAt(g, n) = ConfigAt(h, n)
  <2>1. n \in 0 .. config[h].num /\ n \in 0 .. config'[g].num /\ n <= config'[h].num
    BY <1>1 DEF Onward
  <2>2. ConfigAt(g, n)' = ConfigAt(h, n)'
    BY <2>1 DEF Regular, Agreed
  <2> QED BY <2>1, <2>2 DEF Onward
<1>2. Agreed
  BY <1>1 DEF Agreed
<1> QED BY <1>2 DEF Onward, Regular

LEMMA ThereStays ==
  ASSUME Onward, NEW g \in Gid, NEW s, NEW n \in Nat, There(g, s, n)
  PROVE  There(g, s, n)'
<1>1. n \in 0 .. config[g].num /\ config[g].num <= config'[g].num
  BY DEF There, Onward
<1>2. At(g, n)' = At(g, n)
  BY <1>1, AtStays
<1> QED BY <1>1, <1>2 DEF There, Onward

LEMMA LeftStays ==
  ASSUME Onward, NEW g \in Gid, NEW s, NEW n \in 0 .. config[g].num, LeftBy(g, s, n)
  PROVE  LeftBy(g, s, n)'
<1>1. At(g, n)' = At(g, n)
  BY AtStays
<1>2. PICK h \in Gid : h = At(g, n)[s] /\ config[h].num > n
  BY DEF LeftBy
<1>3. config'[h].num > n
  BY <1>2 DEF Onward
<1> QED BY <1>1, <1>2, <1>3 DEF LeftBy

LEMMA TransitBefore ==
  ASSUME Onward, NEW h \in Gid, NEW s, NEW n \in 1 .. config[h].num - 1, Transit(h, s, n)'
  PROVE  Transit(h, s, n)
<1>1. n \in 0 .. config[h].num /\ n + 1 \in Nat /\ config[h].num \in Nat
  BY DEF Onward
<1>2. At(h, n)' = At(h, n)
  BY <1>1, AtStays
<1>3. \A g \in Gid : ~There(g, s, n + 1)
  BY <1>1, ThereStays DEF Transit
<1> QED BY <1>2, <1>3 DEF Transit

(* While somebody serves a shard, no copy of it waits to be taken over.      *)
LEMMA NoTransit ==
  ASSUME Hands, NEW g \in Gid, NEW s \in ownShards[g], NEW h \in Gid, NEW n, Transit(h, s, n)
  PROVE  FALSE
<1>1. /\ s \in Shard /\ config[g].num \in Nat /\ config[h].num \in Nat /\ config[g].num # 0
  BY HandTypes DEF Hands
<1>2. PICK a \in Nat : a = config[g].num /\ a >= 1
  BY <1>1
<1>3. /\ n \in 1 .. config[h].num - 1 /\ At(h, n)[s] = h
      /\ \A d \in Gid : ~There(d, s, n + 1)
  BY DEF Transit
<1>4. At(g, a)[s] = g /\ There(g, s, a)
  <2>1. config[g].shards[s] = g
    BY DEF Hands, OwnersInv, OwnersAssigned
  <2> QED BY <1>2, <2>1 DEF At, ConfigAt, There
<1>5. Agreed /\ Passed
  BY DEF Hands, Regular
<1>6. CASE a <= n
  <2>1. At(h, a)[s] = g
    BY <1>1, <1>2, <1>3, <1>4, <1>5, <1>6, SameAt
  <2>2. There(h, s, n)
    BY <1>1, <1>3 DEF There
  <2>3. a # n
    BY <1>1, <1>2, <1>3, <2>1
  <2>4. LeftBy(h, s, a)
    BY <1>1, <1>2, <1>3, <1>5, <1>6, <2>2, <2>3 DEF Passed
  <2> QED BY <1>2, <2>1, <2>4 DEF LeftBy
<1>7. CASE a = n + 1
  BY <1>3, <1>4, <1>7
<1>8. CASE a > n + 1
  <2>1. LeftBy(g, s, n + 1)
    BY <1>1, <1>2, <1>3, <1>4, <1>5, <1>8 DEF Passed
  <2>2. PICK d \in Gid : d = At(g, n + 1)[s] /\ config[d].num > n + 1
    BY <2>1 DEF LeftBy
  <2>3. n + 1 \in 0 .. config[g].num /\ n + 1 <= config[d].num /\ n + 1 < config[d].num
    <3>1. config[d].num \in Nat
      BY HandTypes DEF Hands
    <3> QED BY <1>1, <1>2, <1>3, <1>8, <2>2, <3>1
  <2>4. At(d, n + 1)[s] = d
    BY <1>5, <2>2, <2>3, SameAt
  <2>5. There(d, s, n + 1)
    BY <2>3, <2>4 DEF There
  <2> QED BY <1>3, <2>5
<1> QED BY <1>2, <1>3, <1>6, <1>7, <1>8

LEMMA OnlyOwner ==
  ASSUME Hands, NEW g \in Gid, NEW h \in Gid, NEW s \in ownShards[g], s \in ownShards[h],
         config[g].num <= config[h].num
  PROVE  g = h
<1>1. /\ s \in Shard /\ config[g].num \in Nat /\ config[h].num \in Nat
      /\ config[g].num # 0 /\ config[h].num # 0
  BY HandTypes DEF Hands
<1>2. PICK a \in Nat, b \in Nat : a = config[g].num /\ b = config[h].num /\ a >= 1 /\ a <= b
  BY <1>1
<1>3. At(g, a)[s] = g /\ At(h, b)[s] = h /\ There(h, s, b)
  <2>1. config[g].shards[s] = g /\ config[h].shards[s] = h
    BY DEF Hands, OwnersInv, OwnersAssigned
  <2> QED BY <1>2, <2>1 DEF At, ConfigAt, There
<1>4. At(h, a)[s] = g
  BY <1>2, <1>3, SameAt DEF Hands, Regular
<1>5. CASE a = b
  BY <1>3, <1>4, <1>5
<1>6. CASE a < b
  <2>1. LeftBy(h, s, a)
    BY <1>1, <1>2, <1>3, <1>6 DEF Hands, Passed
  <2> QED BY <1>2, <1>4, <2>1 DEF LeftBy
<1> QED BY <1>2, <1>5, <1>6

(* What a step keeps that does not carry out a request on a shard that is    *)
(* given from one group to the next.                                        *)
Undisturbed(s) == \A pairs, ids : Current(s, pairs, ids) => Current(s, pairs, ids)'
TransitsAlone == \A h \in Gid, s \in Shard : \A n : Transit(h, s, n) => Undisturbed(s)

LEMMA AnswerStays ==
  ASSUME Onward, TransitsAlone, NEW g \in Gid, NEW s \in Shard, NEW a, a.num \in Int,
         a.num < config[g].num, GoodAnswer(g, s, a)
  PROVE  GoodAnswer(g, s, a)'
<1> SUFFICES ASSUME a.num >= 1
             PROVE  /\ LeftBy(g, s, a.num)'
                    /\ Transit(At(g, a.num)[s], s, a.num)' => Current(s, a.data, a.cache)'
  BY DEF GoodAnswer
<1>1. PICK n \in Nat : n = a.num /\ n >= 1 /\ n \in 0 .. config[g].num /\ config[g].num \in Nat
  BY DEF Onward
<1>2. LeftBy(g, s, n) /\ (Transit(At(g, n)[s], s, n) => Current(s, a.data, a.cache))
  BY <1>1 DEF GoodAnswer
<1>3. LeftBy(g, s, n)'
  BY <1>1, <1>2, LeftStays
<1>4. PICK h \in Gid : h = At(g, n)[s] /\ h = At(g, n)'[s] /\ config[h].num > n
  BY <1>1, <1>2, AtStays DEF LeftBy
<1>5. n \in 1 .. config[h].num - 1
  BY <1>1, <1>4 DEF Onward
<1>6. ASSUME Transit(h, s, n)' PROVE Current(s, a.data, a.cache)'
  <2>1. Transit(h, s, n)
    BY <1>5, <1>6, TransitBefore
  <2>2. Current(s, a.data, a.cache) /\ Undisturbed(s)
    BY <1>2, <1>4, <2>1 DEF TransitsAlone
  <2> QED BY <2>2 DEF Undisturbed
<1> QED BY <1>1, <1>3, <1>4, <1>6

LEMMA AnswerNumbers ==
  ASSUME OwnersInv, NEW g \in Gid
  PROVE  /\ \A p \in pulls[g] : /\ p \in Threads /\ p.shard \in Shard /\ p.answer.num \in Int
                                /\ p.num \in 1 .. config[g].num - 1
                                /\ At(g, p.num + 1)[p.shard] = g
                                /\ p.answer.num < 1 \/ p.answer.num = p.num
                                /\ p.answer.num < config[g].num
         /\ \A e \in Sent(g) : e.kind = "shardmigrationreply" =>
              /\ e.shard \in Shard /\ e.answer.num \in Int /\ e.answer.num < config[g].num
              /\ e.answer.num >= 1 => At(g, e.answer.num + 1)[e.shard] = g
         /\ \A e \in Sent(g) : e.kind = "shardcleanup" => e.num \in Nat /\ e.shard \in Shard
<1>1. ASSUME NEW p \in pulls[g]
      PROVE  /\ p \in Threads /\ p.shard \in Shard /\ p.answer.num \in Int
             /\ p.num \in 1 .. config[g].num - 1
             /\ At(g, p.num + 1)[p.shard] = g
             /\ p.answer.num < 1 \/ p.answer.num = p.num
             /\ p.answer.num < config[g].num
  <2>1. p \in Threads /\ AwaitedPull(g, p) /\ config[g].num \in Nat
    BY Around, HandTypes DEF OwnersInv, Awaited
  <2>2. p.shard \in Shard /\ p.answer.num \in Int
    BY <2>1 DEF Threads, Answers, None
  <2> QED BY <2>1, <2>2 DEF AwaitedPull, Assigned, At
<1>2. ASSUME NEW e \in Sent(g), e.kind = "shardmigrationreply"
      PROVE  /\ e.shard \in Shard /\ e.answer.num \in Int /\ e.answer.num < config[g].num
             /\ e.answer.num >= 1 => At(g, e.answer.num + 1)[e.shard] = g
  <2>1. e \in Entries /\ AwaitedEntry(g, e) /\ GoodEntry(g, e) /\ config[g].num \in Nat
    BY Around, SentType, HandTypes DEF OwnersInv, Awaited, TypeInv, Known
  <2>2. e.shard \in Shard /\ e.answer \in Answers
    BY <1>2, <2>1, EntryType
  <2>3. e.answer.num \in Int
    BY <2>2 DEF Answers, None
  <2>4. config[g].num >= 2 /\ (e.answer.num < 1 \/ Assigned(g, e.answer.num, e.shard))
    BY <1>2, <2>1 DEF AwaitedEntry, GoodEntry
  <2> QED BY <2>1, <2>2, <2>3, <2>4 DEF Assigned, At
<1>3. ASSUME NEW e \in Sent(g), e.kind = "shardcleanup" PROVE e.num \in Nat /\ e.shard \in Shard
  BY <1>3, Around, SentType, EntryType DEF OwnersInv
<1> QED BY <1>1, <1>2, <1>3

LEMMA AnswersKeep ==
  ASSUME OwnersInv, AnswersGood, Onward, TransitsAlone,
         \A g \in Gid : \A p \in pulls'[g] : p \in pulls[g] \/ PullGood(g, p)',
         \A g \in Gid : \A e \in Sent(g)' : e \in Sent(g) \/ ReplyGood(g, e)'
  PROVE  AnswersGood'
<1>1. ASSUME NEW g \in Gid, NEW p \in pulls[g] PROVE PullGood(g, p)'
  <2>1. PullGood(g, p)
    BY DEF AnswersGood
  <2>2. /\ p.shard \in Shard /\ p.answer.num \in Int /\ p.answer.num < config[g].num
        /\ p.num \in 1 .. config[g].num - 1 /\ config[g].num \in Nat
    BY AnswerNumbers, HandTypes
  <2>3. p.num \in 0 .. config[g].num
    BY <2>2
  <2>4. At(g, p.num)' = At(g, p.num)
    BY <2>3, AtStays
  <2>5. PICK a : a = p.answer
    OBVIOUS
  <2>6. GoodAnswer(g, p.shard, a)'
    BY <2>1, <2>2, <2>5, AnswerStays DEF PullGood
  <2> QED BY <2>1, <2>4, <2>5, <2>6 DEF PullGood
<1>2. ASSUME NEW g \in Gid, NEW e \in Sent(g) PROVE ReplyGood(g, e)'
  <2> SUFFICES ASSUME e.kind = "shardmigrationreply" PROVE GoodAnswer(g, e.shard, e.answer)'
    BY DEF ReplyGood
  <2>1. GoodAnswer(g, e.shard, e.answer)
    BY DEF AnswersGood, ReplyGood
  <2> QED BY <2>1, AnswerNumbers, AnswerStays
<1> QED BY <1>1, <1>2 DEF AnswersGood

LEMMA CleanedKeep ==
  ASSUME OwnersInv, CleanedThere, Onward,
         \A g \in Gid : \A c \in cleaningShards'[g] :
           c \in cleaningShards[g] \/ There(g, c[2], c[1] + 1)',
         \A g \in Gid : \A e \in Sent(g)' : e \in Sent(g) \/ CleanupGood(e)'
  PROVE  CleanedThere'
<1>1. ASSUME NEW g \in Gid, NEW c \in cleaningShards[g] PROVE There(g, c[2], c[1] + 1)'
  <2>1. c[1] + 1 \in Nat
    BY HandTypes
  <2> QED BY <2>1, ThereStays DEF CleanedThere
<1>2. ASSUME NEW g \in Gid, NEW e \in Sent(g) PROVE CleanupGood(e)'
  <2> SUFFICES ASSUME e.kind = "shardcleanup"
               PROVE  \E h \in Gid : There(h, e.shard, e.num + 1)'
    BY DEF CleanupGood
  <2>1. PICK h \in Gid : There(h, e.shard, e.num + 1)
    BY DEF CleanedThere, CleanupGood
  <2>2. e.num + 1 \in Nat
    BY AnswerNumbers
  <2>3. There(h, e.shard, e.num + 1)'
    BY <2>1, <2>2, ThereStays
  <2> QED BY <2>3
<1> QED BY <1>1, <1>2 DEF CleanedThere

(* A group has come to a shard by an old configuration, or by this step.     *)
LEMMA PassedKeep ==
  ASSUME Passed, Onward,
         \A g \in Gid, s \in Shard : \A n \in 1 .. config'[g].num : There(g, s, n)' =>
           (n <= config[g].num /\ There(g, s, n)) \/ \A m \in 1 .. n - 1 : LeftBy(g, s, m)'
  PROVE  Passed'
<1> SUFFICES ASSUME NEW g \in Gid, NEW s \in Shard, NEW n \in 1 .. config'[g].num,
                    There(g, s, n)', NEW m \in 1 .. n - 1
             PROVE  LeftBy(g, s, m)'
  BY DEF Passed
<1>1. CASE n <= config[g].num /\ There(g, s, n)
  <2>1. n \in 1 .. config[g].num /\ m \in 0 .. config[g].num
    BY <1>1 DEF Onward
  <2>2. LeftBy(g, s, m)
    BY <1>1, <2>1 DEF Passed
  <2> QED BY <2>1, <2>2, LeftStays
<1> QED BY <1>1

LEMMA CopiesKeep ==
  ASSUME CopiesCurrent, Onward, TransitsAlone,
         \A h \in Gid, s \in Shard : \A n \in 1 .. config'[h].num - 1 : Transit(h, s, n)' =>
           \/ n \in 1 .. config[h].num - 1 /\ Given(h, s, n)' = Given(h, s, n)
           \/ Current(s, Given(h, s, n).data, Given(h, s, n).cache)'
  PROVE  CopiesCurrent'
<1> SUFFICES ASSUME NEW h \in Gid, NEW s \in Shard, NEW n \in 1 .. config'[h].num, Transit(h, s, n)'
             PROVE  Current(s, Given(h, s, n).data, Given(h, s, n).cache)'
  BY DEF CopiesCurrent
<1>1. n \in 1 .. config'[h].num - 1
  BY DEF Transit
<1>2. CASE n \in 1 .. config[h].num - 1 /\ Given(h, s, n)' = Given(h, s, n)
  <2>1. Transit(h, s, n)
    BY <1>2, TransitBefore
  <2>2. n \in 1 .. config[h].num
    BY <1>2 DEF Onward
  <2>3. PICK m : m = Given(h, s, n)
    OBVIOUS
  <2>4. Current(s, m.data, m.cache) /\ Undisturbed(s)
    BY <2>1, <2>2, <2>3 DEF CopiesCurrent, TransitsAlone
  <2>5. Current(s, m.data, m.cache)'
    BY <2>4 DEF Undisturbed
  <2> QED BY <1>2, <2>3, <2>5
<1> QED BY <1>1, <1>2

LEMMA StartedStays ==
  ASSUME Onward, NEW s, Started(s)
  PROVE  Started(s)'
<1>1. PICK g \in Gid : config[g].num >= 1 /\ At(g, 1)[s] = g
  BY DEF Started
<1>2. 1 \in 0 .. config[g].num /\ config'[g].num >= 1
  BY <1>1 DEF Onward
<1>3. At(g, 1)' = At(g, 1)
  BY <1>2, AtStays
<1> QED BY <1>1, <1>2, <1>3 DEF Started

(* Whoever serves a shard has it from its first owner.                      *)
LEMMA OwnersStarted ==
  ASSUME Hands, NEW g \in Gid, NEW s \in ownShards[g]
  PROVE  Started(s)
<1>1. s \in Shard /\ config[g].num \in Nat /\ config[g].num # 0 /\ config[g].shards[s] = g
  BY HandTypes DEF Hands, OwnersInv, OwnersAssigned
<1>2. PICK a \in Nat : a = config[g].num /\ a >= 1
  BY <1>1
<1>3. At(g, a)[s] = g /\ There(g, s, a)
  BY <1>1, <1>2 DEF At, ConfigAt, There
<1>4. CASE a = 1
  BY <1>2, <1>3, <1>4 DEF Started
<1>5. CASE a > 1
  <2>1. LeftBy(g, s, 1)
    BY <1>1, <1>2, <1>3, <1>5 DEF Hands, Passed
  <2>2. PICK h \in Gid : h = At(g, 1)[s] /\ config[h].num > 1
    BY <2>1 DEF LeftBy
  <2>3. config[h].num \in Nat /\ 1 \in 0 .. config[g].num
    BY <1>2, <1>5, HandTypes DEF Hands
  <2>4. At(h, 1)[s] = h
    BY <2>2, <2>3, SameAt DEF Hands, Regular
  <2> QED BY <2>2, <2>3, <2>4 DEF Started
<1> QED BY <1>2, <1>4, <1>5

(* Steps outside of the groups' stores: threads, logs, requests.             *)
AsksOn == asked' = asked \/ \E r \in [key : Key, op : Op] : asked' = Append(asked, r)

LEMMA AskedOn ==
  ASSUME OwnersInv, NothingEarly, OwnersInv', UNCHANGED <<latest, executed>>, AsksOn
  PROVE  /\ \A s : Undisturbed(s)
         /\ Len(asked) <= Len(asked') /\ \A r \in 1 .. Len(asked) : asked'[r] = asked[r]
         /\ asked' # <<>> => executed[Len(asked')] <= 1
<1>1. CASE asked' = asked
  BY <1>1, HandTypes DEF NothingEarly, Undisturbed, Current, LatestOf, Remembers
<1>2. ASSUME NEW r \in [key : Key, op : Op], asked' = Append(asked, r)
      PROVE  /\ \A s : Undisturbed(s)
             /\ Len(asked) <= Len(asked') /\ \A i \in 1 .. Len(asked) : asked'[i] = asked[i]
             /\ asked' # <<>> => executed[Len(asked')] <= 1
  <2>1. /\ Len(asked') = Len(asked) + 1 /\ Len(asked) \in Nat
        /\ \A i \in 1 .. Len(asked) : asked'[i] = asked[i]
    BY <1>2, HandTypes, AppendProperties
  <2>2. Len(asked') \in Request
    <3>1. faults' \in Nat /\ Len(asked') + faults' <= MaxEvents
      BY DEF OwnersInv, TypeInv, TypeOK, StoreTypeOK
    <3> QED BY <2>1, <3>1, BoundAssumption DEF Request
  <2>3. executed[Len(asked')] = 0
    BY <2>1, <2>2 DEF NothingEarly
  <2>4. \A s, ids : Remembers(s, ids)'
    BY <2>3 DEF Remembers
  <2>5. \A s : Undisturbed(s)
    BY <2>4 DEF Undisturbed, Current, LatestOf
  <2> QED BY <2>1, <2>3, <2>5
<1> QED BY <1>1, <1>2 DEF AsksOn

LEMMA SettledOnward ==
  ASSUME OwnersInv, UNCHANGED <<config, historyConfigs, torn, hasty>>,
         \A g \in Gid : ownShards[g] \subseteq ownShards'[g]
  PROVE  Onward
BY HandTypes DEF Onward, ConfigAt

Groups == <<config, historyConfigs, ownShards, waitingShards, migratingShards, cleaningShards,
            data, cache, latest, executed, torn, hasty>>

(* A step after which each group has the shards it had, and waits for those  *)
(* that it has not.                                                         *)
LEMMA HandsSettled ==
  ASSUME Hands, OwnersInv', LatestOfKeys', TransitsAlone,
         UNCHANGED <<config, historyConfigs, ownShards, cleaningShards, torn, hasty>>,
         \A g \in Gid, s \in Shard : \/ waitingShards'[g][s] = waitingShards[g][s]
                                     \/ waitingShards'[g][s] = None /\ s \in ownShards[g],
         \A g \in Gid : \A p \in pulls'[g] : p \in pulls[g] \/ PullGood(g, p)',
         \A g \in Gid : \A e \in Sent(g)' :
           e \in Sent(g) \/ (ReplyGood(g, e)' /\ CleanupGood(e)'),
         \A h \in Gid, s \in Shard : \A n : Transit(h, s, n) => Given(h, s, n)' = Given(h, s, n),
         OwnersCurrent', OwnersHave', NothingEarly'
  PROVE  Hands'
<1>1. OwnersInv
  BY DEF Hands
<1>2. Onward
  BY <1>1, SettledOnward
<1>3. Regular'
  BY DEF Hands, Regular, Agreed, ConfigAt
<1>4. \A g \in Gid, s \in Shard : \A n : There(g, s, n)' <=> There(g, s, n)
  BY DEF There, At, ConfigAt
<1>5. Passed'
  BY <1>2, <1>4, PassedKeep DEF Hands
<1>6. NotForgotten'
  BY DEF Hands, NotForgotten, At, ConfigAt
<1>7. AnswersGood'
  BY <1>2, AnswersKeep DEF Hands
<1>8. CleanedThere'
  BY <1>2, CleanedKeep DEF Hands
<1>9. CopiesCurrent'
  <2>1. ASSUME NEW h \in Gid, NEW s \in Shard, NEW n \in 1 .. config'[h].num - 1, Transit(h, s, n)'
        PROVE  n \in 1 .. config[h].num - 1 /\ Given(h, s, n)' = Given(h, s, n)
    <3>1. n \in 1 .. config[h].num - 1
      OBVIOUS
    <3>2. Transit(h, s, n)
      BY <1>2, <2>1, <3>1, TransitBefore
    <3> QED BY <3>1, <3>2
  <2> QED BY <1>2, <2>1, CopiesKeep DEF Hands
<1> QED BY <1>3, <1>5, <1>6, <1>7, <1>8, <1>9 DEF Hands

LEMMA HandsOutside ==
  ASSUME Hands, OwnersInv', UNCHANGED Groups, AsksOn,
         \A g \in Gid : \A p \in pulls'[g] : p \in pulls[g] \/ PullGood(g, p)',
         \A g \in Gid : \A e \in Sent(g)' :
           e \in Sent(g) \/ (ReplyGood(g, e)' /\ CleanupGood(e)')
  PROVE  Hands'
<1>1. UNCHANGED <<config, historyConfigs, ownShards, waitingShards, migratingShards,
                  cleaningShards, data, cache, latest, executed, torn, hasty>>
  BY DEF Groups
<1>2. OwnersInv /\ NothingEarly
  BY DEF Hands
<1>3. Onward
  BY <1>1, <1>2, SettledOnward
<1>4. /\ \A s : Undisturbed(s)
      /\ Len(asked) <= Len(asked') /\ \A r \in 1 .. Len(asked) : asked'[r] = asked[r]
      /\ asked' # <<>> => executed[Len(asked')] <= 1
  BY <1>1, <1>2, AskedOn
<1>5. TransitsAlone
  BY <1>4 DEF TransitsAlone
<1>6. LatestOfKeys'
  BY <1>1 DEF Hands, LatestOfKeys
<1>7. \A h \in Gid, s \in Shard : \A n : Given(h, s, n)' = Given(h, s, n)
  BY <1>1 DEF Given
<1>8. OwnersCurrent'
  <2> SUFFICES ASSUME NEW g \in Gid, NEW s \in ownShards[g]
               PROVE  (\A k \in KeysOf(s) : data[g][k] = latest[k]) /\ Remembers(s, cache[g])'
    BY <1>1 DEF OwnersCurrent
  <2>1. (\A k \in KeysOf(s) : data[g][k] = latest[k]) /\ Remembers(s, cache[g])
    BY DEF Hands, OwnersCurrent
  <2>2. Current(s, LatestOf(s), cache[g])
    BY <2>1 DEF Current
  <2>3. Current(s, LatestOf(s), cache[g])'
    BY <1>1, <1>4, <2>2 DEF Undisturbed, LatestOf
  <2> QED BY <2>1, <2>3 DEF Current
<1>9. OwnersHave'
  BY <1>1 DEF Hands, OwnersHave
<1>10. NothingEarly'
  <2>1. ASSUME NEW s, Started(s) PROVE Started(s)'
    BY <1>3, <2>1, StartedStays
  <2>2. \A k \in Key : latest'[k] # <<>> => Started(Key2Shard(k))'
    BY <1>1, <2>1 DEF Hands, NothingEarly
  <2>3. ASSUME NEW r \in Request, executed[r] > 0
        PROVE  r <= Len(asked') /\ Started(Key2Shard(asked[r].key))'
    <3>1. r <= Len(asked) /\ Started(Key2Shard(asked[r].key))
      BY <2>3 DEF Hands, NothingEarly
    <3>2. r \in 1 .. Len(asked) /\ Len(asked) \in Nat /\ Len(asked') \in Nat
      <4>1. Len(asked) \in Nat /\ Len(asked') \in Nat
        BY <1>2, LenProperties DEF OwnersInv, TypeInv, TypeOK, StoreTypeOK
      <4> QED BY <3>1, <4>1, BoundAssumption DEF Request
    <3>3. asked'[r] = asked[r]
      BY <1>4, <3>2
    <3>4. PICK s : s = Key2Shard(asked[r].key) /\ s = Key2Shard(asked'[r].key)
      BY <3>3
    <3>5. Started(s)'
      BY <2>1, <3>1, <3>4
    <3>6. Started(Key2Shard(asked[r].key))'
      BY <3>4, <3>5
    <3> QED BY <1>4, <3>1, <3>2, <3>6
  <2>4. (asked # <<>> => executed[Len(asked)] <= 1)'
    BY <1>1, <1>4
  <2>5. executed' \in [Request -> Nat] /\ \A r \in Request : executed'[r] = executed[r]
    BY <1>1 DEF Hands, NothingEarly
  <2> QED BY <2>2, <2>3, <2>4, <2>5 DEF NothingEarly
<1> QED BY <1>1, <1>5, <1>6, <1>7, <1>8, <1>9, <1>10, HandsSettled

LEMMA GoodStays ==
  ASSUME UNCHANGED Groups, UNCHANGED asked
  PROVE  /\ \A g, s, a : GoodAnswer(g, s, a)' <=> GoodAnswer(g, s, a)
         /\ \A g, p : PullGood(g, p)' <=> PullGood(g, p)
         /\ \A g, e : ReplyGood(g, e)' <=> ReplyGood(g, e)
         /\ \A e : CleanupGood(e)' <=> CleanupGood(e)
<1>1. UNCHANGED <<config, historyConfigs, ownShards, latest, executed, asked>>
  BY DEF Groups
<1>2. \A g, n : At(g, n)' = At(g, n)
  BY <1>1 DEF At, ConfigAt
<1>3. \A g, s, n : There(g, s, n)' <=> There(g, s, n)
  BY <1>1, <1>2 DEF There
<1>4. \A g, s, n : LeftBy(g, s, n)' <=> LeftBy(g, s, n)
  BY <1>1, <1>2 DEF LeftBy
<1>5. \A g, s, n : Transit(g, s, n)' <=> Transit(g, s, n)
  BY <1>1, <1>2, <1>3 DEF Transit
<1>6. \A s, pairs, ids : Current(s, pairs, ids)' <=> Current(s, pairs, ids)
  BY <1>1 DEF Current, LatestOf, Remembers
<1>7. \A g, s, a : GoodAnswer(g, s, a)' <=> GoodAnswer(g, s, a)
  BY <1>2, <1>4, <1>5, <1>6 DEF GoodAnswer
<1>8. \A g, p : PullGood(g, p)' <=> PullGood(g, p)
  BY <1>2, <1>7 DEF PullGood
<1>9. \A g, e : ReplyGood(g, e)' <=> ReplyGood(g, e)
  BY <1>7 DEF ReplyGood
<1>10. \A e : CleanupGood(e)' <=> CleanupGood(e)
  BY <1>3 DEF CleanupGood
<1> QED BY <1>7, <1>8, <1>9, <1>10

(* A step that starts, answers or ends a thread.                            *)
LEMMA HandsPulled ==
  ASSUME Hands, OwnersInv', UNCHANGED Groups, UNCHANGED <<asked, queue>>,
         \A g \in Gid : \A p \in pulls'[g] : p \in pulls[g] \/ PullGood(g, p)
  PROVE  Hands'
<1>1. \A g \in Gid : \A p \in pulls'[g] : p \in pulls[g] \/ PullGood(g, p)'
  BY GoodStays
<1>2. \A g \in Gid : Sent(g)' = Sent(g)
  BY DEF Sent
<1> QED BY <1>1, <1>2, HandsOutside DEF AsksOn

(* A step that logs an entry and starts no thread.                          *)
LEMMA HandsLogged ==
  ASSUME Hands, OwnersInv', UNCHANGED Groups, AsksOn,
         NEW g \in Gid, NEW e \in Entries, DoLog(g, e), ReplyGood(g, e)', CleanupGood(e)',
         \A h \in Gid : pulls'[h] \subseteq pulls[h]
  PROVE  Hands'
<1>1. queue \in [Gid -> Seq(Entries)]
  BY Around DEF Hands, OwnersInv
<1>2. /\ \A h \in Gid : Sent(h)' \subseteq Sent(h) \union {e}
      /\ \A h \in Gid : h # g => Sent(h)' = Sent(h)
  BY <1>1, LogSent
<1>3. \A h \in Gid : \A f \in Sent(h)' : f \in Sent(h) \/ (ReplyGood(h, f)' /\ CleanupGood(f)')
  BY <1>2
<1> QED BY <1>3, HandsOutside

LEMMA PlainEntry ==
  ASSUME NEW g, NEW e, e.kind \in {"newconfig", "putappend", "shardmigration"}
  PROVE  ReplyGood(g, e)' /\ CleanupGood(e)'
BY DEF ReplyGood, CleanupGood

LEMMA PollHands == ASSUME Hands, OwnersInv', NEW g \in Gid, Poll(g) PROVE Hands'
<1>1. PICK num \in {config[g].num, config[g].num + 1} \cap 1 .. MaxConfig :
        DoLog(g, [kind |-> "newconfig", config |-> Query(num)])
  BY DEF Poll
<1>2. PICK e : e = [kind |-> "newconfig", config |-> Query(num)] /\ DoLog(g, e)
  BY <1>1
<1>3. e \in Entries
  BY <1>2, QueryType DEF Entries, Hands, OwnersInv, TypeInv, TypeOK
<1>4. UNCHANGED Groups /\ AsksOn /\ pulls' = pulls
  BY DEF Poll, Groups, AsksOn, ownVars, takeVars, storeVars, threadVars, historyVars, boundVars
<1>5. ReplyGood(g, e)' /\ CleanupGood(e)'
  BY <1>2, PlainEntry
<1> QED BY <1>2, <1>3, <1>4, <1>5, HandsLogged

LEMMA PullHands == ASSUME Hands, OwnersInv', NEW g \in Gid, Pull(g) PROVE Hands'
<1> DEFINE waiting == {s \in Shard : waitingShards[g][s] # None}
           old(s) == historyConfigs[g][waitingShards[g][s] + 1]
           p(s) == [shard |-> s, from |-> old(s).shards[s], num |-> old(s).num,
                    answer |-> NoAnswer]
<1>1. pulls' = [pulls EXCEPT ![g] = {p(s) : s \in waiting}]
  BY DEF Pull
<1>2. UNCHANGED Groups /\ UNCHANGED <<asked, queue>> /\ TypeInv
  BY DEF Pull, Groups, Hands, OwnersInv, ownVars, takeVars, storeVars, historyVars, boundVars
<1>3. ASSUME NEW s \in waiting PROVE PullGood(g, p(s))
  <2>1. waitingShards[g][s] \in 1 .. config[g].num - 1
    BY <1>2, Numbers
  <2>2. waitingShards[g][s] + 1 \in 1 .. config[g].num /\ waitingShards[g][s] # config[g].num
    BY <1>2, <2>1, Numbers
  <2>3. old(s).num = waitingShards[g][s]
    BY <1>2, <2>1, <2>2, Numbers
  <2>4. NoAnswer.num < 1
    BY DEF NoAnswer, None
  <2>5. At(g, old(s).num) = old(s).shards
    BY <2>2, <2>3 DEF At, ConfigAt
  <2>6. GoodAnswer(g, s, NoAnswer)
    BY <2>4 DEF GoodAnswer, NoAnswer, None
  <2> QED BY <2>5, <2>6 DEF PullGood
<1>4. ASSUME NEW h \in Gid, NEW q \in pulls'[h] PROVE q \in pulls[h] \/ PullGood(h, q)
  <2>1. pulls \in [Gid -> SUBSET Threads]
    BY <1>2, Around
  <2> QED BY <1>1, <1>3, <1>4, <2>1
<1> QED BY <1>2, <1>4, HandsPulled

(* What a group gives of a shard: it gave it up, and it answers after that.  *)
LEMMA GivenGood ==
  ASSUME Hands, NEW g \in Gid, NEW p \in pulls[g], p.from # NoGid, p.from \in Gid,
         ~TooEarly(p.from, p.num)
  PROVE  GoodAnswer(g, p.shard, Given(p.from, p.shard, p.num))
<1>1. PICK h \in Gid, s \in Shard, n \in Int : h = p.from /\ s = p.shard /\ n = p.num
      /\ n \in 1 .. config[g].num - 1
  BY AnswerNumbers DEF Hands
<1>2. h = At(g, n)[s]
  BY <1>1 DEF Hands, AnswersGood, PullGood
<1>3. config[h].num \in Nat /\ config[g].num \in Nat
  BY HandTypes DEF Hands
<1>4. config[h].num > n
  BY <1>1, <1>3 DEF TooEarly
<1>5. PICK a : a = Given(h, s, n)
  OBVIOUS
<1>6. a.num = n
  BY <1>5 DEF Given
<1>7. n \in 1 .. config[h].num
  BY <1>1, <1>3, <1>4
<1>8. Transit(h, s, n) => Current(s, a.data, a.cache)
  BY <1>5, <1>7 DEF Hands, CopiesCurrent
<1>9. LeftBy(g, s, n)
  BY <1>2, <1>4 DEF LeftBy
<1> QED BY <1>1, <1>2, <1>5, <1>6, <1>8, <1>9 DEF GoodAnswer

(* A thread that is answered with what is good for its shard.                *)
LEMMA AnsweredGood ==
  ASSUME Hands, NEW g \in Gid, NEW p \in pulls[g], NEW answer, GoodAnswer(g, p.shard, answer),
         Answered(g, p, answer), NEW h \in Gid, NEW q \in pulls'[h]
  PROVE  q \in pulls[h] \/ PullGood(h, q)
<1>1. pulls \in [Gid -> SUBSET Threads] /\ p \in Threads
  BY Around DEF Hands, OwnersInv
<1>2. PullGood(g, p)
  BY DEF Hands, AnswersGood
<1>3. PICK a : a = [p EXCEPT !.answer = answer]
  OBVIOUS
<1>4. PullGood(g, a)
  <2>1. a.num = p.num /\ a.shard = p.shard /\ a.answer = answer /\ a.from = p.from
    BY <1>1, <1>3 DEF Threads
  <2> QED BY <1>2, <2>1 DEF PullGood
<1>5. pulls' = [pulls EXCEPT ![g] = (@ \ {p}) \union {a}]
  BY <1>3 DEF Answered
<1> QED BY <1>1, <1>4, <1>5

LEMMA EndedGood ==
  ASSUME Hands, NEW g \in Gid, NEW p, Ended(g, p), NEW h \in Gid
  PROVE  pulls'[h] \subseteq pulls[h]
<1>1. pulls \in [Gid -> SUBSET Threads]
  BY Around DEF Hands, OwnersInv
<1> QED BY <1>1 DEF Ended

LEMMA OnShardMigrationHands ==
  ASSUME Hands, OwnersInv', NEW g \in Gid, NEW p \in pulls[g], OnShardMigration(g, p)
  PROVE  Hands'
<1>1. UNCHANGED Groups /\ UNCHANGED <<asked, queue>>
  BY DEF OnShardMigration, Groups, ownVars, takeVars, storeVars, historyVars
<1>2. p.from # NoGid /\ p \in Threads
  BY Around DEF OnShardMigration, Hands, OwnersInv
<1>3. p.from \in Gid
  BY <1>2 DEF Threads
<1>4. PICK given : given = Given(p.from, p.shard, p.num)
  OBVIOUS
<1>5. PICK empty : empty = EmptyAnswer
  OBVIOUS
<1>6. \/ Ended(g, p)
      \/ Answered(g, p, given) /\ GoodAnswer(g, p.shard, given)
      \/ Answered(g, p, empty)
  BY <1>2, <1>3, <1>4, <1>5, GivenGood DEF OnShardMigration
<1>7. GoodAnswer(g, p.shard, empty)
  BY <1>5 DEF GoodAnswer, EmptyAnswer
<1>8. ASSUME NEW h \in Gid, NEW q \in pulls'[h] PROVE q \in pulls[h] \/ PullGood(h, q)
  BY <1>6, <1>7, AnsweredGood, EndedGood
<1> QED BY <1>1, <1>8, HandsPulled

LEMMA PullFailsHands ==
  ASSUME Hands, OwnersInv', NEW g \in Gid, NEW p \in pulls[g], PullFails(g, p)
  PROVE  Hands'
<1>1. UNCHANGED Groups /\ UNCHANGED <<asked, queue>>
  BY DEF PullFails, Groups, ownVars, takeVars, storeVars, historyVars
<1>2. PICK empty : empty = EmptyAnswer
  OBVIOUS
<1>3. Ended(g, p) \/ Answered(g, p, empty)
  BY <1>2 DEF PullFails
<1>4. GoodAnswer(g, p.shard, empty)
  BY <1>2 DEF GoodAnswer, EmptyAnswer
<1>5. ASSUME NEW h \in Gid, NEW q \in pulls'[h] PROVE q \in pulls[h] \/ PullGood(h, q)
  BY <1>3, <1>4, AnsweredGood, EndedGood
<1> QED BY <1>1, <1>5, HandsPulled

LEMMA DoPullHands ==
  ASSUME Hands, OwnersInv', NEW g \in Gid, NEW p \in pulls[g], DoPull(g, p)
  PROVE  Hands'
<1>1. PICK s \in IF p.answer.num = p.num THEN {p.shard} ELSE Shard :
        DoLog(g, [kind |-> IF Wired THEN "shardmigrationreply" ELSE "shardmigration",
                  shard |-> s, answer |-> p.answer])
  BY DEF DoPull
<1>2. PICK e : /\ e = [kind |-> IF Wired THEN "shardmigrationreply" ELSE "shardmigration",
                       shard |-> s, answer |-> p.answer]
               /\ DoLog(g, e)
  BY <1>1
<1>3. p \in Threads /\ AwaitedPull(g, p) /\ PullGood(g, p)
  BY Around DEF Hands, OwnersInv, Awaited, AnswersGood
<1>4. s \in Shard
  BY <1>1, <1>3 DEF Threads
<1>5. e \in Entries
  BY <1>2, <1>3, <1>4 DEF Entries, Threads
<1>6. UNCHANGED Groups /\ UNCHANGED asked /\ Ended(g, p)
  BY DEF DoPull, Groups, ownVars, takeVars, storeVars, historyVars, boundVars
<1>7. e.answer = p.answer /\ e.shard = s
      /\ e.kind \in {"shardmigration", "shardmigrationreply"}
  BY <1>2
<1>8. GoodAnswer(g, s, p.answer)
  <2>1. CASE s = p.shard
    BY <1>3, <2>1 DEF PullGood
  <2>2. CASE s # p.shard
    <3>1. p.answer.num < 1 /\ p.answer.num \in Int
      BY <1>1, <1>3, <2>2, AnswerNumbers DEF AwaitedPull, Hands
    <3> QED BY <3>1 DEF GoodAnswer
  <2> QED BY <2>1, <2>2
<1>9. ReplyGood(g, e)' /\ CleanupGood(e)'
  <2>1. ReplyGood(g, e) /\ CleanupGood(e)
    BY <1>7, <1>8 DEF ReplyGood, CleanupGood
  <2> QED BY <1>6, <2>1, GoodStays
<1>10. \A h \in Gid : pulls'[h] \subseteq pulls[h]
  BY <1>6, EndedGood
<1> QED BY <1>2, <1>5, <1>6, <1>9, <1>10, HandsLogged DEF AsksOn

LEMMA OnShardCleanupHands ==
  ASSUME Hands, OwnersInv', NEW g \in Gid, NEW c \in cleaningShards[g],
         OnShardCleanup(g, c[1], c[2])
  PROVE  Hands'
<1> DEFINE h == historyConfigs[g][c[1] + 1].shards[c[2]]
<1>1. UNCHANGED Groups /\ UNCHANGED <<asked, pulls>>
  BY DEF OnShardCleanup, Groups, ownVars, takeVars, storeVars, historyVars, boundVars
<1>2. c[1] \in Nat /\ c[2] \in Shard /\ h \in Gid
  BY CleanedFrom DEF Hands, OwnersInv
<1>3. CASE DoLog(h, [kind |-> "shardcleanup", num |-> c[1], shard |-> c[2]])
  <2>1. PICK d \in Gid : d = h
    BY <1>2
  <2>2. PICK e : e = [kind |-> "shardcleanup", num |-> c[1], shard |-> c[2]] /\ DoLog(d, e)
    BY <1>3, <2>1
  <2>3. e \in Entries
    BY <1>2, <2>2 DEF Entries
  <2>4. e.kind = "shardcleanup" /\ e.num = c[1] /\ e.shard = c[2]
    BY <2>2
  <2>5. There(g, c[2], c[1] + 1)
    BY DEF Hands, CleanedThere
  <2>6. ReplyGood(d, e) /\ CleanupGood(e)
    BY <2>4, <2>5 DEF ReplyGood, CleanupGood
  <2>7. ReplyGood(d, e)' /\ CleanupGood(e)'
    BY <1>1, <2>6, GoodStays
  <2> QED BY <1>1, <2>2, <2>3, <2>7, HandsLogged DEF AsksOn
<1>4. CASE UNCHANGED queue
  BY <1>1, <1>4, HandsPulled
<1> QED BY <1>3, <1>4 DEF OnShardCleanup

LEMMA OnPutAppendHands ==
  ASSUME Hands, OwnersInv', NEW g \in Gid, NEW r \in Request, NEW num \in Nat, AsksOn,
         OnPutAppend(g, r, num)
  PROVE  Hands'
<1>1. PICK e : e = [kind |-> "putappend", id |-> r, num |-> num] /\ DoLog(g, e)
  BY DEF OnPutAppend
<1>2. e \in Entries
  BY <1>1 DEF Entries
<1>3. UNCHANGED Groups /\ pulls' = pulls
  BY DEF OnPutAppend, Groups, ownVars, takeVars, storeVars, threadVars, historyVars, boundVars
<1>4. ReplyGood(g, e)' /\ CleanupGood(e)'
  BY <1>1, PlainEntry
<1> QED BY <1>1, <1>2, <1>3, <1>4, HandsLogged

LEMMA AskHands ==
  ASSUME Hands, OwnersInv', NEW g \in Gid,
         NEW num \in {config[g].num, config[g].num + 1} \cap 1 .. MaxConfig,
         AskAgain(g, num) \/ \E key \in Key, op \in Op : Ask(g, key, op, num)
  PROVE  Hands'
<1>1. num \in Nat /\ TypeInv
  BY DEF Hands, OwnersInv
<1>2. PICK r \in Request : OnPutAppend(g, r, num)
  BY <1>1, AskedRequest
<1>3. AsksOn
  <2>1. ASSUME NEW key \in Key, NEW op \in Op, Ask(g, key, op, num) PROVE AsksOn
    <3>1. asked' = Append(asked, [key |-> key, op |-> op])
      BY <2>1 DEF Ask
    <3> QED BY <3>1 DEF AsksOn
  <2> QED BY <2>1 DEF AskAgain, AsksOn
<1> QED BY <1>1, <1>2, <1>3, OnPutAppendHands

LEMMA FewerHands ==
  ASSUME Hands, OwnersInv', UNCHANGED Groups, UNCHANGED asked,
         \A h \in Gid : pulls'[h] \subseteq pulls[h] /\ Sent(h)' \subseteq Sent(h)
  PROVE  Hands'
BY HandsOutside DEF AsksOn

LEMMA NewLeaderHands == ASSUME Hands, OwnersInv', NEW g \in Gid, NewLeader(g) PROVE Hands'
<1>1. PICK n \in 0 .. Len(queue[g]) : queue' = [queue EXCEPT ![g] = SubSeq(@, 1, n)]
  BY DEF NewLeader
<1>2. UNCHANGED Groups /\ UNCHANGED asked /\ pulls' = [pulls EXCEPT ![g] = {}]
  BY DEF NewLeader, Groups, ownVars, storeVars, historyVars
<1>3. queue \in [Gid -> Seq(Entries)] /\ pulls \in [Gid -> SUBSET Threads]
  BY Around DEF Hands, OwnersInv
<1>4. \A h \in Gid : Sent(h)' \subseteq Sent(h)
  BY <1>1, <1>3, CutSent
<1> QED BY <1>2, <1>3, <1>4, FewerHands

LEMMA OnApplyHands == ASSUME Hands, OwnersInv', NEW g \in Gid, OnApply(g) PROVE Hands'
<1>1. Applies(g, "shardmigration") /\ UNCHANGED Groups
  BY DEF OnApply, applyVars, Groups, ownVars, storeVars, historyVars
<1>2. \A h \in Gid : pulls'[h] = pulls[h] /\ Sent(h)' \subseteq Sent(h)
  BY <1>1, Applied DEF Hands, OwnersInv
<1>3. UNCHANGED asked
  BY <1>1 DEF Applies
<1> QED BY <1>1, <1>2, <1>3, FewerHands

LEMMA IdleHands ==
  ASSUME Hands, OwnersInv', UNCHANGED Groups, UNCHANGED <<asked, queue, pulls>>
  PROVE  Hands'
BY HandsPulled

(* The steps that are taken outside of the stores.                          *)
OutsideStep ==
  \/ NewConfiguration
  \/ \E g \in Gid :
       \/ Poll(g) \/ Pull(g)
       \/ \E p \in pulls[g] : OnShardMigration(g, p) \/ PullFails(g, p) \/ DoPull(g, p)
       \/ \E c \in cleaningShards[g] : OnShardCleanup(g, c[1], c[2]) \/ DoClean(g, c[1], c[2])
       \/ \E num \in {config[g].num, config[g].num + 1} \cap 1 .. MaxConfig :
            AskAgain(g, num) \/ \E key \in Key, op \in Op : Ask(g, key, op, num)
       \/ OnApply(g) \/ NewLeader(g)
  \/ UNCHANGED vars

LEMMA OutsideHands == ASSUME Hands, OwnersInv', OutsideStep PROVE Hands'
<1>1. CASE NewConfiguration
  BY <1>1, IdleHands DEF NewConfiguration, Groups, ownVars, takeVars, storeVars, threadVars,
                         historyVars, boundVars
<1>2. ASSUME NEW g \in Gid, NEW c \in cleaningShards[g], DoClean(g, c[1], c[2]) PROVE Hands'
  BY <1>2, IdleHands DEF DoClean, Groups, ownVars, storeVars, threadVars, historyVars, boundVars
<1>3. CASE UNCHANGED vars
  BY <1>3, IdleHands DEF vars, Groups, ownVars, takeVars, storeVars, threadVars, historyVars,
                         boundVars
<1>4. ASSUME NEW g \in Gid, NEW c \in cleaningShards[g], OnShardCleanup(g, c[1], c[2])
      PROVE  Hands'
  BY <1>4, OnShardCleanupHands
<1>5. ASSUME NEW g \in Gid,
             NEW num \in {config[g].num, config[g].num + 1} \cap 1 .. MaxConfig,
             AskAgain(g, num) \/ \E key \in Key, op \in Op : Ask(g, key, op, num)
      PROVE  Hands'
  BY <1>5, AskHands
<1>6. ASSUME NEW g \in Gid, NEW p \in pulls[g],
             OnShardMigration(g, p) \/ PullFails(g, p) \/ DoPull(g, p)
      PROVE  Hands'
  BY <1>6, OnShardMigrationHands, PullFailsHands, DoPullHands
<1>7. ASSUME NEW g \in Gid, Poll(g) \/ Pull(g) \/ OnApply(g) \/ NewLeader(g) PROVE Hands'
  BY <1>7, PollHands, PullHands, OnApplyHands, NewLeaderHands
<1> QED BY <1>1, <1>2, <1>3, <1>4, <1>5, <1>6, <1>7 DEF OutsideStep

LEMMA OutsideGroups == ASSUME OutsideStep PROVE UNCHANGED Groups
<1> USE DEF Groups, ownVars, takeVars, storeVars, threadVars, historyVars, boundVars
<1>1. CASE NewConfiguration
  BY <1>1 DEF NewConfiguration
<1>2. ASSUME NEW g \in Gid, Poll(g) \/ Pull(g) PROVE UNCHANGED Groups
  BY <1>2 DEF Poll, Pull
<1>3. ASSUME NEW g \in Gid, NEW p \in pulls[g],
             OnShardMigration(g, p) \/ PullFails(g, p) \/ DoPull(g, p)
      PROVE  UNCHANGED Groups
  BY <1>3 DEF OnShardMigration, PullFails, DoPull
<1>4. ASSUME NEW g \in Gid, NEW c \in cleaningShards[g],
             OnShardCleanup(g, c[1], c[2]) \/ DoClean(g, c[1], c[2])
      PROVE  UNCHANGED Groups
  <2>1. CASE OnShardCleanup(g, c[1], c[2])
    BY <2>1 DEF OnShardCleanup
  <2>2. CASE DoClean(g, c[1], c[2])
    BY <2>2 DEF DoClean
  <2> QED BY <1>4, <2>1, <2>2
<1>5. ASSUME NEW g \in Gid, NEW num,
             AskAgain(g, num) \/ \E key \in Key, op \in Op : Ask(g, key, op, num)
      PROVE  UNCHANGED Groups
  BY <1>5 DEF AskAgain, Ask, OnPutAppend
<1>6. ASSUME NEW g \in Gid, OnApply(g) \/ NewLeader(g) PROVE UNCHANGED Groups
  BY <1>6 DEF OnApply, NewLeader, applyVars
<1>7. CASE UNCHANGED vars
  BY <1>7 DEF vars
<1> QED BY <1>1, <1>2, <1>3, <1>4, <1>5, <1>6, <1>7 DEF OutsideStep

LEMMA OutsideHand == ASSUME HandInv, OwnersInv', OutsideStep PROVE HandInv'
<1>1. UNCHANGED <<config, historyConfigs, ownShards, latest, torn, hasty>>
  BY OutsideGroups DEF Groups
<1>2. Regular' => Regular /\ LatestOfKeys'
  BY <1>1 DEF Regular, Agreed, ConfigAt, LatestOfKeys, HandInv
<1>3. LatestOfKeys'
  BY <1>1 DEF LatestOfKeys, HandInv
<1>4. Regular' => Hands'
  BY <1>2, OutsideHands DEF HandInv
<1> QED BY <1>3, <1>4 DEF HandInv

(* Where an entry that is applied asks for a request.                        *)
LEMMA AskedEntry ==
  ASSUME OwnersInv, NEW g \in Gid, Applies(g, "putappend")
  PROVE  /\ queue[g][1].id \in DOMAIN asked /\ queue[g][1].id \in 1 .. Len(asked)
         /\ queue[g][1].id \in Request
         /\ asked[queue[g][1].id].key \in Key
         /\ UNCHANGED asked
<1>1. queue[g][1].id \in DOMAIN asked /\ UNCHANGED asked
  BY Applied DEF OwnersInv, GoodEntry
<1>2. /\ asked \in Seq([key : Key, op : Op]) /\ DOMAIN asked \subseteq Request
      /\ DOMAIN asked = 1 .. Len(asked)
  BY HandTypes
<1>3. asked[queue[g][1].id] \in [key : Key, op : Op]
  BY <1>1, <1>2, ElementOfSeq, LenProperties
<1> QED BY <1>1, <1>2, <1>3

(* A request that is carried out where its shard is served.                 *)
LEMMA ServedHands ==
  ASSUME Hands, OwnersInv', NEW g \in Gid, OnPutAppendApply(g),
         Serves(g, queue[g][1].num, asked[queue[g][1].id].key), Fresh(g, queue[g][1].id)
  PROVE  Hands'
<1> DEFINE e == queue[g][1]
<1>1. PICK r, key : r = e.id /\ key = asked[e.id].key
  BY Zenon
<1>2. PICK value : value = IF asked[r].op = "put" THEN <<r>> ELSE Append(data[g][key], r)
  BY Zenon
<1>3. /\ data' = [data EXCEPT ![g][key] = value]
      /\ latest' = [latest EXCEPT ![key] = value]
      /\ executed' = [executed EXCEPT ![r] = @ + 1]
      /\ cache' = [cache EXCEPT ![g] = (@ \ {r - 1}) \union {r}]
      /\ UNCHANGED <<ownVars, cleaningShards, torn, hasty>>
      /\ Applies(g, "putappend")
  <2>1. /\ data' = [data EXCEPT ![g][asked[e.id].key] =
             IF asked[e.id].op = "put" THEN <<e.id>> ELSE Append(data[g][asked[e.id].key], e.id)]
        /\ latest' = [latest EXCEPT ![asked[e.id].key] =
             IF asked[e.id].op = "put" THEN <<e.id>> ELSE Append(data[g][asked[e.id].key], e.id)]
        /\ executed' = [executed EXCEPT ![e.id] = @ + 1]
        /\ cache' = [cache EXCEPT ![g] = (@ \ {e.id - 1}) \union {e.id}]
    BY DEF OnPutAppendApply
  <2>2. UNCHANGED <<ownVars, cleaningShards, torn, hasty>> /\ Applies(g, "putappend")
    BY DEF OnPutAppendApply
  <2> QED BY <1>1, <1>2, <2>1, <2>2, Zenon
<1>4. OwnersInv
  BY DEF Hands
<1>5. /\ r \in Request /\ r \in 1 .. Len(asked) /\ key \in Key /\ key = asked[r].key
      /\ asked' = asked
  BY <1>1, <1>3, <1>4, AskedEntry
<1>6. PICK last \in Nat : last = Len(asked) /\ r \in 1 .. last /\ asked # <<>> /\ last \in Request
  <2>1. Len(asked) \in Nat /\ asked \in Seq([key : Key, op : Op])
    BY <1>4, HandTypes
  <2>2. Len(asked) \in DOMAIN asked /\ DOMAIN asked \subseteq Request
    BY <1>4, <1>5, <2>1, HandTypes
  <2>3. asked # <<>>
    BY <1>5, <2>1, EmptySeq
  <2> QED BY <1>5, <2>1, <2>2, <2>3
<1>7. PICK o : o = Key2Shard(key) /\ o \in Shard /\ o \in ownShards[g]
  BY <1>1, <1>4, <1>5, HandTypes DEF Serves
<1>8. r \notin cache[g] /\ r \in Int
  BY <1>1, <1>5 DEF Fresh
<1>9. LatestOfKeys' /\ latest' = [k \in Key |-> latest'[k]] /\ latest'[key] = value
      /\ \A k \in Key : k # key => latest'[k] = latest[k]
  BY <1>3, <1>5 DEF Hands, LatestOfKeys
<1>10. executed \in [Request -> Nat] /\ executed' \in [Request -> Nat]
       /\ executed'[r] = executed[r] + 1
       /\ \A i \in Request : i # r => executed'[i] = executed[i]
  BY <1>3, <1>5 DEF Hands, NothingEarly
<1>11. data \in [Gid -> [Key -> Values]] /\ cache \in [Gid -> SUBSET DOMAIN asked]
  BY <1>4, HandTypes
<1>12. /\ data'[g][key] = value /\ \A k \in Key : k # key => data'[g][k] = data[g][k]
       /\ \A h \in Gid : h # g => data'[h] = data[h] /\ cache'[h] = cache[h]
       /\ cache'[g] = (cache[g] \ {r - 1}) \union {r}
  BY <1>3, <1>5, <1>11
<1>13. ASSUME NEW s, s # o PROVE Undisturbed(s)
  <2>1. \A k \in KeysOf(s) : k \in Key /\ latest'[k] = latest[k]
    BY <1>7, <1>9, <1>13 DEF KeysOf
  <2>2. LatestOf(s)' = LatestOf(s)
    BY <2>1 DEF LatestOf, KeysOf
  <2>3. ASSUME NEW ids, Remembers(s, ids) PROVE Remembers(s, ids)'
    <3>1. CASE last = r
      BY <1>1, <1>5, <1>6, <1>7, <1>13, <3>1 DEF Remembers
    <3>2. CASE last # r
      BY <1>5, <1>6, <1>10, <2>3, <3>2 DEF Remembers
    <3> QED BY <3>1, <3>2
  <2> QED BY <2>2, <2>3 DEF Undisturbed, Current
<1>14. TransitsAlone
  <2>1. ASSUME NEW h \in Gid, NEW s \in Shard, NEW n, Transit(h, s, n) PROVE s # o
    BY <1>7, <2>1, NoTransit
  <2> QED BY <1>13, <2>1 DEF TransitsAlone
<1>15. \A h \in Gid : h # g => o \notin ownShards[h]
  <2>1. ASSUME NEW h \in Gid, o \in ownShards[h] PROVE h = g
    <3>1. config[g].num \in Nat /\ config[h].num \in Nat
      BY <1>4, HandTypes
    <3>2. config[g].num <= config[h].num \/ config[h].num <= config[g].num
      BY <3>1
    <3> QED BY <1>7, <2>1, <3>2, OnlyOwner
  <2> QED BY <2>1
<1>16. ASSUME NEW h \in Gid, last \in cache[h] PROVE last \in cache'[h]
  BY <1>5, <1>6, <1>8, <1>12, <1>16
<1>17. OwnersCurrent'
  <2> SUFFICES ASSUME NEW h \in Gid, NEW s \in ownShards[h]
               PROVE  /\ \A k \in KeysOf(s) : data'[h][k] = latest'[k]
                      /\ Remembers(s, cache[h])'
    BY <1>3 DEF OwnersCurrent, ownVars
  <2>1. (\A k \in KeysOf(s) : data[h][k] = latest[k]) /\ Remembers(s, cache[h])
    BY DEF Hands, OwnersCurrent
  <2>2. \A k \in KeysOf(s) : data'[h][k] = latest'[k]
    <3>1. ASSUME NEW k \in KeysOf(s) PROVE data'[h][k] = latest'[k]
      <4>1. k \in Key /\ Key2Shard(k) = s /\ data[h][k] = latest[k]
        BY <2>1 DEF KeysOf
      <4>2. k = key => h = g
        BY <1>7, <1>15, <4>1
      <4> QED BY <1>9, <1>12, <4>1, <4>2
    <3> QED BY <3>1
  <2>3. Remembers(s, cache[h])'
    <3>1. ASSUME executed'[last] > 0, Key2Shard(asked[last].key) = s PROVE last \in cache'[h]
      <4>1. CASE last = r
        <5>1. h = g
          BY <1>5, <1>7, <1>15, <3>1, <4>1
        <5> QED BY <1>12, <4>1, <5>1
      <4>2. CASE last # r
        <5>1. executed[last] > 0
          BY <1>6, <1>10, <3>1, <4>2
        <5>2. last \in cache[h]
          BY <1>6, <2>1, <3>1, <5>1 DEF Remembers
        <5> QED BY <1>16, <5>2
      <4> QED BY <4>1, <4>2
    <3> QED BY <1>5, <1>6, <3>1 DEF Remembers
  <2> QED BY <2>2, <2>3
<1>18. OwnersHave'
  BY <1>3, <1>7, <1>12 DEF Hands, OwnersHave, ownVars
<1>19. NothingEarly'
  <2>1. \A s : Started(s)' <=> Started(s)
    BY <1>3 DEF Started, At, ConfigAt, ownVars
  <2>2. Started(o)
    BY <1>7, OwnersStarted
  <2>3. \A k \in Key : latest'[k] # <<>> => Started(Key2Shard(k))'
    BY <1>7, <1>9, <2>1, <2>2 DEF Hands, NothingEarly
  <2>4. ASSUME NEW i \in Request, executed'[i] > 0
        PROVE  i <= Len(asked) /\ Started(Key2Shard(asked[i].key))
    <3>1. CASE i = r
      BY <1>5, <1>6, <1>7, <2>2, <3>1
    <3>2. CASE i # r
      BY <1>10, <2>4, <3>2 DEF Hands, NothingEarly
    <3> QED BY <3>1, <3>2
  <2>5. executed'[last] <= 1
    <3>1. CASE last = r
      <4>1. Remembers(o, cache[g])
        BY <1>7 DEF Hands, OwnersCurrent
      <4>2. ~ (executed[last] > 0)
        BY <1>5, <1>6, <1>7, <1>8, <3>1, <4>1 DEF Remembers
      <4> QED BY <1>6, <1>10, <3>1, <4>2
    <3>2. CASE last # r
      BY <1>6, <1>10, <3>2 DEF Hands, NothingEarly
    <3> QED BY <3>1, <3>2
  <2> QED BY <1>5, <1>6, <1>10, <2>1, <2>3, <2>4, <2>5 DEF NothingEarly
<1>20. \A h \in Gid : pulls'[h] = pulls[h] /\ Sent(h)' \subseteq Sent(h)
  BY <1>3, <1>4, Applied DEF OwnersInv
<1>21. \A h \in Gid, s \in Shard : \A n : Given(h, s, n)' = Given(h, s, n)
  BY <1>3 DEF Given, ownVars
<1>22. UNCHANGED <<config, historyConfigs, ownShards, waitingShards, cleaningShards, torn, hasty>>
  BY <1>3 DEF ownVars
<1> QED BY <1>9, <1>14, <1>17, <1>18, <1>19, <1>20, <1>21, <1>22, HandsSettled

(* One that is refused is remembered all the same.                          *)
LEMMA RefusedHands ==
  ASSUME Hands, OwnersInv', NEW g \in Gid, OnPutAppendApply(g),
         UNCHANGED <<data, historyVars>>
  PROVE  Hands'
<1>1. PICK r : r = queue[g][1].id
  OBVIOUS
<1>2. /\ cache' = [cache EXCEPT ![g] = (@ \ {r - 1}) \union {r}]
      /\ UNCHANGED <<ownVars, cleaningShards, torn, hasty>> /\ Applies(g, "putappend")
      /\ UNCHANGED <<data, executed, latest>>
  BY <1>1 DEF OnPutAppendApply, historyVars
<1>3. OwnersInv
  BY DEF Hands
<1>4. r \in 1 .. Len(asked) /\ asked' = asked /\ Len(asked) \in Nat
  BY <1>1, <1>2, <1>3, AskedEntry, HandTypes
<1>5. UNCHANGED <<config, historyConfigs, ownShards, waitingShards, migratingShards,
                  cleaningShards, torn, hasty>>
  BY <1>2 DEF ownVars
<1>6. ASSUME NEW h \in Gid, Len(asked) \in cache[h] PROVE Len(asked) \in cache'[h]
  <2>1. cache'[h] = IF h = g THEN (cache[h] \ {r - 1}) \union {r} ELSE cache[h]
    BY <1>2, <1>3, HandTypes
  <2>2. Len(asked) # r - 1
    BY <1>4
  <2> QED BY <1>6, <2>1, <2>2
<1>7. OwnersCurrent'
  BY <1>2, <1>4, <1>5, <1>6 DEF Hands, OwnersCurrent, Remembers
<1>8. OwnersHave'
  BY <1>2, <1>5 DEF Hands, OwnersHave
<1>9. NothingEarly'
  BY <1>2, <1>4, <1>5 DEF Hands, NothingEarly, Started, At, ConfigAt
<1>10. TransitsAlone
  BY <1>2, <1>4 DEF TransitsAlone, Undisturbed, Current, LatestOf, Remembers
<1>11. \A h \in Gid : pulls'[h] = pulls[h] /\ Sent(h)' \subseteq Sent(h)
  BY <1>2, <1>3, Applied DEF OwnersInv
<1>12. \A h \in Gid, s \in Shard : \A n : Given(h, s, n)' = Given(h, s, n)
  BY <1>5 DEF Given
<1>13. LatestOfKeys'
  BY <1>2 DEF Hands, LatestOfKeys
<1> QED BY <1>5, <1>7, <1>8, <1>9, <1>10, <1>11, <1>12, <1>13, HandsSettled

LEMMA OnPutAppendApplyHand ==
  ASSUME HandInv, OwnersInv', NEW g \in Gid, OnPutAppendApply(g) PROVE HandInv'
<1>1. UNCHANGED <<config, historyConfigs, torn, hasty>>
  BY DEF OnPutAppendApply, ownVars
<1>2. Regular' => Hands
  BY <1>1 DEF Regular, Agreed, ConfigAt, HandInv
<1>3. Regular' => Hands'
  BY <1>2, ServedHands, RefusedHands DEF OnPutAppendApply
<1>4. LatestOfKeys'
  BY DEF OnPutAppendApply, LatestOfKeys, HandInv, historyVars
<1> QED BY <1>3, <1>4 DEF HandInv

(* A callback that is not for a request leaves everything of a shard alone.  *)
LEMMA AllUndisturbed ==
  ASSUME UNCHANGED <<latest, executed, asked>>
  PROVE  TransitsAlone /\ \A s : Undisturbed(s)
BY DEF TransitsAlone, Undisturbed, Current, LatestOf, Remembers

LEMMA NothingEarlyStays ==
  ASSUME NothingEarly, UNCHANGED <<latest, executed, asked, config, historyConfigs>>
  PROVE  NothingEarly'
BY DEF NothingEarly, Started, At, ConfigAt

(* A copy is removed when the shard is where it was to go.                  *)
LEMMA OnShardCleanupApplyHands ==
  ASSUME Hands, OwnersInv', NEW g \in Gid, OnShardCleanupApply(g)
  PROVE  Hands'
<1>1. PICK e : e = queue[g][1]
  OBVIOUS
<1>2. /\ Applies(g, "shardcleanup")
      /\ migratingShards' = [migratingShards EXCEPT ![g] =
           {x \in @ : ~(x.num = e.num /\ x.shard = e.shard)}]
      /\ UNCHANGED <<config, historyConfigs, ownShards, waitingShards, cleaningShards, data, cache,
                     executed, latest, torn, hasty>>
  BY <1>1 DEF OnShardCleanupApply, storeVars, historyVars
<1>3. e \in Sent(g) /\ e.kind = "shardcleanup" /\ UNCHANGED asked
      /\ \A h \in Gid : pulls'[h] = pulls[h] /\ Sent(h)' \subseteq Sent(h)
  BY <1>1, <1>2, Applied DEF Hands, OwnersInv
<1>4. PICK d \in Gid : There(d, e.shard, e.num + 1)
  BY <1>3 DEF Hands, CleanedThere, CleanupGood
<1>5. ASSUME NEW h \in Gid, NEW s \in Shard, NEW n, Transit(h, s, n)
      PROVE  Given(h, s, n)' = Given(h, s, n)
  <2>1. ~ (s = e.shard /\ n = e.num)
    BY <1>4, <1>5 DEF Transit
  <2>2. migratingShards'[h] = IF h = g
          THEN {x \in migratingShards[g] : ~(x.num = e.num /\ x.shard = e.shard)}
          ELSE migratingShards[h]
    BY <1>2, HandTypes DEF Hands
  <2>3. {x \in migratingShards'[h] : x.num = n /\ x.shard = s}
          = {x \in migratingShards[h] : x.num = n /\ x.shard = s}
    BY <2>1, <2>2
  <2> QED BY <2>3, Zenon DEF Given
<1>6. TransitsAlone
  BY <1>2, <1>3, AllUndisturbed
<1>7. OwnersCurrent' /\ OwnersHave' /\ LatestOfKeys'
  BY <1>2, <1>3 DEF Hands, OwnersCurrent, OwnersHave, Remembers, LatestOfKeys
<1>8. NothingEarly'
  BY <1>2, <1>3, NothingEarlyStays DEF Hands
<1> QED BY <1>2, <1>3, <1>5, <1>6, <1>7, <1>8, HandsSettled

(* An answer that is taken is the latest of the shard, which nobody has.     *)
LEMMA TakenCurrent ==
  ASSUME Hands, NEW g \in Gid, NEW e \in Sent(g), e.kind = "shardmigrationreply",
         Recent(g, e.answer.num), e.shard \notin ownShards[g],
         NEW n, n = e.answer.num, NEW s, s = e.shard
  PROVE  /\ s \in Shard /\ n \in Nat \ {0} /\ config[g].num = n + 1
         /\ config[g].shards[s] = g /\ Current(s, e.answer.data, e.answer.cache)
         /\ \A m \in 1 .. n : LeftBy(g, s, m)
<1>1. /\ OwnersInv /\ Agreed /\ config[g].num \in Nat /\ s \in Shard /\ n \in Int
  BY HandTypes, AnswerNumbers DEF Hands, Regular
<1>2. config[g].num >= 2
  BY DEF Hands, OwnersInv, TypeInv, Known, GoodEntry
<1>3. n \in Nat \ {0} /\ config[g].num = n + 1
  BY <1>1, <1>2 DEF Recent
<1>4. At(g, n + 1)[s] = g
  BY <1>1, <1>3, AnswerNumbers
<1>5. config[g].shards[s] = g
  BY <1>3, <1>4 DEF At, ConfigAt
<1>6. GoodAnswer(g, s, e.answer)
  BY DEF Hands, AnswersGood, ReplyGood
<1>7. LeftBy(g, s, n) /\ (Transit(At(g, n)[s], s, n) => Current(s, e.answer.data, e.answer.cache))
  BY <1>3, <1>6 DEF GoodAnswer
<1>8. PICK o \in Gid : o = At(g, n)[s] /\ config[o].num > n /\ config[o].num \in Nat
  BY <1>7, HandTypes DEF LeftBy, Hands
<1>9. n \in 0 .. config[g].num /\ n <= config[o].num /\ n \in 1 .. config[o].num
      /\ n \in 1 .. config[o].num - 1
  BY <1>3, <1>8
<1>10. At(o, n)[s] = o
  BY <1>1, <1>8, <1>9, SameAt
<1>11. ASSUME NEW d \in Gid, There(d, s, n + 1) PROVE FALSE
  <2>1. n + 1 \in 0 .. config[g].num /\ n + 1 <= config[d].num /\ At(d, n + 1)[s] = d
    BY <1>3, <1>11 DEF There
  <2>2. At(d, n + 1)[s] = g
    BY <1>1, <1>4, <2>1, SameAt
  <2> QED BY <1>3, <1>11, <2>1, <2>2 DEF There
<1>12. Transit(o, s, n)
  BY <1>9, <1>10, <1>11 DEF Transit
<1>13. Current(s, e.answer.data, e.answer.cache)
  BY <1>7, <1>8, <1>12
<1>14. ASSUME NEW m \in 1 .. n PROVE LeftBy(g, s, m)
  <2>1. CASE m = n
    BY <1>7, <2>1
  <2>2. CASE m # n
    <3>1. There(o, s, n)
      BY <1>8, <1>9, <1>10 DEF There
    <3>2. m \in 1 .. n - 1 /\ m \in 0 .. config[o].num /\ m <= config[g].num
      BY <1>1, <1>3, <1>8, <1>9, <2>2
    <3>3. LeftBy(o, s, m)
      BY <1>1, <1>9, <3>1, <3>2 DEF Hands, Passed
    <3>4. At(o, m) = At(g, m)
      BY <1>1, <3>2, SameAt
    <3> QED BY <3>3, <3>4 DEF LeftBy
  <2> QED BY <2>1, <2>2
<1> QED BY <1>1, <1>3, <1>5, <1>13, <1>14

(* What is installed are the latest of the shard's keys.                    *)
Installed(pairs, k, old) ==
  IF \E d \in pairs : d[1] = k THEN (CHOOSE d \in pairs : d[1] = k)[2] ELSE old

LEMMA InstalledLatest ==
  ASSUME NEW s, NEW pairs, pairs = LatestOf(s), NEW old, NEW k \in Key,
         Key2Shard(k) = s => old = <<>>
  PROVE  /\ Key2Shard(k) = s => Installed(pairs, k, old) = latest[k]
         /\ Key2Shard(k) # s => Installed(pairs, k, old) = old
<1>1. ASSUME NEW d \in pairs, d[1] = k
      PROVE  Key2Shard(k) = s /\ d[2] = latest[k] /\ latest[k] # <<>>
  BY <1>1 DEF LatestOf, KeysOf
<1>2. ASSUME Key2Shard(k) = s, latest[k] # <<>> PROVE \E d \in pairs : d[1] = k
  <2>1. <<k, latest[k]>> \in pairs
    BY <1>2 DEF LatestOf, KeysOf
  <2> QED BY <2>1
<1>3. CASE \E d \in pairs : d[1] = k
  <2>1. PICK c : c = CHOOSE d \in pairs : d[1] = k
    OBVIOUS
  <2>2. c \in pairs /\ c[1] = k
    BY <1>3, <2>1
  <2>3. Installed(pairs, k, old) = c[2]
    BY <1>3, <2>1, Zenon DEF Installed
  <2> QED BY <1>1, <2>2, <2>3
<1>4. CASE ~ \E d \in pairs : d[1] = k
  BY <1>2, <1>4 DEF Installed
<1> QED BY <1>3, <1>4

LEMMA InstallHands ==
  ASSUME Hands, OwnersInv', NEW g \in Gid, OnShardMigrationReplyApply(g),
         Recent(g, queue[g][1].answer.num), queue[g][1].shard \notin ownShards[g]
  PROVE  Hands'
<1>1. PICK e : e = queue[g][1]
  OBVIOUS
<1>2. PICK s : s = e.shard
  OBVIOUS
<1>3. PICK a : a = e.answer
  OBVIOUS
<1>4. PICK n : n = a.num
  OBVIOUS
<1>5. /\ Applies(g, "shardmigrationreply")
      /\ waitingShards' = [waitingShards EXCEPT ![g][s] = None]
      /\ cleaningShards' = [cleaningShards EXCEPT ![g] = @ \union {<<n, s>>}]
      /\ ownShards' = [ownShards EXCEPT ![g] = @ \union {s}]
      /\ data' = [data EXCEPT ![g] = [k \in Key |->
           IF \E d \in a.data : d[1] = k
           THEN (CHOOSE d \in a.data : d[1] = k)[2] ELSE @[k]]]
      /\ cache' = [cache EXCEPT ![g] = @ \union a.cache]
      /\ UNCHANGED <<config, historyConfigs, migratingShards, executed, latest, torn, hasty>>
  BY <1>1, <1>2, <1>3, <1>4, Zenon DEF OnShardMigrationReplyApply, historyVars
<1>6. e \in Sent(g) /\ e.kind = "shardmigrationreply" /\ asked' = asked
      /\ \A h \in Gid : pulls'[h] = pulls[h] /\ Sent(h)' \subseteq Sent(h)
  BY <1>1, <1>5, Applied DEF Hands, OwnersInv
<1>7. /\ s \in Shard /\ n \in Nat \ {0} /\ config[g].num = n + 1
      /\ config[g].shards[s] = g /\ Current(s, a.data, a.cache)
      /\ \A m \in 1 .. n : LeftBy(g, s, m)
  BY <1>1, <1>2, <1>3, <1>4, <1>6, TakenCurrent
<1>8. s \notin ownShards[g]
  BY <1>1, <1>2
<1>9. PICK D : D = a.data
  OBVIOUS
<1>10. PICK C : C = a.cache
  OBVIOUS
<1>11. D = LatestOf(s) /\ Remembers(s, C)
  BY <1>7, <1>9, <1>10 DEF Current
<1>12. /\ \A h \in Gid : ownShards'[h] = IF h = g THEN ownShards[g] \union {s} ELSE ownShards[h]
       /\ \A h \in Gid, t \in Shard :
            waitingShards'[h][t] = IF h = g /\ t = s THEN None ELSE waitingShards[h][t]
       /\ \A h \in Gid : cleaningShards'[h] \subseteq cleaningShards[h] \union {<<n, s>>}
       /\ \A h \in Gid : h # g => cleaningShards'[h] = cleaningShards[h]
       /\ \A h \in Gid : cache'[h] = IF h = g THEN cache[g] \union C ELSE cache[h]
  BY <1>5, <1>7, <1>10, HandTypes DEF Hands
<1>13. \A h \in Gid : h # g => data'[h] = data[h]
  BY <1>5, HandTypes DEF Hands
<1>14. \A k \in Key : data'[g][k] = Installed(D, k, data[g][k])
  <2>1. data \in [Gid -> [Key -> Values]]
    BY HandTypes DEF Hands
  <2>2. PICK m : m = [k \in Key |-> Installed(D, k, data[g][k])]
    OBVIOUS
  <2>3. data' = [data EXCEPT ![g] = m]
    BY <1>5, <1>9, <2>2, Zenon DEF Installed
  <2>4. data'[g] = m
    BY <2>1, <2>3
  <2> QED BY <2>2, <2>4
<1>15. ASSUME NEW k \in Key
       PROVE  /\ Key2Shard(k) = s => data'[g][k] = latest[k]
              /\ Key2Shard(k) # s => data'[g][k] = data[g][k]
  <2>1. Key2Shard(k) = s => data[g][k] = <<>>
    BY <1>8 DEF Hands, OwnersHave
  <2>2. PICK old : old = data[g][k]
    OBVIOUS
  <2>3. /\ Key2Shard(k) = s => Installed(D, k, old) = latest[k]
        /\ Key2Shard(k) # s => Installed(D, k, old) = old
    BY <1>11, <2>1, <2>2, InstalledLatest
  <2> QED BY <1>14, <2>2, <2>3
<1>16. /\ OwnersInv /\ Regular /\ Passed /\ NotForgotten /\ AnswersGood /\ CleanedThere
       /\ CopiesCurrent /\ OwnersCurrent /\ OwnersHave /\ NothingEarly
  BY DEF Hands
<1>17. Onward
  BY <1>5, <1>12, <1>16, SettledOnward
<1>18. TransitsAlone /\ \A t : Undisturbed(t)
  BY <1>5, <1>6, AllUndisturbed
<1>19. \A h, i : At(h, i)' = At(h, i)
  BY <1>5 DEF At, ConfigAt
<1>20. Regular' /\ LatestOfKeys'
  BY <1>5 DEF Hands, Regular, Agreed, ConfigAt, LatestOfKeys
<1>21. There(g, s, n + 1)'
  <2>1. At(g, n + 1)[s] = g
    BY <1>7 DEF At, ConfigAt
  <2> QED BY <1>5, <1>7, <1>12, <1>19, <2>1 DEF There
<1>22. Passed'
  <2>1. ASSUME NEW h \in Gid, NEW t \in Shard, NEW i \in 1 .. config'[h].num, There(h, t, i)'
        PROVE  (i <= config[h].num /\ There(h, t, i)) \/ \A m \in 1 .. i - 1 : LeftBy(h, t, m)'
    <3>1. CASE h = g /\ t = s /\ i = n + 1
      <4>1. \A m \in 1 .. n : LeftBy(g, s, m)'
        BY <1>5, <1>7, <1>19 DEF LeftBy
      <4> QED BY <1>7, <3>1, <4>1
    <3>2. CASE ~ (h = g /\ t = s /\ i = n + 1)
      BY <1>5, <1>7, <1>12, <1>19, <2>1, <3>2 DEF There
    <3> QED BY <3>1, <3>2
  <2> QED BY <1>16, <1>17, <2>1, PassedKeep
<1>23. NotForgotten'
  BY <1>5, <1>12, <1>16, <1>19 DEF NotForgotten
<1>24. AnswersGood'
  BY <1>6, <1>16, <1>17, <1>18, AnswersKeep
<1>25. CleanedThere'
  <2>1. ASSUME NEW h \in Gid, NEW c \in cleaningShards'[h]
        PROVE  c \in cleaningShards[h] \/ There(h, c[2], c[1] + 1)'
    BY <1>12, <1>21, <2>1
  <2> QED BY <1>6, <1>16, <1>17, <2>1, CleanedKeep
<1>26. CopiesCurrent'
  <2>1. \A h \in Gid, t \in Shard : \A i \in 1 .. config'[h].num - 1 :
          i \in 1 .. config[h].num - 1 /\ Given(h, t, i)' = Given(h, t, i)
    BY <1>5 DEF Given
  <2> QED BY <1>16, <1>17, <1>18, <2>1, CopiesKeep
<1>27. OwnersCurrent'
  <2> SUFFICES ASSUME NEW h \in Gid, NEW t \in ownShards'[h]
               PROVE  /\ \A k \in KeysOf(t) : data'[h][k] = latest[k]
                      /\ Remembers(t, cache'[h])
    <3>1. \A t, ids : Remembers(t, ids) <=> Remembers(t, ids)'
      BY <1>5, <1>6 DEF Remembers
    <3>2. latest' = latest
      BY <1>5
    <3> QED BY <3>1, <3>2 DEF OwnersCurrent
  <2>1. CASE h = g /\ t = s
    <3>1. \A k \in KeysOf(t) : data'[h][k] = latest[k]
      BY <1>15, <2>1 DEF KeysOf
    <3>2. Remembers(t, cache'[h])
      BY <1>11, <1>12, <2>1 DEF Remembers
    <3> QED BY <3>1, <3>2
  <2>2. CASE ~ (h = g /\ t = s)
    <3>1. t \in ownShards[h]
      BY <1>12, <2>2
    <3>2. (\A k \in KeysOf(t) : data[h][k] = latest[k]) /\ Remembers(t, cache[h])
      BY <1>16, <3>1 DEF OwnersCurrent
    <3>3. ASSUME NEW k \in KeysOf(t) PROVE data'[h][k] = latest[k]
      <4>1. k \in Key /\ Key2Shard(k) = t /\ data[h][k] = latest[k]
        BY <3>2 DEF KeysOf
      <4> QED BY <1>13, <1>15, <2>2, <4>1
    <3>4. Remembers(t, cache'[h])
      BY <1>12, <3>2 DEF Remembers
    <3> QED BY <3>3, <3>4
  <2> QED BY <2>1, <2>2
<1>28. OwnersHave'
  <2>1. ASSUME NEW h \in Gid, NEW k \in Key, data'[h][k] # <<>>
        PROVE  Key2Shard(k) \in ownShards'[h]
    <3>1. CASE h = g /\ Key2Shard(k) = s
      BY <1>12, <3>1
    <3>2. CASE ~ (h = g /\ Key2Shard(k) = s)
      <4>1. data[h][k] # <<>>
        BY <1>13, <1>15, <2>1, <3>2
      <4> QED BY <1>12, <1>16, <4>1 DEF OwnersHave
    <3> QED BY <3>1, <3>2
  <2> QED BY <2>1 DEF OwnersHave
<1>29. NothingEarly'
  BY <1>5, <1>6, <1>16, NothingEarlyStays
<1> QED BY <1>20, <1>22, <1>23, <1>24, <1>25, <1>26, <1>27, <1>28, <1>29 DEF Hands

(* An answer that is not taken ends the wait for a shard that is there.      *)
LEMMA PassedOverHands ==
  ASSUME Hands, OwnersInv', NEW g \in Gid, OnShardMigrationReplyApply(g),
         ~ (Recent(g, queue[g][1].answer.num) /\ queue[g][1].shard \notin ownShards[g])
  PROVE  Hands'
<1>1. PICK e : e = queue[g][1]
  OBVIOUS
<1>2. /\ Applies(g, "shardmigrationreply")
      /\ waitingShards' = IF Recent(g, e.answer.num)
                          THEN [waitingShards EXCEPT ![g][e.shard] = None] ELSE waitingShards
      /\ UNCHANGED <<config, historyConfigs, ownShards, migratingShards, cleaningShards, data, cache,
                     executed, latest, torn, hasty>>
  BY <1>1 DEF OnShardMigrationReplyApply, historyVars, storeVars
<1>3. /\ UNCHANGED asked
      /\ \A h \in Gid : pulls'[h] = pulls[h] /\ Sent(h)' \subseteq Sent(h)
  BY <1>2, Applied DEF Hands, OwnersInv
<1>4. \A h \in Gid, s \in Shard : \/ waitingShards'[h][s] = waitingShards[h][s]
                                  \/ waitingShards'[h][s] = None /\ s \in ownShards[h]
  BY <1>1, <1>2, HandTypes DEF Hands
<1>5. TransitsAlone
  BY <1>2, <1>3, AllUndisturbed
<1>6. OwnersCurrent' /\ OwnersHave' /\ LatestOfKeys'
  BY <1>2, <1>3 DEF Hands, OwnersCurrent, OwnersHave, Remembers, LatestOfKeys
<1>7. NothingEarly'
  BY <1>2, <1>3, NothingEarlyStays DEF Hands
<1>8. \A h \in Gid, s \in Shard : \A n : Given(h, s, n)' = Given(h, s, n)
  BY <1>2 DEF Given
<1> QED BY <1>2, <1>3, <1>4, <1>5, <1>6, <1>7, <1>8, HandsSettled

LEMMA TakeOverHand ==
  ASSUME HandInv, OwnersInv', NEW g \in Gid,
         OnShardMigrationReplyApply(g) \/ OnShardCleanupApply(g)
  PROVE  HandInv'
<1>1. UNCHANGED <<config, historyConfigs, latest, torn, hasty>>
  BY DEF OnShardMigrationReplyApply, OnShardCleanupApply, historyVars
<1>2. LatestOfKeys' /\ (Regular' => Hands)
  BY <1>1 DEF Regular, Agreed, ConfigAt, HandInv, LatestOfKeys
<1>3. Regular' => Hands'
  BY <1>2, InstallHands, PassedOverHands, OnShardCleanupApplyHands
<1> QED BY <1>2, <1>3 DEF HandInv

(* A configuration that is taken with every shard given up whole.           *)
Lost(g, new) == ownShards[g] \ Kept(g, new)
Full(g, s) == {k \in KeysOf(s) : data[g][k] # <<>>}
Whole(g, s) == GivenUp(g, config[g].num, s, Full(g, s), cache[g] \cap Ids(KeysOf(s)))
TakenOn(g, new) ==
  /\ config' = [config EXCEPT ![g] = new]
  /\ historyConfigs' = [historyConfigs EXCEPT ![g] = Append(@, config[g])]
  /\ \A h \in Gid : h # g =>
       /\ config'[h] = config[h] /\ ownShards'[h] = ownShards[h]
       /\ waitingShards'[h] = waitingShards[h] /\ migratingShards'[h] = migratingShards[h]
       /\ data'[h] = data[h] /\ cache'[h] = cache[h]
  /\ config'[g] = new
  /\ ownShards'[g] = Kept(g, new)
  /\ \A s \in Shard : waitingShards'[g][s] =
       IF s \in Mine(g, new) \ Kept(g, new) THEN config[g].num ELSE waitingShards[g][s]
  /\ migratingShards'[g] = migratingShards[g] \union {Whole(g, s) : s \in Lost(g, new)}
  /\ \A k \in Key : data'[g][k] = IF Key2Shard(k) \in Lost(g, new) THEN <<>> ELSE data[g][k]
  /\ cache'[g] = cache[g] \ UNION {Ids(KeysOf(s)) : s \in Lost(g, new)}

LEMMA TakenWhole ==
  ASSUME OwnersInv, NEW g \in Gid, NEW new \in Configs, ApplyNewConf(g, new), ~torn'
  PROVE  TakenOn(g, new)
<1> DEFINE kept == Kept(g, new)
           lost == ownShards[g] \ kept
<1>1. /\ config' = [config EXCEPT ![g] = new]
      /\ historyConfigs' = [historyConfigs EXCEPT ![g] = Append(@, config[g])]
      /\ ownShards' = [ownShards EXCEPT ![g] = kept]
      /\ waitingShards' = [waitingShards EXCEPT ![g] =
           [s \in Shard |-> IF s \in Mine(g, new) \ kept THEN config[g].num ELSE @[s]]]
  BY DEF ApplyNewConf
<1>2. PICK keys \in [lost -> SUBSET Key], ids \in [lost -> SUBSET DOMAIN asked] :
        /\ \A s \in lost : keys[s] \in Walks({k \in KeysOf(s) : data[g][k] # <<>>})
        /\ migratingShards' = [migratingShards EXCEPT ![g] =
             @ \union {GivenUp(g, config[g].num, s, keys[s], ids[s]) : s \in lost}]
        /\ data' = [data EXCEPT ![g] =
             [k \in Key |-> IF \E s \in lost : k \in keys[s] THEN <<>> ELSE @[k]]]
        /\ cache' = [cache EXCEPT ![g] = @ \ UNION {ids[s] : s \in lost}]
        /\ torn' = \/ torn
                   \/ \E s \in lost : \/ ids[s] # cache[g] \cap Ids(KeysOf(s))
                                      \/ \E k \in KeysOf(s) \ keys[s] : data[g][k] # <<>>
  BY DEF ApplyNewConf
<1>3. /\ ownShards \in [Gid -> SUBSET Shard] /\ migratingShards \in [Gid -> SUBSET Copies]
      /\ waitingShards \in [Gid -> [Shard -> Nat \union {None}]]
      /\ data \in [Gid -> [Key -> Values]] /\ config \in [Gid -> Configs]
      /\ cache \in [Gid -> SUBSET DOMAIN asked]
  BY HandTypes
<1> HIDE DEF kept
<1>4. ASSUME NEW s \in lost
      PROVE  keys[s] = Full(g, s) /\ ids[s] = cache[g] \cap Ids(KeysOf(s))
  <2>1. keys[s] \subseteq Full(g, s)
    BY <1>2 DEF Walks, Full
  <2>2. Full(g, s) \subseteq keys[s]
    BY <1>2 DEF Full
  <2> QED BY <1>2, <2>1, <2>2
<1>5. {GivenUp(g, config[g].num, s, keys[s], ids[s]) : s \in lost} = {Whole(g, s) : s \in lost}
  BY <1>4, Zenon DEF Whole
<1>6. UNION {ids[s] : s \in lost} = cache[g] \cap UNION {Ids(KeysOf(s)) : s \in lost}
  BY <1>4
<1>7. ASSUME NEW k \in Key
      PROVE  data'[g][k] = IF Key2Shard(k) \in lost THEN <<>> ELSE data[g][k]
  <2>1. data'[g][k] = IF \E s \in lost : k \in keys[s] THEN <<>> ELSE data[g][k]
    BY <1>2, <1>3
  <2>2. ASSUME NEW s \in lost, k \in keys[s] PROVE s = Key2Shard(k)
    BY <1>4, <2>2 DEF Full, KeysOf
  <2>3. ASSUME Key2Shard(k) \in lost, data[g][k] # <<>> PROVE k \in keys[Key2Shard(k)]
    BY <1>4, <2>3 DEF Full, KeysOf
  <2> QED BY <2>1, <2>2, <2>3
<1>8. /\ migratingShards'[g] = migratingShards[g] \union {Whole(g, s) : s \in lost}
      /\ cache'[g] = cache[g] \ UNION {Ids(KeysOf(s)) : s \in lost}
  <2>1. PICK M : M = {Whole(g, s) : s \in lost}
    OBVIOUS
  <2>2. migratingShards' = [migratingShards EXCEPT ![g] = @ \union M]
    BY <1>2, <1>5, <2>1
  <2>3. cache'[g] = cache[g] \ UNION {ids[s] : s \in lost}
    BY <1>2, <1>3
  <2>4. cache'[g] = cache[g] \ UNION {Ids(KeysOf(s)) : s \in lost}
    BY <1>6, <2>3
  <2> QED BY <1>3, <2>1, <2>2, <2>4
<1>9. \A s \in Shard : waitingShards'[g][s] =
        IF s \in Mine(g, new) \ kept THEN config[g].num ELSE waitingShards[g][s]
  BY <1>1, <1>3
<1>10. /\ \A h \in Gid : h # g =>
            /\ config'[h] = config[h] /\ ownShards'[h] = ownShards[h]
            /\ waitingShards'[h] = waitingShards[h] /\ migratingShards'[h] = migratingShards[h]
            /\ data'[h] = data[h] /\ cache'[h] = cache[h]
       /\ config'[g] = new /\ ownShards'[g] = kept
  BY <1>1, <1>2, <1>3
<1> QED BY <1>1, <1>7, <1>8, <1>9, <1>10 DEF TakenOn, Lost, kept

LEMMA ApplyNewConfOnward ==
  ASSUME OwnersInv, NEW g \in Gid, NEW new \in Configs, new.num = config[g].num + 1,
         ApplyNewConf(g, new)
  PROVE  Onward
<1>1. /\ config' = [config EXCEPT ![g] = new]
      /\ historyConfigs' = [historyConfigs EXCEPT ![g] = Append(@, config[g])]
      /\ ownShards' = [ownShards EXCEPT ![g] = Kept(g, new)]
  BY DEF ApplyNewConf
<1>2. /\ \A n \in 0 .. config[g].num : ConfigAt(g, n)' = ConfigAt(g, n)
      /\ \A h \in Gid : h # g =>
           config'[h] = config[h] /\ historyConfigs'[h] = historyConfigs[h]
  BY <1>1, HistoryGrows DEF OwnersInv
<1>3. /\ \A h \in Gid : config[h].num \in Nat
      /\ ownShards \in [Gid -> SUBSET Shard] /\ config \in [Gid -> Configs]
  BY HandTypes
<1>4. \A h \in Gid : config'[h].num \in Nat /\ config[h].num <= config'[h].num
  BY <1>1, <1>3
<1>5. \A h \in Gid : \A n \in 0 .. config[h].num : ConfigAt(h, n)' = ConfigAt(h, n)
  BY <1>2 DEF ConfigAt
<1>6. \A h \in Gid : config'[h].num = config[h].num => ownShards[h] \subseteq ownShards'[h]
  BY <1>1, <1>3
<1>7. (torn => torn') /\ (hasty => hasty')
  BY DEF ApplyNewConf
<1> QED BY <1>3, <1>4, <1>5, <1>6, <1>7 DEF Onward

(* What a group has not asked for when its configuration changes.           *)
LEMMA NothingAwaited ==
  ASSUME Hands, NEW g \in Gid, NEW new, ApplyNewConf(g, new), ~hasty'
  PROVE  /\ \A s \in Shard : waitingShards[g][s] = None
         /\ \A s \in Shard : config[g].shards[s] = g => s \in ownShards[g]
<1>1. \A s \in Shard : waitingShards[g][s] = None
  BY DEF ApplyNewConf
<1> QED BY <1>1 DEF Hands, NotForgotten

(* A shard that is given up is in what was given up of it whole.            *)
LEMMA GivenWhole ==
  ASSUME OwnersInv, NEW g \in Gid, NEW new, TakenOn(g, new), NEW s \in Lost(g, new),
         NEW c, c = config[g].num
  PROVE  /\ Given(g, s, c).data' = {<<k, data[g][k]>> : k \in Full(g, s)}
         /\ Given(g, s, c).cache' = cache[g] \cap Ids(KeysOf(s))
<1>1. c = config[g].num
  OBVIOUS
<1>2. PICK D : D = {<<k, data[g][k]>> : k \in Full(g, s)}
  OBVIOUS
<1>3. PICK C : C = cache[g] \cap Ids(KeysOf(s))
  OBVIOUS
<1>4. PICK x : x = Whole(g, s)
  OBVIOUS
<1>5. x.num = c /\ x.shard = s /\ x.data = D /\ x.cache = C
  BY <1>1, <1>2, <1>3, <1>4 DEF Whole, GivenUp
<1>6. \A t \in Lost(g, new) : Whole(g, t).shard = t
  BY DEF Whole, GivenUp
<1>7. \A y \in migratingShards[g] : y.num # c
  <2>1. c \in Nat
    BY <1>1, HandTypes
  <2>2. \A y \in migratingShards[g] : y.num \in 1 .. c - 1
    BY <1>1 DEF OwnersInv, TypeInv, TypeOK, FiledUnderLeft
  <2> QED BY <2>1, <2>2
<1>8. \A y \in migratingShards'[g] : y.num = c /\ y.shard = s => y = x
  <2>1. migratingShards'[g] = migratingShards[g] \union {Whole(g, t) : t \in Lost(g, new)}
    BY DEF TakenOn
  <2> QED BY <1>4, <1>6, <1>7, <2>1
<1>9. x \in migratingShards'[g]
  BY <1>4 DEF TakenOn
<1>10. {y \in migratingShards'[g] : y.num = c /\ y.shard = s} = {x}
  BY <1>5, <1>8, <1>9
<1>11. /\ Given(g, s, c).data' = UNION {y.data : y \in {x}}
       /\ Given(g, s, c).cache' = UNION {y.cache : y \in {x}}
  BY <1>10 DEF Given
<1>12. UNION {y.data : y \in {x}} = x.data /\ UNION {y.cache : y \in {x}} = x.cache
  BY Zenon
<1> QED BY <1>2, <1>3, <1>5, <1>11, <1>12

LEMMA NewConfHands ==
  ASSUME Hands, OwnersInv', Regular', NEW g \in Gid, NEW new \in Configs,
         new.num = config[g].num + 1, ApplyNewConf(g, new), Applies(g, "newconfig"),
         UNCHANGED <<cleaningShards, latest, executed>>
  PROVE  Hands'
<1>1. /\ OwnersInv /\ Regular /\ Passed /\ NotForgotten /\ AnswersGood /\ CleanedThere
      /\ CopiesCurrent /\ OwnersCurrent /\ OwnersHave /\ NothingEarly
  BY DEF Hands
<1>2. /\ TakenOn(g, new) /\ Onward
      /\ \A s \in Shard : waitingShards[g][s] = None
      /\ \A s \in Shard : config[g].shards[s] = g => s \in ownShards[g]
  BY <1>1, TakenWhole, ApplyNewConfOnward, NothingAwaited DEF Regular
<1>3. PICK c \in Nat : c = config[g].num /\ config'[g].num = c + 1
  BY <1>1, <1>2, HandTypes DEF TakenOn
<1>4. /\ UNCHANGED asked
      /\ \A h \in Gid : pulls'[h] = pulls[h] /\ Sent(h)' \subseteq Sent(h)
  BY <1>1, Applied DEF OwnersInv
<1>5. TransitsAlone /\ \A s : Undisturbed(s)
  BY <1>4, AllUndisturbed
<1>6. PICK kept : kept = Kept(g, new)
  OBVIOUS
<1>7. PICK lost : lost = Lost(g, new)
  OBVIOUS
<1>8. /\ lost = ownShards[g] \ kept /\ kept \subseteq Mine(g, new)
      /\ c # 0 => kept \subseteq ownShards[g]
      /\ c = 0 => kept = Mine(g, new) /\ ownShards[g] = {} /\ lost = {}
      /\ ownShards'[g] = kept /\ ownShards[g] \subseteq Shard
  BY <1>1, <1>2, <1>3, <1>6, <1>7, HandTypes DEF Lost, Kept, TakenOn
<1>9. /\ At(g, c + 1)' = new.shards /\ \A n \in 0 .. c : At(g, n)' = At(g, n)
      /\ At(g, c) = config[g].shards
  BY <1>2, <1>3, AtStays DEF At, ConfigAt, TakenOn
<1>10. ASSUME NEW h \in Gid, h # g
       PROVE  /\ config'[h] = config[h] /\ ownShards'[h] = ownShards[h]
              /\ waitingShards'[h] = waitingShards[h] /\ migratingShards'[h] = migratingShards[h]
              /\ data'[h] = data[h] /\ cache'[h] = cache[h]
  BY <1>2, <1>10 DEF TakenOn
<1>11. ASSUME NEW s \in kept PROVE There(g, s, c + 1)'
  <2>1. new.shards[s] = g
    BY <1>8, <1>11 DEF Mine
  <2> QED BY <1>3, <1>8, <1>9, <1>11, <2>1 DEF There
<1>12. ASSUME NEW s \in Shard, c # 0, At(g, c)[s] = g PROVE There(g, s, c)
  BY <1>2, <1>3, <1>9, <1>12 DEF There
<1>13. Passed'
  <2>1. ASSUME NEW h \in Gid, NEW s \in Shard, NEW n \in 1 .. config'[h].num, There(h, s, n)'
        PROVE  (n <= config[h].num /\ There(h, s, n)) \/ \A m \in 1 .. n - 1 : LeftBy(h, s, m)'
    <3>1. CASE h # g
      <4>1. n \in 0 .. config[h].num
        BY <1>1, <1>10, <3>1, HandTypes
      <4>2. At(h, n)' = At(h, n)
        BY <1>2, <4>1, AtStays
      <4> QED BY <1>10, <2>1, <3>1, <4>2 DEF There
    <3>2. CASE h = g /\ n <= c
      <4>1. n \in 0 .. c /\ c # 0 /\ At(g, n)[s] = g
        BY <1>3, <1>9, <2>1, <3>2 DEF There
      <4>2. CASE n = c
        BY <1>3, <1>12, <3>2, <4>1, <4>2
      <4>3. CASE n # c
        BY <1>3, <3>2, <4>1, <4>3 DEF There
      <4> QED BY <4>2, <4>3
    <3>3. CASE h = g /\ n = c + 1
      <4>1. s \in kept
        BY <1>3, <1>8, <2>1, <3>3 DEF There
      <4>2. CASE c = 0
        BY <3>3, <4>2
      <4>3. CASE c # 0
        <5>1. s \in ownShards[g]
          BY <1>8, <4>1, <4>3
        <5>2. At(g, c)[s] = g
          BY <1>1, <1>9, <5>1 DEF OwnersInv, OwnersAssigned
        <5>3. There(g, s, c)
          BY <1>12, <4>3, <5>2
        <5>4. ASSUME NEW m \in 1 .. c PROVE LeftBy(g, s, m)'
          <6>1. CASE m = c
            <7>1. At(g, m)'[s] = g /\ config'[g].num > m
              BY <1>3, <1>9, <5>2, <6>1
            <7> QED BY <7>1 DEF LeftBy
          <6>2. CASE m # c
            <7>1. c \in 1 .. config[g].num /\ m \in 1 .. c - 1 /\ m \in 0 .. config[g].num
              BY <1>3, <4>3, <6>2
            <7>2. LeftBy(g, s, m)
              BY <1>1, <5>3, <7>1 DEF Passed
            <7> QED BY <1>2, <7>1, <7>2, LeftStays
          <6> QED BY <6>1, <6>2
        <5> QED BY <1>3, <3>3, <5>4
      <4> QED BY <4>2, <4>3
    <3>4. h # g \/ n <= c \/ n = c + 1
      BY <1>3, <2>1
    <3> QED BY <3>1, <3>2, <3>3, <3>4
  <2> QED BY <1>1, <1>2, <2>1, PassedKeep
<1>14. NotForgotten'
  <2> SUFFICES ASSUME NEW h \in Gid, NEW s \in Shard
               PROVE  /\ config'[h].shards[s] = h =>
                           s \in ownShards'[h] \/ waitingShards'[h][s] # None
                      /\ waitingShards'[h][s] # None => At(h, config[h].num - 1)'[s] # h
    BY DEF NotForgotten
  <2>1. CASE h # g
    <3>1. ASSUME waitingShards[h][s] # None
          PROVE  At(h, config[h].num - 1)' = At(h, config[h].num - 1)
      <4>1. waitingShards[h][s] \in 1 .. config[h].num - 1 /\ config[h].num \in Nat
        BY <1>1, <3>1, Numbers, HandTypes DEF OwnersInv
      <4>2. config[h].num - 1 \in 0 .. config[h].num
        BY <4>1
      <4>3. PICK i : i = config[h].num - 1 /\ i = config'[h].num - 1
        BY <1>10, <2>1
      <4> QED BY <1>2, <4>2, <4>3, AtStays DEF At
    <3> QED BY <1>1, <1>10, <2>1, <3>1 DEF NotForgotten
  <2>2. CASE h = g
    <3>1. waitingShards'[g][s] = IF s \in Mine(g, new) \ kept THEN c ELSE None
      BY <1>2, <1>3, <1>6 DEF TakenOn
    <3>2. config'[g].shards[s] = g => s \in Mine(g, new)
      BY <1>2 DEF TakenOn, Mine
    <3>3. c # None
      BY <1>3 DEF None
    <3>4. s \in Mine(g, new) \ kept => At(g, c)'[s] # g
      <4>1. ASSUME s \in Mine(g, new) \ kept PROVE s \notin ownShards[g]
        BY <1>3, <1>6, <1>8, <4>1 DEF Kept
      <4> QED BY <1>2, <1>3, <1>9, <4>1
    <3>5. config'[g].num - 1 = c
      BY <1>3
    <3> QED BY <1>8, <2>2, <3>1, <3>2, <3>3, <3>4, <3>5
  <2> QED BY <2>1, <2>2
<1>15. AnswersGood'
  BY <1>1, <1>2, <1>4, <1>5, AnswersKeep
<1>16. CleanedThere'
  BY <1>1, <1>2, <1>4, CleanedKeep
<1>17. CopiesCurrent'
  <2>1. ASSUME NEW h \in Gid, NEW s \in Shard, NEW n \in 1 .. config'[h].num - 1, Transit(h, s, n)'
        PROVE  \/ n \in 1 .. config[h].num - 1 /\ Given(h, s, n)' = Given(h, s, n)
               \/ Current(s, Given(h, s, n).data, Given(h, s, n).cache)'
    <3>1. CASE h # g
      BY <1>10, <3>1 DEF Given
    <3>2. CASE h = g /\ n # c
      <4>1. n \in 1 .. config[g].num - 1
        BY <1>3, <3>2
      <4>2. \A t \in lost : Whole(g, t).num = c
        BY <1>3 DEF Whole, GivenUp
      <4>3. migratingShards'[g] = migratingShards[g] \union {Whole(g, t) : t \in lost}
        BY <1>2, <1>7 DEF TakenOn
      <4>4. {x \in migratingShards'[g] : x.num = n /\ x.shard = s}
              = {x \in migratingShards[g] : x.num = n /\ x.shard = s}
        BY <3>2, <4>2, <4>3
      <4>5. Given(g, s, n)' = Given(g, s, n)
        BY <4>4, Zenon DEF Given
      <4> QED BY <3>2, <4>1, <4>5
    <3>3. CASE h = g /\ n = c
      <4>1. At(g, c)[s] = g /\ c # 0 /\ ~There(g, s, c + 1)'
        BY <1>3, <1>9, <2>1, <3>3 DEF Transit
      <4>2. s \in ownShards[g] /\ s \notin kept /\ s \in Lost(g, new)
        BY <1>2, <1>7, <1>8, <1>9, <1>11, <4>1
      <4>3. PICK D : D = {<<k, data[g][k]>> : k \in Full(g, s)}
        OBVIOUS
      <4>4. PICK C : C = cache[g] \cap Ids(KeysOf(s))
        OBVIOUS
      <4>5. Given(g, s, c).data' = D /\ Given(g, s, c).cache' = C
        BY <1>1, <1>2, <1>3, <4>2, <4>3, <4>4, GivenWhole
      <4>6. (\A k \in KeysOf(s) : data[g][k] = latest[k]) /\ Remembers(s, cache[g])
        BY <1>1, <4>2 DEF OwnersCurrent
      <4>7. D = LatestOf(s)
        BY <4>3, <4>6 DEF LatestOf, Full
      <4>8. Remembers(s, C)
        <5> SUFFICES ASSUME asked # <<>>, executed[Len(asked)] > 0,
                            Key2Shard(asked[Len(asked)].key) = s
                     PROVE  Len(asked) \in Ids(KeysOf(s))
          BY <4>4, <4>6 DEF Remembers
        <5>1. Len(asked) \in DOMAIN asked /\ asked[Len(asked)] \in [key : Key, op : Op]
          <6>1. asked \in Seq([key : Key, op : Op]) /\ Len(asked) \in Nat
                /\ DOMAIN asked = 1 .. Len(asked)
            BY <1>1, HandTypes
          <6>2. Len(asked) # 0
            BY <6>1, EmptySeq
          <6>3. Len(asked) \in 1 .. Len(asked)
            BY <6>1, <6>2
          <6> QED BY <6>1, <6>3, ElementOfSeq
        <5> QED BY <5>1 DEF Ids, KeysOf
      <4>9. Current(s, D, C)'
        BY <1>5, <4>7, <4>8 DEF Current, Undisturbed
      <4>10. Current(s, Given(g, s, c).data, Given(g, s, c).cache)'
        BY <4>5, <4>9
      <4> QED BY <3>3, <4>10
    <3> QED BY <3>1, <3>2, <3>3
  <2> QED BY <1>1, <1>2, <1>5, <2>1, CopiesKeep
<1>18. ASSUME c = 0, NEW s \in kept PROVE ~Started(s)
  <2> SUFFICES ASSUME NEW d \in Gid, config[d].num >= 1, At(d, 1)[s] = d PROVE FALSE
    BY DEF Started
  <2>2. At(g, 1)'[s] = g
    BY <1>3, <1>8, <1>9, <1>18 DEF Mine
  <2>3. d # g
    <3>1. config[g].num = 0
      BY <1>3, <1>18
    <3>2. PICK m : m = config[d].num /\ m >= 1
      OBVIOUS
    <3> QED BY <3>1, <3>2
  <2>4. config[d].num \in Nat /\ 1 \in 0 .. config[d].num /\ config'[d] = config[d]
    BY <1>1, <1>10, <2>3, HandTypes
  <2>5. At(d, 1)' = At(d, 1)
    BY <1>2, <2>4, AtStays
  <2>6. ConfigAt(d, 1)' = ConfigAt(g, 1)'
    BY <1>3, <1>18, <2>4 DEF Regular, Agreed
  <2> QED BY <2>2, <2>3, <2>5, <2>6 DEF At
<1>19. ASSUME NEW s \in kept, NEW k \in KeysOf(s)
       PROVE  data'[g][k] = latest[k]
  <2>1. k \in Key /\ Key2Shard(k) = s /\ s \notin Lost(g, new)
    BY <1>7, <1>8, <1>19 DEF KeysOf
  <2>2. data'[g][k] = data[g][k]
    BY <1>2, <2>1 DEF TakenOn
  <2>3. CASE c = 0
    <3>1. data[g][k] = <<>>
      BY <1>1, <1>8, <2>1, <2>3 DEF OwnersHave
    <3>2. latest[k] = <<>>
      BY <1>1, <1>18, <2>1, <2>3 DEF NothingEarly
    <3> QED BY <2>2, <3>1, <3>2
  <2>4. CASE c # 0
    BY <1>1, <1>8, <2>1, <2>2, <2>4 DEF OwnersCurrent
  <2> QED BY <2>3, <2>4
<1>20. ASSUME NEW s \in kept PROVE Remembers(s, cache'[g])
  <2> DEFINE last == Len(asked)
  <2> SUFFICES ASSUME asked # <<>>, executed[last] > 0, Key2Shard(asked[last].key) = s
               PROVE  last \in cache'[g]
    BY DEF Remembers
  <2>1. last \in Request
    <3>1. last \in Nat /\ 1 .. last \subseteq Request /\ asked \in Seq([key : Key, op : Op])
      BY <1>1, HandTypes
    <3>2. last # 0
      BY <3>1, EmptySeq
    <3> QED BY <3>1, <3>2
  <2>2. CASE c = 0
    BY <1>1, <1>18, <2>1, <2>2 DEF NothingEarly
  <2>3. CASE c # 0
    <3>1. last \in cache[g]
      BY <1>1, <1>8, <2>3 DEF OwnersCurrent, Remembers
    <3>2. \A t \in Lost(g, new) : last \notin Ids(KeysOf(t))
      BY <1>7, <1>8, <1>20 DEF Ids, KeysOf
    <3> QED BY <1>2, <3>1, <3>2 DEF TakenOn
  <2> QED BY <2>2, <2>3
<1>21. OwnersCurrent'
  <2>1. \A s, ids : Remembers(s, ids) <=> Remembers(s, ids)'
    BY <1>4 DEF Remembers
  <2> SUFFICES ASSUME NEW h \in Gid, NEW s \in ownShards'[h]
               PROVE  /\ \A k \in KeysOf(s) : data'[h][k] = latest[k]
                      /\ Remembers(s, cache'[h])
    BY <2>1 DEF OwnersCurrent
  <2>2. CASE h = g
    BY <1>8, <1>19, <1>20, <2>2
  <2>3. CASE h # g
    BY <1>1, <1>10, <2>3 DEF OwnersCurrent
  <2> QED BY <2>2, <2>3
<1>22. OwnersHave'
  <2>1. ASSUME NEW h \in Gid, NEW k \in Key, data'[h][k] # <<>>
        PROVE  Key2Shard(k) \in ownShards'[h]
    <3>1. CASE h = g
      <4>1. data[g][k] # <<>> /\ Key2Shard(k) \notin Lost(g, new)
        BY <1>2, <2>1, <3>1 DEF TakenOn
      <4> QED BY <1>1, <1>7, <1>8, <3>1, <4>1 DEF OwnersHave
    <3>2. CASE h # g
      BY <1>1, <1>10, <2>1, <3>2 DEF OwnersHave
    <3> QED BY <3>1, <3>2
  <2> QED BY <2>1 DEF OwnersHave
<1>23. NothingEarly'
  <2>1. \A s : Started(s) => Started(s)'
    BY <1>2, StartedStays
  <2> QED BY <1>1, <1>4, <2>1 DEF NothingEarly
<1>24. LatestOfKeys'
  BY DEF Hands, LatestOfKeys
<1> QED BY <1>13, <1>14, <1>15, <1>16, <1>17, <1>21, <1>22, <1>23, <1>24 DEF Hands

LEMMA OnNewConfigApplyHand ==
  ASSUME HandInv, OwnersInv', NEW g \in Gid, OnNewConfigApply(g) PROVE HandInv'
<1>1. PICK new : new = queue[g][1].config
  OBVIOUS
<1>2. Applies(g, "newconfig") /\ UNCHANGED <<cleaningShards, latest, executed>>
  BY DEF OnNewConfigApply, historyVars
<1>3. LatestOfKeys'
  BY <1>2 DEF HandInv, LatestOfKeys
<1>4. CASE Newer(g, new.num) /\ ApplyNewConf(g, new)
  <2>1. new \in Configs /\ new.num = config[g].num + 1
    BY <1>1, <1>2, <1>4, NextNumber DEF HandInv, OwnersInv
  <2>2. Onward
    BY <1>4, <2>1, ApplyNewConfOnward DEF HandInv
  <2>3. Regular' => Hands
    BY <2>2, RegularBefore DEF HandInv
  <2>4. Regular' => Hands'
    BY <1>2, <1>4, <2>1, <2>3, NewConfHands
  <2> QED BY <1>3, <2>4 DEF HandInv
<1>5. CASE UNCHANGED <<ownVars, storeVars, torn, hasty>>
  <2>1. UNCHANGED Groups /\ UNCHANGED asked
        /\ \A h \in Gid : pulls'[h] = pulls[h] /\ Sent(h)' \subseteq Sent(h)
    BY <1>2, <1>5, Applied DEF Groups, ownVars, storeVars, HandInv, OwnersInv
  <2>2. Regular' => Regular
    BY <1>5 DEF Regular, Agreed, ConfigAt, ownVars
  <2>3. Regular' => Hands'
    BY <2>1, <2>2, FewerHands DEF HandInv
  <2> QED BY <1>3, <2>3 DEF HandInv
<1> QED BY <1>1, <1>4, <1>5 DEF OnNewConfigApply

LEMMA NextHand == ASSUME HandInv, [Next]_vars PROVE HandInv'
<1>1. OwnersInv'
  BY NextOwnersInv DEF HandInv
<1>2. CASE OutsideStep
  BY <1>1, <1>2, OutsideHand
<1>3. ASSUME NEW g \in Gid, OnPutAppendApply(g) PROVE HandInv'
  BY <1>1, <1>3, OnPutAppendApplyHand
<1>4. ASSUME NEW g \in Gid, OnNewConfigApply(g) PROVE HandInv'
  BY <1>1, <1>4, OnNewConfigApplyHand
<1>5. ASSUME NEW g \in Gid, OnShardMigrationReplyApply(g) \/ OnShardCleanupApply(g) PROVE HandInv'
  BY <1>1, <1>5, TakeOverHand
<1> QED BY <1>2, <1>3, <1>4, <1>5 DEF Next, OutsideStep

LEMMA InitHand == Init => HandInv
<1> SUFFICES ASSUME Init PROVE HandInv
  OBVIOUS
<1>1. OwnersInv
  BY InitOwnersInv
<1>2. LatestOfKeys
  BY DEF Init, LatestOfKeys
<1>3. /\ \A g \in Gid : /\ config[g].num = 0 /\ config[g].shards = [s \in Shard |-> NoGid]
                        /\ ownShards[g] = {} /\ cleaningShards[g] = {} /\ pulls[g] = {}
                        /\ queue[g] = <<>> /\ data[g] = [k \in Key |-> <<>>]
                        /\ \A s \in Shard : waitingShards[g][s] = None
      /\ asked = <<>> /\ executed = [r \in Request |-> 0] /\ latest = [k \in Key |-> <<>>]
  BY DEF Init, FirstConfig, Request
<1>4. Passed /\ CopiesCurrent /\ OwnersCurrent /\ OwnersHave
  BY <1>3 DEF Passed, CopiesCurrent, OwnersCurrent, OwnersHave
<1>5. NotForgotten
  BY <1>3, GidAssumption DEF NotForgotten
<1>6. AnswersGood /\ CleanedThere
  <2>1. \A g \in Gid : Sent(g) = {}
    BY <1>3 DEF Sent
  <2> QED BY <1>3, <2>1 DEF AnswersGood, CleanedThere
<1>7. NothingEarly
  BY <1>3 DEF NothingEarly
<1> QED BY <1>1, <1>2, <1>4, <1>5, <1>6, <1>7 DEF HandInv, Hands

LEMMA HandInvHolds == Spec => []HandInv
<1>1. HandInv /\ [Next]_vars => HandInv'
  BY NextHand
<1> QED BY <1>1, InitHand, PTL DEF Spec

(* Wired or not, a shard has one owner as long as the groups are told the    *)
(* same of each configuration, none of them takes one while it awaits a      *)
(* shard, and no shard is given up in part: whichever pulls and clean-ups    *)
(* are lost, sent again or late, and whenever the leaders change.            *)
THEOREM OneOwnerAlways == Spec => []OneOwner
<1>1. CASE Wired
  <2>1. ASSUME HandInv PROVE OneOwner
    <3> SUFFICES ASSUME ~Irregular, NEW g \in Gid, NEW h \in Gid, NEW s,
                        s \in ownShards[g], s \in ownShards[h]
                 PROVE  g = h
      BY <1>1 DEF OneOwner
    <3>1. Hands
      BY <2>1 DEF HandInv, Regular, Irregular
    <3>2. config[g].num \in Nat /\ config[h].num \in Nat
      BY <3>1, HandTypes DEF Hands
    <3>3. config[g].num <= config[h].num \/ config[h].num <= config[g].num
      BY <3>2
    <3> QED BY <3>1, <3>3, OnlyOwner
  <2> QED BY <2>1, HandInvHolds, PTL
<1>2. CASE ~Wired
  BY <1>2, SingleOwner
<1> QED BY <1>1, <1>2

(* Wired or not, and under the same conditions, who serves a key answers     *)
(* with what the last request that was carried out on it left, whichever     *)
(* group carried it out.                                                     *)
THEOREM ServedAlwaysUpToDate == Spec => []ServedUpToDate
<1>1. CASE Wired
  <2>1. ASSUME HandInv PROVE ServedUpToDate
    <3> SUFFICES ASSUME ~Irregular, NEW g \in Gid, NEW k \in Key
                 PROVE  GetAnswer(g, config[g].num, k) \in {<<>>, <<latest[k]>>}
      BY <1>1 DEF ServedUpToDate
    <3>1. Hands
      BY <2>1 DEF HandInv, Regular, Irregular
    <3>2. Key2Shard(k) \in ownShards[g] => data[g][k] = latest[k]
      BY <3>1 DEF Hands, OwnersCurrent, KeysOf
    <3> QED BY <3>2 DEF GetAnswer, Serves
  <2> QED BY <2>1, HandInvHolds, PTL
<1>2. CASE ~Wired
  BY <1>2, OwnersUpToDate
<1> QED BY <1>1, <1>2

(* Wired or not, and under the same conditions, the request that the client  *)
(* still sends is carried out at most once, although what the groups         *)
(* remember of it goes from one to the next with the shard.                  *)
THEOREM OnceAlways == Spec => []AtMostOnce
<1>1. CASE Wired
  <2>1. ASSUME HandInv PROVE AtMostOnce
    <3> SUFFICES ASSUME ~Irregular, asked # <<>> PROVE ~ (executed[Len(asked)] > 1)
      BY <1>1 DEF AtMostOnce
    <3>1. NothingEarly /\ OwnersInv
      BY <2>1 DEF HandInv, Hands, Regular, Irregular
    <3>2. Len(asked) \in Request
      <4>1. /\ Len(asked) \in Nat /\ 1 .. Len(asked) \subseteq Request
            /\ asked \in Seq([key : Key, op : Op])
        BY <3>1, HandTypes
      <4>2. Len(asked) # 0
        BY <4>1, EmptySeq
      <4> QED BY <4>1, <4>2
    <3> QED BY <3>1, <3>2 DEF NothingEarly
  <2> QED BY <2>1, HandInvHolds, PTL
<1>2. CASE ~Wired
  BY <1>2, OnceOnly
<1> QED BY <1>1, <1>2
-----------------------------------------------------------------------------
(* Nothing is lost, wired or not, unless a shard is given up in part:        *)
(* whatever the groups are told, somebody has the latest of each key, as his *)
(* data or in a copy that nobody is about to remove, and whoever takes a     *)
(* shard over from that copy gets all of it.                                *)
CleansElsewhere(g, h, x, c) == c = <<x.num, x.shard>> => At(g, x.num)[x.shard] # h
OfCopy(x, s, a) == s = x.shard /\ a.num = x.num => a.data = x.data
PullOf(h, x, p) == p.from = h => OfCopy(x, p.shard, p.answer)
EntryOf(g, h, x, e) ==
  /\ e.kind = "shardcleanup" /\ g = h => ~ (e.num = x.num /\ e.shard = x.shard)
  /\ e.kind = "shardmigrationreply" /\ At(g, x.num)[x.shard] = h => OfCopy(x, e.shard, e.answer)
Untaken(h, x) ==
  \A g \in Gid : /\ \A c \in cleaningShards[g] : CleansElsewhere(g, h, x, c)
                 /\ \A p \in pulls[g] : PullOf(h, x, p)
                 /\ \A e \in Sent(g) : EntryOf(g, h, x, e)
Holder(k) ==
  \/ \E g \in Gid : data[g][k] = latest[k]
  \/ \E g \in Gid : \E x \in migratingShards[g] : <<k, latest[k]>> \in x.data /\ Untaken(g, x)
SomebodyHolds == \A k \in Key : latest[k] # <<>> => Holder(k)

(* What is on its way is of its shard, and its group has left the            *)
(* configuration it was given up with; no shard is given up twice with one.  *)
OfShard(s, pairs) == \A d \in pairs : Key2Shard(d[1]) = s
KeepPull(g, p) ==
  /\ p.from = At(g, p.num)[p.shard] /\ OfShard(p.shard, p.answer.data)
  /\ p.answer.num >= 1 => LeftBy(g, p.shard, p.answer.num)
KeepEntry(g, e) ==
  /\ e.kind = "shardcleanup" => config[g].num > e.num
  /\ e.kind = "shardmigrationreply" /\ e.answer.num >= 1 =>
       LeftBy(g, e.shard, e.answer.num) /\ OfShard(e.shard, e.answer.data)
Transfers ==
  \A g \in Gid : /\ \A c \in cleaningShards[g] : LeftBy(g, c[2], c[1])
                 /\ \A p \in pulls[g] : KeepPull(g, p)
                 /\ \A e \in Sent(g) : KeepEntry(g, e)
WholeCopy(x) == OfShard(x.shard, x.data) /\ \A d, f \in x.data : d[1] = f[1] => d = f
CopiesWhole ==
  \A g \in Gid : /\ \A x \in migratingShards[g] : WholeCopy(x)
                 /\ \A x, y \in migratingShards[g] : x.num = y.num /\ x.shard = y.shard => x = y

Holds == OwnersHave /\ CopiesWhole /\ Transfers /\ SomebodyHolds
HoldInv == OwnersInv /\ LatestOfKeys /\ (~torn => Holds)

LEMMA UntakenStays ==
  ASSUME OwnersInv, Onward, NEW h \in Gid, NEW x \in migratingShards[h], Untaken(h, x),
         \A g \in Gid : \A c \in cleaningShards'[g] :
           c \in cleaningShards[g] \/ CleansElsewhere(g, h, x, c)',
         \A g \in Gid : \A p \in pulls'[g] : p \in pulls[g] \/ PullOf(h, x, p),
         \A g \in Gid : \A e \in Sent(g)' : e \in Sent(g) \/ EntryOf(g, h, x, e)'
  PROVE  Untaken(h, x)'
<1>1. x.num \in Nat /\ config[h].num \in Nat
  BY HandTypes DEF Copies
<1>2. ASSUME NEW g \in Gid, x.num < config[g].num PROVE At(g, x.num)' = At(g, x.num)
  <2>1. x.num \in 0 .. config[g].num
    BY <1>1, <1>2, HandTypes
  <2> QED BY <2>1, AtStays
<1>3. ASSUME NEW g \in Gid, NEW c \in cleaningShards[g] PROVE CleansElsewhere(g, h, x, c)'
  <2> SUFFICES ASSUME c = <<x.num, x.shard>> PROVE At(g, x.num)'[x.shard] # h
    BY DEF CleansElsewhere
  <2>1. c[1] \in 1 .. config[g].num - 1 /\ config[g].num \in Nat
    BY HandTypes DEF OwnersInv, TypeInv, TypeOK, FiledUnderLeft
  <2>2. x.num < config[g].num
    BY <2>1
  <2> QED BY <1>2, <2>2 DEF Untaken, CleansElsewhere
<1>4. ASSUME NEW g \in Gid, NEW e \in Sent(g) PROVE EntryOf(g, h, x, e)'
  <2>1. EntryOf(g, h, x, e)
    BY DEF Untaken
  <2>2. CASE e.kind = "shardmigrationreply" /\ e.answer.num = x.num
    <3>1. x.num < config[g].num
      BY <2>2, AnswerNumbers
    <3> QED BY <1>2, <2>1, <3>1 DEF EntryOf, OfCopy
  <2>3. CASE ~ (e.kind = "shardmigrationreply" /\ e.answer.num = x.num)
    BY <2>1, <2>3 DEF EntryOf, OfCopy
  <2> QED BY <2>2, <2>3
<1>5. \A g \in Gid : \A p \in pulls[g] : PullOf(h, x, p)
  BY DEF Untaken
<1> QED BY <1>3, <1>4, <1>5 DEF Untaken, PullOf, OfCopy

LEMMA TransfersStay ==
  ASSUME OwnersInv, Onward, Transfers,
         \A g \in Gid : \A c \in cleaningShards'[g] :
           c \in cleaningShards[g] \/ LeftBy(g, c[2], c[1])',
         \A g \in Gid : \A p \in pulls'[g] : p \in pulls[g] \/ KeepPull(g, p)',
         \A g \in Gid : \A e \in Sent(g)' : e \in Sent(g) \/ KeepEntry(g, e)'
  PROVE  Transfers'
<1>1. ASSUME NEW g \in Gid, NEW c \in cleaningShards[g] PROVE LeftBy(g, c[2], c[1])'
  <2>1. c[1] \in 1 .. config[g].num - 1 /\ config[g].num \in Nat
    BY HandTypes DEF OwnersInv, TypeInv, TypeOK, FiledUnderLeft
  <2>2. c[1] \in 0 .. config[g].num
    BY <2>1
  <2> QED BY <2>2, LeftStays DEF Transfers
<1>2. ASSUME NEW g \in Gid, NEW p \in pulls[g] PROVE KeepPull(g, p)'
  <2>1. KeepPull(g, p)
    BY DEF Transfers
  <2>2. /\ p.num \in 1 .. config[g].num - 1 /\ config[g].num \in Nat
        /\ p.answer.num \in Int /\ p.answer.num < config[g].num
    BY AnswerNumbers, HandTypes
  <2>3. p.num \in 0 .. config[g].num /\ (p.answer.num >= 1 => p.answer.num \in 0 .. config[g].num)
    BY <2>2
  <2>4. At(g, p.num)' = At(g, p.num)
    BY <2>3, AtStays
  <2>5. p.answer.num >= 1 => LeftBy(g, p.shard, p.answer.num)'
    BY <2>1, <2>3, LeftStays DEF KeepPull
  <2> QED BY <2>1, <2>4, <2>5 DEF KeepPull, OfShard
<1>3. ASSUME NEW g \in Gid, NEW e \in Sent(g) PROVE KeepEntry(g, e)'
  <2>1. KeepEntry(g, e)
    BY DEF Transfers
  <2>2. CASE e.kind = "shardmigrationreply" /\ e.answer.num >= 1
    <3>1. e.answer.num \in Int /\ e.answer.num < config[g].num /\ config[g].num \in Nat
      BY <2>2, AnswerNumbers, HandTypes
    <3>2. e.answer.num \in 0 .. config[g].num
      BY <2>2, <3>1
    <3>3. LeftBy(g, e.shard, e.answer.num)'
      BY <2>1, <2>2, <3>2, LeftStays DEF KeepEntry
    <3> QED BY <2>1, <2>2, <3>3 DEF KeepEntry, OfShard
  <2>3. CASE e.kind = "shardcleanup"
    <3>1. config[g].num > e.num /\ e.num \in Nat
      BY <2>1, <2>3, AnswerNumbers DEF KeepEntry
    <3>2. config'[g].num > e.num
      BY <3>1 DEF Onward
    <3> QED BY <2>3, <3>2 DEF KeepEntry
  <2> QED BY <2>2, <2>3 DEF KeepEntry
<1> QED BY <1>1, <1>2, <1>3 DEF Transfers

(* A step outside of the stores.                                            *)
LEMMA HoldsOutside ==
  ASSUME Holds, OwnersInv, UNCHANGED Groups,
         \A g \in Gid : \A p \in pulls'[g] : p \in pulls[g] \/
           /\ KeepPull(g, p)
           /\ \A h \in Gid : \A x \in migratingShards[h] : Untaken(h, x) => PullOf(h, x, p),
         \A g \in Gid : \A e \in Sent(g)' : e \in Sent(g) \/
           /\ KeepEntry(g, e)
           /\ \A h \in Gid : \A x \in migratingShards[h] : Untaken(h, x) => EntryOf(g, h, x, e)
  PROVE  Holds'
<1>1. UNCHANGED <<config, historyConfigs, ownShards, migratingShards, cleaningShards, data, latest,
                  torn, hasty>>
  BY DEF Groups
<1>2. Onward
  BY <1>1, SettledOnward
<1>3. \A g, n : At(g, n)' = At(g, n)
  BY <1>1 DEF At, ConfigAt
<1>4. \A g, p : KeepPull(g, p)' <=> KeepPull(g, p)
  BY <1>1, <1>3 DEF KeepPull, LeftBy, OfShard
<1>5. \A g, e : KeepEntry(g, e)' <=> KeepEntry(g, e)
  BY <1>1, <1>3 DEF KeepEntry, LeftBy, OfShard
<1>6. \A g, h, x, e : EntryOf(g, h, x, e)' <=> EntryOf(g, h, x, e)
  BY <1>3 DEF EntryOf, OfCopy
<1>7. Transfers'
  BY <1>1, <1>2, <1>4, <1>5, TransfersStay DEF Holds
<1>8. ASSUME NEW h \in Gid, NEW x \in migratingShards[h], Untaken(h, x) PROVE Untaken(h, x)'
  BY <1>1, <1>2, <1>6, <1>8, UntakenStays
<1>9. SomebodyHolds'
  BY <1>1, <1>8 DEF Holds, SomebodyHolds, Holder
<1>10. OwnersHave' /\ CopiesWhole'
  BY <1>1 DEF Holds, OwnersHave, CopiesWhole, WholeCopy, OfShard
<1> QED BY <1>7, <1>9, <1>10 DEF Holds

PullHolds(g, p) ==
  /\ KeepPull(g, p)
  /\ \A h \in Gid : \A x \in migratingShards[h] : Untaken(h, x) => PullOf(h, x, p)
EntryHolds(g, e) ==
  /\ KeepEntry(g, e)
  /\ \A h \in Gid : \A x \in migratingShards[h] : Untaken(h, x) => EntryOf(g, h, x, e)

LEMMA HoldsPulled ==
  ASSUME Holds, OwnersInv, UNCHANGED Groups, UNCHANGED queue,
         \A g \in Gid : \A p \in pulls'[g] : p \in pulls[g] \/ PullHolds(g, p)
  PROVE  Holds'
<1>1. \A g \in Gid : Sent(g)' = Sent(g)
  BY DEF Sent
<1> QED BY <1>1, HoldsOutside DEF PullHolds

LEMMA HoldsLogged ==
  ASSUME Holds, OwnersInv, UNCHANGED Groups, NEW g \in Gid, NEW e \in Entries, DoLog(g, e),
         EntryHolds(g, e), \A h \in Gid : pulls'[h] \subseteq pulls[h]
  PROVE  Holds'
<1>1. queue \in [Gid -> Seq(Entries)]
  BY Around DEF OwnersInv
<1>2. /\ \A h \in Gid : Sent(h)' \subseteq Sent(h) \union {e}
      /\ \A h \in Gid : h # g => Sent(h)' = Sent(h)
  BY <1>1, LogSent
<1>3. \A h \in Gid : \A f \in Sent(h)' : f \in Sent(h) \/ EntryHolds(h, f)
  BY <1>2
<1> QED BY <1>3, HoldsOutside DEF EntryHolds

LEMMA PlainHolds ==
  ASSUME NEW g, NEW e, e.kind \in {"newconfig", "putappend", "shardmigration"}
  PROVE  EntryHolds(g, e)
BY DEF EntryHolds, KeepEntry, EntryOf

LEMMA FewerHolds ==
  ASSUME Holds, OwnersInv, UNCHANGED Groups,
         \A h \in Gid : pulls'[h] \subseteq pulls[h] /\ Sent(h)' \subseteq Sent(h)
  PROVE  Holds'
BY HoldsOutside

LEMMA CopyNumber ==
  ASSUME OwnersInv, NEW h \in Gid, NEW x \in migratingShards[h]
  PROVE  /\ x.num \in Nat \ {0} /\ x.num \in 1 .. config[h].num - 1
         /\ x.num < config[h].num /\ x.shard \in Shard /\ x \in Copies
<1>1. x \in Copies /\ config[h].num \in Nat
  BY HandTypes
<1>2. x.num \in 1 .. config[h].num - 1
  BY DEF OwnersInv, TypeInv, TypeOK, FiledUnderLeft
<1>3. x.num \in Nat /\ x.shard \in Shard
  BY <1>1 DEF Copies
<1> QED BY <1>1, <1>2, <1>3

LEMMA PollHolds == ASSUME Holds, OwnersInv, NEW g \in Gid, Poll(g) PROVE Holds'
<1>1. PICK num \in {config[g].num, config[g].num + 1} \cap 1 .. MaxConfig :
        DoLog(g, [kind |-> "newconfig", config |-> Query(num)])
  BY DEF Poll
<1>2. PICK e : e = [kind |-> "newconfig", config |-> Query(num)] /\ DoLog(g, e)
  BY <1>1
<1>3. e \in Entries
  BY <1>2, QueryType DEF Entries, OwnersInv, TypeInv, TypeOK
<1>4. UNCHANGED Groups /\ pulls' = pulls
  BY DEF Poll, Groups, ownVars, takeVars, storeVars, threadVars, historyVars, boundVars
<1>5. EntryHolds(g, e)
  BY <1>2, PlainHolds
<1> QED BY <1>2, <1>3, <1>4, <1>5, HoldsLogged

LEMMA AsksHolds ==
  ASSUME Holds, OwnersInv, NEW g \in Gid,
         NEW num \in {config[g].num, config[g].num + 1} \cap 1 .. MaxConfig,
         AskAgain(g, num) \/ \E key \in Key, op \in Op : Ask(g, key, op, num)
  PROVE  Holds'
<1>1. num \in Nat /\ TypeInv
  BY DEF OwnersInv
<1>2. PICK r \in Request : OnPutAppend(g, r, num)
  BY <1>1, AskedRequest
<1>3. PICK e : e = [kind |-> "putappend", id |-> r, num |-> num] /\ DoLog(g, e)
  BY <1>2 DEF OnPutAppend
<1>4. e \in Entries
  BY <1>1, <1>3 DEF Entries
<1>5. UNCHANGED Groups /\ pulls' = pulls
  BY <1>2 DEF OnPutAppend, Groups, ownVars, takeVars, storeVars, threadVars, historyVars, boundVars
<1>6. EntryHolds(g, e)
  BY <1>3, PlainHolds
<1> QED BY <1>3, <1>4, <1>5, <1>6, HoldsLogged

LEMMA PullHoldsAll == ASSUME Holds, OwnersInv, NEW g \in Gid, Pull(g) PROVE Holds'
<1> DEFINE waiting == {s \in Shard : waitingShards[g][s] # None}
           old(s) == historyConfigs[g][waitingShards[g][s] + 1]
           p(s) == [shard |-> s, from |-> old(s).shards[s], num |-> old(s).num,
                    answer |-> NoAnswer]
<1>1. pulls' = [pulls EXCEPT ![g] = {p(s) : s \in waiting}]
  BY DEF Pull
<1>2. UNCHANGED Groups /\ UNCHANGED queue /\ TypeInv
  BY DEF Pull, Groups, OwnersInv, ownVars, takeVars, storeVars, historyVars, boundVars
<1>3. ASSUME NEW s \in waiting PROVE PullHolds(g, p(s))
  <2>1. waitingShards[g][s] \in 1 .. config[g].num - 1
    BY <1>2, Numbers
  <2>2. waitingShards[g][s] + 1 \in 1 .. config[g].num /\ waitingShards[g][s] # config[g].num
    BY <1>2, <2>1, Numbers
  <2>3. old(s).num = waitingShards[g][s]
    BY <1>2, <2>1, <2>2, Numbers
  <2>4. At(g, old(s).num) = old(s).shards
    BY <2>2, <2>3 DEF At, ConfigAt
  <2>5. KeepPull(g, p(s))
    BY <2>4 DEF KeepPull, OfShard, NoAnswer, None
  <2>6. \A h \in Gid : \A x \in migratingShards[h] : PullOf(h, x, p(s))
    BY CopyNumber DEF PullOf, OfCopy, NoAnswer, None
  <2> QED BY <2>5, <2>6 DEF PullHolds
<1>4. ASSUME NEW h \in Gid, NEW q \in pulls'[h] PROVE q \in pulls[h] \/ PullHolds(h, q)
  <2>1. pulls \in [Gid -> SUBSET Threads]
    BY <1>2, Around
  <2> QED BY <1>1, <1>3, <1>4, <2>1
<1> QED BY <1>2, <1>4, HoldsPulled

(* What a group gives of a shard is what the copy of it holds.               *)
LEMMA GivenCopy ==
  ASSUME CopiesWhole, NEW h \in Gid, NEW s, NEW n
  PROVE  /\ Given(h, s, n).num = n /\ OfShard(s, Given(h, s, n).data)
         /\ \A x \in migratingShards[h] : x.num = n /\ x.shard = s => Given(h, s, n).data = x.data
<1>1. PICK M : M = {x \in migratingShards[h] : x.num = n /\ x.shard = s}
  OBVIOUS
<1>2. Given(h, s, n).num = n /\ Given(h, s, n).data = UNION {x.data : x \in M}
  BY <1>1 DEF Given
<1>3. OfShard(s, UNION {x.data : x \in M})
  BY <1>1 DEF CopiesWhole, WholeCopy, OfShard
<1>4. ASSUME NEW x \in migratingShards[h], x.num = n, x.shard = s
      PROVE  UNION {y.data : y \in M} = x.data
  <2>1. M = {x}
    BY <1>1, <1>4 DEF CopiesWhole
  <2> QED BY <2>1, Zenon
<1> QED BY <1>2, <1>3, <1>4

(* A thread that is answered with nothing, or with what was given.           *)
LEMMA AnsweredHolds ==
  ASSUME Holds, OwnersInv, NEW g \in Gid, NEW p \in pulls[g], NEW answer,
         Answered(g, p, answer),
         PullHolds(g, [p EXCEPT !.answer = answer]), NEW h \in Gid, NEW q \in pulls'[h]
  PROVE  q \in pulls[h] \/ PullHolds(h, q)
<1>1. pulls \in [Gid -> SUBSET Threads]
  BY Around DEF OwnersInv
<1>2. PICK a : a = [p EXCEPT !.answer = answer]
  OBVIOUS
<1>3. pulls' = [pulls EXCEPT ![g] = (@ \ {p}) \union {a}]
  BY <1>2 DEF Answered
<1> QED BY <1>1, <1>2, <1>3

LEMMA EmptyHolds ==
  ASSUME Holds, OwnersInv, NEW g \in Gid, NEW p \in pulls[g]
  PROVE  PullHolds(g, [p EXCEPT !.answer = EmptyAnswer])
<1>1. PICK a : a = [p EXCEPT !.answer = EmptyAnswer]
  OBVIOUS
<1>2. p \in Threads /\ KeepPull(g, p)
  BY AnswerNumbers DEF Holds, Transfers
<1>3. a.num = p.num /\ a.shard = p.shard /\ a.from = p.from /\ a.answer = EmptyAnswer
  BY <1>1, <1>2 DEF Threads
<1>4. KeepPull(g, a)
  BY <1>2, <1>3 DEF KeepPull, EmptyAnswer, OfShard
<1>5. \A h \in Gid : \A x \in migratingShards[h] : PullOf(h, x, a)
  BY <1>3, CopyNumber DEF PullOf, OfCopy, EmptyAnswer
<1> QED BY <1>1, <1>4, <1>5 DEF PullHolds

LEMMA GivenHolds ==
  ASSUME Holds, OwnersInv, NEW g \in Gid, NEW p \in pulls[g], p.from \in Gid,
         ~TooEarly(p.from, p.num)
  PROVE  PullHolds(g, [p EXCEPT !.answer = Given(p.from, p.shard, p.num)])
<1>1. PICK h \in Gid, s \in Shard, n \in Int : h = p.from /\ s = p.shard /\ n = p.num
  BY AnswerNumbers
<1>2. PICK m : m = Given(h, s, n)
  OBVIOUS
<1>3. PICK a : a = [p EXCEPT !.answer = m]
  OBVIOUS
<1>4. p \in Threads /\ KeepPull(g, p) /\ config[h].num \in Nat
  BY AnswerNumbers, HandTypes DEF Holds, Transfers
<1>5. a.num = n /\ a.shard = s /\ a.from = h /\ a.answer = m
  BY <1>1, <1>3, <1>4 DEF Threads
<1>6. /\ m.num = n /\ OfShard(s, m.data)
      /\ \A x \in migratingShards[h] : x.num = n /\ x.shard = s => m.data = x.data
  BY <1>2, GivenCopy DEF Holds
<1>7. LeftBy(g, s, n)
  BY <1>1, <1>4 DEF TooEarly, KeepPull, LeftBy
<1>8. KeepPull(g, a)
  BY <1>1, <1>4, <1>5, <1>6, <1>7 DEF KeepPull
<1>9. \A i \in Gid : \A x \in migratingShards[i] : PullOf(i, x, a)
  BY <1>5, <1>6 DEF PullOf, OfCopy
<1>10. PullHolds(g, a)
  BY <1>8, <1>9 DEF PullHolds
<1> QED BY <1>1, <1>2, <1>3, <1>10

LEMMA EndedFewer ==
  ASSUME OwnersInv, NEW g \in Gid, NEW p, Ended(g, p), NEW h \in Gid
  PROVE  pulls'[h] \subseteq pulls[h]
<1>1. pulls \in [Gid -> SUBSET Threads]
  BY Around DEF OwnersInv
<1> QED BY <1>1 DEF Ended

LEMMA AskingHolds ==
  ASSUME Holds, OwnersInv, NEW g \in Gid, NEW p \in pulls[g],
         OnShardMigration(g, p) \/ PullFails(g, p)
  PROVE  Holds'
<1>1. UNCHANGED Groups /\ UNCHANGED queue
  BY DEF OnShardMigration, PullFails, Groups, ownVars, takeVars, storeVars, historyVars
<1>2. p \in Threads
  BY AnswerNumbers
<1>3. PICK given : given = Given(p.from, p.shard, p.num)
  OBVIOUS
<1>4. PICK empty : empty = EmptyAnswer
  OBVIOUS
<1>5. \/ Ended(g, p)
      \/ Answered(g, p, given) /\ p.from # NoGid /\ ~TooEarly(p.from, p.num)
      \/ Answered(g, p, empty)
  BY <1>3, <1>4 DEF OnShardMigration, PullFails
<1>6. CASE Ended(g, p)
  BY <1>1, <1>6, EndedFewer, HoldsPulled
<1>7. CASE Answered(g, p, given) /\ p.from # NoGid /\ ~TooEarly(p.from, p.num)
  <2>1. p.from \in Gid
    BY <1>2, <1>7 DEF Threads
  <2>2. PullHolds(g, [p EXCEPT !.answer = given])
    BY <1>3, <1>7, <2>1, GivenHolds
  <2> QED BY <1>1, <1>7, <2>2, AnsweredHolds, HoldsPulled
<1>8. CASE Answered(g, p, empty)
  <2>1. PullHolds(g, [p EXCEPT !.answer = empty])
    BY <1>4, EmptyHolds
  <2> QED BY <1>1, <1>8, <2>1, AnsweredHolds, HoldsPulled
<1> QED BY <1>5, <1>6, <1>7, <1>8

LEMMA DoPullHolds ==
  ASSUME Holds, OwnersInv, NEW g \in Gid, NEW p \in pulls[g], DoPull(g, p)
  PROVE  Holds'
<1>1. PICK s \in IF p.answer.num = p.num THEN {p.shard} ELSE Shard :
        DoLog(g, [kind |-> IF Wired THEN "shardmigrationreply" ELSE "shardmigration",
                  shard |-> s, answer |-> p.answer])
  BY DEF DoPull
<1>2. PICK e : /\ e = [kind |-> IF Wired THEN "shardmigrationreply" ELSE "shardmigration",
                       shard |-> s, answer |-> p.answer]
               /\ DoLog(g, e)
  BY <1>1
<1>3. p \in Threads /\ KeepPull(g, p)
  BY AnswerNumbers DEF Holds, Transfers
<1>4. s \in Shard
  BY <1>1, <1>3 DEF Threads
<1>5. e \in Entries
  BY <1>2, <1>3, <1>4 DEF Entries, Threads
<1>6. UNCHANGED Groups /\ Ended(g, p)
  BY DEF DoPull, Groups, ownVars, takeVars, storeVars, historyVars, boundVars
<1>7. e.answer = p.answer /\ e.shard = s
      /\ e.kind \in {"shardmigration", "shardmigrationreply"}
  BY <1>2
<1>8. p.answer.num >= 1 => p.answer.num = p.num /\ s = p.shard
  BY <1>1, AnswerNumbers
<1>9. KeepEntry(g, e)
  BY <1>3, <1>7, <1>8 DEF KeepEntry, KeepPull
<1>10. ASSUME NEW h \in Gid, NEW x \in migratingShards[h], Untaken(h, x)
       PROVE  EntryOf(g, h, x, e)
  <2> SUFFICES ASSUME At(g, x.num)[x.shard] = h, s = x.shard, p.answer.num = x.num
               PROVE  p.answer.data = x.data
    BY <1>7 DEF EntryOf, OfCopy
  <2>1. x.num >= 1
    BY CopyNumber
  <2>2. p.from = h
    BY <1>3, <1>8, <2>1 DEF KeepPull
  <2>3. PullOf(h, x, p)
    BY <1>10 DEF Untaken
  <2> QED BY <1>8, <2>1, <2>2, <2>3 DEF PullOf, OfCopy
<1>11. EntryHolds(g, e)
  BY <1>9, <1>10 DEF EntryHolds
<1>12. \A h \in Gid : pulls'[h] \subseteq pulls[h]
  BY <1>6, EndedFewer
<1> QED BY <1>2, <1>5, <1>6, <1>11, <1>12, HoldsLogged

LEMMA OnShardCleanupHolds ==
  ASSUME Holds, OwnersInv, NEW g \in Gid, NEW c \in cleaningShards[g],
         OnShardCleanup(g, c[1], c[2])
  PROVE  Holds'
<1> DEFINE h == historyConfigs[g][c[1] + 1].shards[c[2]]
<1>1. UNCHANGED Groups /\ UNCHANGED pulls
  BY DEF OnShardCleanup, Groups, ownVars, takeVars, storeVars, historyVars, boundVars
<1>2. c[1] \in Nat /\ c[2] \in Shard /\ h \in Gid
  BY CleanedFrom DEF OwnersInv
<1>3. CASE DoLog(h, [kind |-> "shardcleanup", num |-> c[1], shard |-> c[2]])
  <2>1. PICK d \in Gid : d = h
    BY <1>2
  <2>2. PICK e : e = [kind |-> "shardcleanup", num |-> c[1], shard |-> c[2]] /\ DoLog(d, e)
    BY <1>3, <2>1
  <2>3. e \in Entries
    BY <1>2, <2>2 DEF Entries
  <2>4. e.kind = "shardcleanup" /\ e.num = c[1] /\ e.shard = c[2]
    BY <2>2
  <2>5. At(g, c[1])[c[2]] = d
    <3>1. c[1] \in 1 .. config[g].num - 1 /\ config[g].num \in Nat
      BY HandTypes DEF OwnersInv, TypeInv, TypeOK, FiledUnderLeft
    <3>2. c[1] # config[g].num
      BY <3>1
    <3> QED BY <2>1, <3>2 DEF At, ConfigAt
  <2>6. config[d].num > c[1]
    BY <2>5 DEF Holds, Transfers, LeftBy
  <2>7. ASSUME NEW i \in Gid, NEW x \in migratingShards[i], Untaken(i, x)
        PROVE  EntryOf(d, i, x, e)
    <3> SUFFICES ASSUME d = i, c[1] = x.num, c[2] = x.shard PROVE FALSE
      BY <2>4 DEF EntryOf
    <3>1. c = <<x.num, x.shard>>
      BY HandTypes
    <3> QED BY <2>5, <2>7, <3>1 DEF Untaken, CleansElsewhere
  <2>8. EntryHolds(d, e)
    BY <2>4, <2>6, <2>7 DEF EntryHolds, KeepEntry
  <2> QED BY <1>1, <2>2, <2>3, <2>8, HoldsLogged
<1>4. CASE UNCHANGED queue
  BY <1>1, <1>4, HoldsPulled
<1> QED BY <1>3, <1>4 DEF OnShardCleanup

LEMMA LeaderHolds ==
  ASSUME Holds, OwnersInv, NEW g \in Gid, NewLeader(g) \/ OnApply(g)
  PROVE  Holds'
<1>1. CASE NewLeader(g)
  <2>1. PICK n \in 0 .. Len(queue[g]) : queue' = [queue EXCEPT ![g] = SubSeq(@, 1, n)]
    BY <1>1 DEF NewLeader
  <2>2. UNCHANGED Groups /\ pulls' = [pulls EXCEPT ![g] = {}]
    BY <1>1 DEF NewLeader, Groups, ownVars, storeVars, historyVars
  <2>3. queue \in [Gid -> Seq(Entries)] /\ pulls \in [Gid -> SUBSET Threads]
    BY Around DEF OwnersInv
  <2>4. \A h \in Gid : Sent(h)' \subseteq Sent(h)
    BY <2>1, <2>3, CutSent
  <2> QED BY <2>2, <2>3, <2>4, FewerHolds
<1>2. CASE OnApply(g)
  <2>1. Applies(g, "shardmigration") /\ UNCHANGED Groups
    BY <1>2 DEF OnApply, applyVars, Groups, ownVars, storeVars, historyVars
  <2>2. \A h \in Gid : pulls'[h] = pulls[h] /\ Sent(h)' \subseteq Sent(h)
    BY <2>1, Applied DEF OwnersInv
  <2> QED BY <2>1, <2>2, FewerHolds
<1> QED BY <1>1, <1>2

LEMMA OutsideHolds == ASSUME Holds, OwnersInv, OutsideStep PROVE Holds'
<1>1. CASE NewConfiguration \/ UNCHANGED vars
  <2>1. UNCHANGED Groups /\ UNCHANGED <<queue, pulls>>
    BY <1>1 DEF NewConfiguration, vars, Groups, ownVars, takeVars, storeVars, threadVars,
                historyVars, boundVars
  <2> QED BY <2>1, HoldsPulled
<1>2. ASSUME NEW g \in Gid, NEW c \in cleaningShards[g], DoClean(g, c[1], c[2]) PROVE Holds'
  BY <1>2, HoldsPulled DEF DoClean, Groups, ownVars, storeVars, threadVars, historyVars, boundVars
<1>3. ASSUME NEW g \in Gid, NEW c \in cleaningShards[g], OnShardCleanup(g, c[1], c[2])
      PROVE  Holds'
  BY <1>3, OnShardCleanupHolds
<1>4. ASSUME NEW g \in Gid,
             NEW num \in {config[g].num, config[g].num + 1} \cap 1 .. MaxConfig,
             AskAgain(g, num) \/ \E key \in Key, op \in Op : Ask(g, key, op, num)
      PROVE  Holds'
  BY <1>4, AsksHolds
<1>5. ASSUME NEW g \in Gid, NEW p \in pulls[g],
             OnShardMigration(g, p) \/ PullFails(g, p) \/ DoPull(g, p)
      PROVE  Holds'
  BY <1>5, AskingHolds, DoPullHolds
<1>6. ASSUME NEW g \in Gid, Poll(g) \/ Pull(g) \/ OnApply(g) \/ NewLeader(g) PROVE Holds'
  BY <1>6, PollHolds, PullHoldsAll, LeaderHolds
<1> QED BY <1>1, <1>2, <1>3, <1>4, <1>5, <1>6 DEF OutsideStep

LEMMA OutsideHold == ASSUME HoldInv, OwnersInv', OutsideStep PROVE HoldInv'
<1>1. UNCHANGED <<latest, torn>>
  BY OutsideGroups DEF Groups
<1>2. ~torn' => Holds'
  BY <1>1, OutsideHolds DEF HoldInv
<1>3. LatestOfKeys'
  BY <1>1 DEF LatestOfKeys, HoldInv
<1> QED BY <1>2, <1>3 DEF HoldInv

(* A callback after which each group has the shards it had.                  *)
LEMMA CallbackQuiet ==
  ASSUME Transfers, OwnersInv,
         UNCHANGED <<config, historyConfigs, ownShards, cleaningShards, torn, hasty>>,
         \A g \in Gid : pulls'[g] = pulls[g] /\ Sent(g)' \subseteq Sent(g)
  PROVE  /\ Transfers'
         /\ \A h \in Gid : \A x \in migratingShards[h] : Untaken(h, x) => Untaken(h, x)'
<1>1. Onward
  BY SettledOnward
<1>2. Transfers'
  BY <1>1, TransfersStay
<1>3. ASSUME NEW h \in Gid, NEW x \in migratingShards[h], Untaken(h, x) PROVE Untaken(h, x)'
  BY <1>1, <1>3, UntakenStays
<1> QED BY <1>2, <1>3

LEMMA RestHolds ==
  ASSUME Holds, OwnersInv,
         UNCHANGED <<config, historyConfigs, ownShards, cleaningShards, data, latest, torn, hasty>>,
         \A g \in Gid : pulls'[g] = pulls[g] /\ Sent(g)' \subseteq Sent(g),
         \A h \in Gid : migratingShards'[h] \subseteq migratingShards[h],
         \A h \in Gid : \A x \in migratingShards[h] : Untaken(h, x) => x \in migratingShards'[h]
  PROVE  Holds'
<1>1. /\ Transfers'
      /\ \A h \in Gid : \A x \in migratingShards[h] : Untaken(h, x) => Untaken(h, x)'
  BY CallbackQuiet DEF Holds
<1>2. OwnersHave'
  BY DEF Holds, OwnersHave
<1>3. CopiesWhole'
  BY DEF Holds, CopiesWhole, WholeCopy, OfShard
<1>4. SomebodyHolds'
  <2> SUFFICES ASSUME NEW k \in Key, latest[k] # <<>> PROVE Holder(k)'
    BY DEF SomebodyHolds
  <2>1. Holder(k)
    BY DEF Holds, SomebodyHolds
  <2> QED BY <1>1, <2>1 DEF Holder
<1> QED BY <1>1, <1>2, <1>3, <1>4 DEF Holds

LEMMA OnShardCleanupApplyHolds ==
  ASSUME Holds, OwnersInv, NEW g \in Gid, OnShardCleanupApply(g)
  PROVE  Holds'
<1>1. PICK e : e = queue[g][1]
  OBVIOUS
<1>2. /\ Applies(g, "shardcleanup")
      /\ migratingShards' = [migratingShards EXCEPT ![g] =
           {x \in @ : ~(x.num = e.num /\ x.shard = e.shard)}]
      /\ UNCHANGED <<config, historyConfigs, ownShards, cleaningShards, data, latest, torn, hasty>>
  BY <1>1 DEF OnShardCleanupApply, storeVars, historyVars
<1>3. e \in Sent(g) /\ e.kind = "shardcleanup"
      /\ \A h \in Gid : pulls'[h] = pulls[h] /\ Sent(h)' \subseteq Sent(h)
  BY <1>1, <1>2, Applied DEF OwnersInv
<1>4. ASSUME NEW h \in Gid
      PROVE  /\ migratingShards'[h] \subseteq migratingShards[h]
             /\ \A x \in migratingShards[h] : Untaken(h, x) => x \in migratingShards'[h]
  <2>1. migratingShards'[h] = IF h = g
          THEN {x \in migratingShards[h] : ~(x.num = e.num /\ x.shard = e.shard)}
          ELSE migratingShards[h]
    BY <1>2, HandTypes
  <2>2. \A x \in migratingShards[h] : Untaken(h, x) => EntryOf(g, h, x, e)
    BY <1>3 DEF Untaken
  <2> QED BY <1>3, <2>1, <2>2 DEF EntryOf
<1> QED BY <1>2, <1>3, <1>4, RestHolds

LEMMA PassedOverHolds ==
  ASSUME Holds, OwnersInv, NEW g \in Gid, OnShardMigrationReplyApply(g),
         ~ (Recent(g, queue[g][1].answer.num) /\ queue[g][1].shard \notin ownShards[g])
  PROVE  Holds'
<1>1. Applies(g, "shardmigrationreply")
      /\ UNCHANGED <<config, historyConfigs, ownShards, migratingShards, cleaningShards, data,
                     latest, torn, hasty>>
  BY DEF OnShardMigrationReplyApply, historyVars, storeVars
<1>2. \A h \in Gid : pulls'[h] = pulls[h] /\ Sent(h)' \subseteq Sent(h)
  BY <1>1, Applied DEF OwnersInv
<1> QED BY <1>1, <1>2, RestHolds

(* A request makes what its group has the latest.                           *)
LEMMA OnPutAppendApplyHolds ==
  ASSUME Holds, OwnersInv, LatestOfKeys, NEW g \in Gid, OnPutAppendApply(g)
  PROVE  Holds'
<1> DEFINE e == queue[g][1]
<1>1. PICK r, key : r = e.id /\ key = asked[e.id].key
  BY Zenon
<1>2. PICK value : value = IF asked[r].op = "put" THEN <<r>> ELSE Append(data[g][key], r)
  BY Zenon
<1>3. /\ UNCHANGED <<config, historyConfigs, ownShards, migratingShards, cleaningShards, torn,
                     hasty>>
      /\ Applies(g, "putappend")
  BY DEF OnPutAppendApply, ownVars
<1>4. \A h \in Gid : pulls'[h] = pulls[h] /\ Sent(h)' \subseteq Sent(h)
  BY <1>3, Applied DEF OwnersInv
<1>5. CASE UNCHANGED <<data, latest>>
  BY <1>3, <1>4, <1>5, RestHolds
<1>6. CASE /\ Key2Shard(key) \in ownShards[g]
           /\ data' = [data EXCEPT ![g][key] = value]
           /\ latest' = [latest EXCEPT ![key] = value]
  <2>1. /\ Transfers'
        /\ \A h \in Gid : \A x \in migratingShards[h] : Untaken(h, x) => Untaken(h, x)'
    BY <1>3, <1>4, CallbackQuiet DEF Holds
  <2>2. data \in [Gid -> [Key -> Values]] /\ key \in Key
    BY <1>1, <1>3, HandTypes, AskedEntry
  <2>3. data'[g][key] = value /\ latest'[key] = value
    BY <1>6, <2>2 DEF LatestOfKeys
  <2>4. ASSUME NEW k \in Key, k # key
        PROVE  latest'[k] = latest[k] /\ \A h \in Gid : data'[h][k] = data[h][k]
    <3>1. latest'[k] = latest[k]
      BY <1>6, <2>4 DEF LatestOfKeys
    <3>2. \A h \in Gid : data'[h][k] = data[h][k]
      BY <1>6, <2>2, <2>4
    <3> QED BY <3>1, <3>2
  <2>5. OwnersHave'
    <3> SUFFICES ASSUME NEW h \in Gid, NEW k \in Key, data'[h][k] # <<>>
                 PROVE  Key2Shard(k) \in ownShards[h]
      BY <1>3 DEF OwnersHave
    <3>1. CASE k # key
      BY <2>4, <3>1 DEF Holds, OwnersHave
    <3>2. CASE k = key /\ h # g
      <4>1. data'[h][k] = data[h][k]
        BY <1>6, <2>2, <3>2
      <4> QED BY <4>1 DEF Holds, OwnersHave
    <3>3. CASE k = key /\ h = g
      BY <1>6, <3>3
    <3> QED BY <3>1, <3>2, <3>3
  <2>6. CopiesWhole'
    BY <1>3 DEF Holds, CopiesWhole, WholeCopy, OfShard
  <2>7. SomebodyHolds'
    <3> SUFFICES ASSUME NEW k \in Key, latest'[k] # <<>> PROVE Holder(k)'
      BY DEF SomebodyHolds
    <3>1. CASE k = key
      BY <2>3, <3>1 DEF Holder
    <3>2. CASE k # key
      <4>1. Holder(k)
        BY <2>4, <3>2 DEF Holds, SomebodyHolds
      <4> QED BY <1>3, <2>1, <2>4, <3>2, <4>1 DEF Holder
    <3> QED BY <3>1, <3>2
  <2> QED BY <2>1, <2>5, <2>6, <2>7 DEF Holds
<1>7. UNCHANGED <<data, latest>> \/
        (/\ Key2Shard(key) \in ownShards[g]
         /\ data' = [data EXCEPT ![g][key] = value]
         /\ latest' = [latest EXCEPT ![key] = value])
  <2>1. CASE Serves(g, e.num, asked[e.id].key) /\ Fresh(g, e.id)
    <3>1. /\ data' = [data EXCEPT ![g][asked[e.id].key] =
               IF asked[e.id].op = "put" THEN <<e.id>> ELSE Append(data[g][asked[e.id].key], e.id)]
          /\ latest' = [latest EXCEPT ![asked[e.id].key] =
               IF asked[e.id].op = "put" THEN <<e.id>> ELSE Append(data[g][asked[e.id].key], e.id)]
      BY <2>1 DEF OnPutAppendApply
    <3>2. Key2Shard(key) \in ownShards[g]
      BY <1>1, <2>1 DEF Serves
    <3> QED BY <1>1, <1>2, <3>1, <3>2, Zenon
  <2>2. CASE ~ (Serves(g, e.num, asked[e.id].key) /\ Fresh(g, e.id))
    BY <2>2 DEF OnPutAppendApply, historyVars
  <2> QED BY <2>1, <2>2
<1> QED BY <1>5, <1>6, <1>7

(* A shard that is taken over comes whole from the copy that is at the group *)
(* it came from; what the group has of other shards stays.                   *)
LEMMA InstalledOf ==
  ASSUME NEW s, NEW pairs, OfShard(s, pairs), NEW k, NEW old
  PROVE  /\ Key2Shard(k) # s => Installed(pairs, k, old) = old
         /\ \A v : /\ <<k, v>> \in pairs
                   /\ \A d, f \in pairs : d[1] = f[1] => d = f
                   => Installed(pairs, k, old) = v
<1>1. ASSUME Key2Shard(k) # s PROVE Installed(pairs, k, old) = old
  BY <1>1 DEF OfShard, Installed
<1>2. ASSUME NEW v, <<k, v>> \in pairs, \A d, f \in pairs : d[1] = f[1] => d = f
      PROVE  Installed(pairs, k, old) = v
  <2>1. PICK u : u = <<k, v>> /\ u \in pairs /\ u[1] = k /\ u[2] = v
    BY <1>2
  <2>2. PICK c : c = CHOOSE d \in pairs : d[1] = k
    OBVIOUS
  <2>3. c \in pairs /\ c[1] = k
    BY <2>1, <2>2
  <2>4. c = u
    BY <1>2, <2>1, <2>3
  <2>5. Installed(pairs, k, old) = c[2]
    BY <2>1, <2>2, Zenon DEF Installed
  <2> QED BY <2>1, <2>4, <2>5
<1> QED BY <1>1, <1>2

LEMMA InstallHolds ==
  ASSUME Holds, OwnersInv, NEW g \in Gid, OnShardMigrationReplyApply(g),
         Recent(g, queue[g][1].answer.num), queue[g][1].shard \notin ownShards[g]
  PROVE  Holds'
<1>1. PICK e : e = queue[g][1]
  OBVIOUS
<1>2. PICK s : s = e.shard
  OBVIOUS
<1>3. PICK a : a = e.answer
  OBVIOUS
<1>4. PICK n : n = a.num
  OBVIOUS
<1>5. /\ Applies(g, "shardmigrationreply")
      /\ cleaningShards' = [cleaningShards EXCEPT ![g] = @ \union {<<n, s>>}]
      /\ ownShards' = [ownShards EXCEPT ![g] = @ \union {s}]
      /\ data' = [data EXCEPT ![g] = [k \in Key |->
           IF \E d \in a.data : d[1] = k
           THEN (CHOOSE d \in a.data : d[1] = k)[2] ELSE @[k]]]
      /\ UNCHANGED <<config, historyConfigs, migratingShards, latest, torn, hasty>>
  BY <1>1, <1>2, <1>3, <1>4, Zenon DEF OnShardMigrationReplyApply, historyVars
<1>6. e \in Sent(g) /\ e.kind = "shardmigrationreply" /\ GoodEntry(g, e)
      /\ \A h \in Gid : pulls'[h] = pulls[h] /\ Sent(h)' \subseteq Sent(h)
  BY <1>1, <1>5, Applied DEF OwnersInv
<1>7. s \in Shard /\ n \in Nat \ {0} /\ s \notin ownShards[g]
  <2>1. s \in Shard /\ n \in Int
    BY <1>2, <1>3, <1>4, <1>6, AnswerNumbers
  <2>2. config[g].num >= 2 /\ n = config[g].num - 1 /\ config[g].num \in Nat
    BY <1>1, <1>3, <1>4, <1>6, HandTypes DEF GoodEntry, Recent
  <2> QED BY <1>1, <1>2, <2>1, <2>2
<1>8. PICK D : D = a.data
  OBVIOUS
<1>9. LeftBy(g, s, n) /\ OfShard(s, D)
  BY <1>2, <1>3, <1>4, <1>6, <1>7, <1>8 DEF Holds, Transfers, KeepEntry
<1>10. /\ ownShards'[g] = ownShards[g] \union {s}
       /\ cleaningShards'[g] = cleaningShards[g] \union {<<n, s>>}
       /\ \A h \in Gid : h # g => /\ ownShards'[h] = ownShards[h]
                                  /\ cleaningShards'[h] = cleaningShards[h]
                                  /\ data'[h] = data[h]
  BY <1>5, HandTypes
<1>11. \A k \in Key : data'[g][k] = Installed(D, k, data[g][k])
  <2>1. data \in [Gid -> [Key -> Values]]
    BY HandTypes
  <2>2. PICK m : m = [k \in Key |-> Installed(D, k, data[g][k])]
    OBVIOUS
  <2>3. data' = [data EXCEPT ![g] = m]
    BY <1>5, <1>8, <2>2, Zenon DEF Installed
  <2>4. data'[g] = m
    BY <2>1, <2>3
  <2> QED BY <2>2, <2>4
<1>12. ASSUME NEW k \in Key, Key2Shard(k) # s PROVE data'[g][k] = data[g][k]
  <2>1. PICK old : old = data[g][k]
    OBVIOUS
  <2>2. Installed(D, k, old) = old
    BY <1>9, <1>12, InstalledOf
  <2> QED BY <1>11, <2>1, <2>2
<1>13. Onward
  BY <1>5, <1>10, SettledOnward
<1>14. \A h, i : At(h, i)' = At(h, i)
  BY <1>5 DEF At, ConfigAt
<1>15. Transfers'
  <2>1. LeftBy(g, s, n)'
    BY <1>5, <1>9, <1>14 DEF LeftBy
  <2>2. ASSUME NEW h \in Gid, NEW c \in cleaningShards'[h]
        PROVE  c \in cleaningShards[h] \/ LeftBy(h, c[2], c[1])'
    BY <1>10, <2>1, <2>2
  <2> QED BY <1>6, <1>13, <2>2, TransfersStay DEF Holds
<1>16. OwnersHave'
  <2>1. ASSUME NEW h \in Gid, NEW k \in Key, data'[h][k] # <<>>
        PROVE  Key2Shard(k) \in ownShards'[h]
    <3>1. CASE h = g /\ Key2Shard(k) = s
      BY <1>10, <3>1
    <3>2. CASE ~ (h = g /\ Key2Shard(k) = s)
      <4>1. data[h][k] # <<>>
        BY <1>10, <1>12, <2>1, <3>2
      <4> QED BY <1>10, <4>1 DEF Holds, OwnersHave
    <3> QED BY <3>1, <3>2
  <2> QED BY <2>1 DEF OwnersHave
<1>17. CopiesWhole'
  BY <1>5 DEF Holds, CopiesWhole, WholeCopy, OfShard
<1>18. ASSUME NEW k \in Key, latest[k] # <<>>, NEW i \in Gid, data[i][k] = latest[k]
       PROVE  data'[i][k] = latest[k]
  <2>1. CASE i # g
    BY <1>10, <1>18, <2>1
  <2>2. CASE i = g
    <3>1. Key2Shard(k) # s
      BY <1>7, <1>18, <2>2 DEF Holds, OwnersHave
    <3> QED BY <1>12, <1>18, <2>2, <3>1
  <2> QED BY <2>1, <2>2
<1>19. ASSUME NEW k \in Key, NEW h \in Gid, NEW x \in migratingShards[h],
              <<k, latest[k]>> \in x.data, Untaken(h, x)
       PROVE  data'[g][k] = latest[k] \/ Untaken(h, x)'
  <2>1. CASE x.num = n /\ x.shard = s /\ At(g, n)[s] = h
    <3>1. D = x.data
      BY <1>2, <1>3, <1>4, <1>6, <1>8, <1>19, <2>1 DEF Untaken, EntryOf, OfCopy
    <3>2. \A d, f \in D : d[1] = f[1] => d = f
      BY <3>1 DEF Holds, CopiesWhole, WholeCopy
    <3>3. PICK old, v : old = data[g][k] /\ v = latest[k]
      BY Zenon
    <3>4. Installed(D, k, old) = v
      BY <1>9, <1>19, <3>1, <3>2, <3>3, InstalledOf
    <3> QED BY <1>11, <3>3, <3>4
  <2>2. CASE ~ (x.num = n /\ x.shard = s /\ At(g, n)[s] = h)
    <3>1. ASSUME NEW i \in Gid, NEW c \in cleaningShards'[i]
          PROVE  c \in cleaningShards[i] \/ CleansElsewhere(i, h, x, c)'
      <4>1. c \in cleaningShards[i] \/ (i = g /\ c = <<n, s>>)
        BY <1>10, <3>1
      <4>2. ASSUME i = g, c = <<n, s>>, c = <<x.num, x.shard>> PROVE At(i, x.num)'[x.shard] # h
        <5>1. n = x.num /\ s = x.shard
          BY <4>2
        <5> QED BY <1>14, <2>2, <4>2, <5>1
      <4> QED BY <4>1, <4>2 DEF CleansElsewhere
    <3> QED BY <1>6, <1>13, <1>19, <3>1, UntakenStays
  <2> QED BY <2>1, <2>2
<1>20. SomebodyHolds'
  <2> SUFFICES ASSUME NEW k \in Key, latest[k] # <<>> PROVE Holder(k)'
    BY <1>5 DEF SomebodyHolds
  <2>1. Holder(k)
    BY DEF Holds, SomebodyHolds
  <2>2. CASE \E i \in Gid : data[i][k] = latest[k]
    BY <1>5, <1>18, <2>2 DEF Holder
  <2>3. CASE \E h \in Gid : \E x \in migratingShards[h] :
               <<k, latest[k]>> \in x.data /\ Untaken(h, x)
    BY <1>5, <1>19, <2>3 DEF Holder
  <2> QED BY <2>1, <2>2, <2>3 DEF Holder
<1> QED BY <1>15, <1>16, <1>17, <1>20 DEF Holds

(* What is given up was not taken over by anybody yet: who takes it over     *)
(* asks a group that has left the configuration.                             *)
LEMMA WholeUntaken ==
  ASSUME Transfers, OwnersInv, Onward, NEW g \in Gid, NEW x, NEW c, c = config[g].num,
         c \in Nat \ {0}, x.num = c, UNCHANGED cleaningShards,
         \A h \in Gid : pulls'[h] = pulls[h] /\ Sent(h)' \subseteq Sent(h)
  PROVE  Untaken(g, x)'
<1> DEFINE s == x.shard
<1>1. ASSUME NEW i \in Gid, c < config[i].num PROVE At(i, c)' = At(i, c)
  <2>1. config[i].num \in Nat
    BY HandTypes
  <2>2. c \in 0 .. config[i].num
    BY <1>1, <2>1
  <2> QED BY <2>2, AtStays
<1>2. ASSUME NEW i \in Gid, LeftBy(i, s, c) PROVE At(i, c)[s] # g
  BY <1>2 DEF LeftBy
<1>3. ASSUME NEW i \in Gid, NEW f \in cleaningShards[i] PROVE CleansElsewhere(i, g, x, f)'
  <2> SUFFICES ASSUME f = <<c, s>> PROVE At(i, c)'[s] # g
    BY DEF CleansElsewhere
  <2>1. f[1] = c /\ f[2] = s
    OBVIOUS
  <2>2. LeftBy(i, s, c)
    BY <2>1 DEF Transfers
  <2>3. f[1] \in 1 .. config[i].num - 1 /\ config[i].num \in Nat
    BY HandTypes DEF OwnersInv, TypeInv, TypeOK, FiledUnderLeft
  <2>4. c < config[i].num
    BY <2>1, <2>3
  <2> QED BY <1>1, <1>2, <2>2, <2>4
<1>4. ASSUME NEW i \in Gid, NEW p \in pulls[i] PROVE PullOf(g, x, p)
  <2> SUFFICES ASSUME p.from = g, p.shard = s, p.answer.num = c PROVE FALSE
    BY DEF PullOf, OfCopy
  <2>1. p.answer.num = p.num
    BY AnswerNumbers
  <2>2. LeftBy(i, s, c) /\ p.from = At(i, c)[s]
    BY <2>1 DEF Transfers, KeepPull
  <2> QED BY <1>2, <2>2
<1>5. ASSUME NEW i \in Gid, NEW e \in Sent(i) PROVE EntryOf(i, g, x, e)'
  <2>1. KeepEntry(i, e)
    BY DEF Transfers
  <2>2. e.kind = "shardcleanup" /\ i = g => e.num # c
    BY <2>1 DEF KeepEntry
  <2>3. ASSUME e.kind = "shardmigrationreply", e.shard = s, e.answer.num = c
        PROVE  At(i, c)'[s] # g
    <3>1. LeftBy(i, s, c)
      BY <2>1, <2>3 DEF KeepEntry
    <3>2. c < config[i].num
      BY <2>3, AnswerNumbers
    <3> QED BY <1>1, <1>2, <3>1, <3>2
  <2> QED BY <2>2, <2>3 DEF EntryOf, OfCopy
<1> QED BY <1>3, <1>4, <1>5 DEF Untaken, PullOf, OfCopy

LEMMA NewConfHolds ==
  ASSUME Holds, OwnersInv, ~torn', NEW g \in Gid, NEW new \in Configs,
         new.num = config[g].num + 1, ApplyNewConf(g, new), Applies(g, "newconfig"),
         UNCHANGED <<cleaningShards, latest>>
  PROVE  Holds'
<1>1. TakenOn(g, new) /\ Onward
  BY TakenWhole, ApplyNewConfOnward
<1>2. PICK c \in Nat : c = config[g].num
  BY HandTypes
<1>3. \A h \in Gid : pulls'[h] = pulls[h] /\ Sent(h)' \subseteq Sent(h)
  BY Applied DEF OwnersInv
<1>4. PICK lost : lost = Lost(g, new)
  OBVIOUS
<1>5. /\ ownShards'[g] = Kept(g, new) /\ lost \subseteq ownShards[g]
      /\ ownShards[g] \ lost \subseteq Kept(g, new)
      /\ c = 0 => lost = {}
  BY <1>1, <1>2, <1>4, HandTypes DEF Lost, TakenOn
<1>6. ASSUME NEW h \in Gid, h # g
      PROVE  /\ ownShards'[h] = ownShards[h] /\ data'[h] = data[h]
             /\ migratingShards'[h] = migratingShards[h]
  BY <1>1, <1>6 DEF TakenOn
<1>7. /\ migratingShards'[g] = migratingShards[g] \union {Whole(g, s) : s \in lost}
      /\ \A k \in Key : data'[g][k] = IF Key2Shard(k) \in lost THEN <<>> ELSE data[g][k]
  BY <1>1, <1>4 DEF TakenOn
<1>8. \A s : /\ Whole(g, s).num = c /\ Whole(g, s).shard = s
             /\ Whole(g, s).data = {<<k, data[g][k]>> : k \in Full(g, s)}
  BY <1>2 DEF Whole, GivenUp
<1>9. Transfers'
  BY <1>1, <1>3, TransfersStay DEF Holds
<1>10. OwnersHave'
  <2>1. ASSUME NEW h \in Gid, NEW k \in Key, data'[h][k] # <<>>
        PROVE  Key2Shard(k) \in ownShards'[h]
    <3>1. CASE h = g
      <4>1. data[g][k] # <<>> /\ Key2Shard(k) \notin lost
        BY <1>7, <2>1, <3>1
      <4> QED BY <1>5, <3>1, <4>1 DEF Holds, OwnersHave
    <3>2. CASE h # g
      BY <1>6, <2>1, <3>2 DEF Holds, OwnersHave
    <3> QED BY <3>1, <3>2
  <2> QED BY <2>1 DEF OwnersHave
<1>11. ASSUME NEW s PROVE WholeCopy(Whole(g, s))
  <2>1. PICK x : x = Whole(g, s)
    OBVIOUS
  <2>2. x.shard = s /\ x.data = {<<k, data[g][k]>> : k \in Full(g, s)}
    BY <1>8, <2>1
  <2>3. \A k \in Full(g, s) : Key2Shard(k) = s
    BY DEF Full, KeysOf
  <2>4. WholeCopy(x)
    BY <2>2, <2>3 DEF WholeCopy, OfShard
  <2> QED BY <2>1, <2>4
<1>12. \A x \in migratingShards[g] : x.num # c
  BY <1>2, CopyNumber
<1>13. CopiesWhole'
  <2>1. ASSUME NEW h \in Gid, NEW x \in migratingShards'[h] PROVE WholeCopy(x)
    BY <1>6, <1>7, <1>11, <2>1 DEF Holds, CopiesWhole
  <2>2. ASSUME NEW h \in Gid, NEW x \in migratingShards'[h], NEW y \in migratingShards'[h],
               x.num = y.num, x.shard = y.shard
        PROVE  x = y
    <3>1. CASE h # g
      BY <1>6, <2>2, <3>1 DEF Holds, CopiesWhole
    <3>2. CASE h = g /\ x.num = c
      <4>1. x \notin migratingShards[g] /\ y \notin migratingShards[g]
        BY <1>12, <2>2, <3>2
      <4>2. (\E s \in lost : x = Whole(g, s)) /\ (\E s \in lost : y = Whole(g, s))
        BY <1>7, <2>2, <3>2, <4>1
      <4> QED BY <1>8, <2>2, <4>2
    <3>3. CASE h = g /\ x.num # c
      <4>1. x \in migratingShards[g] /\ y \in migratingShards[g]
        BY <1>7, <1>8, <2>2, <3>3
      <4> QED BY <2>2, <4>1 DEF Holds, CopiesWhole
    <3> QED BY <3>1, <3>2, <3>3
  <2> QED BY <2>1, <2>2 DEF CopiesWhole, WholeCopy, OfShard
<1>14. ASSUME NEW k \in Key, latest[k] # <<>>, NEW i \in Gid, data[i][k] = latest[k]
       PROVE  Holder(k)'
  <2>1. CASE i # g \/ Key2Shard(k) \notin lost
    <3>1. data'[i][k] = latest[k]
      BY <1>6, <1>7, <1>14, <2>1
    <3> QED BY <3>1 DEF Holder
  <2>2. CASE i = g /\ Key2Shard(k) \in lost
    <3>1. PICK s : s = Key2Shard(k) /\ s \in lost
      BY <2>2
    <3>2. PICK x : x = Whole(g, s)
      OBVIOUS
    <3>3. x \in migratingShards'[g] /\ x.num = c /\ c \in Nat \ {0}
      BY <1>2, <1>5, <1>7, <1>8, <3>1, <3>2
    <3>4. k \in Full(g, s)
      BY <1>14, <2>2, <3>1 DEF Full, KeysOf
    <3>5. <<k, latest[k]>> \in x.data
      BY <1>8, <1>14, <2>2, <3>2, <3>4
    <3>6. Untaken(g, x)'
      BY <1>1, <1>2, <1>3, <3>3, WholeUntaken DEF Holds
    <3> QED BY <3>3, <3>5, <3>6 DEF Holder
  <2> QED BY <2>1, <2>2
<1>15. ASSUME NEW k \in Key, NEW h \in Gid, NEW x \in migratingShards[h],
              <<k, latest[k]>> \in x.data, Untaken(h, x)
       PROVE  Holder(k)'
  <2>1. Untaken(h, x)'
    BY <1>1, <1>3, <1>15, UntakenStays
  <2>2. x \in migratingShards'[h]
    BY <1>6, <1>7
  <2> QED BY <1>15, <2>1, <2>2 DEF Holder
<1>16. SomebodyHolds'
  <2> SUFFICES ASSUME NEW k \in Key, latest[k] # <<>> PROVE Holder(k)'
    BY DEF SomebodyHolds
  <2>1. Holder(k)
    BY DEF Holds, SomebodyHolds
  <2> QED BY <1>14, <1>15, <2>1 DEF Holder
<1> QED BY <1>9, <1>10, <1>13, <1>16 DEF Holds

LEMMA OnNewConfigApplyHold ==
  ASSUME HoldInv, OwnersInv', NEW g \in Gid, OnNewConfigApply(g) PROVE HoldInv'
<1>1. PICK new : new = queue[g][1].config
  OBVIOUS
<1>2. Applies(g, "newconfig") /\ UNCHANGED <<cleaningShards, latest>> /\ OwnersInv
  BY DEF OnNewConfigApply, historyVars, HoldInv
<1>3. LatestOfKeys'
  BY <1>2 DEF HoldInv, LatestOfKeys
<1>4. CASE Newer(g, new.num) /\ ApplyNewConf(g, new)
  <2>1. new \in Configs /\ new.num = config[g].num + 1
    BY <1>1, <1>2, <1>4, NextNumber DEF OwnersInv
  <2>2. ~torn' => Holds
    BY <1>4 DEF ApplyNewConf, HoldInv
  <2>3. ~torn' => Holds'
    BY <1>2, <1>4, <2>1, <2>2, NewConfHolds
  <2> QED BY <1>3, <2>3 DEF HoldInv
<1>5. CASE UNCHANGED <<ownVars, storeVars, torn, hasty>>
  <2>1. UNCHANGED <<config, historyConfigs, ownShards, migratingShards, cleaningShards, data,
                    latest, torn, hasty>>
    BY <1>2, <1>5 DEF ownVars, storeVars
  <2>2. \A h \in Gid : pulls'[h] = pulls[h] /\ Sent(h)' \subseteq Sent(h)
    BY <1>2, Applied DEF OwnersInv
  <2>3. ~torn' => Holds'
    BY <1>2, <2>1, <2>2, RestHolds DEF HoldInv
  <2> QED BY <1>3, <2>3 DEF HoldInv
<1> QED BY <1>1, <1>4, <1>5 DEF OnNewConfigApply

LEMMA OnPutAppendApplyHold ==
  ASSUME HoldInv, OwnersInv', NEW g \in Gid, OnPutAppendApply(g) PROVE HoldInv'
<1>1. UNCHANGED torn
  BY DEF OnPutAppendApply
<1>2. LatestOfKeys'
  BY DEF OnPutAppendApply, LatestOfKeys, HoldInv, historyVars
<1>3. ~torn' => Holds'
  BY <1>1, OnPutAppendApplyHolds DEF HoldInv
<1> QED BY <1>2, <1>3 DEF HoldInv

LEMMA TakeOverHold ==
  ASSUME HoldInv, OwnersInv', NEW g \in Gid,
         OnShardMigrationReplyApply(g) \/ OnShardCleanupApply(g)
  PROVE  HoldInv'
<1>1. UNCHANGED <<latest, torn>>
  BY DEF OnShardMigrationReplyApply, OnShardCleanupApply, historyVars
<1>2. ~torn' => Holds'
  BY <1>1, InstallHolds, PassedOverHolds, OnShardCleanupApplyHolds DEF HoldInv
<1> QED BY <1>1, <1>2 DEF HoldInv, LatestOfKeys

LEMMA NextHold == ASSUME HoldInv, [Next]_vars PROVE HoldInv'
<1>1. OwnersInv'
  BY NextOwnersInv DEF HoldInv
<1>2. CASE OutsideStep
  BY <1>1, <1>2, OutsideHold
<1>3. ASSUME NEW g \in Gid, OnNewConfigApply(g) PROVE HoldInv'
  BY <1>1, <1>3, OnNewConfigApplyHold
<1>4. ASSUME NEW g \in Gid, OnPutAppendApply(g) PROVE HoldInv'
  BY <1>1, <1>4, OnPutAppendApplyHold
<1>5. ASSUME NEW g \in Gid, OnShardMigrationReplyApply(g) \/ OnShardCleanupApply(g) PROVE HoldInv'
  BY <1>1, <1>5, TakeOverHold
<1> QED BY <1>2, <1>3, <1>4, <1>5 DEF Next, OutsideStep

LEMMA InitHold == Init => HoldInv
<1> SUFFICES ASSUME Init PROVE HoldInv
  OBVIOUS
<1>1. OwnersInv
  BY InitOwnersInv
<1>2. LatestOfKeys
  BY DEF Init, LatestOfKeys
<1>3. /\ \A g \in Gid : /\ migratingShards[g] = {} /\ cleaningShards[g] = {} /\ pulls[g] = {}
                        /\ queue[g] = <<>> /\ data[g] = [k \in Key |-> <<>>]
      /\ latest = [k \in Key |-> <<>>]
  BY DEF Init
<1>4. \A g \in Gid : Sent(g) = {}
  BY <1>3 DEF Sent
<1>5. OwnersHave /\ CopiesWhole /\ Transfers /\ SomebodyHolds
  BY <1>3, <1>4 DEF OwnersHave, CopiesWhole, Transfers, SomebodyHolds
<1> QED BY <1>1, <1>2, <1>5 DEF HoldInv, Holds

(* Wired or not, what the last request made of a key is never lost while no  *)
(* shard is given up in part: somebody has it as his data, or among what he  *)
(* gave up and nobody has taken over yet; even if the groups were told       *)
(* different things of one configuration, or took one while they awaited a   *)
(* shard, and whichever pulls and clean-ups were lost or sent again.         *)
THEOREM LatestAlwaysKept == Spec => []LatestKept
<1>1. ASSUME HoldInv PROVE LatestKept
  <2> SUFFICES ASSUME ~torn, NEW k \in Key, latest[k] # <<>>
               PROVE  \E g \in Gid : \/ data[g][k] = latest[k]
                                     \/ \E x \in migratingShards[g] : <<k, latest[k]>> \in x.data
    BY DEF LatestKept
  <2>1. Holder(k)
    BY <1>1 DEF HoldInv, Holds, SomebodyHolds
  <2> QED BY <2>1 DEF Holder
<1>2. HoldInv /\ [Next]_vars => HoldInv'
  BY NextHold
<1> QED BY <1>1, <1>2, InitHold, PTL DEF Spec
=============================================================================
