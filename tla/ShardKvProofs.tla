---------------------------- MODULE ShardKvProofs ----------------------------
(* What ShardKv keeps however many groups and shards there are, whatever the *)
(* shard master decides and however late the entries are applied.           *)
EXTENDS ShardKv, SequenceTheorems, TLAPS

-----------------------------------------------------------------------------
(* The entries that wait to be applied.                                     *)

Sent(g) == {queue[g][k] : k \in DOMAIN queue[g]}

LEMMA EntryType ==
  ASSUME NEW e \in Entries
  PROVE  /\ e.kind = "newconfig" => e.config \in Configs
         /\ e.kind = "putappend" => e.id \in Request /\ e.num \in Nat
         /\ e.kind \in {"shardmigration", "shardmigrationreply"} =>
              e.shard \in Shard /\ e.answer \in Answers
         /\ e.kind = "shardcleanup" => e.num \in Nat /\ e.shard \in Shard
BY DEF Entries

LEMMA SentType ==
  ASSUME queue \in [Gid -> Seq(Entries)], NEW g \in Gid
  PROVE  Sent(g) \subseteq Entries
BY ElementOfSeq, LenProperties DEF Sent

LEMMA LogSent ==
  ASSUME queue \in [Gid -> Seq(Entries)], NEW g \in Gid, NEW e \in Entries, DoLog(g, e)
  PROVE  /\ queue' \in [Gid -> Seq(Entries)]
         /\ \A h \in Gid : Sent(h)' \subseteq Sent(h) \union {e}
         /\ \A h \in Gid : h # g => Sent(h)' = Sent(h)
<1>1. queue' = [queue EXCEPT ![g] = Append(@, e)]
  BY DEF DoLog
<1>2. /\ Append(queue[g], e) \in Seq(Entries)
      /\ Len(Append(queue[g], e)) = Len(queue[g]) + 1
      /\ \A k \in 1 .. Len(queue[g]) : Append(queue[g], e)[k] = queue[g][k]
      /\ Append(queue[g], e)[Len(queue[g]) + 1] = e
  BY AppendProperties
<1>3. queue' \in [Gid -> Seq(Entries)]
  BY <1>1, <1>2
<1>4. Sent(g)' \subseteq Sent(g) \union {e}
  BY <1>1, <1>2, LenProperties DEF Sent
<1>5. ASSUME NEW h \in Gid, h # g PROVE Sent(h)' = Sent(h)
  BY <1>1, <1>5 DEF Sent
<1> QED BY <1>3, <1>4, <1>5

LEMMA ApplySent ==
  ASSUME queue \in [Gid -> Seq(Entries)], NEW g \in Gid, NEW kind, Applies(g, kind)
  PROVE  /\ queue' \in [Gid -> Seq(Entries)]
         /\ queue[g][1] \in Sent(g) /\ queue[g][1] \in Entries /\ queue[g][1].kind = kind
         /\ \A h \in Gid : Sent(h)' \subseteq Sent(h)
<1>1. /\ queue[g] # <<>> /\ queue[g][1].kind = kind
      /\ queue' = [queue EXCEPT ![g] = Tail(@)]
  BY DEF Applies
<1>2. /\ Len(queue[g]) \in Nat \ {0} /\ DOMAIN queue[g] = 1 .. Len(queue[g])
      /\ Tail(queue[g]) \in Seq(Entries)
      /\ Len(Tail(queue[g])) = Len(queue[g]) - 1
      /\ \A k \in 1 .. Len(Tail(queue[g])) : Tail(queue[g])[k] = queue[g][k + 1]
  BY <1>1, HeadTailProperties, EmptySeq, LenProperties
<1>3. queue[g][1] \in Sent(g)
  BY <1>2 DEF Sent
<1>4. Sent(g)' \subseteq Sent(g)
  BY <1>1, <1>2, LenProperties DEF Sent
<1>5. ASSUME NEW h \in Gid PROVE Sent(h)' \subseteq Sent(h)
  BY <1>1, <1>4 DEF Sent
<1> QED BY <1>1, <1>2, <1>3, <1>5, SentType

LEMMA CutSent ==
  ASSUME queue \in [Gid -> Seq(Entries)], NEW g \in Gid, NEW n \in 0 .. Len(queue[g]),
         queue' = [queue EXCEPT ![g] = SubSeq(@, 1, n)]
  PROVE  /\ queue' \in [Gid -> Seq(Entries)]
         /\ \A h \in Gid : Sent(h)' \subseteq Sent(h)
<1>1. /\ Len(queue[g]) \in Nat /\ DOMAIN queue[g] = 1 .. Len(queue[g])
      /\ SubSeq(queue[g], 1, n) \in Seq(Entries)
      /\ Len(SubSeq(queue[g], 1, n)) = n
      /\ \A k \in 1 .. n : SubSeq(queue[g], 1, n)[k] = queue[g][k]
  BY SubSeqProperties, LenProperties, ElementOfSeq
<1>2. Sent(g)' \subseteq Sent(g)
  BY <1>1, LenProperties DEF Sent
<1>3. ASSUME NEW h \in Gid PROVE Sent(h)' \subseteq Sent(h)
  BY <1>2 DEF Sent
<1> QED BY <1>1, <1>3
-----------------------------------------------------------------------------
(* What every step keeps: types, the order of the configurations, and what  *)
(* the entries that wait and the threads that pull may hold.                *)

GoodEntry(g, e) ==
  /\ e.kind = "newconfig" => e.config.num <= config[g].num + 1
  /\ e.kind = "putappend" => e.id \in DOMAIN asked
  /\ e.kind \in {"shardmigration", "shardmigrationreply"} =>
       config[g].num >= 2 /\ e.answer.cache \subseteq DOMAIN asked

GoodPull(g, p) == p.num \in 1 .. config[g].num - 1 /\ p.answer.cache \subseteq DOMAIN asked

Known ==
  \A g \in Gid :
    /\ \A e \in Sent(g) : GoodEntry(g, e)
    /\ \A p \in pulls[g] : GoodPull(g, p)
    /\ \A x \in migratingShards[g] : x.cache \subseteq DOMAIN asked
    /\ config[g].num = 0 => ownShards[g] = {}

TypeInv == TypeOK /\ HistoryInOrder /\ Known

LEMMA Numbers ==
  ASSUME TypeInv, NEW g \in Gid
  PROVE  /\ config[g] \in Configs /\ config[g].num \in 0 .. MaxConfig
         /\ historyConfigs[g] \in Seq(Configs)
         /\ Len(historyConfigs[g]) = config[g].num
         /\ \A n \in 1 .. config[g].num :
              historyConfigs[g][n] \in Configs /\ historyConfigs[g][n].num = n - 1
         /\ \A s \in Shard : waitingShards[g][s] # None =>
              waitingShards[g][s] \in 1 .. config[g].num - 1
<1> USE BoundAssumption
<1>1. /\ config[g] \in Configs /\ config[g].num \in 0 .. MaxConfig
      /\ historyConfigs[g] \in Seq(Configs)
  BY DEF TypeInv, TypeOK, ConfigTypeOK, Configs
<1>2. /\ Len(historyConfigs[g]) = config[g].num
      /\ \A s \in Shard : waitingShards[g][s] # None =>
           waitingShards[g][s] \in 1 .. config[g].num - 1
  BY DEF TypeInv, HistoryInOrder
<1>3. ASSUME NEW n \in 1 .. config[g].num
      PROVE  historyConfigs[g][n] \in Configs /\ historyConfigs[g][n].num = n - 1
  <2>1. historyConfigs[g][n] \in Configs
    BY <1>1, <1>2, ElementOfSeq
  <2>2. n - 1 \in 0 .. config[g].num /\ n - 1 # config[g].num /\ (n - 1) + 1 = n
    BY <1>1
  <2>3. ConfigAt(g, n - 1).num = n - 1
    BY <2>2 DEF TypeInv, HistoryInOrder
  <2> QED BY <2>1, <2>2, <2>3 DEF ConfigAt
<1> QED BY <1>1, <1>2, <1>3

LEMMA AskedKnown ==
  ASSUME StoreTypeOK
  PROVE  DOMAIN asked = 1 .. Len(asked) /\ DOMAIN asked \subseteq Request
BY LenProperties, BoundAssumption DEF StoreTypeOK, Request

LEMMA InitTypeInv == Init => TypeInv
<1> SUFFICES ASSUME Init PROVE TypeInv
  OBVIOUS
<1> USE BoundAssumption
<1>1. ConfigTypeOK
  <2>1. [s \in Shard |-> NoGid] \in Master!Assignment
    BY DEF Master!Assignment
  <2>2. master \in Seq(Master!Assignment) /\ master # <<>>
    BY <2>1 DEF Init, Master!Init
  <2> QED BY <2>1, <2>2 DEF Init, ConfigTypeOK, FirstConfig, Configs
<1>2. ShardTypeOK
  BY DEF Init, ShardTypeOK
<1>3. StoreTypeOK
  BY DEF Init, StoreTypeOK, Values
<1>4. ThreadTypeOK
  BY DEF Init, ThreadTypeOK
<1>5. FiledUnderLeft
  BY DEF Init, FiledUnderLeft, FirstConfig
<1>6. HistoryInOrder
  BY DEF Init, HistoryInOrder, FirstConfig, ConfigAt, None
<1>7. Known
  BY DEF Init, Known, Sent
<1> QED BY <1>1, <1>2, <1>3, <1>4, <1>5, <1>6, <1>7 DEF TypeOK, TypeInv

(* A step that leaves the groups' own state alone.                          *)
LEMMA Outside ==
  ASSUME TypeInv, UNCHANGED <<ownVars, cleaningShards, storeVars>>,
         master' \in Seq(Master!Assignment), master' # <<>>,
         cleaned' \in [Gid -> SUBSET (Nat \X Shard)],
         \A g \in Gid : cleaned'[g] \subseteq cleaningShards[g],
         asked' \in Seq([key : Key, op : Op]), DOMAIN asked \subseteq DOMAIN asked',
         faults' \in Nat, Len(asked') + faults' <= MaxEvents,
         ThreadTypeOK',
         \A g \in Gid : \A p \in pulls'[g] : GoodPull(g, p)',
         \A g \in Gid : \A e \in Sent(g)' : GoodEntry(g, e)'
  PROVE  TypeInv'
<1>1. ConfigTypeOK'
  BY DEF TypeInv, TypeOK, ConfigTypeOK, ownVars
<1>2. ShardTypeOK'
  BY DEF TypeInv, TypeOK, ShardTypeOK, ownVars
<1>3. StoreTypeOK'
  BY DEF TypeInv, TypeOK, StoreTypeOK, storeVars
<1>4. FiledUnderLeft'
  BY DEF TypeInv, TypeOK, FiledUnderLeft, GoodPull, ownVars
<1>5. HistoryInOrder'
  BY DEF TypeInv, HistoryInOrder, ConfigAt, ownVars
<1>6. Known'
  BY DEF TypeInv, Known, ownVars
<1> QED BY <1>1, <1>2, <1>3, <1>4, <1>5, <1>6 DEF TypeOK, TypeInv

(* A step that changes the entries and the threads only, or the asked.      *)
LEMMA Elsewhere ==
  ASSUME TypeInv, UNCHANGED <<ownVars, takeVars, storeVars, master>>,
         asked' \in Seq([key : Key, op : Op]), DOMAIN asked \subseteq DOMAIN asked',
         faults' \in Nat, Len(asked') + faults' <= MaxEvents,
         ThreadTypeOK',
         \A g \in Gid : \A p \in pulls'[g] : p \in pulls[g] \/ GoodPull(g, p)',
         \A g \in Gid : \A e \in Sent(g)' : e \in Sent(g) \/ GoodEntry(g, e)'
  PROVE  TypeInv'
<1>1. \A g \in Gid : \A p \in pulls'[g] : GoodPull(g, p)'
  BY DEF TypeInv, Known, GoodPull, ownVars
<1>2. \A g \in Gid : \A e \in Sent(g)' : GoodEntry(g, e)'
  BY DEF TypeInv, Known, GoodEntry, ownVars
<1>3. /\ UNCHANGED <<cleaningShards, cleaned, master>>
      /\ UNCHANGED <<ownVars, cleaningShards, storeVars>>
  BY DEF takeVars
<1>4. /\ cleaned \in [Gid -> SUBSET (Nat \X Shard)]
      /\ \A g \in Gid : cleaned[g] \subseteq cleaningShards[g]
      /\ master \in Seq(Master!Assignment) /\ master # <<>>
  BY DEF TypeInv, TypeOK, ConfigTypeOK, ShardTypeOK, FiledUnderLeft
<1> QED BY <1>1, <1>2, <1>3, <1>4, Outside

LEMMA NewConfigurationKeeps == TypeInv /\ NewConfiguration => TypeInv'
<1> SUFFICES ASSUME TypeInv, NewConfiguration PROVE TypeInv'
  OBVIOUS
<1>1. PICK assigned \in Master!Assignment : master' = Append(master, assigned)
  BY DEF NewConfiguration, Master!Extend
<1>2. master' \in Seq(Master!Assignment) /\ master' # <<>>
  <2>1. master \in Seq(Master!Assignment)
    BY DEF TypeInv, TypeOK, ConfigTypeOK
  <2> QED BY <1>1, <2>1, AppendProperties
<1>3. UNCHANGED <<ownVars, takeVars, storeVars, queue, held, pulls, asked, faults>>
  BY DEF NewConfiguration, threadVars, boundVars
<1>4. /\ cleaned \in [Gid -> SUBSET (Nat \X Shard)]
      /\ \A g \in Gid : cleaned[g] \subseteq cleaningShards[g]
      /\ asked \in Seq([key : Key, op : Op])
      /\ faults \in Nat /\ Len(asked) + faults <= MaxEvents
      /\ ThreadTypeOK
  BY DEF TypeInv, TypeOK, ShardTypeOK, StoreTypeOK, FiledUnderLeft
<1>5. ThreadTypeOK'
  BY <1>3, <1>4 DEF ThreadTypeOK
<1>6. /\ \A g \in Gid : \A p \in pulls'[g] : GoodPull(g, p)'
      /\ \A g \in Gid : \A e \in Sent(g)' : GoodEntry(g, e)'
  BY <1>3 DEF TypeInv, Known, GoodPull, GoodEntry, ownVars, Sent
<1> QED BY <1>2, <1>3, <1>4, <1>5, <1>6, Outside DEF takeVars

LEMMA QueryType ==
  ASSUME ConfigTypeOK, NEW num \in 1 .. MaxConfig
  PROVE  Query(num) \in Configs /\ Query(num).num = num
<1> USE BoundAssumption
<1>1. Len(master) \in Nat \ {0} /\ \A k \in 1 .. Len(master) : master[k] \in Master!Assignment
  BY EmptySeq, LenProperties, ElementOfSeq DEF ConfigTypeOK
<1> QED BY <1>1 DEF Query, Master!Latest, Configs

(* A step that logs a good entry and changes nothing else.                  *)
LEMMA LogKeeps ==
  ASSUME TypeInv, NEW g \in Gid, NEW e \in Entries, DoLog(g, e),
         UNCHANGED <<ownVars, takeVars, storeVars, master, faults>>,
         asked' \in Seq([key : Key, op : Op]), DOMAIN asked \subseteq DOMAIN asked',
         Len(asked') + faults' <= MaxEvents,
         held' \in [Gid -> BOOLEAN], \A h \in Gid : pulls'[h] \subseteq pulls[h],
         pulls' \in [Gid -> SUBSET Threads],
         GoodEntry(g, e)'
  PROVE  TypeInv'
<1>1. queue \in [Gid -> Seq(Entries)] /\ faults \in Nat
  BY DEF TypeInv, TypeOK, ThreadTypeOK, StoreTypeOK
<1>2. /\ queue' \in [Gid -> Seq(Entries)]
      /\ \A h \in Gid : Sent(h)' \subseteq Sent(h) \union {e}
      /\ \A h \in Gid : h # g => Sent(h)' = Sent(h)
  BY <1>1, LogSent
<1>3. ThreadTypeOK'
  BY <1>2 DEF ThreadTypeOK
<1>4. \A h \in Gid : \A f \in Sent(h)' : f \in Sent(h) \/ GoodEntry(h, f)'
  <2> SUFFICES ASSUME NEW h \in Gid, NEW f \in Sent(h)', f \notin Sent(h)
               PROVE  GoodEntry(h, f)'
    OBVIOUS
  <2>1. h = g /\ f = e
    BY <1>2
  <2> QED BY <2>1
<1> QED BY <1>1, <1>3, <1>4, Elsewhere

LEMMA PollKeeps == ASSUME TypeInv, NEW g \in Gid, Poll(g) PROVE TypeInv'
<1>1. PICK num \in {config[g].num, config[g].num + 1} \cap 1 .. MaxConfig :
        DoLog(g, [kind |-> "newconfig", config |-> Query(num)])
  BY DEF Poll
<1>a. PICK e : e = [kind |-> "newconfig", config |-> Query(num)] /\ DoLog(g, e)
  BY <1>1
<1>2. UNCHANGED <<ownVars, takeVars, storeVars, master, faults, asked, held, pulls>>
  BY DEF Poll, threadVars, boundVars
<1>3. Query(num) \in Configs /\ Query(num).num = num
  BY QueryType DEF TypeInv, TypeOK
<1>4. e \in Entries
  BY <1>a, <1>3 DEF Entries
<1>5. config[g].num \in Nat
  BY DEF TypeInv, TypeOK, ConfigTypeOK, Configs
<1>6. GoodEntry(g, e)'
  BY <1>a, <1>2, <1>3, <1>5 DEF GoodEntry, ownVars
<1>7. /\ asked \in Seq([key : Key, op : Op]) /\ Len(asked) + faults <= MaxEvents
      /\ held \in [Gid -> BOOLEAN] /\ pulls \in [Gid -> SUBSET Threads]
  BY DEF TypeInv, TypeOK, StoreTypeOK, ThreadTypeOK
<1> QED BY <1>a, <1>2, <1>4, <1>6, <1>7, LogKeeps

LEMMA PullKeeps == ASSUME TypeInv, NEW g \in Gid, Pull(g) PROVE TypeInv'
<1> DEFINE waiting == {s \in Shard : waitingShards[g][s] # None}
           old(s) == historyConfigs[g][waitingShards[g][s] + 1]
           p(s) == [shard |-> s, from |-> old(s).shards[s], num |-> old(s).num,
                    answer |-> NoAnswer]
<1>1. pulls' = [pulls EXCEPT ![g] = {p(s) : s \in waiting}]
  BY DEF Pull
<1>2. UNCHANGED <<ownVars, takeVars, storeVars, master, faults, asked, held, queue>>
  BY DEF Pull, boundVars
<1>3. ASSUME NEW s \in waiting PROVE p(s) \in Threads /\ GoodPull(g, p(s))
  <2>1. waitingShards[g][s] \in 1 .. config[g].num - 1
    BY <1>3, Numbers
  <2>2. waitingShards[g][s] + 1 \in 1 .. config[g].num
    BY <2>1, Numbers
  <2>3. old(s) \in Configs
    BY <2>2, Numbers
  <2>4. old(s).num = waitingShards[g][s]
    BY <2>1, <2>2, Numbers
  <2>5. NoAnswer \in Answers /\ NoAnswer.cache = {}
    BY DEF NoAnswer, Answers
  <2>6. old(s).shards[s] \in Gid \union {NoGid}
    BY <2>3 DEF Configs, Master!Assignment
  <2> QED BY <2>1, <2>2, <2>4, <2>5, <2>6 DEF Threads, GoodPull
<1>4. /\ asked \in Seq([key : Key, op : Op]) /\ Len(asked) + faults <= MaxEvents
      /\ faults \in Nat /\ ThreadTypeOK
  BY DEF TypeInv, TypeOK, StoreTypeOK
<1>5. ThreadTypeOK'
  BY <1>1, <1>2, <1>3, <1>4 DEF ThreadTypeOK
<1>6. ASSUME NEW h \in Gid, NEW q \in pulls'[h] PROVE q \in pulls[h] \/ GoodPull(h, q)'
  <2>1. pulls \in [Gid -> SUBSET Threads]
    BY <1>4 DEF ThreadTypeOK
  <2>2. q \in pulls[h] \/ GoodPull(h, q)
    BY <1>1, <1>3, <2>1, <1>6
  <2> QED BY <1>2, <2>2 DEF GoodPull, ownVars
<1>7. \A h \in Gid : Sent(h)' = Sent(h)
  BY <1>2 DEF Sent
<1> QED BY <1>2, <1>4, <1>5, <1>6, <1>7, Elsewhere

(* What TypeInv says of the variables a thread's step leaves alone.         *)
LEMMA Around ==
  ASSUME TypeInv
  PROVE  /\ asked \in Seq([key : Key, op : Op]) /\ faults \in Nat
         /\ Len(asked) \in Nat /\ Len(asked) + faults <= MaxEvents
         /\ queue \in [Gid -> Seq(Entries)]
         /\ held \in [Gid -> BOOLEAN] /\ pulls \in [Gid -> SUBSET Threads]
         /\ cleaned \in [Gid -> SUBSET (Nat \X Shard)]
         /\ cleaningShards \in [Gid -> SUBSET (Nat \X Shard)]
BY LenProperties DEF TypeInv, TypeOK, StoreTypeOK, ThreadTypeOK, ShardTypeOK

LEMMA GivenType ==
  ASSUME TypeInv, NEW h \in Gid, NEW s \in Shard, NEW num \in Nat
  PROVE  Given(h, s, num) \in Answers /\ Given(h, s, num).cache \subseteq DOMAIN asked
<1> DEFINE m == {x \in migratingShards[h] : x.num = num /\ x.shard = s}
<1>1. m \subseteq Copies /\ \A x \in m : x.cache \subseteq DOMAIN asked
  BY DEF TypeInv, TypeOK, ShardTypeOK, Known
<1>2. UNION {x.data : x \in m} \subseteq Key \X Values
  BY <1>1 DEF Copies
<1>3. UNION {x.cache : x \in m} \subseteq DOMAIN asked
  BY <1>1
<1>4. DOMAIN asked \subseteq Request
  BY AskedKnown DEF TypeInv, TypeOK
<1> HIDE DEF m
<1>5. [num |-> num, data |-> UNION {x.data : x \in m}, cache |-> UNION {x.cache : x \in m}]
        \in Answers
  BY <1>2, <1>3, <1>4 DEF Answers
<1> USE DEF m
<1> QED BY <1>3, <1>5 DEF Given

LEMMA EmptyType == EmptyAnswer \in Answers /\ EmptyAnswer.cache = {}
BY DEF EmptyAnswer, Answers

(* A thread of pull() that has its answer, or has ended.                    *)
LEMMA PullingKeeps ==
  ASSUME TypeInv, NEW g \in Gid, NEW p \in pulls[g], NEW answer \in Answers,
         answer.cache \subseteq DOMAIN asked, Answered(g, p, answer) \/ Ended(g, p),
         UNCHANGED <<ownVars, takeVars, storeVars, master, asked, queue>>,
         held' \in [Gid -> BOOLEAN], faults' \in Nat, Len(asked) + faults' <= MaxEvents
  PROVE  TypeInv'
<1>1. p \in Threads /\ GoodPull(g, p)
  BY Around DEF TypeInv, Known
<1> DEFINE q == [p EXCEPT !.answer = answer]
<1>2. q \in Threads /\ GoodPull(g, q)
  BY <1>1 DEF Threads, GoodPull
<1> HIDE DEF q
<1>3. /\ pulls' \in [Gid -> SUBSET Threads]
      /\ \A h \in Gid : \A x \in pulls'[h] : x \in pulls[h] \/ (h = g /\ x = q)
  <2>3. pulls \in [Gid -> SUBSET Threads]
    BY Around
  <2>1. CASE Answered(g, p, answer)
    <3>1. pulls' = [pulls EXCEPT ![g] = (@ \ {p}) \union {q}]
      BY <2>1 DEF Answered, q
    <3>2. (pulls[g] \ {p}) \union {q} \in SUBSET Threads
      BY <1>2, <2>3
    <3> QED BY <2>3, <3>1, <3>2
  <2>2. CASE Ended(g, p)
    <3>1. pulls' = [pulls EXCEPT ![g] = @ \ {p}] /\ pulls[g] \ {p} \in SUBSET Threads
      BY <2>2, <2>3 DEF Ended
    <3> QED BY <2>3, <3>1
  <2> QED BY <2>1, <2>2
<1>4. ThreadTypeOK'
  BY <1>3, Around DEF ThreadTypeOK
<1>5. ASSUME NEW h \in Gid, NEW x \in pulls'[h] PROVE x \in pulls[h] \/ GoodPull(h, x)'
  <2>1. x \in pulls[h] \/ GoodPull(h, x)
    BY <1>2, <1>3
  <2> QED BY <2>1 DEF GoodPull, ownVars
<1>6. \A h \in Gid : Sent(h)' = Sent(h)
  BY DEF Sent
<1> QED BY <1>4, <1>5, <1>6, Around, Elsewhere

LEMMA OnShardMigrationKeeps ==
  ASSUME TypeInv, NEW g \in Gid, NEW p \in pulls[g], OnShardMigration(g, p)
  PROVE  TypeInv'
<1>1. p \in Threads
  BY Around
<1>2. p.from \in Gid /\ p.shard \in Shard /\ p.num \in Nat
  BY <1>1 DEF OnShardMigration, Threads
<1>3. UNCHANGED <<ownVars, takeVars, storeVars, master, asked, queue>>
  BY DEF OnShardMigration
<1>4. held' \in [Gid -> BOOLEAN]
  <2>1. held' = [held EXCEPT ![p.from] = TooEarly(p.from, p.num)]
    BY DEF OnShardMigration
  <2>2. TooEarly(p.from, p.num) \in BOOLEAN
    BY DEF TooEarly
  <2> QED BY <2>1, <2>2, Around
<1>5. CASE UNCHANGED faults
           /\ (Ended(g, p) \/ Answered(g, p, Given(p.from, p.shard, p.num)))
  <2>1. PICK answer : answer = Given(p.from, p.shard, p.num)
    OBVIOUS
  <2>2. answer \in Answers /\ answer.cache \subseteq DOMAIN asked
    BY <1>2, <2>1, GivenType
  <2>3. Ended(g, p) \/ Answered(g, p, answer)
    BY <1>5, <2>1
  <2> QED BY <1>3, <1>4, <1>5, <2>2, <2>3, Around, PullingKeeps
<1>6. CASE Answered(g, p, EmptyAnswer) /\ Fault
  <2>1. faults' \in Nat /\ Len(asked) + faults' <= MaxEvents
    BY <1>6, Around, BoundAssumption DEF Fault
  <2> QED BY <1>3, <1>4, <1>6, <2>1, EmptyType, PullingKeeps
<1> QED BY <1>5, <1>6 DEF OnShardMigration

LEMMA PullFailsKeeps ==
  ASSUME TypeInv, NEW g \in Gid, NEW p \in pulls[g], PullFails(g, p)
  PROVE  TypeInv'
<1>1. UNCHANGED <<ownVars, takeVars, storeVars, master, asked, queue, held>>
  BY DEF PullFails
<1>2. Ended(g, p) \/ Answered(g, p, EmptyAnswer)
  BY DEF PullFails
<1>3. faults' \in Nat /\ Len(asked) + faults' <= MaxEvents
  BY Around, BoundAssumption DEF PullFails, Fault
<1> QED BY <1>1, <1>2, <1>3, EmptyType, Around, PullingKeeps

LEMMA DoPullKeeps ==
  ASSUME TypeInv, NEW g \in Gid, NEW p \in pulls[g], DoPull(g, p)
  PROVE  TypeInv'
<1>1. PICK s \in Shard :
        DoLog(g, [kind |-> IF Wired THEN "shardmigrationreply" ELSE "shardmigration",
                  shard |-> s, answer |-> p.answer])
  <2>1. p \in Threads
    BY Around
  <2>2. p.shard \in Shard
    BY <2>1 DEF Threads
  <2> QED BY <2>2 DEF DoPull
<1>2. PICK e : /\ e = [kind |-> IF Wired THEN "shardmigrationreply" ELSE "shardmigration",
                       shard |-> s, answer |-> p.answer]
               /\ DoLog(g, e)
  BY <1>1
<1>3. UNCHANGED <<ownVars, takeVars, storeVars, master, asked, held, faults>>
  BY DEF DoPull, boundVars
<1>4. p \in Threads /\ GoodPull(g, p)
  BY Around DEF TypeInv, Known
<1>5. e \in Entries
  BY <1>2, <1>4 DEF Entries, Threads
<1>6. GoodEntry(g, e)
  <2>1. /\ config[g].num >= 2 /\ p.answer.cache \subseteq DOMAIN asked
    BY <1>4, Numbers DEF GoodPull
  <2> QED BY <1>2, <2>1 DEF GoodEntry
<1>7. GoodEntry(g, e)'
  BY <1>3, <1>6 DEF GoodEntry, ownVars
<1>8. pulls' \in [Gid -> SUBSET Threads] /\ \A h \in Gid : pulls'[h] \subseteq pulls[h]
  BY Around DEF DoPull, Ended
<1> QED BY <1>2, <1>3, <1>5, <1>7, <1>8, Around, LogKeeps

(* The group that is asked to clean up is one.                              *)
LEMMA CleanedFrom ==
  ASSUME TypeInv, NEW g \in Gid, NEW c \in cleaningShards[g], OnShardCleanup(g, c[1], c[2])
  PROVE  /\ c[1] \in Nat /\ c[2] \in Shard
         /\ historyConfigs[g][c[1] + 1].shards[c[2]] \in Gid
<1>1. c[1] \in 1 .. config[g].num - 1 /\ c[2] \in Shard
  BY DEF TypeInv, TypeOK, FiledUnderLeft
<1>2. c[1] + 1 \in 1 .. config[g].num /\ c[1] \in Nat
  BY <1>1, Numbers
<1>3. historyConfigs[g][c[1] + 1] \in Configs
  BY <1>2, Numbers
<1> QED BY <1>1, <1>2, <1>3 DEF OnShardCleanup, Configs, Master!Assignment

LEMMA OnShardCleanupKeeps ==
  ASSUME TypeInv, NEW g \in Gid, NEW c \in cleaningShards[g], OnShardCleanup(g, c[1], c[2])
  PROVE  TypeInv'
<1> DEFINE h == historyConfigs[g][c[1] + 1].shards[c[2]]
<1>1. UNCHANGED <<ownVars, takeVars, storeVars, master, asked, pulls, faults>>
  BY DEF OnShardCleanup, boundVars, takeVars
<1>2. c[1] \in Nat /\ c[2] \in Shard /\ h \in Gid
  BY CleanedFrom
<1>6. CASE UNCHANGED held /\ DoLog(h, [kind |-> "shardcleanup", num |-> c[1], shard |-> c[2]])
  <2>1. PICK d \in Gid : d = h
    BY <1>2
  <2>2. PICK e : e = [kind |-> "shardcleanup", num |-> c[1], shard |-> c[2]] /\ DoLog(d, e)
    BY <1>6, <2>1
  <2>3. e \in Entries
    BY <1>2, <2>2 DEF Entries
  <2>4. GoodEntry(d, e)'
    BY <2>2 DEF GoodEntry
  <2> QED BY <1>1, <1>6, <2>2, <2>3, <2>4, Around, LogKeeps
<1>7. CASE UNCHANGED queue /\ held' = [held EXCEPT ![h] = TRUE]
  <2>1. held' \in [Gid -> BOOLEAN]
    BY <1>7, Around
  <2>2. ThreadTypeOK'
    BY <1>1, <1>7, <2>1, Around DEF ThreadTypeOK
  <2>3. \A d \in Gid : Sent(d)' = Sent(d)
    BY <1>7 DEF Sent
  <2> QED BY <1>1, <1>7, <2>2, <2>3, Around, Elsewhere
<1> QED BY <1>6, <1>7 DEF OnShardCleanup

LEMMA DoCleanKeeps ==
  ASSUME TypeInv, NEW g \in Gid, NEW c \in cleaningShards[g], DoClean(g, c[1], c[2])
  PROVE  TypeInv'
<1>1. UNCHANGED <<ownVars, cleaningShards, storeVars, master, asked, queue, held, pulls, faults>>
  BY DEF DoClean, threadVars, boundVars
<1>2. /\ cleaned' = [cleaned EXCEPT ![g] = @ \union {<<c[1], c[2]>>}]
      /\ <<c[1], c[2]>> \in cleaningShards[g]
  BY DEF DoClean
<1>3. cleaned' \in [Gid -> SUBSET (Nat \X Shard)]
  BY <1>2, Around
<1>4. \A h \in Gid : cleaned'[h] \subseteq cleaningShards[h]
  BY <1>2, Around DEF TypeInv, TypeOK, FiledUnderLeft
<1>5. /\ \A h \in Gid : \A p \in pulls'[h] : GoodPull(h, p)'
      /\ \A h \in Gid : \A e \in Sent(h)' : GoodEntry(h, e)'
  BY <1>1 DEF TypeInv, Known, GoodPull, GoodEntry, ownVars, Sent
<1>6. ThreadTypeOK'
  BY <1>1, Around DEF ThreadTypeOK
<1>7. master \in Seq(Master!Assignment) /\ master # <<>>
  BY DEF TypeInv, TypeOK, ConfigTypeOK
<1> QED BY <1>1, <1>3, <1>4, <1>5, <1>6, <1>7, Around, Outside

(* A request that is logged, when it is one of those asked by then.         *)
LEMMA OnPutAppendKeeps ==
  ASSUME TypeInv, NEW g \in Gid, NEW r \in Request, NEW num \in Nat, OnPutAppend(g, r, num),
         r \in DOMAIN asked', DOMAIN asked \subseteq DOMAIN asked',
         asked' \in Seq([key : Key, op : Op]), Len(asked') + faults <= MaxEvents
  PROVE  TypeInv'
<1>1. PICK e : e = [kind |-> "putappend", id |-> r, num |-> num] /\ DoLog(g, e)
  BY DEF OnPutAppend
<1>2. UNCHANGED <<ownVars, takeVars, storeVars, master, held, pulls, faults>>
  BY DEF OnPutAppend, threadVars, boundVars
<1>3. e \in Entries
  BY <1>1 DEF Entries
<1>4. GoodEntry(g, e)'
  BY <1>1 DEF GoodEntry
<1> QED BY <1>1, <1>2, <1>3, <1>4, Around, LogKeeps

LEMMA AskKeeps ==
  ASSUME TypeInv, NEW g \in Gid, NEW key \in Key, NEW op \in Op, NEW num \in Nat,
         Ask(g, key, op, num)
  PROVE  TypeInv'
<1>1. /\ asked' = Append(asked, [key |-> key, op |-> op])
      /\ Len(asked) + faults < MaxEvents
      /\ OnPutAppend(g, Len(asked) + 1, num)
  BY DEF Ask
<1>2. /\ asked' \in Seq([key : Key, op : Op])
      /\ Len(asked') = Len(asked) + 1
      /\ DOMAIN asked = 1 .. Len(asked) /\ DOMAIN asked' = 1 .. Len(asked) + 1
  <2>1. [key |-> key, op |-> op] \in [key : Key, op : Op] /\ asked \in Seq([key : Key, op : Op])
    BY Around
  <2> QED BY <1>1, <2>1, AppendProperties, LenProperties
<1>3. PICK r : r = Len(asked) + 1
  OBVIOUS
<1>4. r \in Request /\ r \in DOMAIN asked' /\ Len(asked') + faults <= MaxEvents
  BY <1>1, <1>2, <1>3, Around, BoundAssumption DEF Request
<1>5. DOMAIN asked \subseteq DOMAIN asked'
  BY <1>2, Around
<1>6. OnPutAppend(g, r, num)
  BY <1>1, <1>3
<1> QED BY <1>2, <1>4, <1>5, <1>6, OnPutAppendKeeps

LEMMA AskAgainKeeps ==
  ASSUME TypeInv, NEW g \in Gid, NEW num \in Nat, AskAgain(g, num)
  PROVE  TypeInv'
<1>1. asked # <<>> /\ asked' = asked /\ OnPutAppend(g, Len(asked), num)
  BY DEF AskAgain
<1>2. PICK r : r = Len(asked)
  OBVIOUS
<1>3. Len(asked) \in DOMAIN asked /\ DOMAIN asked \subseteq Request
  <2>1. Len(asked) # 0
    BY <1>1, Around, EmptySeq
  <2> QED BY <2>1, Around, AskedKnown DEF TypeInv, TypeOK
<1>4. r \in Request /\ r \in DOMAIN asked' /\ OnPutAppend(g, r, num)
  BY <1>1, <1>2, <1>3
<1> QED BY <1>1, <1>4, Around, OnPutAppendKeeps

LEMMA NewLeaderKeeps == ASSUME TypeInv, NEW g \in Gid, NewLeader(g) PROVE TypeInv'
<1>1. PICK n \in 0 .. Len(queue[g]) : queue' = [queue EXCEPT ![g] = SubSeq(@, 1, n)]
  BY DEF NewLeader
<1>2. /\ queue' \in [Gid -> Seq(Entries)]
      /\ \A h \in Gid : Sent(h)' \subseteq Sent(h)
  BY <1>1, Around, CutSent
<1>3. UNCHANGED <<ownVars, cleaningShards, storeVars, master, asked>>
  BY DEF NewLeader
<1>4. faults' \in Nat /\ Len(asked) + faults' <= MaxEvents
  BY Around, BoundAssumption DEF NewLeader, Fault
<1>5. /\ held' \in [Gid -> BOOLEAN] /\ cleaned' \in [Gid -> SUBSET (Nat \X Shard)]
      /\ \A h \in Gid : cleaned'[h] \subseteq cleaningShards[h]
  BY Around DEF NewLeader, TypeInv, TypeOK, FiledUnderLeft
<1>6. pulls' \in [Gid -> SUBSET Threads] /\ \A h \in Gid : pulls'[h] \subseteq pulls[h]
  <2>1. pulls' = [pulls EXCEPT ![g] = {}] /\ pulls \in [Gid -> SUBSET Threads]
    BY Around DEF NewLeader
  <2> QED BY <2>1
<1>7. ThreadTypeOK'
  BY <1>2, <1>5, <1>6 DEF ThreadTypeOK
<1>8. /\ \A h \in Gid : \A p \in pulls'[h] : GoodPull(h, p)'
      /\ \A h \in Gid : \A e \in Sent(h)' : GoodEntry(h, e)'
  BY <1>2, <1>3, <1>6 DEF TypeInv, Known, GoodPull, GoodEntry, ownVars
<1>9. master \in Seq(Master!Assignment) /\ master # <<>>
  BY DEF TypeInv, TypeOK, ConfigTypeOK
<1> QED BY <1>3, <1>4, <1>5, <1>7, <1>8, <1>9, Around, Outside

-----------------------------------------------------------------------------
(* The callbacks.                                                           *)

(* What they all leave alone, and the entry they are called for.            *)
LEMMA Applied ==
  ASSUME TypeInv, NEW g \in Gid, NEW kind, Applies(g, kind)
  PROVE  /\ UNCHANGED <<master, cleaned, asked, faults>>
         /\ queue[g][1] \in Entries /\ queue[g][1].kind = kind
         /\ queue[g][1] \in Sent(g) /\ GoodEntry(g, queue[g][1])
         /\ ThreadTypeOK'
         /\ \A h \in Gid : pulls'[h] = pulls[h] /\ Sent(h)' \subseteq Sent(h)
<1>1. UNCHANGED <<master, cleaned, held, pulls, asked, faults>>
  BY DEF Applies, threadVars
<1>2. /\ queue' \in [Gid -> Seq(Entries)]
      /\ queue[g][1] \in Sent(g) /\ queue[g][1] \in Entries /\ queue[g][1].kind = kind
      /\ \A h \in Gid : Sent(h)' \subseteq Sent(h)
  BY ApplySent, Around
<1>3. GoodEntry(g, queue[g][1])
  BY <1>2 DEF TypeInv, Known
<1>4. ThreadTypeOK'
  BY <1>1, <1>2, Around DEF ThreadTypeOK
<1> QED BY <1>1, <1>2, <1>3, <1>4

LEMMA OnApplyKeeps == ASSUME TypeInv, NEW g \in Gid, OnApply(g) PROVE TypeInv'
<1>1. Applies(g, "shardmigration")
      /\ UNCHANGED <<ownVars, cleaningShards, storeVars>>
  BY DEF OnApply, applyVars
<1>2. /\ \A h \in Gid : \A p \in pulls'[h] : GoodPull(h, p)'
      /\ \A h \in Gid : \A e \in Sent(h)' : GoodEntry(h, e)'
  BY <1>1, Applied DEF TypeInv, Known, GoodPull, GoodEntry, ownVars
<1>3. /\ master \in Seq(Master!Assignment) /\ master # <<>>
      /\ \A h \in Gid : cleaned[h] \subseteq cleaningShards[h]
  BY DEF TypeInv, TypeOK, ConfigTypeOK, FiledUnderLeft
<1> QED BY <1>1, <1>2, <1>3, Around, Applied, Outside

(* A callback that leaves the configurations alone.                         *)
LEMMA CallbackKeeps ==
  ASSUME TypeInv, NEW g \in Gid, NEW kind, Applies(g, kind),
         UNCHANGED <<config, historyConfigs>>,
         ShardTypeOK', StoreTypeOK',
         \A h \in Gid :
           /\ \A x \in migratingShards'[h] :
                x.num \in 1 .. config[h].num - 1 /\ x.cache \subseteq DOMAIN asked
           /\ cleaningShards[h] \subseteq cleaningShards'[h]
           /\ cleaningShards'[h] \subseteq (1 .. config[h].num - 1) \X Shard
           /\ config[h].num = 0 => ownShards'[h] = {}
           /\ \A s \in Shard : waitingShards'[h][s] \in {waitingShards[h][s], None}
  PROVE  TypeInv'
<1>1. /\ UNCHANGED <<master, cleaned, asked, faults>> /\ ThreadTypeOK'
      /\ \A h \in Gid : pulls'[h] = pulls[h] /\ Sent(h)' \subseteq Sent(h)
  BY Applied
<1>2. ConfigTypeOK'
  BY <1>1 DEF TypeInv, TypeOK, ConfigTypeOK
<1>3. FiledUnderLeft'
  BY <1>1 DEF TypeInv, TypeOK, FiledUnderLeft
<1>4. HistoryInOrder'
  BY DEF TypeInv, HistoryInOrder, ConfigAt
<1>5. Known'
  BY <1>1 DEF TypeInv, Known, GoodPull, GoodEntry
<1> QED BY <1>1, <1>2, <1>3, <1>4, <1>5 DEF TypeInv, TypeOK

(* The groups' own shards, when a callback does not touch them.             *)
LEMMA ShardsKept ==
  ASSUME TypeInv, NEW h \in Gid
  PROVE  /\ \A x \in migratingShards[h] :
              x.num \in 1 .. config[h].num - 1 /\ x.cache \subseteq DOMAIN asked
         /\ cleaningShards[h] \subseteq (1 .. config[h].num - 1) \X Shard
         /\ config[h].num = 0 => ownShards[h] = {}
BY DEF TypeInv, TypeOK, FiledUnderLeft, Known

LEMMA OnPutAppendApplyKeeps ==
  ASSUME TypeInv, NEW g \in Gid, OnPutAppendApply(g) PROVE TypeInv'
<1> DEFINE e == queue[g][1]
           key == asked[e.id].key
           value == IF asked[e.id].op = "put" THEN <<e.id>> ELSE Append(data[g][key], e.id)
<1>1. /\ Applies(g, "putappend") /\ UNCHANGED <<ownVars, cleaningShards>>
      /\ data' = data \/ data' = [data EXCEPT ![g][key] = value]
      /\ cache' = [cache EXCEPT ![g] = (@ \ {e.id - 1}) \union {e.id}]
  BY DEF OnPutAppendApply
<1>2. e.id \in DOMAIN asked /\ UNCHANGED <<asked, faults>>
  BY <1>1, Applied DEF GoodEntry
<1>3. /\ data \in [Gid -> [Key -> Values]] /\ cache \in [Gid -> SUBSET DOMAIN asked]
      /\ asked \in Seq([key : Key, op : Op]) /\ DOMAIN asked \subseteq Request
  BY AskedKnown DEF TypeInv, TypeOK, StoreTypeOK
<1>4. asked[e.id] \in [key : Key, op : Op]
  BY <1>2, <1>3, ElementOfSeq, LenProperties
<1>5. key \in Key /\ data[g][key] \in Seq(Request) /\ e.id \in Request
  BY <1>2, <1>3, <1>4 DEF Values
<1>6. value \in Values
  <2>1. Append(data[g][key], e.id) \in Seq(Request)
    BY <1>5, AppendProperties
  <2> QED BY <1>5, <2>1 DEF Values
<1> HIDE DEF key, value
<1>7. data' \in [Gid -> [Key -> Values]]
  BY <1>1, <1>3, <1>5, <1>6
<1>8. cache' \in [Gid -> SUBSET DOMAIN asked]
  <2>1. (cache[g] \ {e.id - 1}) \union {e.id} \in SUBSET DOMAIN asked
    BY <1>2, <1>3
  <2> QED BY <1>1, <1>3, <2>1
<1>9. StoreTypeOK'
  BY <1>2, <1>7, <1>8, Around DEF StoreTypeOK
<1>10. ShardTypeOK'
  BY <1>1, Applied DEF TypeInv, TypeOK, ShardTypeOK, ownVars
<1>11. UNCHANGED <<config, historyConfigs, ownShards, waitingShards, migratingShards>>
  BY <1>1 DEF ownVars
<1> QED BY <1>1, <1>9, <1>10, <1>11, ShardsKept, CallbackKeeps

LEMMA OnShardCleanupApplyKeeps ==
  ASSUME TypeInv, NEW g \in Gid, OnShardCleanupApply(g) PROVE TypeInv'
<1> DEFINE e == queue[g][1]
           left == {x \in migratingShards[g] : ~(x.num = e.num /\ x.shard = e.shard)}
<1>1. /\ Applies(g, "shardcleanup")
      /\ UNCHANGED <<config, historyConfigs, ownShards, waitingShards, cleaningShards, storeVars>>
      /\ migratingShards' = [migratingShards EXCEPT ![g] = left]
  BY DEF OnShardCleanupApply
<1>2. migratingShards \in [Gid -> SUBSET Copies]
  BY DEF TypeInv, TypeOK, ShardTypeOK
<1>3. left \in SUBSET Copies /\ left \subseteq migratingShards[g]
  BY <1>2
<1> HIDE DEF left
<1>4. migratingShards' \in [Gid -> SUBSET Copies]
      /\ \A h \in Gid : migratingShards'[h] \subseteq migratingShards[h]
  BY <1>1, <1>2, <1>3
<1>5. ShardTypeOK'
  BY <1>1, <1>4, Applied DEF TypeInv, TypeOK, ShardTypeOK
<1>6. StoreTypeOK'
  BY <1>1, Applied DEF TypeInv, TypeOK, StoreTypeOK, storeVars
<1> QED BY <1>1, <1>4, <1>5, <1>6, ShardsKept, CallbackKeeps

LEMMA OnShardMigrationReplyApplyKeeps ==
  ASSUME TypeInv, NEW g \in Gid, OnShardMigrationReplyApply(g) PROVE TypeInv'
<1> DEFINE s == queue[g][1].shard
           answer == queue[g][1].answer
           given == [k \in Key |-> IF \E d \in answer.data : d[1] = k
                       THEN (CHOOSE d \in answer.data : d[1] = k)[2] ELSE data[g][k]]
<1>1. /\ Applies(g, "shardmigrationreply")
      /\ UNCHANGED <<config, historyConfigs, migratingShards>>
      /\ waitingShards' = waitingShards \/ waitingShards' = [waitingShards EXCEPT ![g][s] = None]
  BY DEF OnShardMigrationReplyApply
<1>2. \/ UNCHANGED <<cleaningShards, ownShards, storeVars>>
      \/ /\ Recent(g, answer.num)
         /\ cleaningShards' = [cleaningShards EXCEPT ![g] = @ \union {<<answer.num, s>>}]
         /\ ownShards' = [ownShards EXCEPT ![g] = @ \union {s}]
         /\ data' = [data EXCEPT ![g] = given]
         /\ cache' = [cache EXCEPT ![g] = @ \union answer.cache]
  BY DEF OnShardMigrationReplyApply
<1>3. /\ s \in Shard /\ answer \in Answers /\ answer.cache \subseteq DOMAIN asked
      /\ config[g].num >= 2
      /\ UNCHANGED <<cleaned, asked, faults>>
  <2>1. queue[g][1] \in Entries /\ queue[g][1].kind = "shardmigrationreply"
        /\ GoodEntry(g, queue[g][1]) /\ UNCHANGED <<cleaned, asked, faults>>
    BY <1>1, Applied
  <2> QED BY <2>1, EntryType DEF GoodEntry
<1>4. /\ ownShards \in [Gid -> SUBSET Shard]
      /\ waitingShards \in [Gid -> [Shard -> Nat \union {None}]]
      /\ cleaningShards \in [Gid -> SUBSET (Nat \X Shard)]
      /\ data \in [Gid -> [Key -> Values]] /\ cache \in [Gid -> SUBSET DOMAIN asked]
  BY DEF TypeInv, TypeOK, ShardTypeOK, StoreTypeOK
<1>5. given \in [Key -> Values]
  <2> SUFFICES ASSUME NEW k \in Key, NEW d \in answer.data, d[1] = k
               PROVE  (CHOOSE c \in answer.data : c[1] = k)[2] \in Values
    BY <1>4
  <2>1. (CHOOSE c \in answer.data : c[1] = k) \in answer.data
    OBVIOUS
  <2>2. answer.data \subseteq Key \X Values
    BY <1>3 DEF Answers
  <2> QED BY <2>1, <2>2
<1> HIDE DEF s, answer, given
<1>6. waitingShards' \in [Gid -> [Shard -> Nat \union {None}]]
      /\ \A h \in Gid, t \in Shard : waitingShards'[h][t] \in {waitingShards[h][t], None}
  <2>1. CASE waitingShards' = waitingShards
    BY <1>4, <2>1
  <2>2. CASE waitingShards' = [waitingShards EXCEPT ![g][s] = None]
    <3>1. waitingShards[g] \in [Shard -> Nat \union {None}]
      BY <1>4
    <3>2. [waitingShards[g] EXCEPT ![s] = None] \in [Shard -> Nat \union {None}]
      BY <1>3, <3>1
    <3>3. waitingShards' = [waitingShards EXCEPT ![g] = [waitingShards[g] EXCEPT ![s] = None]]
      BY <2>2
    <3>4. waitingShards' \in [Gid -> [Shard -> Nat \union {None}]]
      BY <1>4, <3>2, <3>3
    <3>5. \A h \in Gid, t \in Shard : waitingShards'[h][t] \in {waitingShards[h][t], None}
      BY <1>3, <1>4, <3>1, <3>3
    <3> QED BY <3>4, <3>5
  <2> QED BY <1>1, <2>1, <2>2
<1>7. CASE UNCHANGED <<cleaningShards, ownShards, storeVars>>
  <2>1. ShardTypeOK'
    BY <1>1, <1>3, <1>6, <1>7 DEF TypeInv, TypeOK, ShardTypeOK
  <2>2. StoreTypeOK'
    BY <1>3, <1>7 DEF TypeInv, TypeOK, StoreTypeOK, storeVars
  <2> QED BY <1>1, <1>6, <1>7, <2>1, <2>2, ShardsKept, CallbackKeeps
<1>8. CASE /\ Recent(g, answer.num)
           /\ cleaningShards' = [cleaningShards EXCEPT ![g] = @ \union {<<answer.num, s>>}]
           /\ ownShards' = [ownShards EXCEPT ![g] = @ \union {s}]
           /\ data' = [data EXCEPT ![g] = given]
           /\ cache' = [cache EXCEPT ![g] = @ \union answer.cache]
  <2>1. answer.num \in 1 .. config[g].num - 1 /\ config[g].num \in Nat
    BY <1>3, <1>8, Numbers DEF Recent
  <2>2. /\ cleaningShards' \in [Gid -> SUBSET (Nat \X Shard)]
        /\ \A h \in Gid : /\ cleaningShards[h] \subseteq cleaningShards'[h]
                          /\ cleaningShards'[h] \subseteq (1 .. config[h].num - 1) \X Shard
    <3>1. cleaningShards[g] \union {<<answer.num, s>>} \subseteq (1 .. config[g].num - 1) \X Shard
      BY <1>3, <2>1, ShardsKept
    <3>2. cleaningShards[g] \union {<<answer.num, s>>} \in SUBSET (Nat \X Shard)
      BY <1>3, <1>4, <2>1
    <3> QED BY <1>4, <1>8, <3>1, <3>2, ShardsKept
  <2>3. /\ ownShards' \in [Gid -> SUBSET Shard]
        /\ \A h \in Gid : config[h].num = 0 => ownShards'[h] = {}
    BY <1>3, <1>4, <1>8, ShardsKept
  <2>4. data' \in [Gid -> [Key -> Values]]
    BY <1>4, <1>5, <1>8
  <2>5. cache' \in [Gid -> SUBSET DOMAIN asked]
    <3>1. cache[g] \union answer.cache \in SUBSET DOMAIN asked
      BY <1>3, <1>4
    <3> QED BY <1>4, <1>8, <3>1
  <2>6. ShardTypeOK'
    BY <1>1, <1>3, <1>6, <2>2, <2>3 DEF TypeInv, TypeOK, ShardTypeOK
  <2>7. StoreTypeOK'
    BY <1>3, <2>4, <2>5 DEF TypeInv, TypeOK, StoreTypeOK
  <2> QED BY <1>1, <1>6, <2>2, <2>3, <2>6, <2>7, ShardsKept, CallbackKeeps
<1> QED BY <1>2, <1>7, <1>8

(* The next configuration takes the next number: an entry that waits is not  *)
(* further ahead, and one that is behind is passed over.                    *)
LEMMA NextNumber ==
  ASSUME TypeInv, NEW g \in Gid, Applies(g, "newconfig"),
         Newer(g, queue[g][1].config.num)
  PROVE  queue[g][1].config \in Configs /\ queue[g][1].config.num = config[g].num + 1
<1>1. queue[g][1] \in Entries /\ queue[g][1].kind = "newconfig" /\ GoodEntry(g, queue[g][1])
  BY Applied
<1>2. queue[g][1].config \in Configs
  BY <1>1, EntryType
<1> QED BY <1>1, <1>2, Numbers DEF GoodEntry, Newer, Configs

LEMMA HistoryGrows ==
  ASSUME TypeInv, NEW g \in Gid, NEW new \in Configs, new.num = config[g].num + 1,
         config' = [config EXCEPT ![g] = new],
         historyConfigs' = [historyConfigs EXCEPT ![g] = Append(@, config[g])]
  PROVE  /\ config' \in [Gid -> Configs] /\ historyConfigs' \in [Gid -> Seq(Configs)]
         /\ Len(historyConfigs'[g]) = config[g].num + 1
         /\ \A n \in 0 .. config[g].num : ConfigAt(g, n)' = ConfigAt(g, n)
         /\ \A h \in Gid : h # g =>
              config'[h] = config[h] /\ historyConfigs'[h] = historyConfigs[h]
<1>1. config \in [Gid -> Configs] /\ historyConfigs \in [Gid -> Seq(Configs)]
  BY DEF TypeInv, TypeOK, ConfigTypeOK
<1>2. /\ Append(historyConfigs[g], config[g]) \in Seq(Configs)
      /\ Len(Append(historyConfigs[g], config[g])) = config[g].num + 1
      /\ \A n \in 1 .. config[g].num :
           Append(historyConfigs[g], config[g])[n] = historyConfigs[g][n]
      /\ Append(historyConfigs[g], config[g])[config[g].num + 1] = config[g]
  BY Numbers, AppendProperties
<1>3. ASSUME NEW n \in 0 .. config[g].num PROVE ConfigAt(g, n)' = ConfigAt(g, n)
  <2>1. n # new.num /\ (n # config[g].num => n + 1 \in 1 .. config[g].num)
    BY Numbers
  <2> QED BY <1>1, <1>2, <2>1 DEF ConfigAt
<1> QED BY <1>1, <1>2, <1>3

LEMMA ApplyNewConfKeeps ==
  ASSUME TypeInv, NEW g \in Gid, NEW new \in Configs, new.num = config[g].num + 1,
         Applies(g, "newconfig"), ApplyNewConf(g, new), UNCHANGED cleaningShards
  PROVE  TypeInv'
<1> DEFINE kept == Kept(g, new)
           lost == ownShards[g] \ kept
           awaited == Mine(g, new) \ kept
<1>1. Applies(g, "newconfig") /\ UNCHANGED cleaningShards
  OBVIOUS
<1>2. new \in Configs /\ new.num = config[g].num + 1
  OBVIOUS
<1>3. /\ config' = [config EXCEPT ![g] = new]
      /\ historyConfigs' = [historyConfigs EXCEPT ![g] = Append(@, config[g])]
      /\ ownShards' = [ownShards EXCEPT ![g] = kept]
      /\ waitingShards' = [waitingShards EXCEPT ![g] =
           [s \in Shard |-> IF s \in awaited THEN config[g].num ELSE @[s]]]
  BY DEF ApplyNewConf
<1>4. PICK keys \in [lost -> SUBSET Key], ids \in [lost -> SUBSET DOMAIN asked] :
        /\ migratingShards' = [migratingShards EXCEPT ![g] =
             @ \union {GivenUp(g, config[g].num, s, keys[s], ids[s]) : s \in lost}]
        /\ data' = [data EXCEPT ![g] =
             [k \in Key |-> IF \E s \in lost : k \in keys[s] THEN <<>> ELSE @[k]]]
        /\ cache' = [cache EXCEPT ![g] = @ \ UNION {ids[s] : s \in lost}]
  BY DEF ApplyNewConf
<1>5. /\ ownShards \in [Gid -> SUBSET Shard]
      /\ waitingShards \in [Gid -> [Shard -> Nat \union {None}]]
      /\ migratingShards \in [Gid -> SUBSET Copies]
      /\ cleaningShards \in [Gid -> SUBSET (Nat \X Shard)]
      /\ data \in [Gid -> [Key -> Values]] /\ cache \in [Gid -> SUBSET DOMAIN asked]
      /\ DOMAIN asked \subseteq Request
      /\ config[g].num \in Nat
  BY AskedKnown, Numbers DEF TypeInv, TypeOK, ShardTypeOK, StoreTypeOK
<1>6. kept \subseteq Shard /\ lost \subseteq Shard /\ awaited \subseteq Shard
  BY <1>5 DEF Kept, Mine
<1>7. /\ config[g].num = 0 => lost = {} /\ awaited = {}
  BY ShardsKept DEF Kept
<1> DEFINE moved(s) == GivenUp(g, config[g].num, s, keys[s], ids[s])
<1>8. ASSUME NEW s \in lost
      PROVE  /\ moved(s) \in Copies
             /\ moved(s).num \in 1 .. new.num - 1
             /\ moved(s).cache \subseteq DOMAIN asked
  <2>1. /\ keys[s] \subseteq Key /\ ids[s] \subseteq DOMAIN asked
        /\ s \in Shard /\ config[g].num # 0
    BY <1>6, <1>7
  <2>2. {<<k, data[g][k]>> : k \in keys[s]} \subseteq Key \X Values
    BY <1>5, <2>1
  <2>3. ids[s] \subseteq Request
    BY <1>5, <2>1
  <2> QED BY <1>2, <1>5, <2>1, <2>2, <2>3 DEF GivenUp, Copies
<1> HIDE DEF kept, lost, awaited, moved
<1>9. /\ config' \in [Gid -> Configs] /\ historyConfigs' \in [Gid -> Seq(Configs)]
      /\ Len(historyConfigs'[g]) = config[g].num + 1
      /\ \A n \in 0 .. config[g].num : ConfigAt(g, n)' = ConfigAt(g, n)
      /\ \A h \in Gid : h # g =>
           config'[h] = config[h] /\ historyConfigs'[h] = historyConfigs[h]
  BY <1>2, <1>3, HistoryGrows
<1>10. config'[g] = new
  BY <1>3 DEF TypeInv, TypeOK, ConfigTypeOK
<1>11. /\ migratingShards' \in [Gid -> SUBSET Copies]
       /\ \A h \in Gid : \A x \in migratingShards'[h] :
            x.num \in 1 .. config'[h].num - 1 /\ x.cache \subseteq DOMAIN asked
  <2>1. migratingShards' = [migratingShards EXCEPT ![g] = @ \union {moved(s) : s \in lost}]
    BY <1>4 DEF moved
  <2>2. migratingShards[g] \union {moved(s) : s \in lost} \in SUBSET Copies
    BY <1>5, <1>8
  <2>3. \A h \in Gid : \A x \in migratingShards[h] :
          x.num \in 1 .. config'[h].num - 1 /\ x.cache \subseteq DOMAIN asked
    <3> SUFFICES ASSUME NEW h \in Gid, NEW x \in migratingShards[h]
                 PROVE  x.num \in 1 .. config'[h].num - 1 /\ x.cache \subseteq DOMAIN asked
      OBVIOUS
    <3>1. x.num \in 1 .. config[h].num - 1 /\ x.cache \subseteq DOMAIN asked
      BY ShardsKept
    <3>2. config'[h].num = config[h].num \/ (h = g /\ config'[h].num = config[h].num + 1)
      BY <1>2, <1>9, <1>10
    <3>3. config[h].num \in Nat
      BY Numbers
    <3> QED BY <3>1, <3>2, <3>3
  <2>4. \A x \in migratingShards[g] \union {moved(s) : s \in lost} :
          x.num \in 1 .. config'[g].num - 1 /\ x.cache \subseteq DOMAIN asked
    BY <1>8, <1>10, <2>3
  <2> QED BY <1>5, <2>1, <2>2, <2>3, <2>4
<1>12. ownShards' \in [Gid -> SUBSET Shard]
  BY <1>3, <1>5, <1>6
<1>13. waitingShards' \in [Gid -> [Shard -> Nat \union {None}]]
  BY <1>3, <1>5
<1>14. ShardTypeOK'
  BY <1>1, <1>5, <1>11, <1>12, <1>13, Applied DEF TypeInv, TypeOK, ShardTypeOK
<1>15. StoreTypeOK'
  <2>1. [k \in Key |-> IF \E s \in lost : k \in keys[s] THEN <<>> ELSE data[g][k]]
          \in [Key -> Values]
    BY <1>5 DEF Values
  <2>2. cache[g] \ UNION {ids[s] : s \in lost} \in SUBSET DOMAIN asked
    BY <1>5
  <2>3. data' \in [Gid -> [Key -> Values]] /\ cache' \in [Gid -> SUBSET DOMAIN asked]
    BY <1>4, <1>5, <2>1, <2>2
  <2> QED BY <1>1, <2>3, Applied, Around DEF StoreTypeOK
<1>16. ConfigTypeOK'
  BY <1>1, <1>9, Applied DEF TypeInv, TypeOK, ConfigTypeOK
<1>17. \A h \in Gid : config[h].num \in Nat /\ config[h].num <= config'[h].num
  BY <1>2, <1>9, <1>10, Numbers
<1>18. FiledUnderLeft'
  <2> SUFFICES ASSUME NEW h \in Gid
               PROVE  /\ \A p \in pulls'[h] : p.num \in 1 .. config'[h].num - 1
                      /\ cleaned'[h] \subseteq cleaningShards'[h]
                      /\ cleaningShards'[h] \subseteq (1 .. config'[h].num - 1) \X Shard
    BY <1>11 DEF FiledUnderLeft
  <2>1. 1 .. config[h].num - 1 \subseteq 1 .. config'[h].num - 1
    BY <1>9, <1>17 DEF Configs
  <2>2. pulls'[h] = pulls[h] /\ UNCHANGED <<cleaned, cleaningShards>>
    BY <1>1, Applied
  <2>3. /\ \A p \in pulls[h] : p.num \in 1 .. config[h].num - 1
        /\ cleaned[h] \subseteq cleaningShards[h]
        /\ cleaningShards[h] \subseteq (1 .. config[h].num - 1) \X Shard
    BY DEF TypeInv, TypeOK, FiledUnderLeft
  <2> QED BY <2>1, <2>2, <2>3
<1>19. HistoryInOrder'
  <2> SUFFICES ASSUME NEW h \in Gid
               PROVE  /\ Len(historyConfigs'[h]) = config'[h].num
                      /\ \A n \in 0 .. config'[h].num : ConfigAt(h, n)'.num = n
                      /\ \A s \in Shard : waitingShards'[h][s] # None =>
                           waitingShards'[h][s] \in 1 .. config'[h].num - 1
    BY DEF HistoryInOrder
  <2>1. CASE h # g
    BY <1>3, <1>5, <1>9, <2>1 DEF TypeInv, HistoryInOrder, ConfigAt
  <2>2. CASE h = g
    <3>1. \A n \in 0 .. config[g].num : ConfigAt(g, n)'.num = n
      BY <1>9 DEF TypeInv, HistoryInOrder
    <3>2. ConfigAt(g, new.num)'.num = new.num
      BY <1>10 DEF ConfigAt
    <3>3. ASSUME NEW n \in 0 .. new.num, n # new.num PROVE n \in 0 .. config[g].num
      <4>1. new.num \in Nat /\ config[g].num \in Nat /\ new.num = config[g].num + 1
        BY <1>2, <1>5
      <4> QED BY <3>3, <4>1
    <3>4. ASSUME NEW s \in Shard, waitingShards'[g][s] # None
          PROVE  waitingShards'[g][s] \in 1 .. new.num - 1
      <4>1. waitingShards'[g][s] = IF s \in awaited THEN config[g].num ELSE waitingShards[g][s]
        BY <1>3, <1>5
      <4> QED BY <1>2, <1>5, <1>7, <3>4, <4>1, Numbers
    <3> QED BY <1>2, <1>9, <1>10, <2>2, <3>1, <3>2, <3>3, <3>4
  <2> QED BY <2>1, <2>2
<1>20. Known'
  <2> SUFFICES ASSUME NEW h \in Gid
               PROVE  /\ \A e \in Sent(h)' : GoodEntry(h, e)'
                      /\ \A p \in pulls'[h] : GoodPull(h, p)'
                      /\ config'[h].num = 0 => ownShards'[h] = {}
    BY <1>1, <1>11, Applied DEF Known
  <2>1. UNCHANGED asked /\ pulls'[h] = pulls[h] /\ Sent(h)' \subseteq Sent(h)
    BY <1>1, Applied
  <2>2. ASSUME NEW e \in Sent(h)' PROVE GoodEntry(h, e)'
    <3>1. e \in Entries /\ GoodEntry(h, e)
      BY <2>1, Around, SentType DEF TypeInv, Known
    <3>2. e.kind = "newconfig" => e.config.num \in Nat
      BY <3>1, EntryType DEF Configs
    <3>3. config'[h].num \in Nat
      BY <1>9 DEF Configs
    <3> QED BY <1>17, <2>1, <3>1, <3>2, <3>3 DEF GoodEntry
  <2>3. ASSUME NEW p \in pulls'[h] PROVE GoodPull(h, p)'
    <3>1. GoodPull(h, p) /\ config'[h].num \in Nat
      BY <1>9, <2>1 DEF TypeInv, Known, Configs
    <3> QED BY <1>17, <2>1, <3>1 DEF GoodPull
  <2>4. config'[h].num = 0 => ownShards'[h] = {}
    BY <1>2, <1>3, <1>5, <1>9, <1>10, ShardsKept
  <2> QED BY <2>2, <2>3, <2>4
<1> QED BY <1>14, <1>15, <1>16, <1>18, <1>19, <1>20, <1>1, Applied DEF TypeInv, TypeOK

LEMMA OnNewConfigApplyKeeps ==
  ASSUME TypeInv, NEW g \in Gid, OnNewConfigApply(g) PROVE TypeInv'
<1>1. CASE UNCHANGED <<ownVars, storeVars>>
  <2>1. Applies(g, "newconfig")
        /\ UNCHANGED <<ownVars, cleaningShards, storeVars>>
    BY <1>1 DEF OnNewConfigApply
  <2>2. ShardTypeOK'
    BY <2>1, Applied DEF TypeInv, TypeOK, ShardTypeOK, ownVars
  <2>3. StoreTypeOK'
    BY <2>1, Applied DEF TypeInv, TypeOK, StoreTypeOK, storeVars
  <2>4. UNCHANGED <<config, historyConfigs, ownShards, waitingShards, migratingShards>>
    BY <1>1 DEF ownVars
  <2> QED BY <2>1, <2>2, <2>3, <2>4, ShardsKept, CallbackKeeps
<1>2. CASE Newer(g, queue[g][1].config.num) /\ ApplyNewConf(g, queue[g][1].config)
  <2>1. PICK new : new = queue[g][1].config
    OBVIOUS
  <2>2. Applies(g, "newconfig") /\ UNCHANGED cleaningShards
    BY DEF OnNewConfigApply
  <2>3. new \in Configs /\ new.num = config[g].num + 1
    BY <1>2, <2>1, <2>2, NextNumber
  <2>4. ApplyNewConf(g, new)
    BY <1>2, <2>1
  <2> QED BY <2>2, <2>3, <2>4, ApplyNewConfKeeps
<1> QED BY <1>1, <1>2 DEF OnNewConfigApply

-----------------------------------------------------------------------------
LEMMA NextTypeInv == TypeInv /\ [Next]_vars => TypeInv'
<1> SUFFICES ASSUME TypeInv, [Next]_vars PROVE TypeInv'
  OBVIOUS
<1>1. CASE NewConfiguration
  BY <1>1, NewConfigurationKeeps
<1>2. ASSUME NEW g \in Gid, Poll(g) \/ Pull(g) PROVE TypeInv'
  BY <1>2, PollKeeps, PullKeeps
<1>3. ASSUME NEW g \in Gid, NEW p \in pulls[g],
             OnShardMigration(g, p) \/ PullFails(g, p) \/ DoPull(g, p)
      PROVE  TypeInv'
  BY <1>3, OnShardMigrationKeeps, PullFailsKeeps, DoPullKeeps
<1>4. ASSUME NEW g \in Gid, NEW c \in cleaningShards[g],
             OnShardCleanup(g, c[1], c[2]) \/ DoClean(g, c[1], c[2])
      PROVE  TypeInv'
  BY <1>4, OnShardCleanupKeeps, DoCleanKeeps
<1>5. ASSUME NEW g \in Gid, NEW num \in {config[g].num, config[g].num + 1} \cap 1 .. MaxConfig,
             AskAgain(g, num) \/ \E key \in Key, op \in Op : Ask(g, key, op, num)
      PROVE  TypeInv'
  <2>1. num \in Nat
    BY BoundAssumption
  <2> QED BY <1>5, <2>1, AskKeeps, AskAgainKeeps
<1>6. ASSUME NEW g \in Gid,
             \/ OnPutAppendApply(g) \/ OnNewConfigApply(g) \/ OnApply(g)
             \/ OnShardMigrationReplyApply(g) \/ OnShardCleanupApply(g)
      PROVE  TypeInv'
  BY <1>6, OnPutAppendApplyKeeps, OnNewConfigApplyKeeps, OnApplyKeeps,
     OnShardMigrationReplyApplyKeeps, OnShardCleanupApplyKeeps
<1>7. ASSUME NEW g \in Gid, NewLeader(g) PROVE TypeInv'
  BY <1>7, NewLeaderKeeps
<1>8. CASE UNCHANGED vars
  <2>1. /\ UNCHANGED <<ownVars, takeVars, storeVars, master>>
        /\ UNCHANGED <<queue, held, pulls, asked, faults>>
    BY <1>8 DEF vars, threadVars, boundVars
  <2>2. ThreadTypeOK'
    BY <2>1, Around DEF ThreadTypeOK
  <2>3. \A g \in Gid : Sent(g)' = Sent(g)
    BY <2>1 DEF Sent
  <2> QED BY <2>1, <2>2, <2>3, Around, Elsewhere
<1> QED BY <1>1, <1>2, <1>3, <1>4, <1>5, <1>6, <1>7, <1>8 DEF Next

LEMMA TypeInvHolds == Spec => []TypeInv
BY InitTypeInv, NextTypeInv, PTL DEF Spec

(* Every variable has its type, and what is on the move between two groups   *)
(* is filed under a configuration that both have left behind.               *)
THEOREM Typed == Spec => []TypeOK
<1>1. TypeInv => TypeOK
  BY DEF TypeInv
<1> QED BY <1>1, TypeInvHolds, PTL

(* However late or often a poll's entry is applied, a group takes the        *)
(* configurations one by one, so that historyConfigs[num] is number num.    *)
THEOREM Ordered == Spec => []HistoryInOrder
<1>1. TypeInv => HistoryInOrder
  BY DEF TypeInv
<1> QED BY <1>1, TypeInvHolds, PTL

-----------------------------------------------------------------------------
(* A shard that is awaited, pulled or about to be installed is one that the  *)
(* configuration after the one it is filed under gives to the group: so one  *)
(* that is installed is given to the group by the configuration in force.   *)

Assigned(g, num, s) == num \in 1 .. config[g].num - 1 /\ ConfigAt(g, num + 1).shards[s] = g

AwaitedPull(g, p) ==
  Assigned(g, p.num, p.shard) /\ (p.answer.num < 1 \/ p.answer.num = p.num)

AwaitedEntry(g, e) ==
  e.kind = "shardmigrationreply" => e.answer.num < 1 \/ Assigned(g, e.answer.num, e.shard)

Awaited ==
  \A g \in Gid :
    /\ \A s \in Shard : waitingShards[g][s] # None => Assigned(g, waitingShards[g][s], s)
    /\ \A p \in pulls[g] : AwaitedPull(g, p)
    /\ \A e \in Sent(g) : AwaitedEntry(g, e)

OwnersInv == TypeInv /\ Awaited /\ OwnersAssigned

LEMMA InitOwnersInv == Init => OwnersInv
<1> SUFFICES ASSUME Init PROVE OwnersInv
  OBVIOUS
<1>1. Awaited
  BY DEF Init, Awaited, Sent
<1>2. OwnersAssigned
  BY DEF Init, OwnersAssigned
<1> QED BY <1>1, <1>2, InitTypeInv DEF OwnersInv

(* A step after which the groups' own variables are what they were.         *)
LEMMA OwnersSame ==
  ASSUME OwnersInv, TypeInv', UNCHANGED <<config, historyConfigs, ownShards, waitingShards>>,
         \A g \in Gid : \A p \in pulls'[g] : p \in pulls[g] \/ AwaitedPull(g, p),
         \A g \in Gid : \A e \in Sent(g)' : e \in Sent(g) \/ AwaitedEntry(g, e)
  PROVE  OwnersInv'
<1>1. Awaited'
  BY DEF OwnersInv, Awaited, AwaitedPull, AwaitedEntry, Assigned, ConfigAt
<1>2. OwnersAssigned'
  BY DEF OwnersInv, OwnersAssigned
<1> QED BY <1>1, <1>2 DEF OwnersInv

LEMMA PullOwners == ASSUME OwnersInv, TypeInv', NEW g \in Gid, Pull(g) PROVE OwnersInv'
<1> DEFINE waiting == {s \in Shard : waitingShards[g][s] # None}
           old(s) == historyConfigs[g][waitingShards[g][s] + 1]
           p(s) == [shard |-> s, from |-> old(s).shards[s], num |-> old(s).num,
                    answer |-> NoAnswer]
<1>1. pulls' = [pulls EXCEPT ![g] = {p(s) : s \in waiting}]
  BY DEF Pull
<1>2. UNCHANGED <<ownVars, queue>> /\ TypeInv
  BY DEF Pull, OwnersInv
<1>3. ASSUME NEW s \in waiting PROVE AwaitedPull(g, p(s))
  <2>1. waitingShards[g][s] \in 1 .. config[g].num - 1
    BY <1>2, Numbers
  <2>2. waitingShards[g][s] + 1 \in 1 .. config[g].num
    BY <1>2, <2>1, Numbers
  <2>3. old(s).num = waitingShards[g][s]
    BY <1>2, <2>1, <2>2, Numbers
  <2>4. Assigned(g, waitingShards[g][s], s)
    BY DEF OwnersInv, Awaited
  <2>5. NoAnswer.num < 1
    BY DEF NoAnswer, None
  <2> QED BY <2>3, <2>4, <2>5 DEF AwaitedPull
<1>4. ASSUME NEW h \in Gid, NEW q \in pulls'[h] PROVE q \in pulls[h] \/ AwaitedPull(h, q)
  <2>1. pulls \in [Gid -> SUBSET Threads]
    BY <1>2, Around
  <2> QED BY <1>1, <1>3, <1>4, <2>1
<1>5. \A h \in Gid : Sent(h)' = Sent(h)
  BY <1>2 DEF Sent
<1> QED BY <1>2, <1>4, <1>5, OwnersSame DEF ownVars

(* The answer to a pull is empty or of the configuration that was asked for. *)
LEMMA AnsweredOwners ==
  ASSUME OwnersInv, NEW g \in Gid, NEW p \in pulls[g], NEW answer,
         answer.num < 1 \/ answer.num = p.num,
         Answered(g, p, answer) \/ Ended(g, p),
         NEW h \in Gid, NEW q \in pulls'[h]
  PROVE  q \in pulls[h] \/ AwaitedPull(h, q)
<1>1. pulls \in [Gid -> SUBSET Threads] /\ p \in Threads
  BY Around DEF OwnersInv
<1>2. AwaitedPull(g, p)
  BY DEF OwnersInv, Awaited
<1>3. PICK a : a = [p EXCEPT !.answer = answer]
  OBVIOUS
<1>4. AwaitedPull(g, a)
  <2>1. a.num = p.num /\ a.shard = p.shard /\ a.answer = answer
    BY <1>1, <1>3 DEF Threads
  <2> QED BY <1>2, <2>1 DEF AwaitedPull
<1>5. CASE Answered(g, p, answer)
  <2>1. pulls' = [pulls EXCEPT ![g] = (@ \ {p}) \union {a}]
    BY <1>3, <1>5 DEF Answered
  <2> QED BY <1>1, <1>4, <2>1
<1>6. CASE Ended(g, p)
  BY <1>1, <1>6 DEF Ended
<1> QED BY <1>5, <1>6

LEMMA EmptyNum == EmptyAnswer.num < 1
BY DEF EmptyAnswer

LEMMA OnShardMigrationOwners ==
  ASSUME OwnersInv, TypeInv', NEW g \in Gid, NEW p \in pulls[g], OnShardMigration(g, p)
  PROVE  OwnersInv'
<1>1. UNCHANGED <<ownVars, queue>>
  BY DEF OnShardMigration
<1>2. PICK given : given = Given(p.from, p.shard, p.num)
  OBVIOUS
<1>3. PICK empty : empty = EmptyAnswer
  OBVIOUS
<1>4. (Ended(g, p) \/ Answered(g, p, given)) \/ Answered(g, p, empty)
  BY <1>2, <1>3 DEF OnShardMigration
<1>5. given.num = p.num /\ empty.num < 1
  BY <1>2, <1>3, EmptyNum DEF Given
<1>6. ASSUME NEW h \in Gid, NEW q \in pulls'[h] PROVE q \in pulls[h] \/ AwaitedPull(h, q)
  BY <1>4, <1>5, AnsweredOwners
<1>7. \A h \in Gid : Sent(h)' = Sent(h)
  BY <1>1 DEF Sent
<1> QED BY <1>1, <1>6, <1>7, OwnersSame DEF ownVars

LEMMA PullFailsOwners ==
  ASSUME OwnersInv, TypeInv', NEW g \in Gid, NEW p \in pulls[g], PullFails(g, p)
  PROVE  OwnersInv'
<1>1. UNCHANGED <<ownVars, queue>>
  BY DEF PullFails
<1>2. PICK empty : empty = EmptyAnswer
  OBVIOUS
<1>3. (Ended(g, p) \/ Answered(g, p, empty)) /\ empty.num < 1
  BY <1>2, EmptyNum DEF PullFails
<1>4. ASSUME NEW h \in Gid, NEW q \in pulls'[h] PROVE q \in pulls[h] \/ AwaitedPull(h, q)
  BY <1>3, AnsweredOwners
<1>5. \A h \in Gid : Sent(h)' = Sent(h)
  BY <1>1 DEF Sent
<1> QED BY <1>1, <1>4, <1>5, OwnersSame DEF ownVars

(* A step that logs an entry and starts no thread.                          *)
LEMMA LoggedOwners ==
  ASSUME OwnersInv, TypeInv', UNCHANGED ownVars, NEW g \in Gid, NEW e \in Entries,
         DoLog(g, e), AwaitedEntry(g, e), \A h \in Gid : pulls'[h] \subseteq pulls[h]
  PROVE  OwnersInv'
<1>1. queue \in [Gid -> Seq(Entries)]
  BY Around DEF OwnersInv
<1>2. /\ \A h \in Gid : Sent(h)' \subseteq Sent(h) \union {e}
      /\ \A h \in Gid : h # g => Sent(h)' = Sent(h)
  BY <1>1, LogSent
<1>3. ASSUME NEW h \in Gid, NEW f \in Sent(h)' PROVE f \in Sent(h) \/ AwaitedEntry(h, f)
  BY <1>2
<1> QED BY <1>3, OwnersSame DEF ownVars

LEMMA DoPullOwners ==
  ASSUME OwnersInv, TypeInv', NEW g \in Gid, NEW p \in pulls[g], DoPull(g, p)
  PROVE  OwnersInv'
<1>1. PICK s \in IF p.answer.num = p.num THEN {p.shard} ELSE Shard :
        DoLog(g, [kind |-> IF Wired THEN "shardmigrationreply" ELSE "shardmigration",
                  shard |-> s, answer |-> p.answer])
  BY DEF DoPull
<1>2. PICK e : /\ e = [kind |-> IF Wired THEN "shardmigrationreply" ELSE "shardmigration",
                       shard |-> s, answer |-> p.answer]
               /\ DoLog(g, e)
  BY <1>1
<1>3. p \in Threads /\ AwaitedPull(g, p)
  BY Around DEF OwnersInv, Awaited
<1>4. s \in Shard
  BY <1>1, <1>3 DEF Threads
<1>5. e \in Entries
  BY <1>2, <1>3, <1>4 DEF Entries, Threads
<1>6. AwaitedEntry(g, e)
  <2>1. e.answer = p.answer /\ e.shard = s
    BY <1>2
  <2>2. p.answer.num < 1 \/ (p.answer.num = p.num /\ s = p.shard)
    BY <1>1, <1>3 DEF AwaitedPull
  <2> QED BY <1>3, <2>1, <2>2 DEF AwaitedPull, AwaitedEntry
<1>7. UNCHANGED ownVars
  BY DEF DoPull
<1>8. \A h \in Gid : pulls'[h] \subseteq pulls[h]
  BY Around DEF DoPull, Ended, OwnersInv
<1> QED BY <1>2, <1>5, <1>6, <1>7, <1>8, LoggedOwners

LEMMA PollOwners == ASSUME OwnersInv, TypeInv', NEW g \in Gid, Poll(g) PROVE OwnersInv'
<1>1. PICK num \in {config[g].num, config[g].num + 1} \cap 1 .. MaxConfig :
        DoLog(g, [kind |-> "newconfig", config |-> Query(num)])
  BY DEF Poll
<1>2. PICK e : e = [kind |-> "newconfig", config |-> Query(num)] /\ DoLog(g, e)
  BY <1>1
<1>3. e \in Entries
  BY <1>2, QueryType DEF Entries, OwnersInv, TypeInv, TypeOK
<1>4. AwaitedEntry(g, e)
  BY <1>2 DEF AwaitedEntry
<1>5. UNCHANGED <<ownVars, pulls>>
  BY DEF Poll, threadVars
<1> QED BY <1>2, <1>3, <1>4, <1>5, LoggedOwners

LEMMA OnPutAppendOwners ==
  ASSUME OwnersInv, TypeInv', NEW g \in Gid, NEW r \in Request, NEW num \in Nat,
         OnPutAppend(g, r, num)
  PROVE  OwnersInv'
<1>1. PICK e : e = [kind |-> "putappend", id |-> r, num |-> num] /\ DoLog(g, e)
  BY DEF OnPutAppend
<1>2. e \in Entries /\ AwaitedEntry(g, e)
  BY <1>1 DEF Entries, AwaitedEntry
<1>3. UNCHANGED <<ownVars, pulls>>
  BY DEF OnPutAppend, threadVars
<1> QED BY <1>1, <1>2, <1>3, LoggedOwners

(* Whether it is new or sent again, what is logged is one of the requests.  *)
LEMMA AskedRequest ==
  ASSUME TypeInv, NEW g \in Gid, NEW num \in Nat,
         AskAgain(g, num) \/ \E key \in Key, op \in Op : Ask(g, key, op, num)
  PROVE  \E r \in Request : OnPutAppend(g, r, num)
<1>1. CASE AskAgain(g, num)
  <2>1. Len(asked) \in DOMAIN asked /\ DOMAIN asked \subseteq Request
    BY <1>1, Around, EmptySeq, AskedKnown DEF TypeInv, TypeOK, AskAgain
  <2> QED BY <1>1, <2>1 DEF AskAgain
<1>2. ASSUME NEW key \in Key, NEW op \in Op, Ask(g, key, op, num)
      PROVE  \E r \in Request : OnPutAppend(g, r, num)
  <2>1. Len(asked) + 1 \in Request
    BY <1>2, Around, BoundAssumption DEF Ask, Request
  <2> QED BY <1>2, <2>1 DEF Ask
<1> QED BY <1>1, <1>2

LEMMA AskOwners ==
  ASSUME OwnersInv, TypeInv', NEW g \in Gid, NEW num \in Nat,
         AskAgain(g, num) \/ \E key \in Key, op \in Op : Ask(g, key, op, num)
  PROVE  OwnersInv'
<1>1. PICK r \in Request : OnPutAppend(g, r, num)
  BY AskedRequest DEF OwnersInv
<1> QED BY <1>1, OnPutAppendOwners

LEMMA OnShardCleanupOwners ==
  ASSUME OwnersInv, TypeInv', NEW g \in Gid, NEW c \in cleaningShards[g],
         OnShardCleanup(g, c[1], c[2])
  PROVE  OwnersInv'
<1> DEFINE from == historyConfigs[g][c[1] + 1].shards[c[2]]
<1>1. UNCHANGED <<ownVars, pulls>>
  BY DEF OnShardCleanup
<1>2. c[1] \in Nat /\ c[2] \in Shard /\ from \in Gid
  BY CleanedFrom DEF OwnersInv
<1>6. CASE DoLog(from, [kind |-> "shardcleanup", num |-> c[1], shard |-> c[2]])
  <2>1. PICK h \in Gid : h = from
    BY <1>2
  <2>2. PICK e : e = [kind |-> "shardcleanup", num |-> c[1], shard |-> c[2]] /\ DoLog(h, e)
    BY <1>6, <2>1
  <2>3. e \in Entries /\ AwaitedEntry(h, e)
    BY <1>2, <2>2 DEF Entries, AwaitedEntry
  <2> QED BY <1>1, <2>2, <2>3, LoggedOwners
<1>7. CASE UNCHANGED queue
  <2>1. \A h \in Gid : Sent(h)' = Sent(h)
    BY <1>7 DEF Sent
  <2> QED BY <1>1, <2>1, OwnersSame DEF ownVars
<1> QED BY <1>6, <1>7 DEF OnShardCleanup

LEMMA NewLeaderOwners ==
  ASSUME OwnersInv, TypeInv', NEW g \in Gid, NewLeader(g) PROVE OwnersInv'
<1>1. PICK n \in 0 .. Len(queue[g]) : queue' = [queue EXCEPT ![g] = SubSeq(@, 1, n)]
  BY DEF NewLeader
<1>2. \A h \in Gid : Sent(h)' \subseteq Sent(h)
  BY <1>1, Around, CutSent DEF OwnersInv
<1>3. \A h \in Gid : pulls'[h] \subseteq pulls[h]
  <2>1. pulls' = [pulls EXCEPT ![g] = {}] /\ pulls \in [Gid -> SUBSET Threads]
    BY Around DEF NewLeader, OwnersInv
  <2> QED BY <2>1
<1>4. UNCHANGED ownVars
  BY DEF NewLeader
<1> QED BY <1>2, <1>3, <1>4, OwnersSame DEF ownVars

(* A step of the shard master or of a clean-up's end, or none.              *)
LEMMA IdleOwners ==
  ASSUME OwnersInv, TypeInv', UNCHANGED <<ownVars, queue, pulls>> PROVE OwnersInv'
<1>1. \A h \in Gid : Sent(h)' = Sent(h)
  BY DEF Sent
<1> QED BY <1>1, OwnersSame DEF ownVars

LEMMA OtherApplyOwners ==
  ASSUME OwnersInv, TypeInv', NEW g \in Gid,
         OnPutAppendApply(g) \/ OnApply(g) \/ OnShardCleanupApply(g)
  PROVE  OwnersInv'
<1>1. PICK kind : Applies(g, kind)
  BY DEF OnPutAppendApply, OnApply, OnShardCleanupApply
<1>2. UNCHANGED <<config, historyConfigs, ownShards, waitingShards>>
  BY DEF OnPutAppendApply, OnApply, OnShardCleanupApply, ownVars, applyVars
<1>3. \A h \in Gid : pulls'[h] = pulls[h] /\ Sent(h)' \subseteq Sent(h)
  BY <1>1, Applied DEF OwnersInv
<1> QED BY <1>2, <1>3, OwnersSame

LEMMA OnShardMigrationReplyApplyOwners ==
  ASSUME OwnersInv, TypeInv', NEW g \in Gid, OnShardMigrationReplyApply(g)
  PROVE  OwnersInv'
<1> DEFINE s == queue[g][1].shard
           num == queue[g][1].answer.num
<1>1. TypeInv
  BY DEF OwnersInv
<1>2. /\ Applies(g, "shardmigrationreply")
      /\ UNCHANGED <<config, historyConfigs>>
      /\ waitingShards' = IF Recent(g, num)
                         THEN [waitingShards EXCEPT ![g][s] = None] ELSE waitingShards
      /\ \/ UNCHANGED ownShards
         \/ Recent(g, num) /\ ownShards' = [ownShards EXCEPT ![g] = @ \union {s}]
  BY DEF OnShardMigrationReplyApply
<1>3. /\ queue[g][1] \in Sent(g) /\ s \in Shard
      /\ config[g].num >= 2 /\ config[g].num \in Nat
  <2>1. /\ queue[g][1] \in Sent(g) /\ queue[g][1] \in Entries
        /\ queue[g][1].kind = "shardmigrationreply" /\ GoodEntry(g, queue[g][1])
    BY <1>1, <1>2, Applied
  <2> QED BY <1>1, <2>1, EntryType, Numbers DEF GoodEntry
<1>4. Recent(g, num) => config[g].shards[s] = g
  <2>1. num < 1 \/ Assigned(g, num, s)
    <3>1. AwaitedEntry(g, queue[g][1]) /\ queue[g][1].kind = "shardmigrationreply"
      BY <1>1, <1>2, <1>3, Applied DEF OwnersInv, Awaited
    <3> QED BY <3>1 DEF AwaitedEntry
  <2> QED BY <1>3, <2>1 DEF Recent, Assigned, ConfigAt
<1>5. /\ ownShards \in [Gid -> SUBSET Shard]
      /\ waitingShards \in [Gid -> [Shard -> Nat \union {None}]]
  BY <1>1 DEF TypeInv, TypeOK, ShardTypeOK
<1> HIDE DEF s, num
<1>6. /\ \A h \in Gid, t \in Shard : waitingShards'[h][t] \in {waitingShards[h][t], None}
      /\ Recent(g, num) => waitingShards'[g][s] = None
  <2>1. waitingShards[g] \in [Shard -> Nat \union {None}]
    BY <1>5
  <2> QED BY <1>2, <1>3, <1>5, <2>1
<1>7. OwnersAssigned'
  <2> SUFFICES ASSUME NEW h \in Gid, NEW t \in ownShards'[h]
               PROVE  config[h].shards[t] = h /\ waitingShards'[h][t] = None
    BY <1>2 DEF OwnersAssigned
  <2>1. CASE t \in ownShards[h]
    BY <1>5, <1>6, <2>1 DEF OwnersInv, OwnersAssigned
  <2>2. CASE t \notin ownShards[h]
    <3>1. h = g /\ t = s /\ Recent(g, num)
      BY <1>2, <1>5, <2>2
    <3> QED BY <1>4, <1>6, <3>1
  <2> QED BY <2>1, <2>2
<1>8. Awaited'
  <2>1. \A h \in Gid : pulls'[h] = pulls[h] /\ Sent(h)' \subseteq Sent(h)
    BY <1>1, <1>2, Applied
  <2> QED BY <1>2, <1>6, <2>1
      DEF OwnersInv, Awaited, AwaitedPull, AwaitedEntry, Assigned, ConfigAt
<1> QED BY <1>7, <1>8 DEF OwnersInv

LEMMA ApplyNewConfOwners ==
  ASSUME OwnersInv, TypeInv', NEW g \in Gid, NEW new \in Configs, new.num = config[g].num + 1,
         Applies(g, "newconfig"), ApplyNewConf(g, new)
  PROVE  OwnersInv'
<1> DEFINE kept == Kept(g, new)
           awaited == Mine(g, new) \ kept
<1>1. TypeInv
  BY DEF OwnersInv
<1>2. /\ config' = [config EXCEPT ![g] = new]
      /\ historyConfigs' = [historyConfigs EXCEPT ![g] = Append(@, config[g])]
      /\ ownShards' = [ownShards EXCEPT ![g] = kept]
      /\ waitingShards' = [waitingShards EXCEPT ![g] =
           [s \in Shard |-> IF s \in awaited THEN config[g].num ELSE @[s]]]
  BY DEF ApplyNewConf
<1>3. /\ \A n \in 0 .. config[g].num : ConfigAt(g, n)' = ConfigAt(g, n)
      /\ \A h \in Gid : h # g =>
           config'[h] = config[h] /\ historyConfigs'[h] = historyConfigs[h]
  BY <1>1, <1>2, HistoryGrows
<1>4. /\ config \in [Gid -> Configs] /\ ownShards \in [Gid -> SUBSET Shard]
      /\ waitingShards \in [Gid -> [Shard -> Nat \union {None}]]
      /\ config[g].num \in Nat /\ new.num \in Nat
  BY <1>1, Numbers DEF TypeInv, TypeOK, ConfigTypeOK, ShardTypeOK, Configs
<1>5. config'[g] = new
  BY <1>2, <1>4
<1>6. kept \subseteq Mine(g, new) /\ awaited = Mine(g, new) \ kept
      /\ (config[g].num = 0 => awaited = {})
      /\ (config[g].num # 0 => kept \subseteq ownShards[g])
  BY DEF Kept
<1> HIDE DEF kept, awaited
<1>7. ASSUME NEW h \in Gid, NEW n, NEW s, Assigned(h, n, s)
      PROVE  Assigned(h, n, s)'
  <2>1. CASE h # g
    BY <1>3, <1>7, <2>1 DEF Assigned, ConfigAt
  <2>2. CASE h = g
    <3>1. n \in 1 .. config[g].num - 1 /\ ConfigAt(g, n + 1).shards[s] = g
      BY <1>7, <2>2 DEF Assigned
    <3>2. n + 1 \in 0 .. config[g].num /\ n \in 1 .. config'[g].num - 1
      BY <1>4, <1>5, <3>1
    <3> QED BY <1>3, <2>2, <3>1, <3>2 DEF Assigned
  <2> QED BY <2>1, <2>2
<1>8. OwnersAssigned'
  <2> SUFFICES ASSUME NEW h \in Gid, NEW s \in ownShards'[h]
               PROVE  config'[h].shards[s] = h /\ waitingShards'[h][s] = None
    BY DEF OwnersAssigned
  <2>1. CASE h # g
    BY <1>2, <1>3, <1>4, <2>1 DEF OwnersInv, OwnersAssigned
  <2>2. CASE h = g
    <3>1. s \in kept /\ s \notin awaited /\ s \in Shard /\ new.shards[s] = g
      BY <1>2, <1>4, <1>6, <2>2 DEF Mine
    <3>2. waitingShards[g][s] = None
      <4>1. CASE config[g].num = 0
        BY <1>1, <3>1, <4>1, Numbers
      <4>2. CASE config[g].num # 0
        BY <1>6, <3>1, <4>2 DEF OwnersInv, OwnersAssigned
      <4> QED BY <4>1, <4>2
    <3>3. waitingShards'[g][s] = None
      BY <1>2, <1>4, <3>1, <3>2
    <3> QED BY <1>5, <2>2, <3>1, <3>3
  <2> QED BY <2>1, <2>2
<1>9. Awaited'
  <2>1. \A h \in Gid : pulls'[h] = pulls[h] /\ Sent(h)' \subseteq Sent(h)
    BY <1>1, Applied
  <2>2. ASSUME NEW h \in Gid, NEW s \in Shard, waitingShards'[h][s] # None
        PROVE  Assigned(h, waitingShards[h][s], s)'
    <3>1. CASE waitingShards'[h][s] = waitingShards[h][s]
      <4>1. Assigned(h, waitingShards[h][s], s)
        BY <2>2, <3>1 DEF OwnersInv, Awaited
      <4>2. PICK n : n = waitingShards[h][s]
        OBVIOUS
      <4>3. Assigned(h, n, s)'
        BY <1>7, <4>1, <4>2
      <4> QED BY <3>1, <4>2, <4>3
    <3>2. CASE waitingShards'[h][s] # waitingShards[h][s]
      <4>1. h = g /\ s \in awaited /\ waitingShards'[g][s] = config[g].num
        BY <1>2, <1>4, <3>2
      <4>2. config[g].num # 0 /\ new.shards[s] = g
        BY <1>6, <4>1 DEF Mine
      <4>3. PICK n : n = waitingShards'[g][s]
        OBVIOUS
      <4>4. n \in 1 .. new.num - 1 /\ n + 1 = new.num
        BY <1>4, <4>1, <4>2, <4>3
      <4>5. ConfigAt(g, n + 1)' = new
        BY <1>5, <4>4 DEF ConfigAt
      <4> QED BY <1>5, <4>1, <4>2, <4>3, <4>4, <4>5 DEF Assigned
    <3> QED BY <3>1, <3>2
  <2>3. ASSUME NEW h \in Gid, NEW p \in pulls'[h] PROVE AwaitedPull(h, p)'
    <3>1. AwaitedPull(h, p)
      BY <2>1, <2>3 DEF OwnersInv, Awaited
    <3> QED BY <1>7, <3>1 DEF AwaitedPull
  <2>4. ASSUME NEW h \in Gid, NEW e \in Sent(h)' PROVE AwaitedEntry(h, e)'
    <3>1. AwaitedEntry(h, e)
      BY <2>1, <2>4 DEF OwnersInv, Awaited
    <3> QED BY <1>7, <3>1 DEF AwaitedEntry
  <2> QED BY <2>2, <2>3, <2>4 DEF Awaited
<1> QED BY <1>8, <1>9 DEF OwnersInv

LEMMA OnNewConfigApplyOwners ==
  ASSUME OwnersInv, TypeInv', NEW g \in Gid, OnNewConfigApply(g) PROVE OwnersInv'
<1>1. Applies(g, "newconfig") /\ TypeInv
  BY DEF OnNewConfigApply, OwnersInv
<1>2. CASE UNCHANGED ownVars
  <2>1. \A h \in Gid : pulls'[h] = pulls[h] /\ Sent(h)' \subseteq Sent(h)
    BY <1>1, Applied
  <2> QED BY <1>2, <2>1, OwnersSame DEF ownVars
<1>3. CASE Newer(g, queue[g][1].config.num) /\ ApplyNewConf(g, queue[g][1].config)
  <2>1. PICK new : new = queue[g][1].config
    OBVIOUS
  <2>2. new \in Configs /\ new.num = config[g].num + 1
    BY <1>1, <1>3, <2>1, NextNumber
  <2>3. ApplyNewConf(g, new)
    BY <1>3, <2>1
  <2> QED BY <1>1, <2>2, <2>3, ApplyNewConfOwners
<1> QED BY <1>2, <1>3 DEF OnNewConfigApply

LEMMA NextOwnersInv == OwnersInv /\ [Next]_vars => OwnersInv'
<1> SUFFICES ASSUME OwnersInv, [Next]_vars PROVE OwnersInv'
  OBVIOUS
<1>0. TypeInv'
  BY NextTypeInv DEF OwnersInv
<1>1. CASE NewConfiguration
  BY <1>0, <1>1, IdleOwners DEF NewConfiguration, threadVars
<1>2. ASSUME NEW g \in Gid, Poll(g) \/ Pull(g) PROVE OwnersInv'
  BY <1>0, <1>2, PollOwners, PullOwners
<1>3. ASSUME NEW g \in Gid, NEW p \in pulls[g],
             OnShardMigration(g, p) \/ PullFails(g, p) \/ DoPull(g, p)
      PROVE  OwnersInv'
  BY <1>0, <1>3, OnShardMigrationOwners, PullFailsOwners, DoPullOwners
<1>4. ASSUME NEW g \in Gid, NEW c \in cleaningShards[g],
             OnShardCleanup(g, c[1], c[2]) \/ DoClean(g, c[1], c[2])
      PROVE  OwnersInv'
  <2>1. DoClean(g, c[1], c[2]) => UNCHANGED <<ownVars, queue, pulls>>
    BY DEF DoClean, threadVars
  <2> QED BY <1>0, <1>4, <2>1, OnShardCleanupOwners, IdleOwners
<1>5. ASSUME NEW g \in Gid, NEW num \in {config[g].num, config[g].num + 1} \cap 1 .. MaxConfig,
             AskAgain(g, num) \/ \E key \in Key, op \in Op : Ask(g, key, op, num)
      PROVE  OwnersInv'
  <2>1. num \in Nat
    BY BoundAssumption
  <2> QED BY <1>0, <1>5, <2>1, AskOwners
<1>6. ASSUME NEW g \in Gid,
             \/ OnPutAppendApply(g) \/ OnNewConfigApply(g) \/ OnApply(g)
             \/ OnShardMigrationReplyApply(g) \/ OnShardCleanupApply(g)
      PROVE  OwnersInv'
  BY <1>0, <1>6, OtherApplyOwners, OnNewConfigApplyOwners, OnShardMigrationReplyApplyOwners
<1>7. ASSUME NEW g \in Gid, NewLeader(g) PROVE OwnersInv'
  BY <1>0, <1>7, NewLeaderOwners
<1>8. CASE UNCHANGED vars
  BY <1>0, <1>8, IdleOwners DEF vars, threadVars
<1> QED BY <1>1, <1>2, <1>3, <1>4, <1>5, <1>6, <1>7, <1>8 DEF Next

LEMMA OwnersInvHolds == Spec => []OwnersInv
BY InitOwnersInv, NextOwnersInv, PTL DEF Spec

(* A group serves only shards that its configuration gives it and that it    *)
(* does not wait for, with the code's names as they are or put right.        *)
THEOREM OwnsWhatIsAssigned == Spec => []OwnersAssigned
<1>1. OwnersInv => OwnersAssigned
  BY DEF OwnersInv
<1> QED BY <1>1, OwnersInvHolds, PTL

-----------------------------------------------------------------------------
(* As written no shard arrives, so a group owns only shards that configura-  *)
(* tion 1 gave it, and whatever a poll logs under the number 1 and gives a   *)
(* group to serve is that configuration.                                    *)

First(g, s) == Len(master) >= 2 /\ master[2][s] = g

FirstEntry(e) ==
  /\ e.kind \notin {"shardmigrationreply", "shardcleanup"}
  /\ e.kind = "newconfig" /\ e.config.num = 1 =>
       \A g \in Gid, s \in Shard : e.config.shards[s] = g => First(g, s)

AtFirst ==
  /\ master[1] = [s \in Shard |-> NoGid]
  /\ \A g \in Gid : /\ \A s \in ownShards[g] : First(g, s)
                    /\ \A e \in Sent(g) : FirstEntry(e)

FirstInv == TypeInv /\ AtFirst

LEMMA InitFirstInv == Init => FirstInv
<1> SUFFICES ASSUME Init PROVE FirstInv
  OBVIOUS
<1>1. AtFirst
  BY DEF Init, Master!Init, AtFirst, Sent
<1> QED BY <1>1, InitTypeInv DEF FirstInv

LEMMA FirstSame ==
  ASSUME FirstInv, TypeInv', UNCHANGED master,
         \A g \in Gid : \A s \in ownShards'[g] : s \in ownShards[g] \/ First(g, s),
         \A g \in Gid : \A e \in Sent(g)' : e \in Sent(g) \/ FirstEntry(e)
  PROVE  FirstInv'
BY DEF FirstInv, AtFirst, FirstEntry, First

LEMMA NewConfigurationFirst ==
  ASSUME FirstInv, TypeInv', NewConfiguration PROVE FirstInv'
<1>1. PICK assigned \in Master!Assignment : master' = Append(master, assigned)
  BY DEF NewConfiguration, Master!Extend
<1>2. master \in Seq(Master!Assignment) /\ master # <<>>
  BY DEF FirstInv, TypeInv, TypeOK, ConfigTypeOK
<1>3. /\ Len(master) \in Nat \ {0} /\ Len(master') = Len(master) + 1
      /\ \A k \in 1 .. Len(master) : master'[k] = master[k]
  BY <1>1, <1>2, AppendProperties, EmptySeq, LenProperties
<1>4. \A g, s : First(g, s) => First(g, s)'
  BY <1>3 DEF First
<1>5. master'[1] = master[1]
  BY <1>3
<1>6. UNCHANGED <<ownShards, queue>>
  BY DEF NewConfiguration, ownVars
<1> QED BY <1>4, <1>5, <1>6 DEF FirstInv, AtFirst, FirstEntry, Sent

LEMMA LoggedFirst ==
  ASSUME FirstInv, TypeInv', UNCHANGED <<master, ownShards>>, NEW g \in Gid, NEW e \in Entries,
         DoLog(g, e), FirstEntry(e)
  PROVE  FirstInv'
<1>1. queue \in [Gid -> Seq(Entries)]
  BY Around DEF FirstInv
<1>2. /\ \A h \in Gid : Sent(h)' \subseteq Sent(h) \union {e}
      /\ \A h \in Gid : h # g => Sent(h)' = Sent(h)
  BY <1>1, LogSent
<1> QED BY <1>2, FirstSame

LEMMA QueryKnown ==
  ASSUME NEW num \in Nat, num < Len(master)
  PROVE  Query(num).shards = master[num + 1]
BY DEF Query

LEMMA PollFirst == ASSUME FirstInv, TypeInv', NEW g \in Gid, Poll(g) PROVE FirstInv'
<1>1. PICK num \in {config[g].num, config[g].num + 1} \cap 1 .. MaxConfig :
        DoLog(g, [kind |-> "newconfig", config |-> Query(num)])
  BY DEF Poll
<1>2. PICK e : e = [kind |-> "newconfig", config |-> Query(num)] /\ DoLog(g, e)
  BY <1>1
<1>3. Query(num) \in Configs /\ Query(num).num = num
  BY QueryType DEF FirstInv, TypeInv, TypeOK
<1>4. e \in Entries
  BY <1>2, <1>3 DEF Entries
<1>5. Len(master) \in Nat \ {0}
  BY EmptySeq, LenProperties DEF FirstInv, TypeInv, TypeOK, ConfigTypeOK
<1>6. ASSUME num = 1, NEW h \in Gid, NEW s \in Shard, Query(num).shards[s] = h
      PROVE  First(h, s)
  <2>1. CASE Len(master) = 1
    <3>1. Query(num).shards[s] = NoGid
      BY <1>6, <2>1 DEF Query, Master!Latest, FirstInv, AtFirst
    <3> QED BY <1>6, <3>1, GidAssumption
  <2>2. CASE Len(master) # 1
    <3>1. 1 < Len(master) /\ Len(master) >= 2
      <4>1. PICK n \in Nat : n = Len(master) /\ n # 0 /\ n # 1
        BY <1>5, <2>2
      <4> QED BY <4>1
    <3>2. Query(num).shards = master[num + 1] /\ num + 1 = 2
      BY <1>6, <3>1, QueryKnown
    <3> QED BY <1>6, <3>1, <3>2 DEF First
  <2> QED BY <2>1, <2>2
<1>7. FirstEntry(e)
  BY <1>2, <1>3, <1>6 DEF FirstEntry
<1>8. UNCHANGED <<master, ownShards>>
  BY DEF Poll, ownVars
<1> QED BY <1>2, <1>4, <1>7, <1>8, LoggedFirst

LEMMA PullThreadsFirst ==
  ASSUME ~Wired, FirstInv, TypeInv', NEW g \in Gid, NEW p \in pulls[g],
         OnShardMigration(g, p) \/ PullFails(g, p) \/ DoPull(g, p)
  PROVE  FirstInv'
<1>1. CASE OnShardMigration(g, p) \/ PullFails(g, p)
  <2>1. UNCHANGED <<master, ownShards, queue>>
    BY <1>1 DEF OnShardMigration, PullFails, ownVars
  <2>2. \A h \in Gid : Sent(h)' = Sent(h)
    BY <2>1 DEF Sent
  <2> QED BY <2>1, <2>2, FirstSame
<1>2. CASE DoPull(g, p)
  <2>1. PICK s : /\ s \in IF p.answer.num = p.num THEN {p.shard} ELSE Shard
                 /\ DoLog(g, [kind |-> "shardmigration", shard |-> s, answer |-> p.answer])
    BY <1>2 DEF DoPull
  <2>2. PICK e : e = [kind |-> "shardmigration", shard |-> s, answer |-> p.answer] /\ DoLog(g, e)
    BY <2>1
  <2>3. p \in Threads
    BY Around DEF FirstInv
  <2>4. e \in Entries
    BY <2>1, <2>2, <2>3 DEF Entries, Threads
  <2>5. FirstEntry(e)
    BY <2>2 DEF FirstEntry
  <2>6. UNCHANGED <<master, ownShards>>
    BY <1>2 DEF DoPull, ownVars
  <2> QED BY <2>2, <2>4, <2>5, <2>6, LoggedFirst
<1> QED BY <1>1, <1>2

LEMMA AskFirst ==
  ASSUME FirstInv, TypeInv', NEW g \in Gid, NEW num \in Nat,
         AskAgain(g, num) \/ \E key \in Key, op \in Op : Ask(g, key, op, num)
  PROVE  FirstInv'
<1>1. PICK r \in Request : OnPutAppend(g, r, num)
  BY AskedRequest DEF FirstInv
<1>2. PICK e : e = [kind |-> "putappend", id |-> r, num |-> num] /\ DoLog(g, e)
  BY <1>1 DEF OnPutAppend
<1>3. e \in Entries /\ FirstEntry(e)
  BY <1>1, <1>2 DEF Entries, FirstEntry
<1>4. UNCHANGED <<master, ownShards>>
  BY <1>1 DEF OnPutAppend, ownVars
<1> QED BY <1>2, <1>3, <1>4, LoggedFirst

(* A callback: only that of a new configuration touches ownShards here.     *)
LEMMA ApplyFirst ==
  ASSUME FirstInv, TypeInv', NEW g \in Gid,
         \/ OnPutAppendApply(g) \/ OnNewConfigApply(g) \/ OnApply(g)
         \/ OnShardMigrationReplyApply(g) \/ OnShardCleanupApply(g)
  PROVE  FirstInv'
<1>1. TypeInv
  BY DEF FirstInv
<1>2. PICK kind : Applies(g, kind)
  BY DEF OnPutAppendApply, OnNewConfigApply, OnApply, OnShardMigrationReplyApply,
         OnShardCleanupApply
<1>3. UNCHANGED master /\ \A h \in Gid : Sent(h)' \subseteq Sent(h)
  BY <1>1, <1>2, Applied
<1>4. CASE UNCHANGED ownShards
  BY <1>3, <1>4, FirstSame
<1>5. ~OnShardMigrationReplyApply(g)
  <2>1. Applies(g, "shardmigrationreply") =>
          queue[g][1] \in Sent(g) /\ queue[g][1].kind = "shardmigrationreply"
    BY <1>1, Applied
  <2>2. queue[g][1] \in Sent(g) => queue[g][1].kind # "shardmigrationreply"
    BY DEF FirstInv, AtFirst, FirstEntry
  <2> QED BY <2>1, <2>2 DEF OnShardMigrationReplyApply
<1>6. CASE /\ Applies(g, "newconfig")
           /\ Newer(g, queue[g][1].config.num) /\ ApplyNewConf(g, queue[g][1].config)
  <2>1. PICK new : new = queue[g][1].config
    OBVIOUS
  <2>2. new \in Configs /\ new.num = config[g].num + 1
    BY <1>1, <1>6, <2>1, NextNumber
  <2>3. /\ ownShards' = [ownShards EXCEPT ![g] = Kept(g, new)]
        /\ ownShards \in [Gid -> SUBSET Shard]
    BY <1>1, <1>6, <2>1 DEF ApplyNewConf, TypeInv, TypeOK, ShardTypeOK
  <2>4. ASSUME NEW s \in Kept(g, new) PROVE s \in ownShards[g] \/ First(g, s)
    <3>1. CASE config[g].num # 0
      BY <3>1 DEF Kept
    <3>2. CASE config[g].num = 0
      <4>1. s \in Shard /\ new.shards[s] = g /\ new.num = 1
        BY <2>2, <3>2 DEF Kept, Mine
      <4>2. FirstEntry(queue[g][1]) /\ queue[g][1].kind = "newconfig"
        BY <1>1, <1>6, Applied DEF FirstInv, AtFirst
      <4> QED BY <2>1, <4>1, <4>2 DEF FirstEntry
    <3> QED BY <3>1, <3>2
  <2>5. \A h \in Gid : \A s \in ownShards'[h] : s \in ownShards[h] \/ First(h, s)
    BY <2>3, <2>4
  <2> QED BY <1>3, <2>5, FirstSame
<1>7. OnPutAppendApply(g) \/ OnApply(g) \/ OnShardCleanupApply(g) => UNCHANGED ownShards
  BY DEF OnPutAppendApply, OnApply, OnShardCleanupApply, ownVars, applyVars
<1>8. OnNewConfigApply(g) =>
        \/ UNCHANGED ownShards
        \/ /\ Applies(g, "newconfig")
           /\ Newer(g, queue[g][1].config.num) /\ ApplyNewConf(g, queue[g][1].config)
  BY DEF OnNewConfigApply, ownVars
<1> QED BY <1>4, <1>5, <1>6, <1>7, <1>8

LEMMA NextFirstInv == ASSUME ~Wired PROVE FirstInv /\ [Next]_vars => FirstInv'
<1> SUFFICES ASSUME FirstInv, [Next]_vars PROVE FirstInv'
  OBVIOUS
<1>0. TypeInv'
  BY NextTypeInv DEF FirstInv
<1>1. CASE NewConfiguration
  BY <1>0, <1>1, NewConfigurationFirst
<1>2. ASSUME UNCHANGED <<master, ownShards, queue>> PROVE FirstInv'
  <2>1. \A h \in Gid : Sent(h)' = Sent(h)
    BY <1>2 DEF Sent
  <2> QED BY <1>0, <1>2, <2>1, FirstSame
<1>3. ASSUME NEW g \in Gid, Poll(g) \/ Pull(g) PROVE FirstInv'
  <2>1. Pull(g) => UNCHANGED <<master, ownShards, queue>>
    BY DEF Pull, ownVars
  <2> QED BY <1>0, <1>2, <1>3, <2>1, PollFirst
<1>4. ASSUME NEW g \in Gid, NEW p \in pulls[g],
             OnShardMigration(g, p) \/ PullFails(g, p) \/ DoPull(g, p)
      PROVE  FirstInv'
  BY <1>0, <1>4, PullThreadsFirst
<1>5. ASSUME NEW g \in Gid, NEW c \in cleaningShards[g],
             OnShardCleanup(g, c[1], c[2]) \/ DoClean(g, c[1], c[2])
      PROVE  FirstInv'
  BY <1>5 DEF OnShardCleanup, DoClean
<1>6. ASSUME NEW g \in Gid, NEW num \in {config[g].num, config[g].num + 1} \cap 1 .. MaxConfig,
             AskAgain(g, num) \/ \E key \in Key, op \in Op : Ask(g, key, op, num)
      PROVE  FirstInv'
  <2>1. num \in Nat
    BY BoundAssumption
  <2> QED BY <1>0, <1>6, <2>1, AskFirst
<1>7. ASSUME NEW g \in Gid,
             \/ OnPutAppendApply(g) \/ OnNewConfigApply(g) \/ OnApply(g)
             \/ OnShardMigrationReplyApply(g) \/ OnShardCleanupApply(g)
      PROVE  FirstInv'
  BY <1>0, <1>7, ApplyFirst
<1>8. ASSUME NEW g \in Gid, NewLeader(g) PROVE FirstInv'
  <2>1. PICK n \in 0 .. Len(queue[g]) : queue' = [queue EXCEPT ![g] = SubSeq(@, 1, n)]
    BY <1>8 DEF NewLeader
  <2>2. \A h \in Gid : Sent(h)' \subseteq Sent(h)
    BY <2>1, Around, CutSent DEF FirstInv
  <2>3. UNCHANGED <<master, ownShards>>
    BY <1>8 DEF NewLeader, ownVars
  <2> QED BY <1>0, <2>2, <2>3, FirstSame
<1>9. CASE UNCHANGED vars
  BY <1>2, <1>9 DEF vars, ownVars
<1> QED BY <1>1, <1>3, <1>4, <1>5, <1>6, <1>7, <1>8, <1>9 DEF Next

(* As written no shard ever has two owners: a group owns only what the first *)
(* configuration gave it, whatever the polls were told of the later ones.   *)
THEOREM SingleOwner == ASSUME ~Wired PROVE Spec => []OneOwner
<1>1. FirstInv => OneOwner
  <2> SUFFICES ASSUME FirstInv, NEW g \in Gid, NEW h \in Gid, NEW s,
                      s \in ownShards[g], s \in ownShards[h]
               PROVE  g = h
    BY DEF OneOwner
  <2>1. s \in Shard
    BY DEF FirstInv, TypeInv, TypeOK, ShardTypeOK
  <2> QED BY <2>1 DEF FirstInv, AtFirst, First
<1>2. FirstInv /\ [Next]_vars => FirstInv'
  BY NextFirstInv
<1> QED BY <1>1, <1>2, InitFirstInv, PTL DEF Spec
=============================================================================
