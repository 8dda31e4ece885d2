------------------------------- MODULE ShardKv -------------------------------
(***************************************************************************)
(* The sharded key-value server (shardkv_server.cpp): replication groups    *)
(* that poll the shard master for the next configuration, give up and take  *)
(* over shards as it says, and carry out the clients' requests for the      *)
(* shards they own.                                                         *)
(*                                                                         *)
(* A group is its leader's ShardkvServer over a queue of the entries that   *)
(* Raft has accepted and not yet applied.  Entries are applied in order; a  *)
(* new leader has the state the applied entries make, may lack the last of  *)
(* those that were not, and starts with none of the old one's threads.      *)
(* What a server that does not lead does (answer AGAIN, do nothing) changes *)
(* no state.  The mutex shardkvServerMu is held for one step, or for ever.  *)
(* Flags, and with them the answers to clients, are ServerRequests' subject:*)
(* here a client may send its request again at any time, wherever it went.  *)
(*                                                                         *)
(* As written, the entry a pull logs has a command that do_apply does not   *)
(* know, and the thread that cleans up returns at once, so no shard ever    *)
(* arrives.  With Wired = TRUE the command is the one do_apply has a branch *)
(* for and the thread runs, which shows what the callbacks do when called.  *)
(***************************************************************************)
EXTENDS Integers, Sequences, FiniteSets, FiniteSetsExt

CONSTANTS
  Gid,         \* the replication groups
  NoGid,       \* the group 0 of a shard that has none
  Shard,       \* the shards
  Name,        \* tells the keys of a shard apart
  Wired,       \* FALSE: the code as written
  MaxConfig,   \* bound: the highest number of a configuration
  Op,          \* the operations the client uses
  MaxQueue,    \* bound: entries of a group that wait to be applied
  MaxEvents    \* bound: requests, changes of leader and lost answers, all together

ASSUME GidAssumption == IsFiniteSet(Gid) /\ NoGid \notin Gid
ASSUME WiredAssumption == Wired \in BOOLEAN
ASSUME OpAssumption == Op \subseteq {"put", "append"}
ASSUME BoundAssumption == {MaxConfig, MaxQueue, MaxEvents} \subseteq Nat

VARIABLES
  master,          \* the shard master's configurations
  config,          \* per group: the configuration in force, [num, shards]
  historyConfigs,  \* per group: those before it
  ownShards,       \* per group: the shards it serves
  waitingShards,   \* per group and shard: the configuration to pull from, or None
  migratingShards, \* per group: the shards it gave up, as [num, shard, data, cache]
  cleaningShards,  \* per group: the shards it took over, as <<num, shard>>
  cleaned,         \* per group: those the present leader has cleaned up
  data,            \* per group and key: the value, as the requests that made it
  cache,           \* per group: the requests it remembers
  queue,           \* per group: the entries accepted and not yet applied
  held,            \* per group: a handler has returned with shardkvServerMu
  pulls,           \* per group: the threads of pull(), as [shard, from, num, answer]
  asked,           \* the client's requests so far, as [key, op]
  executed,        \* history: how often each request was carried out
  latest,          \* history: per key, the value the last request made of it
  torn,            \* history: a shard was given up in part
  hasty,           \* history: a group took a configuration while it awaited a shard
  faults           \* history: changes of leader and lost answers (for the bound)

ownVars == <<config, historyConfigs, ownShards, waitingShards, migratingShards>>
takeVars == <<cleaningShards, cleaned>>
storeVars == <<data, cache>>
threadVars == <<held, pulls>>
historyVars == <<executed, latest>>
boundVars == <<torn, hasty, faults>>
applyVars == <<ownVars, cleaningShards, storeVars, historyVars, torn, hasty>>
vars == <<master, ownVars, takeVars, storeVars, queue, threadVars, asked,
          historyVars, boundVars>>
-----------------------------------------------------------------------------
None == -1
Key == Shard \X Name
Key2Shard(key) == key[1]
KeysOf(s) == {k \in Key : Key2Shard(k) = s}
Ids(keys) == {r \in DOMAIN asked : asked[r].key \in keys}

Master == INSTANCE ConfigLog
            WITH configs <- master, Shards <- Shard, Owners <- Gid \union {NoGid}, NoOwner <- NoGid

(* Query: a number that does not exist yet gets the latest configuration,   *)
(* under the number that was asked for.                                     *)
Query(num) ==
  [num |-> num, shards |-> IF num < Len(master) THEN master[num + 1] ELSE Master!Latest]

FirstConfig == [num |-> 0, shards |-> [s \in Shard |-> NoGid]]

Init ==
  /\ Master!Init
  /\ config = [g \in Gid |-> FirstConfig]
  /\ historyConfigs = [g \in Gid |-> <<>>]
  /\ ownShards = [g \in Gid |-> {}]
  /\ waitingShards = [g \in Gid |-> [s \in Shard |-> None]]
  /\ migratingShards = [g \in Gid |-> {}]
  /\ cleaningShards = [g \in Gid |-> {}]
  /\ cleaned = [g \in Gid |-> {}]
  /\ data = [g \in Gid |-> [k \in Key |-> <<>>]]
  /\ cache = [g \in Gid |-> {}]
  /\ queue = [g \in Gid |-> <<>>]
  /\ held = [g \in Gid |-> FALSE]
  /\ pulls = [g \in Gid |-> {}]
  /\ asked = <<>>
  /\ executed = [r \in 1 .. MaxEvents |-> 0]
  /\ latest = [k \in Key |-> <<>>]
  /\ torn = FALSE
  /\ hasty = FALSE
  /\ faults = 0

NewConfiguration ==
  /\ Len(master) <= MaxConfig
  /\ \E assigned \in Master!Assignment : Master!Extend(assigned)
  /\ UNCHANGED <<ownVars, takeVars, storeVars, queue, threadVars, asked,
                 historyVars, boundVars>>

Fault == Len(asked) + faults < MaxEvents /\ faults' = faults + 1

(* do_log at a leader.                                                      *)
DoLog(g, entry) ==
  /\ MapThenSumSet(LAMBDA h : Len(queue[h]), Gid) < MaxQueue
  /\ queue' = [queue EXCEPT ![g] = Append(@, entry)]
-----------------------------------------------------------------------------
(* The threads of a leader.                                                 *)

(* poll(): the number is read, the mutex given up, the shard master asked    *)
(* and the entry logged; by then an entry of the poll before may have been   *)
(* applied, and the configuration that was asked for be in force.           *)
Poll(g) ==
  /\ ~held[g]
  /\ \E num \in {config[g].num, config[g].num + 1} \cap 1 .. MaxConfig :
       DoLog(g, [kind |-> "newconfig", config |-> Query(num)])
  /\ UNCHANGED <<master, ownVars, takeVars, storeVars, threadVars, asked,
                 historyVars, boundVars>>

(* pull(): a thread for each shard that is waited for.  It begins when the  *)
(* threads of the last one have ended.                                      *)
NoAnswer == [num |-> None, data |-> {}, cache |-> {}]
Pull(g) ==
  LET waiting == {s \in Shard : waitingShards[g][s] # None}
      old(s) == historyConfigs[g][waitingShards[g][s] + 1]
  IN /\ ~held[g]
     /\ pulls[g] = {}
     /\ waiting # {}
     /\ pulls' = [pulls EXCEPT ![g] =
          {[shard |-> s, from |-> old(s).shards[s], num |-> old(s).num, answer |-> NoAnswer]
             : s \in waiting}]
     /\ UNCHANGED <<master, ownVars, takeVars, storeVars, queue, held, asked,
                    historyVars, boundVars>>

(* onShardMigration at group h: what is given for a shard of configuration  *)
(* num, nothing for one that was not given up then.                         *)
Given(h, s, num) ==
  LET m == {x \in migratingShards[h] : x.num = num /\ x.shard = s}
  IN [num |-> num, data |-> UNION {x.data : x \in m}, cache |-> UNION {x.cache : x \in m}]
NeverTooEarly(h, num) == FALSE
TooEarly(h, num) == num >= config[h].num

(* doPull(), up to the answer.  The handler returns no value, so the call   *)
(* may seem to have failed, as one that is lost does: what is left is an    *)
(* empty answer, whose flag is 0, SUCCESS, and whose configuration is 0.    *)
EmptyAnswer == [num |-> 0, data |-> {}, cache |-> {}]
Answered(g, p, answer) == pulls' = [pulls EXCEPT ![g] = (@ \ {p}) \union {[p EXCEPT !.answer = answer]}]
Ended(g, p) == pulls' = [pulls EXCEPT ![g] = @ \ {p}]

OnShardMigration(g, p) ==
  /\ p \in pulls[g] /\ p.answer = NoAnswer /\ p.from # NoGid
  /\ ~held[p.from]
  /\ held' = [held EXCEPT ![p.from] = TooEarly(p.from, p.num)]
  /\ \/ /\ IF TooEarly(p.from, p.num)
           THEN Ended(g, p) ELSE Answered(g, p, Given(p.from, p.shard, p.num))
        /\ UNCHANGED faults
     \/ Answered(g, p, EmptyAnswer) /\ Fault
  /\ UNCHANGED <<master, ownVars, takeVars, storeVars, queue, asked,
                 historyVars, torn, hasty>>

(* There is no server to ask, every one was, or the call is lost.           *)
PullFails(g, p) ==
  /\ p \in pulls[g] /\ p.answer = NoAnswer
  /\ \/ p.from = NoGid /\ Ended(g, p) /\ UNCHANGED faults
     \/ p.from # NoGid /\ (Ended(g, p) \/ Answered(g, p, EmptyAnswer)) /\ Fault
  /\ UNCHANGED <<master, ownVars, takeVars, storeVars, queue, held, asked,
                 historyVars, torn, hasty>>

(* The rest of doPull(), without the wait for the entry to be applied.  An  *)
(* empty answer names shard 0.                                              *)
DoPull(g, p) ==
  /\ p \in pulls[g] /\ p.answer # NoAnswer
  /\ ~held[g]
  /\ \E s \in IF p.answer.num = p.num THEN {p.shard} ELSE Shard :
       DoLog(g, [kind |-> IF Wired THEN "shardmigrationreply" ELSE "shardmigration",
                 shard |-> s, answer |-> p.answer])
  /\ Ended(g, p)
  /\ UNCHANGED <<master, ownVars, takeVars, storeVars, held, asked,
                 historyVars, boundVars>>

(* doClean() at g, onShardCleanup at the group the shard came from.  Where   *)
(* other shards of that configuration are left and this one is not, the     *)
(* handler returns with the mutex.                                          *)
OnShardCleanup(g, num, s) ==
  LET h == historyConfigs[g][num + 1].shards[s]
      old == {x \in migratingShards[h] : x.num = num}
  IN /\ Wired
     /\ <<num, s>> \in cleaningShards[g] \ cleaned[g]
     /\ h # NoGid /\ ~held[h] /\ old # {}
     /\ IF \E x \in old : x.shard = s
        THEN DoLog(h, [kind |-> "shardcleanup", num |-> num, shard |-> s]) /\ UNCHANGED held
        ELSE held' = [held EXCEPT ![h] = TRUE] /\ UNCHANGED queue
     /\ UNCHANGED <<master, ownVars, takeVars, storeVars, pulls, asked,
                    historyVars, boundVars>>

(* The rest of doClean(): a lost call counts as SUCCESS.  What the others of *)
(* the group remember of the shard stays.                                   *)
DoClean(g, num, s) ==
  /\ Wired
  /\ <<num, s>> \in cleaningShards[g] \ cleaned[g]
  /\ historyConfigs[g][num + 1].shards[s] # NoGid
  /\ ~held[g]
  /\ cleaned' = [cleaned EXCEPT ![g] = @ \union {<<num, s>>}]
  /\ UNCHANGED <<master, ownVars, cleaningShards, storeVars, queue, threadVars, asked,
                 historyVars, boundVars>>
-----------------------------------------------------------------------------
(* Requests.                                                                *)

(* onPutAppend; the client's configuration has the number num.               *)
OnPutAppend(g, r, num) ==
  /\ ~held[g]
  /\ DoLog(g, [kind |-> "putappend", id |-> r, num |-> num])
  /\ UNCHANGED <<master, ownVars, takeVars, storeVars, threadVars, historyVars, boundVars>>

(* A request is made when it is first sent, and sent again until the next.  *)
Ask(g, key, op, num) ==
  /\ Len(asked) + faults < MaxEvents
  /\ asked' = Append(asked, [key |-> key, op |-> op])
  /\ OnPutAppend(g, Len(asked) + 1, num)

AskAgain(g, num) == asked # <<>> /\ OnPutAppend(g, Len(asked), num) /\ UNCHANGED asked

Serves(g, num, key) == num = config[g].num /\ Key2Shard(key) \in ownShards[g]

(* onGetApply changes nothing but the answer.                               *)
GetAnswer(g, num, key) == IF Serves(g, num, key) THEN <<data[g][key]>> ELSE <<>>
-----------------------------------------------------------------------------
(* The callbacks: the first entry of the queue is applied.                  *)

Applies(g, kind) ==
  /\ queue[g] # <<>>
  /\ queue[g][1].kind = kind
  /\ queue' = [queue EXCEPT ![g] = Tail(@)]
  /\ UNCHANGED <<master, cleaned, threadVars, asked, faults>>

FreshForgotten(g, r) == TRUE
Fresh(g, r) == r \notin cache[g]

(* A request that is refused is remembered as one that was carried out is.  *)
OnPutAppendApply(g) ==
  LET e == queue[g][1]
      key == asked[e.id].key
      value == IF asked[e.id].op = "put" THEN <<e.id>> ELSE Append(data[g][key], e.id)
  IN /\ Applies(g, "putappend")
     /\ IF Serves(g, e.num, key) /\ Fresh(g, e.id)
        THEN /\ data' = [data EXCEPT ![g][key] = value]
             /\ latest' = [latest EXCEPT ![key] = value]
             /\ executed' = [executed EXCEPT ![e.id] = @ + 1]
        ELSE UNCHANGED <<data, historyVars>>
     /\ cache' = [cache EXCEPT ![g] = (@ \ {e.id - 1}) \union {e.id}]
     /\ UNCHANGED <<ownVars, cleaningShards, torn, hasty>>

(* Of a shard that is given up the entries are erased while they are walked *)
(* over: the walk may end after the first of them.                          *)
Walks(S) == {W \in SUBSET S : W = {} <=> S = {}}
GivenUpUnderNew(g, num, s, keys, ids) ==
  [num |-> num + 1, shard |-> s, data |-> {<<k, data[g][k]>> : k \in keys}, cache |-> ids]
GivenUpCopyLate(g, num, s, keys, ids) == [num |-> num, shard |-> s, data |-> {}, cache |-> ids]
GivenUp(g, num, s, keys, ids) ==
  [num |-> num, shard |-> s, data |-> {<<k, data[g][k]>> : k \in keys}, cache |-> ids]

(* The shards of the first configuration are there at once.                 *)
Mine(g, new) == {s \in Shard : new.shards[s] = g}
KeptEarly(g, new) == IF config[g].num <= 1 THEN Mine(g, new) ELSE Mine(g, new) \cap ownShards[g]
KeptForgotten(g, new) == IF config[g].num = 0 THEN Mine(g, new) ELSE ownShards[g]
Kept(g, new) == IF config[g].num = 0 THEN Mine(g, new) ELSE Mine(g, new) \cap ownShards[g]

ApplyNewConf(g, new) ==
  LET old == config[g]
      kept == Kept(g, new)
      lost == ownShards[g] \ kept
      awaited == Mine(g, new) \ kept
  IN /\ config' = [config EXCEPT ![g] = new]
     /\ historyConfigs' = [historyConfigs EXCEPT ![g] = Append(@, old)]
     /\ ownShards' = [ownShards EXCEPT ![g] = kept]
     /\ waitingShards' = [waitingShards EXCEPT ![g] =
          [s \in Shard |-> IF s \in awaited THEN old.num ELSE @[s]]]
     /\ \E keys \in [lost -> SUBSET Key], ids \in [lost -> SUBSET DOMAIN asked] :
          /\ \A s \in lost : /\ keys[s] \in Walks({k \in KeysOf(s) : data[g][k] # <<>>})
                             /\ ids[s] \in Walks(cache[g] \cap Ids(KeysOf(s)))
          /\ migratingShards' = [migratingShards EXCEPT ![g] =
               @ \union {GivenUp(g, old.num, s, keys[s], ids[s]) : s \in lost}]
          /\ data' = [data EXCEPT ![g] =
               [k \in Key |-> IF \E s \in lost : k \in keys[s] THEN <<>> ELSE @[k]]]
          /\ cache' = [cache EXCEPT ![g] = @ \ UNION {ids[s] : s \in lost}]
          /\ torn' = \/ torn
                     \/ \E s \in lost : \/ ids[s] # cache[g] \cap Ids(KeysOf(s))
                                        \/ \E k \in KeysOf(s) \ keys[s] : data[g][k] # <<>>
     /\ hasty' = (hasty \/ \E s \in Shard : waitingShards[g][s] # None)

NotOlder(g, num) == num >= config[g].num
Newer(g, num) == num > config[g].num

OnNewConfigApply(g) ==
  LET new == queue[g][1].config
  IN /\ Applies(g, "newconfig")
     /\ IF Newer(g, new.num)
        THEN ApplyNewConf(g, new)
        ELSE UNCHANGED <<ownVars, storeVars, torn, hasty>>
     /\ UNCHANGED <<cleaningShards, historyVars>>

(* Nobody is called for a command do_apply does not know.                   *)
OnApply(g) ==
  /\ Applies(g, "shardmigration")
  /\ UNCHANGED applyVars

AnyConfig(g, num) == TRUE
Recent(g, num) == num = config[g].num - 1

OnShardMigrationReplyApply(g) ==
  LET s == queue[g][1].shard
      answer == queue[g][1].answer
      installs == Recent(g, answer.num) /\ s \notin ownShards[g]
  IN /\ Applies(g, "shardmigrationreply")
     /\ waitingShards' = IF Recent(g, answer.num)
                         THEN [waitingShards EXCEPT ![g][s] = None] ELSE waitingShards
     /\ IF installs
        THEN /\ cleaningShards' = [cleaningShards EXCEPT ![g] = @ \union {<<answer.num, s>>}]
             /\ ownShards' = [ownShards EXCEPT ![g] = @ \union {s}]
             /\ data' = [data EXCEPT ![g] = [k \in Key |->
                  IF \E d \in answer.data : d[1] = k
                  THEN (CHOOSE d \in answer.data : d[1] = k)[2] ELSE @[k]]]
             /\ cache' = [cache EXCEPT ![g] = @ \union answer.cache]
        ELSE UNCHANGED <<cleaningShards, ownShards, storeVars>>
     /\ UNCHANGED <<config, historyConfigs, migratingShards, historyVars, torn, hasty>>

OnShardCleanupApply(g) ==
  LET e == queue[g][1]
  IN /\ Applies(g, "shardcleanup")
     /\ migratingShards' = [migratingShards EXCEPT ![g] =
          {x \in @ : ~(x.num = e.num /\ x.shard = e.shard)}]
     /\ UNCHANGED <<config, historyConfigs, ownShards, waitingShards, cleaningShards, storeVars,
                    historyVars, torn, hasty>>

(* Another node of the group becomes its leader.                            *)
NewLeader(g) ==
  /\ Fault
  /\ \E n \in 0 .. Len(queue[g]) : queue' = [queue EXCEPT ![g] = SubSeq(@, 1, n)]
  /\ held' = [held EXCEPT ![g] = FALSE]
  /\ pulls' = [pulls EXCEPT ![g] = {}]
  /\ cleaned' = [cleaned EXCEPT ![g] = {}]
  /\ UNCHANGED <<master, ownVars, cleaningShards, storeVars, asked, historyVars, torn, hasty>>
-----------------------------------------------------------------------------
Next ==
  \/ NewConfiguration
  \/ \E g \in Gid :
       \/ Poll(g) \/ Pull(g)
       \/ \E p \in pulls[g] : OnShardMigration(g, p) \/ PullFails(g, p) \/ DoPull(g, p)
       \/ \E c \in cleaningShards[g] : OnShardCleanup(g, c[1], c[2]) \/ DoClean(g, c[1], c[2])
       \/ \E num \in {config[g].num, config[g].num + 1} \cap 1 .. MaxConfig :
            AskAgain(g, num) \/ \E key \in Key, op \in Op : Ask(g, key, op, num)
       \/ OnPutAppendApply(g) \/ OnNewConfigApply(g) \/ OnApply(g)
       \/ OnShardMigrationReplyApply(g) \/ OnShardCleanupApply(g)
       \/ NewLeader(g)

Spec == Init /\ [][Next]_vars
-----------------------------------------------------------------------------
(* Properties.                                                              *)

Configs == [num : 0 .. MaxConfig, shards : Master!Assignment]
Request == 1 .. MaxEvents
Values == Seq(Request)
Answers == [num : Nat \union {None}, data : SUBSET (Key \X Values), cache : SUBSET Request]
Copies == [num : Nat, shard : Shard, data : SUBSET (Key \X Values), cache : SUBSET Request]
Threads == [shard : Shard, from : Gid \union {NoGid}, num : Nat, answer : Answers]
Entries ==
  [kind : {"newconfig"}, config : Configs]
    \union [kind : {"putappend"}, id : Request, num : Nat]
    \union [kind : {"shardmigration", "shardmigrationreply"}, shard : Shard, answer : Answers]
    \union [kind : {"shardcleanup"}, num : Nat, shard : Shard]

ConfigTypeOK ==
  /\ master \in Seq(Master!Assignment) /\ master # <<>>
  /\ config \in [Gid -> Configs]
  /\ historyConfigs \in [Gid -> Seq(Configs)]
ShardTypeOK ==
  /\ ownShards \in [Gid -> SUBSET Shard]
  /\ waitingShards \in [Gid -> [Shard -> Nat \union {None}]]
  /\ migratingShards \in [Gid -> SUBSET Copies]
  /\ cleaningShards \in [Gid -> SUBSET (Nat \X Shard)]
  /\ cleaned \in [Gid -> SUBSET (Nat \X Shard)]
StoreTypeOK ==
  /\ data \in [Gid -> [Key -> Values]]
  /\ cache \in [Gid -> SUBSET DOMAIN asked]
  /\ asked \in Seq([key : Key, op : Op])
  /\ faults \in Nat /\ Len(asked) + faults <= MaxEvents
ThreadTypeOK ==
  /\ queue \in [Gid -> Seq(Entries)]
  /\ held \in [Gid -> BOOLEAN]
  /\ pulls \in [Gid -> SUBSET Threads]

(* What is given up, taken over or pulled is filed under a configuration    *)
(* that the group has left, and what is cleaned up was taken over.          *)
FiledUnderLeft ==
  \A g \in Gid :
    LET left == 1 .. config[g].num - 1
    IN /\ \A x \in migratingShards[g] : x.num \in left
       /\ \A p \in pulls[g] : p.num \in left
       /\ cleaned[g] \subseteq cleaningShards[g]
       /\ cleaningShards[g] \subseteq left \X Shard

(* Types, and under which configuration the shards on the move are filed.   *)
TypeOK == ConfigTypeOK /\ ShardTypeOK /\ StoreTypeOK /\ ThreadTypeOK /\ FiledUnderLeft

(* The configurations of a group bear the numbers 0, 1, 2 ... without a gap  *)
(* or a copy, so that historyConfigs[num] is configuration num, whatever     *)
(* the polls have logged twice or too late.                                 *)
ConfigAt(g, num) == IF num = config[g].num THEN config[g] ELSE historyConfigs[g][num + 1]
HistoryInOrder ==
  \A g \in Gid :
    /\ Len(historyConfigs[g]) = config[g].num
    /\ \A n \in 0 .. config[g].num : ConfigAt(g, n).num = n
    /\ \A s \in Shard :
         waitingShards[g][s] # None => waitingShards[g][s] \in 1 .. config[g].num - 1

(* A group serves only what its configuration gives it, and nothing that it *)
(* is still waiting for.                                                    *)
OwnersAssigned ==
  \A g \in Gid : \A s \in ownShards[g] : config[g].shards[s] = g /\ waitingShards[g][s] = None

(* What upsets the take-over of shards, once it is wired: a configuration    *)
(* that two groups know differently, one that comes while a shard is still   *)
(* awaited, and a shard given up in part.                                   *)
Agreed ==
  \A g, h \in Gid : \A n \in 0 .. config[g].num :
    n <= config[h].num => ConfigAt(g, n) = ConfigAt(h, n)
Irregular == torn \/ hasty \/ ~Agreed

(* No shard has two owners: as written never, wired unless it was upset.    *)
OneOwner ==
  (\E g, h \in Gid : g # h /\ ownShards[g] \cap ownShards[h] # {}) => Wired /\ Irregular

(* Whoever answers a Get answers with what the last request that was        *)
(* carried out, wherever it was, has left.                                  *)
ServedUpToDate ==
  (\E g \in Gid, k \in Key : GetAnswer(g, config[g].num, k) \notin {<<>>, <<latest[k]>>})
    => Wired /\ Irregular

(* A request that the client still sends is not carried out twice, by one   *)
(* group or by two.                                                         *)
AtMostOnce == asked # <<>> /\ executed[Len(asked)] > 1 => Wired /\ Irregular

(* What the last request made of a key is never lost: some group has it, as  *)
(* data or among what it gave up, however the configurations came.          *)
LatestKept ==
  ~torn => \A k \in Key : latest[k] # <<>> =>
    \E g \in Gid : \/ data[g][k] = latest[k]
                  \/ \E x \in migratingShards[g] : <<k, latest[k]>> \in x.data
=============================================================================
