----------------------------- MODULE Shardmaster -----------------------------
(***************************************************************************)
(* The state machine of the shard master (shardmaster_server.cpp): the      *)
(* configurations, each of which assigns every shard to a replication       *)
(* group, made by the Join, Leave and Move requests in the order in which   *)
(* Raft commits them, and read by Query.                                    *)
(*                                                                         *)
(* Each callback of do_apply is one action: it runs under monitor_mut.  The *)
(* addresses of a group's servers are left out; the order in which an       *)
(* unordered_map is walked is any order.                                    *)
(*                                                                         *)
(* Just before some definitions stands a faulty variant of them, used by    *)
(* nothing here: PROJECT.json names the property each variant must break.   *)
(***************************************************************************)
EXTENDS Integers, Sequences, FiniteSets

CONSTANTS
  Gid,      \* the replication groups
  NShards,  \* number of shards
  Client,   \* the ids of the clients
  MaxSeq    \* bound: the requests of a client

ASSUME GidAssumption == IsFiniteSet(Gid) /\ 0 \notin Gid
ASSUME ClientAssumption == IsFiniteSet(Client)
ASSUME BoundAssumption == NShards \in Nat \ {0} /\ MaxSeq \in Nat

VARIABLES
  configs,     \* configs[n + 1] is configuration n
  cache,       \* per client: the last request carried out
  flag,        \* whether the last request was carried out
  queryConfig, \* the answer to the last Query
  crashed      \* the process has died in a callback

vars == <<configs, cache, flag, queryConfig, crashed>>
-----------------------------------------------------------------------------
NoGid == 0
Shards == 0 .. NShards - 1
NoShards == [i \in Shards |-> NoGid]
FirstConfig == [shards |-> NoShards, groups |-> {}]

(* get_config: an unknown number stands for the latest configuration.       *)
Config(num) == IF num + 1 \in DOMAIN configs THEN configs[num + 1] ELSE configs[Len(configs)]
LastConfig == Config(-1)

(* The orders in which the keys of an unordered_map may come.               *)
Orders(S) == {o \in [1 .. Cardinality(S) -> S] : \A a \in S : \E k \in DOMAIN o : o[k] = a}

Init ==
  /\ configs = <<FirstConfig>>
  /\ cache = [c \in Client |-> 0]
  /\ flag = TRUE
  /\ queryConfig = [shards |-> <<>>, groups |-> {}]
  /\ crashed = FALSE

AcceptedTwice(c, n) == cache[c] <= n
Accepted(c, n) == cache[c] < n
Refuse == flag' = FALSE /\ UNCHANGED <<configs, cache, queryConfig, crashed>>

AppendNewConfigInPlace(c, n, shards, groups) ==
  /\ configs' = [configs EXCEPT ![Len(configs)] = [shards |-> shards, groups |-> groups]]
  /\ cache' = [cache EXCEPT ![c] = n]
  /\ flag' = TRUE
  /\ UNCHANGED <<queryConfig, crashed>>

AppendNewConfig(c, n, shards, groups) ==
  /\ configs' = Append(configs, [shards |-> shards, groups |-> groups])
  /\ cache' = [cache EXCEPT ![c] = n]
  /\ flag' = TRUE
  /\ UNCHANGED <<queryConfig, crashed>>
-----------------------------------------------------------------------------
(* Join: one pass over the shards, in which the new groups take in turn     *)
(* what is not assigned and what a group has beyond its share.  A share is  *)
(* min shards; some groups, counted in more, may keep more than that.       *)

SurplusEarly(s, gid, min) == gid = NoGid \/ s.count[gid] + 1 = min
Surplus(s, gid, min) ==
  gid = NoGid \/ (s.count[gid] = min /\ (NShards = min * s.groups \/ s.more <= 0))

(* An order without new groups: newGids[j] reads what is not there.         *)
JoinStep(s, i, newGids, min) ==
  LET gid == s.shards[i]
      newGid == newGids[s.j + 1]
  IN IF s.fault THEN s
     ELSE IF ~Surplus(s, gid, min)
     THEN [s EXCEPT !.count[gid] = @ + 1,
                    !.more = IF s.count[gid] + 1 = min THEN @ - 1 ELSE @]
     ELSE IF newGids = <<>> THEN [s EXCEPT !.fault = TRUE]
     ELSE [s EXCEPT !.shards[i] = newGid, !.count[newGid] = @ + 1, !.j = (@ + 1) % Len(newGids)]

JoinWalk(shards, groups, newGids) ==
  LET min == NShards \div groups
      walk[i \in 0 .. NShards] ==
        IF i = 0
        THEN [shards |-> shards, groups |-> groups, more |-> NShards % groups,
              count |-> [g \in Gid |-> 0], j |-> 0, fault |-> FALSE]
        ELSE JoinStep(walk[i - 1], i - 1, newGids, min)
  IN walk
JoinShards(shards, groups, newGids) == JoinWalk(shards, groups, newGids)[NShards]

Rebalance(c, n, groups, newGids) ==
  LET s == JoinShards(LastConfig.shards, Cardinality(groups), newGids)
  IN IF s.fault
     THEN crashed' = TRUE /\ flag' = TRUE /\ UNCHANGED <<configs, cache, queryConfig>>
     ELSE AppendNewConfig(c, n, s.shards, groups)

OnJoinApply(c, n, gids) ==
  LET groups == LastConfig.groups \union gids
  IN /\ ~crashed
     /\ IF ~Accepted(c, n) THEN Refuse
        ELSE IF groups = {} THEN AppendNewConfig(c, n, NoShards, groups)
        ELSE IF Cardinality(groups) > NShards THEN AppendNewConfig(c, n, LastConfig.shards, groups)
        ELSE \E newGids \in Orders(gids \ LastConfig.groups) : Rebalance(c, n, groups, newGids)
-----------------------------------------------------------------------------
(* Leave: the loop starts again from the first shard whenever it has handed *)
(* one to a group below its share, and keeps the counts it has made so far. *)

MovesAwayForgotten(s, gids, per) == s.count[s.shards[s.i]] = per
MovesAway(s, gids, per) == s.shards[s.i] \in gids \/ s.count[s.shards[s.i]] = per

(* The first group below its share, or else the next one in turn.           *)
Poor(s, rest, per) == {k \in DOMAIN rest : s.count[rest[k]] < per}
Receiver(s, rest, per) ==
  LET poor == Poor(s, rest, per)
  IN rest[IF poor = {} THEN s.j + 1 ELSE CHOOSE k \in poor : \A l \in poor : k <= l]

LeaveStep(s, gids, rest, per) ==
  LET gid == s.shards[s.i]
      to  == Receiver(s, rest, per)
      fed == Poor(s, rest, per) = {}
  IN IF s.i = NShards THEN s
     ELSE IF ~MovesAway(s, gids, per)
     THEN [s EXCEPT !.count[gid] = @ + 1, !.i = @ + 1]
     ELSE [s EXCEPT !.shards[s.i] = to,
                    !.count[to] = @ + 1,
                    !.i = IF fed THEN @ + 1 ELSE 0,
                    !.j = IF fed THEN (@ + 1) % Len(rest) ELSE 0]

Share(rest) == IF NShards < Len(rest) THEN 1 ELSE NShards \div Len(rest)
LeaveSteps(rest) == (Share(rest) * Len(rest) + 1) * NShards
LeaveWalk(shards, gids, rest) ==
  LET walk[k \in 0 .. LeaveSteps(rest)] ==
        IF k = 0
        THEN [shards |-> shards, count |-> [g \in Gid \union {NoGid} |-> 0], i |-> 0, j |-> 0]
        ELSE LeaveStep(walk[k - 1], gids, rest, Share(rest))
  IN walk
LeaveShards(shards, gids, rest) == LeaveWalk(shards, gids, rest)[LeaveSteps(rest)].shards

OnLeaveApply(c, n, gids) ==
  LET groups == LastConfig.groups \ gids
  IN /\ ~crashed
     /\ IF ~Accepted(c, n) THEN Refuse
        ELSE IF groups = {} THEN AppendNewConfig(c, n, NoShards, groups)
        ELSE \E rest \in Orders(groups) :
               AppendNewConfig(c, n, LeaveShards(LastConfig.shards, gids, rest), groups)
-----------------------------------------------------------------------------
(* Neither the shard nor the group of a Move is checked.                    *)
OnMoveApply(c, n, shard, gid) ==
  /\ ~crashed
  /\ IF Accepted(c, n)
     THEN AppendNewConfig(c, n, [LastConfig.shards EXCEPT ![shard] = gid], LastConfig.groups)
     ELSE Refuse

OnQueryApply(num) ==
  /\ ~crashed
  /\ queryConfig' = Config(num)
  /\ flag' = TRUE
  /\ UNCHANGED <<configs, cache, crashed>>

(* A request not seen before, or a copy of one that was; which one of those  *)
(* makes no difference.                                                     *)
Numbers(c) == {cache[c], cache[c] + 1} \intersect 1 .. MaxSeq

Next ==
  \/ \E c \in Client : \E n \in Numbers(c) :
       \/ \E gids \in SUBSET Gid : OnJoinApply(c, n, gids) \/ OnLeaveApply(c, n, gids)
       \/ \E shard \in Shards, gid \in Gid : OnMoveApply(c, n, shard, gid)
  \/ \E num \in -1 .. Len(configs) : OnQueryApply(num)

Spec == Init /\ [][Next]_vars
-----------------------------------------------------------------------------
(* Properties.                                                              *)

(* A request carried out, or its copy, never makes a second configuration,  *)
(* and no configuration names a group nobody asked for.                     *)
TypeOK ==
  /\ configs \in Seq([shards : [Shards -> Gid \union {NoGid}], groups : SUBSET Gid])
  /\ Len(configs) \in 1 .. 1 + MaxSeq * Cardinality(Client)
  /\ cache \in [Client -> 0 .. MaxSeq]
  /\ flag \in BOOLEAN /\ crashed \in BOOLEAN
  /\ queryConfig \in {configs[k] : k \in DOMAIN configs} \union {[shards |-> <<>>, groups |-> {}]}

(* Whatever is asked for, and however often, configurations are only added: *)
(* what a group has read of configuration num stays true.                   *)
Assignments == INSTANCE ConfigLog
                 WITH configs <- [k \in DOMAIN configs |-> configs[k].shards],
                      Owners <- Gid \union {NoGid}, NoOwner <- NoGid
OnlyExtended == Assignments!Spec

Stranded(config, i) == config.shards[i] \notin config.groups
Moved(old, new) == {i \in Shards : new.shards[i] # old.shards[i]}
Load(config, g) == Cardinality({i \in Shards : config.shards[i] = g})
Joins(old, new) ==
  /\ old.groups \subseteq new.groups /\ old.groups # new.groups
  /\ Cardinality(new.groups) <= NShards

Serves(old, new) ==
  /\ new.groups # {}
  /\ new.groups # old.groups \/ Cardinality(Moved(old, new)) > 1
  => \A i \in Shards : Stranded(new, i) =>
       /\ Stranded(old, i) /\ i \notin Moved(old, new)
       /\ Joins(old, new) => new.shards[i] # NoGid

TakesSurplus(old, new) ==
  Joins(old, new) =>
    /\ \A i \in Moved(old, new) : new.shards[i] \in new.groups \ old.groups
    /\ \A g \in old.groups : \/ Load(new, g) = Load(old, g)
                             \/ Load(new, g) >= NShards \div Cardinality(new.groups)

(* Only a Move leaves a shard with a group that is not there.  A Join or a  *)
(* Leave that leaves groups behind strands no shard that was served, and    *)
(* gives one that was stranded to nobody but a group; and a Join that brings *)
(* a group, when there are no more groups than shards, leaves no shard       *)
(* unassigned.                                                              *)
ShardsServed == [][configs' # configs => Serves(LastConfig, LastConfig')]_vars

(* A Join that brings a new group moves shards to new groups only, and      *)
(* takes none from a group that would be left with less than its share.     *)
JoinTakesSurplus == [][configs' # configs => TakesSurplus(LastConfig, LastConfig')]_vars
=============================================================================
