# ctx_db in TLA+

ctx_db is a replicated key-value store in C++: a Raft implementation (`RaftNode`),
and on top of it a key-value server, a shard master and a sharded key-value
server. This directory holds its formal models. `PROJECT.json` says which
definition models which lines of the code, which run checks which property, and
where the hazards are; paths below are relative to `src/src/` of the repository.

1. [The system](#1-the-system) — inventory of the components
2. [The modules](#2-the-modules) — what each models, and how it corresponds to the code
3. [The runs](#3-the-runs) — what TLC checks, bounds, fairness
4. [Disagreements found](#4-disagreements-found) — where code and its own comments or tests part
5. [The proofs](#5-the-proofs) — what holds for every value of the constants
6. [What is left out](#6-what-is-left-out)
7. [Plan](#7-plan)

## 1. The system

A process runs a server object (`KvServer`, `ShardmasterServer` or
`ShardkvServer`), which owns one `RaftNode`. A client calls the server by gRPC; the
server's handler puts the request into the Raft log with `do_log` and waits; when
Raft has committed the entry, `RaftNode::do_apply` calls the server back to carry
it out and wakes the handler. `RaftNode`s talk to each other by asynchronous
gRPC.

| component (files) | state | operations | interacts by | what is hard | what makes it correct |
|---|---|---|---|---|---|
| Raft elections (`node_rpc_r.cpp`, `node_state.cpp`, `node.h/.cpp`) | `state`, `current_term`, `vote_for`, `leader_name`, `last_seq`, the two due times, per peer `voted_for_me` | `on_timer`, `do_election`, `on_vote_request`, `on_vote_response`, `switch_to`, `become_follower` | messages; the node's mutex | late and lost answers, crash between grant and answer, timers that are not set again | one vote per term, at most one leader per term, somebody always starts an election |
| Raft log replication (`node_rpc_a.cpp`, `node.h/.cpp`) | `logs`, `commit_index`, `last_applied`, per peer `next_index`, `match_index`, `seq` | `do_log`, `do_append_entries`, `on_append_entries_request`, `on_append_entries_response`, `do_apply` | messages, callbacks | requests out of order, conflicting logs, commits of old terms, index arithmetic at both ends of the log | logs match, what is applied is the same everywhere, survives any minority and is in every later leader's log |
| Persistence and restart (`node_persister.cpp`) | the `.persist` file | `Dump`, `Load`, `run`, `stop`, `resume` | called in the handlers | the crash at any point, the paused node that writes nothing | a node never forgets a term or a vote it has spoken of |
| RPC transport (`client_async.cpp`, `server.cpp`) | outstanding calls, `send_enabled`, `start_timepoint` | send, complete, `disable_send`, `enable_send` | gRPC | every order and loss | (an assumption of the others) |
| Membership change (`node_conf.cpp`) | `trans_conf`, the sets `app` and `rem`, voting rights of peers | `update_configuration` and its four phases | through the log | a crash between the phases, two majorities | both majorities agree throughout the change |
| Snapshots (`node_rpc_i.cpp`) | base index, the snapshot entry | `truncate_log`, `do_install_snapshot`, `on_install_snapshot_request/response` | messages, callbacks | indices that change their meaning, a dump torn by a crash | a snapshot stands for exactly the entries it replaces |
| Key-value server (`kv_server.*`, `kv_rpc.*`) | `kv_mut`, `map_` (per log index a mutex and a condition variable), the database | `on_handle_client_request`, the apply callback | mutexes, condition variables, callbacks | the wait that races the notification, an index that is reused, three kinds of mutexes | a client is told SUCCESS once per applied entry, and always something |
| Shard master: requests (`shardmaster_server.cpp`) | `shardmasterServerMu`, `map_`, the shared `flag` and `queryConfig` | `onJoin`, `onLeave`, `onMove`, `onQuery` | as above | as above; shared results read after the unlock | as above |
| Shard master: state machine (`shardmaster_server.cpp`, `shardmaster_config.*`) | `configs`, `cache`, `flag`, `queryConfig` | `onJoinApply`, `onLeaveApply`, `onMoveApply`, `onQueryApply` | called by `do_apply` | two rebalancing loops, one of which restarts itself; more groups than shards; repeated requests | every shard is served, joins take only surplus, a repeated request changes nothing |
| Shard master client (`shardmaster_client.*`) | request number, current server | `Join`, `Leave`, `Move`, `Query` | gRPC | retries at another server; `nrand()` gives all clients one id | each request carried out once |
| Sharded server (`shardkv_server.*`) | `config`, `ownShards`, `waitingShards`, `migratingShards`, `cleaningShards`, `data`, `cache` | `poll`, `pull`, `clean` threads; five apply callbacks; four RPC handlers | the shard master's client, RPCs between groups | steps of three threads between log entries; a shard between two groups | no shard is served by two groups, no data lost on the way |
| Clients of the two stores, database, thread pool, other transports, message formats, utilities | little or none | | | the pool's shutdown flag | |

The full list with the source files is `PROJECT.json` "components".

## 2. The modules

### RaftNode — elections, replication, persistence, transport

The cluster as one state machine. Every handler and timer of `RaftNode` runs under
the node's mutex, so each is one action; `do_apply`, `Dump` and the sending of
RPCs that a handler does are part of its action.

| action | code |
|---|---|
| `OnTimerElection`, `OnTimerElectionFail`, `OnTimerHeartbeat` | the branches of `on_timer`, with `do_election` and `do_append_entries` |
| `DoLog` | `do_log` of a command |
| `OnVoteRequest`; `OnVoteResponseNewer`, `OnVoteResponseCounted` | `on_vote_request`; the two ways through `on_vote_response` |
| `OnAppendEntriesRequest` = `AppendOldTerm`, `AppendOutOfOrder`, `AppendMissing`, `AppendConflict`, `AppendAccept` | the five ways through `on_append_entries_request` |
| `OnAppendEntriesResponseNewer`, `...Failed`, `...Success` | the three ways through `on_append_entries_response` |
| `Crash`, `Restart` | the process dies; `Persister::Load`, constructor and `run` |
| `Pause`, `Resume`, `DisableSend`, `EnableSend` | `stop`, `resume`, `disable_send`, `enable_send` |

`DoApply` is an operator of its own: the entries between `last_applied` and
`commit_index` are given to the server, one after the other.

How the state corresponds:

- A due time is only "armed" or not (`electArmed` = `elect_timeout_due #
  UINT64_MAX`): timers may fire at any moment after they are set.
- `votes[n][p]` is `voted_for_me` of a peer, 0 for false, and otherwise the term of
  the grant behind it. The code keeps a Boolean only; the term is a history that
  lets a property tell a fresh vote from a stale one, and no guard reads it but
  as zero or not.
- An entry is `[term, owner]`. The owner is the leader that logged it: two entries
  of one term by different leaders are different commands.
- Log indices are those of the code (the first is 0, and -1 is before it). With a
  log that has not been compacted `get_base_index()` is 0, or -1 if it is empty.
- `msgs` is a set. A message stays there until it is handled, so it may be late,
  overtaken or (by never being handled) lost. gRPC does not duplicate. `live`
  becomes FALSE when the caller's process is gone. With the constant
  `Timely` a message that was overtaken by a later one of its kind, or whose
  sender has gone to another term, is not delivered any more; some properties
  hold in that network only, and the runs say which.
- Reading `logs` past its end is undefined: `PrevTerm` then yields any
  term (`garbage`).
- `grants`, `elected`, `applied`, `faults` are histories. `faults` bounds the runs.

The build modelled is that of the repository: asynchronous client, `USE_MORE_REMOVE`
and `USE_COMMIT_INDEX`.

### CommandLog — what Raft promises to the servers

The abstract specification of `do_apply`: one log of commands that only grows, and
per server the number of them its callbacks have been given; a server that starts
again is given them again from the first. What `ServerRequests`, `Shardmaster` and
`ShardKv` assume of the log below them is this.

### MCRaft

`RaftNode` for TLC, with further initial states that `Spec` reaches: a
cluster after its first commit (`WarmStart`) and, but for the messages lost on the
way, one after a partition has healed (`DivergedStart`). The runs about the log start
there and so spend their bounds on what follows. `ElectionStart` is the initial
state with one part or another of the bounds taken as spent.

`RaftNode` itself states its mapping to `CommandLog`: `log` is the history `applied` put in the order
of its indices, `given[n]` is `lastApplied[n] + 1`. `GivesOneLog` says that each step
of `RaftNode` is one of `CommandLog` or changes neither.

### Membership — the change of the membership

`node_conf.cpp` on a cluster whose log and elections are those of `RaftNode` without
its network: an RPC, its handler, the answer and its handler are one step, in
which the answer may be lost. What the change adds is kept in full: `trans_conf`
(`conf`), the peers a node knows, their voting rights, the two counts of votes.

| definition | code |
|---|---|
| `UpdateConfiguration`, `UpdateConfigurationJoint`, `OnTimerConfiguration` (which is `update_configuration_new`), `UpdateConfigurationFinish` | the phases on the leader |
| `OnUpdateConfigurationJoint`, `...New`, `...Finish` | the phases on a follower |
| `ReadConfiguration`, `CommitConfiguration` | how `on_append_entries_request` finds the phases in the log and in the commit index |
| `CaughtUp`, `StagingEnds`, `CommitAsLeader` | how `on_append_entries_response` does |
| `EnoughVotes` | `enough_votes` and `enough_votes_trans_conf`, for elections and commits |
| `Restart`, `LoadedPeers` | `Persister::Load` and `apply_conf` |

A node is one record, so that a handler is an operator from record to record and
handlers compose as the calls in the code do. An entry carries its term, its
command (`DATA`, `TRANS`, `TRANS_NEW`) and, if it is `TRANS`, the three sets of the
change. What the code does not do, the model does not: a follower whose log is erased
for a conflict keeps `commit_index`, which may then be past the end of its log (so
`TypeOK` does not compare the two); the joint state of a follower stays `OLD_JOINT` (the code compares where it would assign), and nothing
undoes `conf` when its entry is truncated. `committed` is a history. `votes`,
`next` and `match` are cleared when nobody reads them any more.
`MCMembership` starts from a cluster of three members after its first commit, which
a fourth node may join, and says under which circumstances the run `membership`
looks (see section 3).

### ServerRequests — from a client's call to its answer

One server. A handler thread goes through `check`, `lock`, `log` (or `read`),
`entry`, `unlock`, `enter`, `wait`, `respond`, `done`, one action per lock, unlock
or blocking call; `ApplyCallback` and `ApplyNotify` are the two halves of
`do_apply` that other threads may run between. Raft is seen from this node: it
leads or does not, its log grows or is replaced where nothing is committed, its
commit index advances. `map_[index]` is the pair `mapMu[index]`, and the waiters
of an index. `NotLeader` is the negative code of `do_log`, which the code uses as
an index. The module covers `KvServer` and the four handlers of
`ShardmasterServer`, which share the pattern; `Reading` requests are the GETs of the
former, `Refused` ones set the `flag` of the latter to false.

### Shardmaster — the state machine

One action per apply callback. The walk of `onJoinApply` over the shards is the
recursive function `JoinWalk`, whose end `JoinShards` reads; the `goto loop` of
`onLeaveApply` is the one in `LeaveWalk`, whose steps carry the counters `i`, `j` and
the counts, which the code keeps when it starts again. `LeaveSteps` is the number of
steps that it walks: `LeaveEnds` proves that the loop is over by then, so nothing is cut
off. An `unordered_map` is walked in any order
(`Orders`). Dereferencing `newGids[0]` of an empty vector is `crashed`.
`MCShardmaster` adds the symmetry of the groups.

### ConfigLog — what the shard master promises to the groups

Configurations are numbered in the order in which they are made, the first assigns
nothing, none ever changes. `Shardmaster` implements it (`OnlyExtended`, under a
mapping in which a group that is not there is nobody), and `ShardKv` is built over
it: its `master` is an instance of `ConfigLog`, so what is shown of the groups is
shown for every shard master that only keeps this promise, Moves included.

### ShardKv — the sharded server

The groups, the shard master and a client. A group is the `ShardkvServer` of its
leader over a queue of the entries that Raft has accepted and not yet applied, which
`CommandLog` allows; `NewLeader` loses the end of the queue and all threads.

| action | code |
|---|---|
| `Poll` | `poll`: read the number, ask the shard master, log what it says |
| `Pull`; `OnShardMigration`, `PullFails`; `DoPull` | `pull`; the call of `doPull` and its handler at the other group, or its loss; the rest of `doPull` |
| `OnShardCleanup`, `DoClean` | `doClean` and the handler at the other group |
| `OnPutAppend` (in `Ask`, `AskAgain`) | `onPutAppend`, called for a new request or once more for the last |
| `OnPutAppendApply`, `OnNewConfigApply` (with `ApplyNewConf`), `OnShardMigrationReplyApply`, `OnShardCleanupApply` | the callbacks of the same names |
| `OnApply` | an entry whose command `do_apply` has no branch for |
| `NewConfiguration` | the shard master makes a configuration |

How the state corresponds:

- `held` says that a handler has returned without giving back `shardkvServerMu`; the
  group then does nothing until its leader changes. Otherwise the mutex is held
  for one step.
- The entry that a pull logs is put in the log under the name `SHARDMIGRATION`, of
  which `do_apply` knows nothing (it knows `SHARDMIGRATIONREPLY`), and the `clean` thread
  returns at once. So, as written (`Wired = FALSE`), no shard ever arrives where it
  was given. With `Wired = TRUE` the name is the one that has a branch and the
  thread runs: what the callbacks, which are complete, then do. Nothing else depends
  on `Wired`, and each run and theorem says which of the two it is about.
- A value is the sequence of the requests that made it, so that a lost, repeated or
  misplaced request shows in it.
- `poll` reads `config.num` under the mutex and logs the entry after it has given it up;
  the entry of the poll before may be applied in between. So the number it
  asks for is the next one or the one now in force. It cannot be an older one: a poll
  waits for its entry, or for the timeout.
- `Query` answers for a number that does not exist yet with the latest configuration
  under that number, as `onQueryApply` does, so two groups may come to know a number
  differently.
- A failed call leaves its answer as it was made, and the flag of an empty answer is
  SUCCESS; `EmptyAnswer` is installed or cleaned up for like a real one.
- `Walks` is the loop that erases from an `unordered_map` what it walks over. What
  such a loop does is undefined; the model has it end anywhere after its first step.
- `executed`, `latest`, `torn`, `hasty` are histories.

### The proofs

`RaftElectionProofs`, `RaftLogProofs` and `RaftCommitProofs` (about `RaftNode`, each upon the
one before),
`MembershipProofs`, `ServerProofs` (about `ServerRequests`), `ShardmasterProofs`,
`ShardKvProofs` and `ShardKvKeepsProofs`: section 5.

## 3. The runs

Runs that find no error:

| run | bounds | properties |
|---|---|---|
| `election` | 3 nodes; either 3 elections and 1 pause, or 2 elections, 1 entry, 1 call of `do_append_entries` and 1 peer cut off; 1 crash; any delay | `TypeOK`, `LeaderNameWon`, `VotePersisted`, `OneVotePerTerm`, `PersistBeforeSend`, `FreshElectionSafety` |
| `replication` | 3 nodes; from `WarmStart` 2 more elections, 2 sends, 2 entries; from `DivergedStart` 1 entry and either 1 election and 2 sends or 3 sends; timely | `ElectionSafety`, `StateMachineSafety`, `LeaderCompleteness`, `AppliedOnMajority`, `LogMatching`, `MatchIndexTrue`, `CommitMovesWithLog`, `SameLeaderErasesNothing`, `GivesOneLog` |
| `membership` | 3 members, 1 joining node, 1 change (any that leaves a member), 2 terms, 2 commands, 1 restart, scope below | `TypeOK`, `CountedHaveRights`, `Agree`, `OneLeaderPerTerm`, `NewestLeaderComplete`, `JointOnBothMajorities`, `NewOnNewMajority` |
| `requests` | 3 requests (a write, a refused write, a read), 3 changes of leadership, 1 foreign entry, 1 spurious wakeup | `TypeOK`, `OneSuccessPerEntry`, `EveryRequestAnswered` |
| `shards` | 4 groups, 3 shards, a client with 4 requests and their copies | `TypeOK`, `ShardsServed`, `JoinTakesSurplus`, `OnlyExtended` |
| `shardkv` | as written; 2 groups, 1 shard, 2 keys, configurations 0 to 2, 2 entries waiting, 2 requests or faults | `HistoryInOrder`, `OneOwner`, `LatestKept` |
| `shardkv_wired` | wired; 2 groups, 1 shard, 1 key, configurations 0 to 3, 1 entry waiting, 2 requests or faults | `TypeOK`, `OwnersAssigned`, `OneOwner`, `ServedUpToDate`, `AtMostOnce`, `LatestKept` |

What they show, and why the bounds are enough for it:

- Three nodes is the smallest cluster with a majority that is not everybody. Three
  elections are what a stale vote needs (two by one candidate, one by its rival):
  `FreshElectionSafety` is about just that case, and the run `two_leaders` has the
  same bounds and reaches it. The crash may fall between any grant and its answer.
- The other half of `election` adds entries, heartbeats and cuts to a crash. Two
  elections make a new leader that the old one has not heard of, which `LeaderNameWon`
  is about.
- `replication` is about logs. One entry is enough to be committed or lost, a
  second to conflict with another, a third to be sent behind a conflict. It starts
  from `DivergedStart` too since TLC would need three elections and five sends to
  come to that state by itself; three sends are what the repair of a log takes
  (refused, repaired, committed). `TimelyView` leaves out messages that can never be
  delivered and the votes already given, which no property of the run reads. Nobody
  crashes in it, so `GivesOneLog` does not use `StartAgain`; a crash with a restart
  ends with the behaviour of section 4 that `AppliedOnMajority` would show too.
- `membership`: removing two members of three makes a majority of the old (the two)
  and of the new (the one) that have nobody in common, and removing the leader
  makes it commit without itself: the cases joint consensus is for. Removals are
  checked with the leader deposed at any step and a second term; joins, and a
  restart of any node, under one leader. The scope (`OneTrouble`) is what the code
  bears: a join with an election is `membership_join`; a restart with an
  election is what section 4 says of `prev_log_index` -1; and with a third term a leader that is
  elected again takes another entry for its abandoned change (section 4). Two
  commands are one before the change and one that competes with it.
- `requests`: two writes that get the same index need three changes of
  leadership (lead, be deposed and lose the entry, lead again), which is the bound.
- `shards`: four requests reach a Leave after two Joins and a Move; four groups over three shards include "more groups than shards", a
  remainder of the division, and none. Request numbers are per client in `cache`,
  so clients do not interact but through the order of their requests, and one
  client that may send any request next stands for several.
- `shardkv`: two configurations give a shard to a group and take it away again. Two entries
  wait in one queue or in two, so a request may be overtaken by a configuration and a
  configuration be logged twice; two keys let a walk end between them, and the two
  events are a request and its loss by a change of leader, or two requests.
- `shardkv_wired`: the third configuration gives the shard back, which is when a late
  answer, a second copy of an entry, or a shard that was not cleaned up would do its
  harm. Once wired the properties hold unless the take-over was upset (`Irregular`):
  two groups know a configuration differently, a configuration came while a shard was
  awaited, or a shard was given up in part. All three do happen in the code (section
  4); the conclusion is drawn from the rest, that is, from lost and late answers,
  changes of leader, entries logged twice and requests sent again. With two shards
  and `MaxConfig = 2` (1.5 million states) TLC finds the same; the run is left out as it adds
  no case but two shards in one configuration.

**Fairness.** Only `ServerRequests` states any. `WF` of each handler says that threads
are scheduled, a free mutex is eventually taken, and `wait_for` ends after its 60
seconds; `WF(DoApply)` says that the applying thread finishes what it has started.
Nothing is assumed of Raft (it may never commit), nor that anybody is notified; an
answer follows from the timeout alone if need be. `WF` suffices for the locks since
each handler passes each lock once, so nobody can overtake for ever. For
`RaftNode` no liveness is stated: timers may always race each other, which only a
probabilistic argument excludes; `SomebodyActs` is the safety part of it, and the code
does not have it (run `idle`). For `ShardKv` none is stated either: as written no
take-over ends, and wired a mutex that is not given back ends everything.

**Deadlock** is not checked: each run's elections, sends and requests are bounded,
so a behaviour ends when they are used up (and in `Shardmaster` when the process
dies, in `ShardKv` when the mutexes are gone). That no handler waits for ever is `EveryRequestAnswered`.

Every property of these runs has a mutant of the code it refutes: the definitions
called `...Forgotten`, `...Behind`, `...ByTerm` and the like, each just before the
definition it stands for.

## 4. Disagreements found

Each has a run that TLC ends with a counterexample, and a finding in
`PROJECT.json` that quotes the comment or test it disagrees with.

- `two_leaders`: `on_vote_response` does not compare the term of an answer with the
  election under way; a late grant elects a second leader of the term.
- `idle`: a candidate that learns of a newer term from an answer becomes a follower
  without a timer. After a crash a whole majority may be in that state.
- `first_entry`: the term of the first entry of a log is never compared, so two
  leaders' different first entries are both applied.
- `membership_join`: a node counts itself among the old members even if it is to
  join, so one vote of three old members elects it.
- `requests_reused`: a handler waits on an index, not on an entry; another leader's
  entry at that index wakes it with SUCCESS.

The models also show behaviour that has no run, since no document or test speaks
of it or since it is a lesser one of its kind:

- An RPC with sequence number 1 is accepted whenever it comes, so a late first
  request of a leader erases entries that later ones brought
  (`SameLeaderErasesNothing` with `Timely = FALSE`). A late rejection sets
  `next_index` past the leader's own log, whose end is then read.
- A leader that restarted has `next_index` 0 for its peers and sends `prev_log_index`
  -1; a follower whose log is not empty takes none of the entries and answers success
  (`node_rpc_a.cpp:136`, `:176`), and the leader counts it as having them all. With
  `MaxCrash = 1` the run `replication` finds an entry applied that no majority has
  (`AppliedOnMajority`).
- The `commit_index` of a follower may move back while it runs. A refused request may cut its
  log off below it, and the next one that has nothing to compare takes the end of
  what is left for committed, since `on_append_entries_request` takes the smaller of `leader_commit` and its
  last index (`node_rpc_a.cpp:241`). `last_applied` stays where it was, so nothing is given
  to the server again. That is why `CommitMovesWithLog` excepts a log that is shorter than
  `commit_index`; logs of the length this takes are beyond the bounds of `replication`, whose logs
  show the rest of the property.
- A change that is abandoned is not forgotten. When a leader in `OLD_JOINT` is deposed
  and its entry truncated, it keeps `trans_conf`; elected again, it takes the commit of
  whatever entry has that index for the commit of the joint configuration, and goes
  on to decide by C_new alone (`JointOnBothMajorities` with `MaxTerm = 3`).
- A follower that gets both entries of a change in one request stays in `OLD_JOINT`; a
  leader deposed in `STAGING` ignores the joint entry of its successor; a restart in
  `STAGING` forgets the new peers and refuses every later change. A leader does not
  apply what it commits during a change until the next commit after it.
- In `STAGING` a joining node that has caught up has the right to vote at once, and
  `enough_votes` counts it (`node.h:291`, `node_rpc_a.cpp:338`), though the joint entry is not logged
  before the last one has caught up. With three members and three joining nodes the
  leader and two of those commit an entry, and the other two members can elect
  a leader that lacks it. It takes two joining nodes and a second term, and the run
  `membership` has one.

- A Join of several groups at once may leave them unequal, one even without a
  shard. A Leave (also of a group that is not there) may move shards among the
  groups that stay and take from one below its share, since counts survive `goto
  loop`. A Join of groups that are all there already ends the process when a shard is
  unassigned or in surplus, and again whenever the log is replayed.
  With more groups than shards, a Leave may keep shards unassigned. A Move is not
  checked at all.
- A wakeup between `do_log` and `wait_for` is lost, and the client waits out the
  timeout; a spurious one is answered like a commit. The shared `flag` is read after
  the unlock and may be another request's. A GET reads a possibly deposed node.
- The sharded server does not compile as it stands (`tobe_paused` is not declared,
  `return;` in functions that return an `int`, `operator[]` on a map that is `const`). Besides the
  two missing connections (section 2), and with them made:
  - `poll` does not ask whether the shards of the present configuration have arrived.
    The next one overwrites `waitingShards` with its own number; a group that was
    to get a shard, and still is, then asks itself for it, and installs an empty one.
  - A poll that runs ahead of the shard master files the latest configuration under a
    number that will be another's (`Query`), and two groups part for good.
  - What is refused, for the shard is not here, is remembered as a request that was
    carried out; sent again it is answered SUCCESS once the flag says so.
  - A call that failed reads as SUCCESS: a take-over installs nothing, a clean-up
    counts as done.
  - `onShardMigration` and `onShardCleanup` return on some ways with the mutex (lines
    427 and 378 to 406), after which this server answers nobody.
  - `cleanThreads` is filled by index while it is empty (line 242), and one `getValue`
    queue holds the answers of all Gets.
- `ShardkvClient::PutAppend` calls the RPC of Get; a Query that failed leaves no address
  to choose from, and the choice is `% 0`; in `ShardmasterClient` a Query that fails has
  no `return`, an unknown `leader_name` is used as it is, and the next request's number is
  read after the mutex is given back.

## 5. The proofs

Checked by TLAPS for every value of the constants: any finite set of nodes, requests
or groups, any bounds, and nothing of them but the named `ASSUME`s of the modules.

| module | theorem | statement |
|---|---|---|
| `RaftElectionProofs` | `TypeCorrect` | `Spec => []TypeOK` (of `RaftNode`) |
| | `ElectionInvariant` | `Spec => []ElectionInv` |
| | `VotesPersist` | `Spec => []VotePersisted` |
| | `VotesOnce` | `Spec => []OneVotePerTerm` |
| | `TermsPersist` | `Spec => []PersistBeforeSend` |
| | `FreshElectionsSafe` | `Spec => []FreshElectionSafety` |
| | `TimelyElectionsSafe` | in a timely network in which no peer is cut off (`MaxCut = 0`), `Spec => []ElectionSafety` |
| | `LeaderNamesWon` | `Spec => []LeaderNameWon` |
| | `RequestsWon` | who leads, and who is the sender of an AppendEntries under way, has won that term |
| `RaftLogProofs` | `LogsMatch` | `Spec /\ []ElectionSafety /\ []FirstCompared => []LogMatching` |
| | `TimelyLogsMatch` | in a timely network without cuts, `Spec /\ []FirstCompared => []LogMatching` |
| | `LeadersEraseNothing` | timely, `Spec /\ []ElectionSafety /\ []FirstCompared => SameLeaderErasesNothing` |
| | `TimelyLeadersEraseNothing` | timely and without cuts, `Spec /\ []FirstCompared => SameLeaderErasesNothing` |
| `RaftCommitProofs` | `StateMachinesAgree` | timely and without cuts, `Spec /\ []StartsCompared => []StateMachineSafety` |
| | `LeadersComplete` | on the same terms, `[]LeaderCompleteness` |
| | `AppliedKept` | on the same terms, `[]AppliedOnMajority` |
| | `MatchesHeld` | on the same terms, `[]MatchIndexTrue` |
| | `CommitsMoveOn` | on the same terms, `CommitMovesWithLog` |
| | `Implements` | on the same terms, `Commands!Init /\ GivesOneLog`: `RaftNode` implements `CommandLog` |
| `MembershipProofs` | `TypeCorrect` | `Spec => []TypeOK` (of `Membership`) |
| | `RightsWhenCounted` | `Spec => []CountedHaveRights` |
| | `FirstTermOneLeader` | `Spec => [](FirstTerm => OneLeaderPerTerm)`, where `FirstTerm` says that nobody is past term 1 |
| | `FirstTermAgrees` | `Spec => [](FirstTerm => Agree)` |
| | `FirstTermComplete` | `Spec => [](FirstTerm => NewestLeaderComplete)` |
| | `FirstTermJoint` | `Spec => [](FirstTerm => JointOnBothMajorities)` |
| | `FirstTermNew` | `Spec => [](FirstTerm => NewOnNewMajority)` |
| `ServerProofs` | `WellTyped` | `Spec => []TypeOK` (of `ServerRequests`) |
| | `OneSuccess` | `Spec => []OneSuccessPerEntry` |
| `ShardmasterProofs` | `TypeCorrect` | `Spec => []TypeOK` (of `Shardmaster`) |
| | `LeaveEnds` | the loop of a Leave ends within `LeaveSteps` steps, and what it leaves behind |
| | `Served` | `Spec => ShardsServed` |
| | `OnlySurplusTaken` | `Spec => JoinTakesSurplus` |
| | `Implements` | `Spec => OnlyExtended`, that is, `Shardmaster` implements `ConfigLog` |
| `ShardKvProofs` | `Typed` | `Spec => []TypeOK` (of `ShardKv`), wired or not |
| | `Ordered` | `Spec => []HistoryInOrder`, wired or not |
| | `OwnsWhatIsAssigned` | `Spec => []OwnersAssigned`, wired or not |
| | `SingleOwner` | as written (`~Wired`), `Spec => []OneOwner` |
| `ShardKvKeepsProofs` | `LastIsKept` | as written, `Spec => []LatestKept` |
| | `OwnersUpToDate` | as written, `Spec => []ServedUpToDate` |
| | `OnceOnly` | as written, `Spec => []AtMostOnce` |
| | `OneOwnerAlways` | wired or not, `Spec => []OneOwner` |
| | `ServedAlwaysUpToDate` | wired or not, `Spec => []ServedUpToDate` |
| | `OnceAlways` | wired or not, `Spec => []AtMostOnce` |
| | `LatestAlwaysKept` | wired or not, `Spec => []LatestKept` |

**Type correctness** has one lemma per action; the lemmas at the start of
`RaftElectionProofs` say what the operators on logs and messages return.

**Elections.** None of the four properties of votes is inductive: that a voter's disk
has the vote says nothing about what it will grant next from memory, or what it
reloads after a crash. `ElectionInv` adds

- `VoteSelf`: who runs for leader, or leads, has voted for itself, on disk too;
- `DiskBehind`: the disk is never ahead of the memory;
- `VotesKept`: neither the memory nor the disk of a voter lets it vote in a term for
  another than it did (`Remembers`);
- `AnswersGranted`, `CountsGranted`: a vote under way, and a vote counted, was given;
- `WinnersFaithful`, `WinnersCounted`: who won a term has voted for itself only and
  counted a majority;
- `PeersOnly`: nobody asks itself.

Most handlers touch the ballot of one node in one of few ways. `BallotStep(n)`
states them, `BallotStepKeeps` shows that they preserve the invariant, and a lemma
per handler shows that it is such a step. Starting an election, counting a vote,
crashing and cutting a peer off have lemmas of their own. The delicate step is a
candidate that hears of the winner of its own term: it forgets that it voted for
itself, and may then vote again in that term. It has not won it and no peer has its
vote, so nothing is broken; `WinnersFaithful` is what excludes the same of a
leader.

**At most one leader.** Two sets of more than half of the nodes meet
(`VotersMajority`); the node in both gave two votes in one term, or one to a peer and
one to itself, which `ElectionInv` excludes, provided that all votes counted are
of the term that was won. Hence `FreshElectionsSafe`. `TimelyElectionsSafe`
adds `CountsFresh`: if late answers are lost and each election clears
`voted_for_me` of every peer, only fresh votes are ever counted. With `two_leaders`
this locates what is wrong: nothing but votes that outlive their election.

**Who leads, and whom it is said.** `LeaderNameWon` holds of the names only because whoever
claims to lead has won. `NameInv` adds that a leader has won its term (`LeadersWon`),
that a candidate redirects to nobody (`CandidatesNameNobody`: else becoming a leader,
or a new term, would have to reset the name), and that an AppendEntries request
under way was sent by a winner of its term (`RequestsByWinners`), since that is where
a follower takes the name from. Since a term may have two winners (`two_leaders`), "the
leader" is a relation, `Won`, and not a function of the term. `NameStep(n)` plays
the part of `BallotStep`: one lemma preserves the invariant, one per handler shows that
it is such a step.

**Log matching.** The code does not compare the term of the first entry of a log
(`node_rpc_a.cpp:136`), and the run `first_entry` shows what that does. `FirstCompared`
says of the requests that can still be delivered that the comparison, had it been made, would have
succeeded; under it, and with one leader per term, logs match, so the skipped
comparison is the only gap. It is a hypothesis about the behaviour and not about a
constant: what a behaviour without it does is the business of `first_entry`. A request under way is a slice of its sender's log, so
it is treated as one: `Views` are the logs and the requests, and two of them `Agree` if,
where both show an entry of one term, they show the same terms before it. `LogInv` is that
any two views agree (`Agreeing`), that an entry was logged by a winner of its term
(`EntriesWon`), that a leader has whatever stands anywhere of its own term (`LeaderHolds`: so
a new entry is past all others of its term), and that the disk has the same log
(`DiskLogs`, for a restart). The delicate step is a follower that takes a request behind
`prev`: what it keeps and what it takes agree, since both agree with the sender at `prev`.

**What a leader's own requests erase.** `OrderInv` is about the requests of a term that
is its sender's current one. The sender still leads (`SendersLead`), and for each there
is an end `b` (`RequestsHold`): the request shows the sender's log up to `b`, the follower has
no entry of that term after `b`, and nothing sent before it brings one (`Until`). So
whatever a follower cuts off for a conflict is of another term than the request's.
Without `Timely` this fails (section 4).

**What is committed stays.** `RaftCommitProofs` needs one hypothesis about the behaviour
again. `StartsCompared` says that where `on_append_entries_request` compares nothing, the
request fits the log it comes to: at a `prev` of 0 the terms are equal
(`node_rpc_a.cpp:136`), and with a `prev` of -1, which is taken as it is (line 176), that
log is the beginning of what the request brings. The second is more than equal
terms: the follower answers with its own last index, so an entry that it has beyond
the request would be counted for whatever the leader logs there next. Both hold in
every state that `replication` reaches; `first_entry`, and a restart (section 4), show what
happens where they do not.

`CommitInv` is the inductive invariant, upon everything proved before (`Known`). It says of
logs and messages that the terms of a log only rise (`Sorted`), that who was given a
vote is in that term and its calls show its log (`GrantsAsked`, `VotesAsked`), that a leader's
requests show its log to the end of what it took over (`Exact`), that answers
go to winners (`AnswersWon`), and that no term exceeds the number of
elections (`TermsCounted`). What a leader takes its peer to share with it is in
`next_index`, `match_index`, the `prev` of a request and the `last` of an answer; of all four
(`Claimed`), `ClaimsTrue` says that an index above `commit_index` is one up to which the
peer's log is the leader's. Hence `MatchesHeld`.

What is committed is `Fixed`: every log at least as recent holds it (`LogsHave`), every
leader of its term or a later one holds it (`LeadersHave`), and in each term that is not
won yet a majority has `Shut` the election to those who lack it, since each of the majority
holds it, or is past that term, and has voted for nobody in it who lacks it. The last part is
what a majority of acknowledgements gives, and what a later winner has to pass; it is kept for
each term apart, since what a node promises by holding an entry lapses once it has voted
in a later term. An entry of the leader's own term becomes `Fixed` one answer at a time, so
`OpenSpread` says the same of the set of those who have acknowledged it, as
long as it may still become a majority. `CommitFixed` and `AppliedFixed` are then about
`commit_index` and `applied`.

What a step does to all of this is a `CommitStep`, and `CommitNext` has one lemma per handler
that it is one. Logs move in four ways only: they stay, grow as a leader's, take after a
leader's, or are cut off (`LogMove`). The delicate one is the last. A refusal takes the
follower's log back to the start of a term, even below an index that the leader has
committed, so a committed entry can leave one of the disks that made its
majority. It does so only if that log differs from the leader's at a committed index; so
the follower did not hold the last entry that is `Fixed`, and for the
earlier ones the holders of that entry are the majority (`LostChosen`). This is why
`CommitFixed` speaks of an entry at or above `commit_index`. Finally, in the first term
that nobody has run in, a majority can only shut the election by holding the
entry, which is `AppliedOnMajority`; two majorities meet, which is `StateMachineSafety`.

**What Raft promises.** Of `commit_index` and `applied` a step is one of three (`CommitCases`): it
leaves them alone, the process dies, or `do_apply` runs with a commit index within the log
(`CommitsTo`). A request never brings a `leader_commit` beyond the entries it shows (a
part of `Exact`), and a leader holds what it has committed (`LeaderReaches`), so a follower's index
can fall only if its log has fallen below it: `CommitMovesWithLog`. For the refinement
`GivenInv` says that what has been given are the entries of the indices 0 to some k, and
that nobody is ahead of k. With `StateMachineSafety` those entries are one log
(`GivenLog`, a `CHOOSE` for each index that is then unique: `GivenFacts`). A `do_apply` extends
it by what the node is first to apply, or gives the node what others have
been given (`CommitGives`), which is `Commands!Give`; a crash is `Commands!StartAgain`.

**Membership: types and rights.** A node is one record that handlers pass on to
each other, so the lemmas follow the handlers: each returns a `GoodNode`. To the types
this adds that nobody is its own peer, that votes and rights are of peers, and that
outside of `STAGING` every peer has the right to vote (`RightsGiven`), which every handler that
leaves `STAGING` must restore. `CountedHaveRights` is a consequence.

**Membership: the first term.** That a change keeps the cluster in one piece is proved for
any number of nodes, changes, restarts and lost answers, as long as nobody has begun a second
term. With later terms it is false of the code, not only unproved: see `membership_join`, the
abandoned change and the early voting rights of `STAGING` in section 4; the cases in
between (later terms in which nodes only leave) stay with the run `membership`.

The inductive invariant `OneLeader` says that nobody leads yet (`NoLeaderYet`), or that there are
a leader `x`, the set `V` of those who elected it, and the last index `C` that anybody has
committed (`Under`). `V` and `x` are a majority of the first members (`Electors`), so a
candidate would need one of them, and each has given its vote (`Subject`): this is why a change
of the membership does not bring a second leader, though it changes whom a candidate asks
and counts. Every node's log and commit index are behind the leader's, and its `conf` is
what the log says up to there; and each index up to `C` is on the majorities its entry calls for (`OnMajorities`): `TRANS` on
majorities of old and new, `TRANS_NEW` on a majority of the new, behind its joint entry
(`JointBefore`). The leader has at most one entry of a change that is not committed, that which `conf` points to
(`Conducts`): `on_append_entries_response` looks only there to learn which phase a commit ends,
so with a second one it would leave `C_old` on the commit of the wrong entry. The delicate
steps are the leader's commit, where what `enough_votes` counted must be majorities by the rules of the
entry's own phase (`CommitUnder`), and the follower that reads the phases from what it is
sent, once from the log and once from the commit index (`FollowerUnder`). A restart of the leader ends the
part about leading and leaves the rest, since nobody can win the term again.

**One success per entry.** The property counts answers over the life of the
server, and an index is given out again whenever a log is truncated. `ServerInv`
adds to the types that the log grows by handlers that have passed `do_log` and by
foreign entries only (`LogBound`, which bounds the indices handlers wait on), that
`do_apply` runs exactly while something is committed and not applied
(`AppliesCommitted`), that an answer is the last thing a handler does
(`AnsweredAtEnd`), and that only reads read (`ReadersRead`). The delicate step is
the notification: it wakes one waiter of an index for which nobody was told
SUCCESS before, since until then the index was above `last_applied`; only spurious
wakeups, which the property counts, are outside of this.

**The shard master.** What is to be shown of a step is what two loops do to the shards, for
any number of them. A set of numbers has a least element (`LeastNumber`, from the
library's theorem that finite sets are well ordered by inclusion), so whatever holds
at the start of a walk and is kept by its steps holds all along it (`Walked`), and
the walk itself exists (`Iterated`, which `JoinWalkSteps` and `LeaveWalkSteps` need to open
its definition). The invariant of Join (`Walking`) is that the walk has counted what
each old group keeps, and that a group from which a shard was taken had its share
counted by then. The invariant of Leave (`Leaving`) bounds the steps: each time the
loop starts again one shard less is `Lacking` to the groups that stay, as the counts
are never reset, and in between it passes each shard once. Without this the `goto`
might go on for ever, under `monitor_mut`. `TypeInv` says that every configuration but the
first was made by a request of its own. `NextCarries` then describes any step: it makes no
configuration, or one that `Serves` and `TakesSurplus`.

**The sharded server.** `TypeInv` is `TypeOK` with `HistoryInOrder` and what is `Known` of
entries and threads under way: a configuration that waits to be applied has at most the
next number, and what is pulled or cleaned up one that the group has left. `HistoryInOrder` needs this of the
queue, since a configuration may be logged twice, and `TypeOK` needs `HistoryInOrder`,
since `historyConfigs` is read by number. `OwnersInv` adds that what is awaited is
assigned and not owned. `FirstInv` is for the code as written: every shard that
anybody owns was assigned to it by configuration 1, and an entry with the
number 1 that would give a group shards is that configuration and not another
under its number, since a poll that asks for it too early gets the empty
configuration 0. Hence `SingleOwner`. `LatestKept` is not inductive, for it does
not say where the value is: `KeepsInv` says that it is with the owner of the
shard, or else among what its first owner gave up, who then does not own it
any more (`Held`, `Copied`, `Away`), so nobody carries on without it.
For `OwnersUpToDate` and `OnceOnly` it matters that nothing is carried out before the
owner of a shard has `Begun` with configuration 1, and that the owner remembers the last
request if it was carried out (`OwnerIsCurrent`, `NothingBefore`, `LastRemembered`).

Wired, shards go from group to group, and `FirstInv` is of no use. The first three
properties are about behaviours in which nothing upset the take-over (`Regular`, which is
`~Irregular`), and there `HandInv` follows a shard from hand to hand. A group is
`There` with a shard under configuration n once the shard has come to it; every earlier
group has then left the configuration in which the shard was its own (`Passed`); a shard
that one group gave up and the next has not got is in `Transit`. Since nobody serves a
shard in transit (`NoTransit`), the copy in `migratingShards`, an answer in a pull's
thread and an answer in an entry that waits to be applied hold the latest of its keys,
and the last request if it was carried out (`CopiesCurrent`, `AnswersGood`); an owner
has them too (`OwnersCurrent`). A pull or a clean-up that is late or sent again is harmless because its shard
is not in transit any more. A step leads to a regular state from regular ones only
(`RegularBefore`), so the invariant is `Regular => Hands`, and each of its parts
can use the others.

`LatestKept` is promised when the groups disagree on a configuration or take
one too early as well, where two groups may own a shard and `Hands` says nothing. `HoldInv`
therefore does not say who owns what. It says that for each key somebody
holds the latest value: as his data, or in a copy that is `Untaken`, which
means that no clean-up of it is under way or due, and that every answer under way that came from it
carries all of it. Whoever applies such an answer holds the value himself, and only then
may the copy be cleaned up. That needs `Transfers` (what is under way was given up
before it was asked for, so that a new copy is untaken: `WholeUntaken`),
`CopiesWhole` (one copy per shard and configuration, with one value per key) and `OwnersHave` (a group
has data of its shards only, so installing an answer for a shard it does not own overwrites nothing).
`HoldInv` was checked by TLC under `shardkv_wired`'s constants before it was proved.

**Only model-checked**: of `Membership`, the five properties above in a second
term, which hold in the scope of the run only (section 3).
`EveryRequestAnswered` is a liveness property under fairness and stays with TLC, as would anything with `ENABLED`; no
module declares a RECURSIVE operator. `SomebodyActs` and the other properties of section 4's runs do not
hold.

## 6. What is left out

- Snapshots. As written none is ever made: `do_install_snapshot` takes the node's mutex
  and calls itself when it is called without a guard, and when it is called with
  one, from the apply callback as in `test/test.cpp:769`, it refuses
  (`node_rpc_i.cpp:28`), since what is being applied is below the last index of the log.
  A model of `truncate_log` and of the InstallSnapshot RPC would have no state to
  start from. Logs are therefore not compacted, and the branches that call
  `node_rpc_i.cpp` are not taken.
- `RaftNode` has a fixed membership; `Membership`, where it changes, has no
  late messages, no pause and no applied state.
- In `Membership`: the election of a node that has no peer left (it wins by its
  timer), and the shutdown of a removed peer's channel.
- A dump torn by a crash: `Dump` writes the record in one step, though opening the
  file truncates it first.
- `receive_enabled`, the life of channels and completion queues, the synchronous and
  the streaming clients (other builds of the transport, with fewer orders of answers).
- The data race on the tree of `map_` between `do_apply` and a handler: `find` and
  `operator[]` are atomic in the model.
- In `ShardKv`: the flags and the wait for an entry to be applied, which are those of
  `ServerRequests`; what servers that do not lead do in their threads (they return);
  the shutdown. A new leader has applied what the old one had. Of undefined behaviour the
  outcomes in which the process goes on are modelled and a crash is not.
- The clients but for what their retries do to a log: `ShardKv` and `Shardmaster` have
  requests that are sent, or logged, again.
- The thread pool, which the build of `settings.h` (`USE_GRPC_ASYNC`) does not use. Its
  shutdown clears `close_flag` without the mutex, so a worker between its test and
  its wait misses the notification.
- Keys, values, addresses of servers; logging, strings, random numbers, the clock;
  tests (read for what they expect).

## 7. Plan

Done: `RaftNode` with its proofs of types, elections, leaders, matching logs and what is
committed, and of its mapping to `CommandLog`; `Membership` with its proofs of types, rights and the first term; `ServerRequests` with its proofs; `Shardmaster` with its
mapping to `ConfigLog` and its proofs; `ShardKv` with its proofs. What remains, in this order:

1. **Clients**: the choice of a server by `ShardmasterClient`, and the `clientId` that
   `nrand()` gives all clients alike, composed with `Shardmaster` under a specification
   in which each request is carried out at most once.
2. **Membership change**, further: that a change ends under a lasting leader
   (liveness, with an explicit account of when a request still changes something,
   since TLC is slow on `ENABLED` of a step as long as this), and the proofs in later
   terms for changes in which nodes only leave.
3. **The torn dump**: `Dump` in two steps.
4. **Snapshots**, if `do_install_snapshot` comes to be callable.
