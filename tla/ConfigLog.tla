------------------------------ MODULE ConfigLog ------------------------------
(***************************************************************************)
(* What the shard master promises to those that follow its configurations:  *)
(* they are numbered in the order in which they are made, the first assigns *)
(* no shard, and none ever changes.  Shardmaster implements it; the groups   *)
(* of ShardKv are told nothing else about the shard master.                 *)
(***************************************************************************)
EXTENDS Integers, Sequences

CONSTANTS
  Shards,  \* the shards
  Owners,  \* whom a shard may be assigned to: a group, or nobody
  NoOwner  \* nobody

VARIABLE configs  \* configs[n + 1] is the assignment of configuration n

Init == configs = <<[s \in Shards |-> NoOwner]>>

Assignment == [Shards -> Owners]
Extend(assigned) == configs' = Append(configs, assigned)

Latest == configs[Len(configs)]
Next == Latest' \in Assignment /\ Extend(Latest')

Spec == Init /\ [][Next]_configs
=============================================================================
