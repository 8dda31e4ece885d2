------------------------------ MODULE MCShardKv ------------------------------
(* ShardKv for TLC.                                                         *)
EXTENDS ShardKv, TLC

Symmetry == Permutations(Gid) \union Permutations(Shard) \union Permutations(Name)
=============================================================================
