---------------------------- MODULE MCShardmaster ----------------------------
(* Shardmaster for TLC: the walks over unordered_map come in every order, so *)
(* no group is told from another by its number.                             *)
EXTENDS Shardmaster, TLC

GidSymmetry == Permutations(Gid)
=============================================================================
