---------------------------- MODULE MC_ShardPull ----------------------------
(* ShardPull for TLC: the shard and another shard's id as model values.    *)
EXTENDS ShardPull, TLC

CONSTANTS sid, oid
=============================================================================
