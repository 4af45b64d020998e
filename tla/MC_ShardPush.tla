----------------------------- MODULE MC_ShardPush -----------------------------
(* ShardPush for TLC: a shard id, another id, a pipe one entry deep. *)
EXTENDS ShardPush, TLC

CONSTANTS sid, oid

====
