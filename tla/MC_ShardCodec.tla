---------------------------- MODULE MC_ShardCodec ----------------------------
(* ShardCodec for TLC: a shard id, another id, a pipe one entry deep. *)
EXTENDS ShardCodec, TLC

CONSTANTS sid, oid

====
