----------------------------- MODULE MCTxCache -----------------------------
(***************************************************************************)
(* TxCache on small instances: two shards, so that a scan is not a         *)
(* snapshot, and more signatures than the cache may hold.                  *)
(***************************************************************************)
EXTENDS TxCache, TLC

CONSTANTS s1, s2, s3

\* s1 and s2 share a shard, so a shard can hold a tie.
MCShardOf == s1 :> 1 @@ s2 :> 1 @@ s3 :> 2
=============================================================================
