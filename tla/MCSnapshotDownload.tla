-------------------------- MODULE MCSnapshotDownload --------------------------
(***************************************************************************)
(* Instances of SnapshotDownload for TLC: an MLX snapshot of weight shards *)
(* and one metadata file.  As in checksums.json, the vendored manifest     *)
(* lists the shards only.                                                  *)
(***************************************************************************)
EXTENDS SnapshotDownload

CONSTANTS shard1, shard2, config

OneShard == {{shard1}}
OneShardOrNone == {{shard1}, {}}
TwoShards == {{shard1, shard2}}
=============================================================================
