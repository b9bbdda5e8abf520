------------------------------ MODULE MCAOFLog ------------------------------
(***************************************************************************)
(* Small instances of AOFLog: two connections, two shards; the second      *)
(* mutation is an MSET over both shards, the others write to one shard.    *)
(***************************************************************************)
EXTENDS AOFLog, TLC

CONSTANTS w1, w2

TwoWriters == {w1, w2}
ShardsOfRec == [r \in Recs |-> IF r = 2 THEN Shards ELSE {IF r % 2 = 1 THEN NumShards - 1 ELSE 0}]
BatchRec == {2}

Sym == Permutations({w1, w2})
=============================================================================
