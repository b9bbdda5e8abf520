----------------------------- MODULE MCEviction -----------------------------
(***************************************************************************)
(* Four keys of one byte in two shards, two clients, a budget of one byte  *)
(* and samples of two keys: there is room to exceed the budget by one      *)
(* command per client and more.  All policies, with and without a journal. *)
(***************************************************************************)
EXTENDS Eviction, TLC

CONSTANTS k1, k2, k3, k4, c1, c2

FourKeys    == {k1, k2, k3, k4}
Two         == {c1, c2}
Halves      == [k \in Keys |-> IF k \in {k1, k2} THEN 0 ELSE 1]
Ones        == [k \in Keys |-> 1]
AllPolicies == {"noeviction", "allkeys-lru", "allkeys-random", "volatile-lru"}
Both        == BOOLEAN

Put(t, ks) == [op |-> "put", ttl |-> t, keys |-> ks]
Del(ks)    == [op |-> "del", ttl |-> FALSE, keys |-> ks]
Writes     == {Put(t, {k}) : t \in BOOLEAN, k \in Keys} \cup {Del({k}) : k \in Keys}

\* Keys of one shard are interchangeable, and so are the clients.
Symmetry == {f @@ g @@ h : f \in Permutations({k1, k2}), g \in Permutations({k3, k4}),
                           h \in Permutations({c1, c2})}
=============================================================================
