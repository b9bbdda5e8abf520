----------------------------- MODULE Atomicity ------------------------------
(***************************************************************************)
(* Store implements AtomicStore.  A batch counts as done from the moment   *)
(* it holds all its shards: the keys it has not come to yet are hidden     *)
(* behind their locks and map to what the batch will leave there.  All     *)
(* other keys map to the entry in their shard.                             *)
(***************************************************************************)
EXTENDS Store

InBatch(p, k) == pc[p] = "body" /\ k \in todo[p]

BatchLeaves(p, k) ==
    IF req[p].op = "MSET" THEN [val |-> req[p].vals[k], exp |-> Never] ELSE Absent

kvBar == [k \in Keys |-> IF \E p \in Clients : InBatch(p, k)
                           THEN BatchLeaves(CHOOSE p \in Clients : InBatch(p, k), k)
                           ELSE data[k]]

Atomic == INSTANCE AtomicStore WITH kv <- kvBar

\* Every change of the keyspace is the whole effect of one command at one instant: no
\* interleaving of the critical sections of MSET, DEL, EXPIREAT, INCR, APPEND, lazy
\* expiry, the sampler and eviction is anything else than some sequence of whole
\* commands.
ImplementsAtomic == Atomic!Spec
=============================================================================
