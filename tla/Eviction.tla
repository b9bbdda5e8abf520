------------------------------ MODULE Eviction ------------------------------
(***************************************************************************)
(* The memory budget: EnforceMemoryLimit, which every write command runs   *)
(* before its handler.  It walks the shards one after the other and holds  *)
(* no more than one shard's lock, so that writers, readers, the expiry     *)
(* sampler and other evictions act between any two shards.                 *)
(*                                                                         *)
(* Module Store has the locks, the pointers and the journal; there the     *)
(* victim is any key.  Here an entry is its size, whether it carries a     *)
(* deadline, and its LRU stamp.  That the shard's counter and its index of *)
(* volatile keys agree with the entries is Store's UsedExact and           *)
(* IndexExact, so both are derived from the entries.                       *)
(***************************************************************************)
EXTENDS Integers, FiniteSets, FiniteSetsExt, Functions

CONSTANTS
    Keys,
    Absent,         \* no entry under a key
    Clients,        \* connections that send write commands
    Nobody,         \* the holder of a free gate
    NumShards,      \* shardCount
    ShardOf,        \* shardIndex
    EntrySize,      \* entrySize of the entry under each key
    MaxMemory,      \* maxMemory; 0 is unlimited
    Policies,       \* the maxmemory-policy settings considered
    Journals,       \* with a journal, without, or both
    EvictSample,    \* evictSampleSize
    Commands        \* the write commands the clients send

Shards == 0 .. NumShards - 1
InShard(s) == {k \in Keys : ShardOf[k] = s}

\* A command stores entries, with or without a TTL, or deletes them.
Command == [op : {"put", "del"}, ttl : BOOLEAN, keys : SUBSET Keys]

\* ttl: the entry has a deadline.  atime: its LRU stamp.
Entry == [ttl : BOOLEAN, atime : Nat]

ASSUME MemoryAssumption ==
    /\ IsFiniteSet(Keys) /\ IsFiniteSet(Clients)
    /\ Nobody \notin Clients
    /\ Absent \notin Keys /\ Absent \notin Entry
    /\ NumShards \in Nat \ {0}
    /\ ShardOf \in [Keys -> Shards]
    /\ EntrySize \in [Keys -> Nat \ {0}]
    /\ MaxMemory \in Nat
    /\ Policies \subseteq {"noeviction", "allkeys-lru", "allkeys-random", "volatile-lru"}
    /\ Journals \subseteq BOOLEAN
    /\ EvictSample \in Nat \ {0}
    /\ Commands \subseteq Command /\ Commands # {}

VARIABLES
    policy, durable,    \* configuration: the policy, and whether a journal is attached
    data,               \* the entries
    clock,              \* the coarse LRU clock
    gate,               \* the holder of commitMu
    pc,                 \* each client's position
    shard, sum,         \* ... the next shard of its walk, the bytes counted so far
    best, scanned       \* ... the oldest key sampled so far, and how many were sampled

config   == <<policy, durable>>
walkVars == <<shard, sum, best, scanned>>
vars     == <<config, data, clock, gate, pc, walkVars>>

None  == [key |-> Absent, atime |-> 0]      \* pickVictim: !found

\* Walks and samples stay inside the shards and the sample sizes, and a victim is a key.
TypeOK ==
    /\ policy \in Policies /\ durable \in Journals
    /\ data \in [Keys -> Entry \cup {Absent}]
    /\ clock \in Nat
    /\ gate \in Clients \cup {Nobody}
    /\ pc \in [Clients -> {"idle", "enforce", "check", "loop", "pick", "evict", "handler"}]
    /\ shard \in [Clients -> Shards] /\ sum \in [Clients -> Nat]
    /\ best \in [Clients -> [key : Keys \cup {Absent}, atime : Nat]]
    /\ scanned \in [Clients -> 0 .. EvictSample]
    /\ \A p \in Clients : pc[p] = "evict" => best[p].key \in Keys

Init ==
    /\ policy \in Policies /\ durable \in Journals
    /\ data = [k \in Keys |-> Absent]
    /\ clock = 0
    /\ gate = Nobody
    /\ pc = [p \in Clients |-> "idle"]
    /\ shard = [p \in Clients |-> 0] /\ sum = [p \in Clients |-> 0]
    /\ best = [p \in Clients |-> None] /\ scanned = [p \in Clients |-> 0]

-----------------------------------------------------------------------------
Present  == {k \in Keys : data[k] # Absent}
expiring == {k \in Present : data[k].ttl}

Bytes(ks) == SumFunctionOnSet(EntrySize, ks)
used(s)   == Bytes(Present \cap InShard(s))
Used      == Bytes(Present)                  \* the sum a walk under all locks would find

Goto(p, l) == pc' = [pc EXCEPT ![p] = l]

\* A new walk over the shards.
FromStart(p) ==
    /\ shard' = [shard EXCEPT ![p] = 0] /\ sum' = [sum EXCEPT ![p] = 0]
    /\ best' = [best EXCEPT ![p] = None] /\ scanned' = [scanned EXCEPT ![p] = 0]

LastShard(p) == shard[p] = NumShards - 1

\* unlockDurableMutation.
Leave(p, l) ==
    /\ gate' = IF gate = p THEN Nobody ELSE gate
    /\ Goto(p, l)
    /\ FromStart(p)

-----------------------------------------------------------------------------
(***************************************************************************)
(* dispatch of a write command: EnforceMemoryLimit, then the handler.      *)
(***************************************************************************)
dispatch(p) ==
    /\ pc[p] = "idle"
    /\ Goto(p, IF MaxMemory = 0 THEN "handler" ELSE "enforce")
    /\ UNCHANGED <<config, data, clock, gate, walkVars>>

\* lockDurableMutation.
Enforce(p) ==
    /\ pc[p] = "enforce" /\ gate = Nobody
    /\ gate' = IF durable THEN p ELSE Nobody
    /\ Goto(p, "check")
    /\ UNCHANGED <<config, data, clock, walkVars>>

\* Used, one shard under its read lock; with the last shard the verdict: the budget is
\* met, or the policy refuses, or eviction goes (once more) round its loop.
Verdict(p, total) ==
    IF total <= MaxMemory THEN Leave(p, "handler")
    ELSE IF policy = "noeviction" THEN Leave(p, "idle")
    ELSE /\ Goto(p, IF pc[p] = "check" THEN "loop" ELSE "pick")
         /\ FromStart(p)
         /\ UNCHANGED gate

\* Mutant: the first shard's bytes stand for the whole.
UsedWalk_firstShard(p) ==
    /\ pc[p] \in {"check", "loop"}
    /\ Verdict(p, used(0))
    /\ UNCHANGED <<config, data, clock>>

UsedWalk(p) ==
    /\ pc[p] \in {"check", "loop"}
    /\ LET total == sum[p] + used(shard[p]) IN
         IF LastShard(p)
           THEN Verdict(p, total)
           ELSE /\ shard' = [shard EXCEPT ![p] = @ + 1]
                /\ sum' = [sum EXCEPT ![p] = total]
                /\ UNCHANGED <<gate, pc, best, scanned>>
    /\ UNCHANGED <<config, data, clock>>

-----------------------------------------------------------------------------
(***************************************************************************)
(* pickVictim, one shard under its read lock.  A map is ranged over in any *)
(* order, so a sample of a shard is any part of its pool that is as large  *)
(* as the pool and the sample size allow.                                  *)
(***************************************************************************)
\* Mutant: volatile-lru samples the entries instead of the index.
Pool_allKeys(s) == Present \cap InShard(s)

Pool(s) == (IF policy = "volatile-lru" THEN expiring ELSE Present) \cap InShard(s)
Draw(pool, n) == kSubset(Min({n, Cardinality(pool)}), pool)

Candidate(k) == [key |-> k, atime |-> data[k].atime]

\* The oldest of the sample, unless what the shards before had is as old.
Older(b, C) ==
    IF C = {} \/ (b # None /\ \A k \in C : b.atime <= data[k].atime)
      THEN {b}
      ELSE {Candidate(k) : k \in {i \in C : \A j \in C : data[i].atime <= data[j].atime}}

\* Mutant: found is not looked at.
Chosen_unchecked(p, b) ==
    /\ best' = [best EXCEPT ![p] = b]
    /\ shard' = [shard EXCEPT ![p] = 0] /\ scanned' = [scanned EXCEPT ![p] = 0]
    /\ Goto(p, "evict")
    /\ UNCHANGED <<gate, sum>>

\* The walk is over; without a victim the write is refused.
Chosen(p, b) ==
    IF b = None
      THEN Leave(p, "idle")
      ELSE /\ best' = [best EXCEPT ![p] = b]
           /\ shard' = [shard EXCEPT ![p] = 0] /\ scanned' = [scanned EXCEPT ![p] = 0]
           /\ Goto(p, "evict")
           /\ UNCHANGED <<gate, sum>>

NextShard(p, b, n) ==
    /\ best' = [best EXCEPT ![p] = b]
    /\ shard' = [shard EXCEPT ![p] = @ + 1] /\ scanned' = [scanned EXCEPT ![p] = n]
    /\ UNCHANGED <<gate, pc, sum>>

\* The LRU policies sample until they have enough keys or the last shard is done.
pickOldest(p) ==
    /\ pc[p] = "pick" /\ policy \in {"allkeys-lru", "volatile-lru"}
    /\ \E C \in Draw(Pool(shard[p]), EvictSample - scanned[p]) : \E b \in Older(best[p], C) :
         LET n == scanned[p] + Cardinality(C) IN
           IF n >= EvictSample \/ LastShard(p) THEN Chosen(p, b) ELSE NextShard(p, b, n)
    /\ UNCHANGED <<config, data, clock>>

\* allkeys-random takes the first key of the first shard that has one.
pickAny(p) ==
    /\ pc[p] = "pick" /\ policy = "allkeys-random"
    /\ \/ \E k \in Pool(shard[p]) : Chosen(p, Candidate(k))
       \/ Pool(shard[p]) = {} /\ LastShard(p) /\ Chosen(p, None)
       \/ Pool(shard[p]) = {} /\ ~LastShard(p) /\ NextShard(p, None, 0)
    /\ UNCHANGED <<config, data, clock>>

\* deleteLocked of the victim, whatever is under that key by now; propagate; go round.
Evict(p) ==
    /\ pc[p] = "evict"
    /\ data' = [data EXCEPT ![best[p].key] = Absent]
    /\ Goto(p, "loop")
    /\ FromStart(p)
    /\ UNCHANGED <<config, clock, gate>>

\* The handler takes the gate again and changes the keyspace; its size is not looked at.
Handler(p) ==
    /\ pc[p] = "handler" /\ gate = Nobody
    /\ \E c \in Commands :
         data' = [k \in Keys |-> IF k \notin c.keys THEN data[k]
                               ELSE IF c.op = "del" THEN Absent
                               ELSE [ttl |-> c.ttl, atime |-> clock]]
    /\ Leave(p, "idle")
    /\ UNCHANGED <<config, clock>>

-----------------------------------------------------------------------------
(***************************************************************************)
(* Readers, and expiry.  Get stamps a live entry.  A volatile entry may    *)
(* reach its deadline and be collected, by a reader or by the sampler, at  *)
(* any time (module Expiry has the sampler in detail).                     *)
(***************************************************************************)
Get(k) ==
    /\ k \in Present
    /\ data' = [data EXCEPT ![k].atime = clock]
    /\ UNCHANGED <<config, clock, gate, pc, walkVars>>

Collect(k) ==
    /\ k \in expiring
    /\ data' = [data EXCEPT ![k] = Absent]
    /\ UNCHANGED <<config, clock, gate, pc, walkVars>>

\* The sampler's round ticks the LRU clock.  Only the order of LRU stamps is ever
\* compared, so the model keeps their ranks.
Stamps == {data[k].atime : k \in Present} \cup {best[p].atime : p \in Clients}
Rank(t) == Cardinality({u \in Stamps : u < t})

tick ==
    /\ clock' = Rank(clock + 1)
    /\ data' = [k \in Keys |-> IF data[k] = Absent THEN Absent
                               ELSE [data[k] EXCEPT !.atime = Rank(@)]]
    /\ best' = [p \in Clients |-> [best[p] EXCEPT !.atime = Rank(@)]]
    /\ UNCHANGED <<config, gate, pc, shard, sum, scanned>>

-----------------------------------------------------------------------------
Step(p) ==
    \/ Enforce(p) \/ UsedWalk(p) \/ pickOldest(p) \/ pickAny(p) \/ Evict(p) \/ Handler(p)

Next ==
    \/ \E p \in Clients : dispatch(p) \/ Step(p)
    \/ \E k \in Keys : Get(k) \/ Collect(k)
    \/ tick

Spec == Init /\ [][Next]_vars

-----------------------------------------------------------------------------
MaxGrowth == Max({0} \cup {Bytes(c.keys) : c \in {d \in Commands : d.op = "put"}})

\* However many clients pass the budget check before any of them writes, the keyspace
\* exceeds its budget by at most one command per client.
BoundedOvershoot ==
    MaxMemory > 0 => Used <= MaxMemory + Cardinality(Clients) * MaxGrowth

\* An entry without a TTL disappears only because a client deletes it: always under
\* noeviction, and under volatile-lru with a journal, although the victim is deleted by
\* name after the lock under which it was picked is released.
PersistentKept ==
    [][policy = "noeviction" \/ (policy = "volatile-lru" /\ durable) =>
         \A k \in Present : ~data[k].ttl /\ data'[k] = Absent =>
           \E p \in Clients : pc[p] = "handler" /\ pc'[p] = "idle"]_vars
=============================================================================
