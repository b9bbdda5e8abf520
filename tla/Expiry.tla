------------------------------- MODULE Expiry -------------------------------
(***************************************************************************)
(* The background sampler of internal/store/expire.go: a cycle of rounds,  *)
(* each of which walks the shards in order, one write lock at a time, and  *)
(* looks at a bounded number of volatile keys.                             *)
(*                                                                         *)
(* To the sampler a key is out of its index (missing, or without a         *)
(* deadline), live or due.  Clients move keys between these at any time,   *)
(* deadlines pass at any time.                                             *)
(***************************************************************************)
EXTENDS Integers, FiniteSets, FiniteSetsExt

CONSTANTS
    Keys,
    NumShards,      \* shardCount
    ShardOf,        \* shardIndex
    ExpireSample,   \* activeExpireSampleSize
    MaxRounds       \* activeExpireMaxRounds

Shards == 0 .. NumShards - 1

ASSUME ExpiryAssumption ==
    /\ NumShards \in Nat \ {0}
    /\ ShardOf \in [Keys -> Shards]
    /\ ExpireSample \in Nat \ {0}
    /\ MaxRounds \in Nat \ {0}

VARIABLES
    key,        \* "out", "live" or "due"
    pc,         \* the sampler: waiting for its ticker, between two rounds, in a round
    round,      \* rounds done in this cycle
    shard,      \* the next shard of the round
    scanned,    \* keys looked at in this round
    expired,    \* ... and deleted
    late        \* keys that came due after the round read the clock

vars == <<key, pc, round, shard, scanned, expired, late>>

\* A round looks at no more keys than the sample size and deletes no more than it looked
\* at; a cycle has no more rounds than the cap, whatever the clients do meanwhile.
TypeOK ==
    /\ key \in [Keys -> {"out", "live", "due"}]
    /\ pc \in {"wait", "round", "scan"}
    /\ round \in 0 .. MaxRounds - 1
    /\ shard \in Shards
    /\ scanned \in 0 .. ExpireSample - 1
    /\ expired \in 0 .. scanned
    /\ late \subseteq Keys

Init ==
    /\ key = [k \in Keys |-> "out"]
    /\ pc = "wait" /\ round = 0
    /\ shard = 0 /\ scanned = 0 /\ expired = 0 /\ late = {}

-----------------------------------------------------------------------------
\* SET with a TTL, EXPIRE; DEL, SET without a TTL, lazy collection, eviction.
Stamp(k) ==
    /\ key' = [key EXCEPT ![k] = "live"]
    /\ UNCHANGED <<pc, round, shard, scanned, expired, late>>

Remove(k) ==
    /\ key' = [key EXCEPT ![k] = "out"]
    /\ UNCHANGED <<pc, round, shard, scanned, expired, late>>

\* A deadline passes.
Lapse(k) ==
    /\ key[k] = "live"
    /\ key' = [key EXCEPT ![k] = "due"]
    /\ late' = IF pc = "scan" THEN late \cup {k} ELSE late
    /\ UNCHANGED <<pc, round, shard, scanned, expired>>

-----------------------------------------------------------------------------
expiring(s) == {k \in Keys : ShardOf[k] = s /\ key[k] # "out"}

\* Mutants: ranging over a map always starts at the same key; the sample of a shard is
\* not cut short by what the shards before it yielded.
Draw_sameKeys(keys, n) == {CHOOSE C \in kSubset(Min({n, Cardinality(keys)}), keys) : TRUE}
Draw_perShard(keys, n) == kSubset(Min({ExpireSample, Cardinality(keys)}), keys)

\* Ranging over a map starts anywhere and is broken off after n keys.
Draw(keys, n) == kSubset(Min({n, Cardinality(keys)}), keys)

\* The ticker fires, or the last round paid: the next one reads the clock.
Round ==
    /\ pc \in {"wait", "round"}
    /\ pc' = "scan"
    /\ UNCHANGED <<key, round, shard, scanned, expired, late>>

\* Mutant: rounds go on as long as they pay.
EndRound_noCap(n, gone) ==
    /\ IF n = 0 \/ 4 * gone < n
         THEN pc' = "wait" /\ round' = 0
         ELSE pc' = "round" /\ round' = round
    /\ shard' = 0 /\ scanned' = 0 /\ expired' = 0 /\ late' = {}

\* activeExpireCycle: another round if a quarter of the sample was expired, up to the cap.
EndRound(n, gone) ==
    /\ IF n = 0 \/ 4 * gone < n \/ round = MaxRounds - 1
         THEN pc' = "wait" /\ round' = 0
         ELSE pc' = "round" /\ round' = round + 1
    /\ shard' = 0 /\ scanned' = 0 /\ expired' = 0 /\ late' = {}

\* expireSample in one shard, under its write lock: look at the keys C of its index and
\* delete those that were due when the round began.
expireSample(C) ==
    /\ pc = "scan"
    /\ LET dead == {k \in C \ late : key[k] = "due"}
           n    == scanned + Cardinality(C)
           gone == expired + Cardinality(dead)
       IN  /\ key' = [k \in Keys |-> IF k \in dead THEN "out" ELSE key[k]]
           /\ IF n = ExpireSample \/ shard = NumShards - 1
                THEN EndRound(n, gone)
                ELSE /\ shard' = shard + 1 /\ scanned' = n /\ expired' = gone
                     /\ UNCHANGED <<pc, round, late>>

Sampler == Round \/ \E C \in Draw(expiring(shard), ExpireSample - scanned) : expireSample(C)
LooksAt(k) == \E C \in Draw(expiring(shard), ExpireSample - scanned) : k \in C /\ expireSample(C)

Next ==
    \/ \E k \in Keys : Stamp(k) \/ Remove(k) \/ Lapse(k)
    \/ Sampler

Spec == Init /\ [][Next]_vars

\* The ticker keeps firing, the sampler gets its locks, and a key that ranging over the
\* map may yield again and again is looked at.  Nothing obliges a client to do anything,
\* or a key to expire.
FairSpec ==
    /\ Spec
    /\ WF_vars(Sampler)
    /\ \A k \in Keys : SF_vars(LooksAt(k))

-----------------------------------------------------------------------------
Due(k) == key[k] = "due"
Before(k) == {j \in Keys : ShardOf[j] < ShardOf[k]}

\* A cycle ends, even if clients keep creating keys that expire at once.
CycleEnds == pc # "wait" ~> pc = "wait"

\* An expired key that nobody touches is released, provided the shards before its own
\* hold fewer volatile keys than one round looks at.
ReleasedIfReached ==
    \A k \in Keys : Cardinality(Before(k)) < ExpireSample => (Due(k) ~> ~Due(k))
=============================================================================
