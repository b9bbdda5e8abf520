---------------------------- MODULE AtomicStore -----------------------------
(***************************************************************************)
(* What internal/store promises, without locks, shards, index or journal:  *)
(* a map from keys to entries on which every command acts whole and at one *)
(* instant.  The one liberty it takes is that a command may judge expiry   *)
(* by a clock it read at an earlier instant.                               *)
(***************************************************************************)
EXTENDS Keyspace

CONSTANTS RMW, Compute, Err, Requests

VARIABLES
    now,    \* the clock
    kv      \* the keyspace

Earlier == {t \in Times : t <= now}

Init ==
    /\ now = Res
    /\ kv = [k \in Keys |-> Absent]

\* SET stores its entry, whatever was there.
Set(r) ==
    /\ r.op = "SET"
    /\ r.exp # Never => \E t \in Earlier : r.exp > t
    /\ kv' = [kv EXCEPT ![r.key] = [val |-> r.vals[r.key], exp |-> r.exp]]

\* MSET stores all its pairs.
MSet(r) ==
    /\ r.op = "MSET"
    /\ kv' = [k \in Keys |-> IF k \in r.keys THEN [val |-> r.vals[k], exp |-> Never] ELSE kv[k]]

\* DEL, and a SET whose deadline has been reached, remove all their keys.
Del(r) ==
    /\ \/ r.op = "DEL"
       \/ r.op = "SET" /\ r.exp # Never /\ r.exp <= now
    /\ LET gone == IF r.op = "DEL" THEN r.keys ELSE {r.key} IN
         kv' = [k \in Keys |-> IF k \in gone THEN Absent ELSE kv[k]]

\* EXPIREAT restamps a live entry, or removes the key if the deadline has been reached.
ExpireAt(r) ==
    /\ r.op = "EXPIREAT" /\ kv[r.key] # Absent
    /\ \E t \in Earlier :
         \/ /\ Live(kv[r.key], t) /\ r.exp > t
            /\ kv' = [kv EXCEPT ![r.key] = [val |-> kv[r.key].val, exp |-> r.exp]]
         \/ /\ Expired(kv[r.key], t) \/ r.exp <= t
            /\ kv' = [kv EXCEPT ![r.key] = Absent]

\* INCR and APPEND replace the value there is by the computed one, keeping its deadline.
Update(r) ==
    /\ r.op \in RMW
    /\ LET e == kv[r.key]
           v == Compute[<<r.op, r.vals[r.key], IF e = Absent THEN Absent ELSE e.val>>]
       IN  /\ v # Err
           /\ e # Absent => \E t \in Earlier : ~Expired(e, t)
           /\ kv' = [kv EXCEPT ![r.key] = [val |-> v, exp |-> IF e = Absent THEN Never ELSE e.exp]]

\* ... but if the entry expired and was collected meanwhile, what they store is as dead
\* as the entry was.
UpdateDead(r) ==
    /\ r.op \in RMW /\ kv[r.key] = Absent
    /\ \E v \in Vals, d \in Deadlines :
         /\ d <= now
         /\ kv' = [kv EXCEPT ![r.key] = [val |-> v, exp |-> d]]

\* Eviction removes one key.
Evict(r) ==
    /\ r.op = "EVICT"
    /\ \E k \in Keys : kv' = [kv EXCEPT ![k] = Absent]

Command(r) ==
    /\ Set(r) \/ MSet(r) \/ Del(r) \/ ExpireAt(r) \/ Update(r) \/ UpdateDead(r) \/ Evict(r)
    /\ UNCHANGED now

\* Nothing but an entry past its deadline disappears by itself.
Expire(k) ==
    /\ Gone(kv[k], now)
    /\ kv' = [kv EXCEPT ![k] = Absent]
    /\ UNCHANGED now

Tick ==
    /\ now < MaxTime
    /\ now' = now + 1
    /\ UNCHANGED kv

Next == (\E r \in Requests : Command(r)) \/ (\E k \in Keys : Expire(k)) \/ Tick

Spec == Init /\ [][Next]_<<now, kv>>
=============================================================================
