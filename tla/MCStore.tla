------------------------------ MODULE MCStore -------------------------------
(***************************************************************************)
(* Small instances of Store.  Values are the decimal strings of a tiny     *)
(* integer range, so that INCR overflows and parses the way it does in     *)
(* the code, plus one value that is not a number.                          *)
(***************************************************************************)
EXTENDS Atomicity, Accounting, FiniteSetsExt, TLC

CONSTANTS k1, k2, c1, c2

OneKey   == {k1}
TwoKeys  == {k1, k2}
Two      == {c1, c2}
OneShard == [k \in Keys |-> 0]
Spread   == [k \in Keys |-> IF k = k1 THEN 0 ELSE 1]

Numbers  == {"1", "2"}          \* "2" plays the largest int64
AllVals  == {"1", "2", "x"}
SizeOf   == [kv \in Keys \X Vals |-> IF kv[2] = "x" THEN 3 ELSE 1]

\* INCR by one; APPEND of anything yields a string that is not a number.
ComputeVal ==
    [a \in RMW \X Vals \X (Vals \cup {Absent}) |->
       IF a[1] = "INCR"
         THEN IF a[3] = Absent THEN "1" ELSE IF a[3] = "1" THEN "2" ELSE Err
         ELSE IF a[3] = Absent THEN a[2] ELSE CHOOSE v \in Vals : v \notin {"1"}]

Cmd(op, k, ks, v, d) == [op |-> op, key |-> k, keys |-> ks, vals |-> [x \in Keys |-> v], exp |-> d]

Set(v, ds)  == {Cmd("SET", k, {}, v, d) : k \in Keys, d \in ds}
ExpireAt    == {Cmd("EXPIREAT", k, {}, "1", d) : k \in Keys, d \in Deadlines}
Rmw(op)     == {Cmd(op, k, {}, "1", Never) : k \in Keys}
GetOne      == {Cmd("GET", k, {k}, "1", Never) : k \in Keys}
DelOne      == {Cmd("DEL", k, {k}, "1", Never) : k \in Keys}
MGet        == {Cmd("GET", k1, Keys, "1", Never)}
ExistsAll   == {Cmd("EXISTS", k1, Keys, "1", Never)}
MSetAll(v)  == {Cmd("MSET", k1, Keys, v, Never)}
DelAll      == {Cmd("DEL", k1, Keys, "1", Never)}
EvictOne    == {Cmd("EVICT", k1, {}, "1", Never)}

\* Everything that can happen to one key.
OneKeyRequests == Set("1", Deadlines \cup {Never}) \cup ExpireAt \cup Rmw("INCR") \cup Rmw("APPEND")
                    \cup GetOne \cup DelOne \cup EvictOne
\* Batches over all keys and per-key readers, next to one-key writers.
CacheRequests  == MSetAll("2") \cup DelAll \cup MGet \cup ExistsAll
                    \cup {Cmd("SET", k1, {}, "1", MaxTime), Cmd("SET", k1, {}, "1", Never),
                          Cmd("INCR", k1, {}, "1", Never),
                          Cmd("EXPIREAT", k1, {}, "1", MaxTime)}
RmwRequests    == Set("1", {Never}) \cup ExpireAt \cup Rmw("INCR")

=============================================================================
