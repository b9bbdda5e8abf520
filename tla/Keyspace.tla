------------------------------ MODULE Keyspace ------------------------------
(***************************************************************************)
(* The keyspace of internal/store as data: entries with an optional        *)
(* deadline, and the journal's records as the effect that replaying them   *)
(* has on each key.  A value is an uninterpreted element of Vals.  Times   *)
(* are clock ticks; Res of them make one millisecond, the resolution in    *)
(* which the journal carries a deadline.                                   *)
(***************************************************************************)
EXTENDS Integers

CONSTANTS
    Keys,       \* key names
    Vals,       \* values (byte strings)
    Absent,     \* no entry under a key
    Res,        \* clock ticks per millisecond
    MaxTime     \* the last instant of the model's clock

Never     == 0                   \* the zero time.Time: no deadline
Times     == Res .. MaxTime      \* instants at which a command may read the clock
Deadlines == Times

\* entry: a value plus its deadline (the LRU stamp atime only matters to eviction).
Entry == [val : Vals, exp : Deadlines \cup {Never}]

ASSUME KeyspaceAssumption ==
    /\ Absent \notin Entry
    /\ Res \in Nat \ {0}
    /\ MaxTime \in Nat
    /\ Res <= MaxTime

Slot == Entry \cup {Absent}      \* what a shard's map holds under a key

\* (e *entry) expired: a deadline exactly reached counts as expired.
Expired(e, t) == e.exp # Never /\ e.exp <= t

\* ok && e.expired(now), and ok && !e.expired(now), for a map lookup.
Gone(e, t) == e # Absent /\ Expired(e, t)
Live(e, t) == e # Absent /\ ~Expired(e, t)

\* unixMillis truncates a deadline to whole milliseconds.
unixMillis(d) == d - (d % Res)
Journalled(e) == [val |-> e.val,
                  exp |-> IF e.exp = Never THEN Never ELSE unixMillis(e.exp)]

-----------------------------------------------------------------------------
(***************************************************************************)
(* A journal record, as its effect on every key:                           *)
(*   SET k v [PXAT d]   put under k            (propagateSetLocked)        *)
(*   MSET k v ...       put under each k, without a deadline               *)
(*   DEL k ...          del under each k                                   *)
(*   PEXPIREAT k d      stamp under k                                      *)
(***************************************************************************)
NoEffect == [do |-> "none"]
DelEffect == [do |-> "del"]
PutEffect(e) == [do |-> "put", entry |-> e]
StampEffect(d) == [do |-> "stamp", exp |-> d]

Effect == {NoEffect, DelEffect} \cup [do : {"put"}, entry : Entry]
             \cup [do : {"stamp"}, exp : Deadlines]
Record == [Keys -> Effect]
NoRecord == [k \in Keys |-> NoEffect]

(***************************************************************************)
(* applyLogged: the handler of one record, run at time t on the slot e of  *)
(* one key.  SET goes through SetWithDeadline, which deletes when the      *)
(* deadline is already reached; PEXPIREAT goes through ExpireAt.           *)
(***************************************************************************)
ReplayKey(f, e, t) ==
    CASE f.do = "none"  -> e
      [] f.do = "del"   -> Absent
      [] f.do = "put"   -> IF Expired(f.entry, t) THEN Absent ELSE f.entry
      [] f.do = "stamp" -> IF Live(e, t) /\ f.exp > t
                             THEN [e EXCEPT !.exp = f.exp]
                             ELSE Absent

applyLogged(r, kv, t) == [k \in Keys |-> ReplayKey(r[k], kv[k], t)]
=============================================================================
