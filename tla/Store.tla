------------------------------- MODULE Store --------------------------------
(***************************************************************************)
(* internal/store under concurrent clients.  Every client goroutine runs   *)
(* one command at a time; a command is a program counter moving through    *)
(* the critical sections of the Go method, so that another client, the     *)
(* expiry sampler or the clock may act wherever the code holds no lock     *)
(* that excludes it.                                                       *)
(*                                                                         *)
(* Durable says whether a journal is attached.  Only then does             *)
(* lockDurableMutation take commitMu ("gate").  The journal itself is      *)
(* represented by what a restart would make of it: replayed[t] is the      *)
(* keyspace that replaying every record appended so far at time t builds.  *)
(***************************************************************************)
EXTENDS Keyspace

CONSTANTS
    Clients,    \* client goroutines
    NoClient,   \* the holder of a free lock
    NumShards,  \* shardCount
    ShardOf,    \* shardIndex: Keys -> 0 .. NumShards - 1
    Size,       \* entrySize: <<key, value>> -> bytes
    Compute,    \* <<op, argument, old value or Absent>> -> new value, or Err
    Err,        \* ErrNotInteger
    Durable,    \* a journal is attached
    Requests    \* the commands the clients may send

Shards == 0 .. NumShards - 1

RMW     == {"INCR", "APPEND"}             \* read-modify-write commands
Batches == {"MSET", "DEL"}                \* commands that lock several shards
Reads   == {"GET", "EXISTS"}              \* GET stands for MGET as well
Ops     == RMW \cup Batches \cup Reads \cup {"SET", "EXPIREAT", "EVICT"}

\* key: the key of a one-key command; keys: those of a many-key command; vals: the
\* value (delta, suffix) under each key; exp: an absolute deadline.  A relative TTL is
\* its absolute deadline: the code adds it to the clock before it takes any lock.
Request == [op : Ops, key : Keys, keys : SUBSET Keys, vals : [Keys -> Vals],
            exp : Deadlines \cup {Never}]

ASSUME StoreAssumption ==
    /\ NoClient \notin Clients
    /\ NumShards \in Nat \ {0}
    /\ ShardOf \in [Keys -> Shards]
    /\ Size \in [Keys \X Vals -> Nat]
    /\ Err \notin Vals
    /\ Compute \in [RMW \X Vals \X (Vals \cup {Absent}) -> Vals \cup {Err}]
    /\ Durable \in BOOLEAN
    /\ Requests \subseteq Request /\ Requests # {}
    /\ \A r \in Requests : /\ r.op \in Batches \cup Reads => r.keys # {}
                           /\ r.op = "EXPIREAT" => r.exp # Never

NoRequest == CHOOSE r \in Requests : TRUE   \* an idle client's request: never read

VARIABLES
    now,        \* the clock
    data,       \* readShard.data of every shard
    expiring,   \* readShard.expiring of every shard
    used,       \* readShard.used
    gate,       \* the holder of commitMu
    wlock,      \* the holder of each shard's write lock, kept across steps
    pc, req,    \* each client's position and command
    t0,         \* the time.Now() its command captured
    ptr,        \* the *entry a read-modify-write looked up, as that entry is now
    attached,   \* clients whose ptr is still the entry in the map
    new,        \* the entry a client is about to store
    todo,       \* keys still to process
    found,      \* keys the reply counts
    rec,        \* the journal record under construction
    replayed    \* what replaying the journal at each time rebuilds

shardVars == <<data, expiring, used, attached>>
cmdVars   == <<req, t0, ptr, new, todo, found>>
vars      == <<now, shardVars, gate, wlock, pc, cmdVars, rec, replayed>>

PCs == {"idle", "read", "collect", "gate", "apply", "append", "lock", "body", "commit",
        "unlock", "deadline", "stamp", "peek", "check", "drop", "calc", "pick", "evict", "evicted"}

\* Shards, commands and journal hold well-formed values: no half-built entry, no error
\* value and no foreign key ever enters a shard's map or a record.
TypeOK ==
    /\ now \in Times
    /\ data \in [Keys -> Slot]
    /\ expiring \subseteq Keys
    /\ used \in [Shards -> Int]
    /\ gate \in Clients \cup {NoClient}
    /\ wlock \in [Shards -> Clients \cup {NoClient}]
    /\ pc \in [Clients -> PCs]
    /\ req \in [Clients -> Request]
    /\ t0 \in [Clients -> Times]
    /\ ptr \in [Clients -> Slot]
    /\ attached \subseteq Clients
    /\ new \in [Clients -> Slot]
    /\ todo \in [Clients -> SUBSET Keys]
    /\ found \in [Clients -> SUBSET Keys]
    /\ rec \in [Clients -> Record]
    /\ replayed \in [Times -> [Keys -> Slot]]

Init ==
    /\ now = Res
    /\ data = [k \in Keys |-> Absent]
    /\ expiring = {}
    /\ used = [s \in Shards |-> 0]
    /\ gate = NoClient
    /\ wlock = [s \in Shards |-> NoClient]
    /\ pc = [p \in Clients |-> "idle"]
    /\ req = [p \in Clients |-> NoRequest]
    /\ t0 = [p \in Clients |-> Res]
    /\ ptr = [p \in Clients |-> Absent]
    /\ attached = {}
    /\ new = [p \in Clients |-> Absent]
    /\ todo = [p \in Clients |-> {}]
    /\ found = [p \in Clients |-> {}]
    /\ rec = [p \in Clients |-> NoRecord]
    /\ replayed = [t \in Times |-> [k \in Keys |-> Absent]]

-----------------------------------------------------------------------------
(***************************************************************************)
(* What the critical sections do to a shard.  Storing or deleting under k  *)
(* replaces the map's pointer: whoever looked the old entry up still holds *)
(* it, but it is no longer the entry in the map.                           *)
(***************************************************************************)
ShardFree(k) == wlock[ShardOf[k]] = NoClient
Aliases(k)   == {q \in attached : req[q].key = k}
SizeAt(k)    == IF data[k] = Absent THEN 0 ELSE Size[<<k, data[k].val>>]

\* Mutant: a SET without a TTL leaves the key in the index.
setLockedInWriteLockedShard_keepsIndex(k, e) ==
    /\ data' = [data EXCEPT ![k] = e]
    /\ used' = [used EXCEPT ![ShardOf[k]] = @ - SizeAt(k) + Size[<<k, e.val>>]]
    /\ expiring' = IF e.exp = Never THEN expiring ELSE expiring \cup {k}
    /\ attached' = attached \ Aliases(k)

setLockedInWriteLockedShard(k, e) ==
    /\ data' = [data EXCEPT ![k] = e]
    /\ used' = [used EXCEPT ![ShardOf[k]] = @ - SizeAt(k) + Size[<<k, e.val>>]]
    /\ expiring' = IF e.exp = Never THEN expiring \ {k} ELSE expiring \cup {k}
    /\ attached' = attached \ Aliases(k)

\* Mutant: a deletion leaves the bytes of the entry on the account.
deleteLockedInWriteLockedShard_keepsBytes(k) ==
    /\ data' = [data EXCEPT ![k] = Absent]
    /\ used' = used
    /\ expiring' = expiring \ {k}
    /\ attached' = attached \ Aliases(k)

deleteLockedInWriteLockedShard(k) ==
    /\ data' = [data EXCEPT ![k] = Absent]
    /\ used' = [used EXCEPT ![ShardOf[k]] = @ - SizeAt(k)]
    /\ expiring' = expiring \ {k}
    /\ attached' = attached \ Aliases(k)

\* propagate: append a record, if a journal is attached.
propagate(r) ==
    replayed' = IF Durable THEN [t \in Times |-> applyLogged(r, replayed[t], t)]
                           ELSE replayed

Goto(p, l) == pc' = [pc EXCEPT ![p] = l]

\* The command is over and its locals are dead; found is the reply.
Finish(p) ==
    /\ Goto(p, "idle")
    /\ req' = [req EXCEPT ![p] = NoRequest]
    /\ t0' = [t0 EXCEPT ![p] = Res]
    /\ new' = [new EXCEPT ![p] = Absent]
    /\ todo' = [todo EXCEPT ![p] = {}]
    /\ rec' = [rec EXCEPT ![p] = NoRecord]

Return(p) == Finish(p) /\ ptr' = [ptr EXCEPT ![p] = Absent]

-----------------------------------------------------------------------------
(***************************************************************************)
(* A client sends a command.  SetWithDeadline with a deadline already      *)
(* reached turns into Del, before any lock is taken.                       *)
(***************************************************************************)
Effective(r, t) ==
    IF r.op = "SET" /\ r.exp # Never /\ r.exp <= t
      THEN [r EXCEPT !.op = "DEL", !.keys = {r.key}]
      ELSE r

Call(p) ==
    /\ pc[p] = "idle"
    /\ \E r \in Requests :
         /\ req' = [req EXCEPT ![p] = Effective(r, now)]
         /\ todo' = [todo EXCEPT ![p] = Effective(r, now).keys]
         /\ Goto(p, IF r.op \in Reads THEN "read" ELSE "gate")
    /\ t0' = [t0 EXCEPT ![p] = now]
    /\ found' = [found EXCEPT ![p] = {}]
    /\ UNCHANGED <<now, shardVars, gate, wlock, ptr, new, rec, replayed>>

\* Mutant: commitMu is never taken.
lockDurableMutation_noGate(p) ==
    /\ pc[p] = "gate"
    /\ gate = NoClient
    /\ gate' = NoClient
    /\ new' = [new EXCEPT ![p] = IF req[p].op = "SET"
                                   THEN [val |-> req[p].vals[req[p].key], exp |-> req[p].exp]
                                   ELSE Absent]
    /\ Goto(p, CASE req[p].op = "SET"      -> "apply"
                 [] req[p].op \in Batches  -> "lock"
                 [] req[p].op = "EXPIREAT" -> "deadline"
                 [] req[p].op \in RMW      -> "peek"
                 [] OTHER                  -> "pick")
    /\ UNCHANGED <<now, shardVars, wlock, req, t0, ptr, todo, found, rec, replayed>>

\* lockDurableMutation: commitMu is taken only when a journal is attached.
lockDurableMutation(p) ==
    /\ pc[p] = "gate"
    /\ gate = NoClient
    /\ gate' = IF Durable THEN p ELSE NoClient
    /\ new' = [new EXCEPT ![p] = IF req[p].op = "SET"
                                   THEN [val |-> req[p].vals[req[p].key], exp |-> req[p].exp]
                                   ELSE Absent]
    /\ Goto(p, CASE req[p].op = "SET"      -> "apply"
                 [] req[p].op \in Batches  -> "lock"
                 [] req[p].op = "EXPIREAT" -> "deadline"
                 [] req[p].op \in RMW      -> "peek"
                 [] OTHER                  -> "pick")
    /\ UNCHANGED <<now, shardVars, wlock, req, t0, ptr, todo, found, rec, replayed>>

-----------------------------------------------------------------------------
(***************************************************************************)
(* Get, once per key of an MGET: a look under the read lock; on an expired *)
(* entry a second look under the write lock, against a fresh clock.        *)
(***************************************************************************)
NextKey(p, k) ==
    IF todo[p] = {k}
      THEN Return(p)
      ELSE /\ todo' = [todo EXCEPT ![p] = @ \ {k}]
           /\ Goto(p, "read")
           /\ t0' = [t0 EXCEPT ![p] = IF req[p].op = "GET" THEN now ELSE @]
           /\ UNCHANGED <<req, ptr, new, rec>>

Get(p, k) ==
    /\ pc[p] = "read" /\ req[p].op = "GET" /\ k \in todo[p]
    /\ ShardFree(k)
    /\ IF Gone(data[k], t0[p])
         THEN /\ Goto(p, "collect")
              /\ req' = [req EXCEPT ![p].key = k]
              /\ UNCHANGED <<t0, ptr, new, todo, found, rec>>
         ELSE /\ NextKey(p, k)
              /\ found' = IF data[k] # Absent THEN [found EXCEPT ![p] = @ \cup {k}] ELSE found
    /\ UNCHANGED <<now, shardVars, gate, wlock, replayed>>

GetCollect(p) ==
    /\ pc[p] = "collect"
    /\ LET k == req[p].key IN
         /\ ShardFree(k)
         /\ IF Gone(data[k], now) THEN deleteLockedInWriteLockedShard(k)
                                  ELSE UNCHANGED shardVars
         /\ NextKey(p, k)
    /\ UNCHANGED <<now, gate, wlock, found, replayed>>

\* Exists: one read-locked look per key, all against the clock captured first.
Exists(p, k) ==
    /\ pc[p] = "read" /\ req[p].op = "EXISTS" /\ k \in todo[p]
    /\ ShardFree(k)
    /\ found' = IF Live(data[k], t0[p]) THEN [found EXCEPT ![p] = @ \cup {k}] ELSE found
    /\ NextKey(p, k)
    /\ UNCHANGED <<now, shardVars, gate, wlock, replayed>>

-----------------------------------------------------------------------------
(***************************************************************************)
(* setLocked: store under the shard lock, release it, and only then append *)
(* the record.  SET, INCR and APPEND end this way.                         *)
(***************************************************************************)
setLocked(p) ==
    /\ pc[p] = "apply"
    /\ LET k == req[p].key IN
         /\ ShardFree(k)
         /\ setLockedInWriteLockedShard(k, new[p])
         /\ rec' = [rec EXCEPT ![p][k] = PutEffect(Journalled(new[p]))]
    /\ Goto(p, "append")
    /\ UNCHANGED <<now, gate, wlock, cmdVars, replayed>>

\* Mutant: the record of a SET is not appended.
propagateSetLocked_forgets(p) ==
    /\ pc[p] = "append"
    /\ gate' = NoClient
    /\ Return(p)
    /\ UNCHANGED <<now, shardVars, wlock, found, replayed>>

\* propagateSetLocked, then unlockDurableMutation.
propagateSetLocked(p) ==
    /\ pc[p] = "append"
    /\ propagate(rec[p])
    /\ gate' = NoClient
    /\ Return(p)
    /\ UNCHANGED <<now, shardVars, wlock, found>>

-----------------------------------------------------------------------------
(***************************************************************************)
(* MSet and Del: the gate, then every shard in increasing order; one key   *)
(* after another; one record for the batch; the deferred unlocks free the  *)
(* gate first and the shards last, in decreasing order.                    *)
(***************************************************************************)
Held(p)    == {s \in Shards : wlock[s] = p}
Missing(p) == {ShardOf[k] : k \in req[p].keys} \ Held(p)

\* Mutant: the shards are locked in the order of the command's keys.
lockWriteShards_unsorted(p) ==
    /\ pc[p] = "lock"
    /\ \E s \in Missing(p) :
         /\ wlock[s] = NoClient
         /\ wlock' = [wlock EXCEPT ![s] = p]
         /\ Goto(p, IF Missing(p) = {s} THEN "body" ELSE "lock")
    /\ UNCHANGED <<now, shardVars, gate, cmdVars, rec, replayed>>

lockWriteShards(p) ==
    /\ pc[p] = "lock"
    /\ \E s \in Missing(p) :
         /\ \A r \in Missing(p) : s <= r
         /\ wlock[s] = NoClient
         /\ wlock' = [wlock EXCEPT ![s] = p]
         /\ Goto(p, IF Missing(p) = {s} THEN "body" ELSE "lock")
    /\ UNCHANGED <<now, shardVars, gate, cmdVars, rec, replayed>>

\* Mutant: the pairs of an MSET are not journalled.
MSetKey_unjournalled(p, k) ==
    /\ setLockedInWriteLockedShard(k, [val |-> req[p].vals[k], exp |-> Never])
    /\ UNCHANGED <<rec, found>>

MSetKey(p, k) ==
    LET e == [val |-> req[p].vals[k], exp |-> Never] IN
      /\ setLockedInWriteLockedShard(k, e)
      /\ rec' = [rec EXCEPT ![p][k] = PutEffect(e)]
      /\ UNCHANGED found

\* Mutant: a key that is already expired is left where it is.
DelKey_keepsExpired(p, k) ==
    IF ~Live(data[k], t0[p])
      THEN UNCHANGED <<shardVars, rec, found>>
      ELSE /\ deleteLockedInWriteLockedShard(k)
           /\ rec' = [rec EXCEPT ![p][k] = DelEffect]
           /\ found' = [found EXCEPT ![p] = @ \cup {k}]

\* Only keys that are there are removed and journalled; expired ones are not counted.
DelKey(p, k) ==
    IF data[k] = Absent
      THEN UNCHANGED <<shardVars, rec, found>>
      ELSE /\ deleteLockedInWriteLockedShard(k)
           /\ rec' = [rec EXCEPT ![p][k] = DelEffect]
           /\ found' = IF Expired(data[k], t0[p]) THEN found
                                                  ELSE [found EXCEPT ![p] = @ \cup {k}]

\* Mutant: the shard is locked once more to store a pair.
Batch_relocks(p, k) ==
    /\ pc[p] = "body" /\ k \in todo[p]
    /\ ShardFree(k)
    /\ IF req[p].op = "MSET" THEN MSetKey(p, k) ELSE DelKey(p, k)
    /\ todo' = [todo EXCEPT ![p] = @ \ {k}]
    /\ Goto(p, IF todo[p] = {k} THEN "commit" ELSE "body")
    /\ UNCHANGED <<now, gate, wlock, req, t0, ptr, new, replayed>>

Batch(p, k) ==
    /\ pc[p] = "body" /\ k \in todo[p]
    /\ IF req[p].op = "MSET" THEN MSetKey(p, k) ELSE DelKey(p, k)
    /\ todo' = [todo EXCEPT ![p] = @ \ {k}]
    /\ Goto(p, IF todo[p] = {k} THEN "commit" ELSE "body")
    /\ UNCHANGED <<now, gate, wlock, req, t0, ptr, new, replayed>>

BatchCommit(p) ==
    /\ pc[p] = "commit"
    /\ propagate(rec[p])
    /\ rec' = [rec EXCEPT ![p] = NoRecord]
    /\ gate' = NoClient
    /\ Goto(p, "unlock")
    /\ UNCHANGED <<now, shardVars, wlock, cmdVars>>

unlockWriteShards(p) ==
    /\ pc[p] = "unlock"
    /\ \E s \in Held(p) :
         /\ \A r \in Held(p) : r <= s
         /\ wlock' = [wlock EXCEPT ![s] = NoClient]
         /\ IF Held(p) = {s} THEN Return(p) ELSE UNCHANGED <<pc, req, t0, ptr, new, todo, rec>>
    /\ UNCHANGED <<now, shardVars, gate, found, replayed>>

-----------------------------------------------------------------------------
(***************************************************************************)
(* ExpireAt.  The deadline of the entry in the map is overwritten in       *)
(* place, with the shard locked: two steps, because a read-modify-write    *)
(* reads that field without the lock.                                      *)
(***************************************************************************)
\* Mutant: a deadline already reached deletes the key but journals nothing.
ExpireAtGone_silent(p) ==
    LET k == req[p].key IN
      /\ pc[p] = "deadline"
      /\ ShardFree(k)
      /\ \/ /\ data[k] = Absent
            /\ UNCHANGED shardVars
         \/ /\ Gone(data[k], t0[p]) \/ (data[k] # Absent /\ req[p].exp <= t0[p])
            /\ deleteLockedInWriteLockedShard(k)
      /\ gate' = NoClient
      /\ Return(p)
      /\ UNCHANGED <<now, wlock, found, replayed>>

ExpireAtGone(p) ==
    LET k == req[p].key IN
      /\ pc[p] = "deadline"
      /\ ShardFree(k)
      /\ \/ /\ data[k] = Absent
            /\ UNCHANGED <<shardVars, replayed>>
         \/ /\ Gone(data[k], t0[p]) \/ (data[k] # Absent /\ req[p].exp <= t0[p])
            /\ deleteLockedInWriteLockedShard(k)
            /\ propagate([NoRecord EXCEPT ![k] = DelEffect])
      /\ gate' = NoClient
      /\ Return(p)
      /\ UNCHANGED <<now, wlock, found>>

ExpireAtBegin(p) ==
    LET k == req[p].key IN
      /\ pc[p] = "deadline"
      /\ ShardFree(k)
      /\ Live(data[k], t0[p])
      /\ req[p].exp > t0[p]
      /\ wlock' = [wlock EXCEPT ![ShardOf[k]] = p]
      /\ Goto(p, "stamp")
      /\ UNCHANGED <<now, shardVars, gate, cmdVars, rec, replayed>>

ExpireAtEnd(p) ==
    LET k == req[p].key IN
      /\ pc[p] = "stamp"
      /\ data' = [data EXCEPT ![k].exp = req[p].exp]
      /\ expiring' = expiring \cup {k}
      /\ propagate([NoRecord EXCEPT ![k] = StampEffect(unixMillis(req[p].exp))])
      /\ wlock' = [wlock EXCEPT ![ShardOf[k]] = NoClient]
      /\ gate' = NoClient
      /\ Finish(p)
      /\ ptr' = [q \in Clients |-> IF q \in Aliases(k) THEN data'[k] ELSE ptr[q]]
      /\ UNCHANGED <<now, used, attached, found>>

-----------------------------------------------------------------------------
(***************************************************************************)
(* Increment and Append: look the entry up under the read lock, then use   *)
(* the pointer with no shard lock held.  The value never changes; the      *)
(* deadline may be in the middle of being overwritten, and a torn          *)
(* time.Time can be any deadline at all.                                   *)
(***************************************************************************)
DeadlineSeen(p) ==
    IF p \in attached /\ \E q \in Clients : pc[q] = "stamp" /\ req[q].key = req[p].key
      THEN {ptr[p].exp} \cup Deadlines
      ELSE {ptr[p].exp}

RmwPeek(p) ==
    LET k == req[p].key IN
      /\ pc[p] = "peek"
      /\ ShardFree(k)
      /\ ptr' = [ptr EXCEPT ![p] = data[k]]
      /\ attached' = IF data[k] = Absent THEN attached ELSE attached \cup {p}
      /\ Goto(p, IF data[k] = Absent THEN "calc" ELSE "check")
      /\ UNCHANGED <<now, data, expiring, used, gate, wlock, req, t0, new, todo, found, rec, replayed>>

RmwCheck(p) ==
    /\ pc[p] = "check"
    /\ \E d \in DeadlineSeen(p) : Goto(p, IF d # Never /\ d <= t0[p] THEN "drop" ELSE "calc")
    /\ UNCHANGED <<now, shardVars, gate, wlock, cmdVars, rec, replayed>>

\* deleteLocked: whatever is under the key by now, and without a journal record.
RmwDrop(p) ==
    LET k == req[p].key IN
      /\ pc[p] = "drop"
      /\ ShardFree(k)
      /\ deleteLockedInWriteLockedShard(k)
      /\ ptr' = [ptr EXCEPT ![p] = Absent]
      /\ Goto(p, "calc")
      /\ UNCHANGED <<now, gate, wlock, req, t0, new, todo, found, rec, replayed>>

Computed(p) ==
    Compute[<<req[p].op, req[p].vals[req[p].key],
              IF ptr[p] = Absent THEN Absent ELSE ptr[p].val>>]

\* Mutant: the error of ParseInt is ignored.
RmwCalc_ignoresError(p) ==
    /\ pc[p] = "calc"
    /\ \E d \in IF ptr[p] = Absent THEN {Never} ELSE DeadlineSeen(p) :
         new' = [new EXCEPT ![p] = [val |-> Computed(p), exp |-> d]]
    /\ Goto(p, "apply")
    /\ UNCHANGED <<now, shardVars, gate, wlock, req, t0, ptr, todo, found, rec, replayed>>

RmwCalc(p) ==
    /\ pc[p] = "calc"
    /\ Computed(p) # Err
    /\ \E d \in IF ptr[p] = Absent THEN {Never} ELSE DeadlineSeen(p) :
         new' = [new EXCEPT ![p] = [val |-> Computed(p), exp |-> d]]
    /\ Goto(p, "apply")
    /\ UNCHANGED <<now, shardVars, gate, wlock, req, t0, ptr, todo, found, rec, replayed>>

\* ErrNotInteger: not a number, or the sum overflows.
RmwRefuse(p) ==
    /\ pc[p] = "calc"
    /\ Computed(p) = Err
    /\ attached' = attached \ {p}
    /\ gate' = NoClient
    /\ Return(p)
    /\ UNCHANGED <<now, data, expiring, used, wlock, found, replayed>>

-----------------------------------------------------------------------------
(***************************************************************************)
(* EnforceMemoryLimit's loop, under the gate: pick any key, release the    *)
(* read lock, delete whatever is under it, journal the DEL, go round       *)
(* again.  The loop ends when the budget is met or the policy finds no     *)
(* victim; sizes and policies are not told apart here.                     *)
(***************************************************************************)
pickVictim(p) ==
    /\ pc[p] = "pick"
    /\ \E k \in Keys : /\ ShardFree(k)
                      /\ data[k] # Absent
                      /\ req' = [req EXCEPT ![p].key = k]
    /\ Goto(p, "evict")
    /\ UNCHANGED <<now, shardVars, gate, wlock, t0, ptr, new, todo, found, rec, replayed>>

Evict(p) ==
    LET k == req[p].key IN
      /\ pc[p] = "evict"
      /\ ShardFree(k)
      /\ deleteLockedInWriteLockedShard(k)
      /\ rec' = [rec EXCEPT ![p][k] = DelEffect]
      /\ Goto(p, "evicted")
      /\ UNCHANGED <<now, gate, wlock, cmdVars, replayed>>

EvictAppend(p) ==
    /\ pc[p] = "evicted"
    /\ propagate(rec[p])
    /\ rec' = [rec EXCEPT ![p] = NoRecord]
    /\ Goto(p, "pick")
    /\ UNCHANGED <<now, shardVars, gate, wlock, cmdVars>>

EvictDone(p) ==
    /\ pc[p] = "pick"
    /\ gate' = NoClient
    /\ Return(p)
    /\ UNCHANGED <<now, shardVars, wlock, found, replayed>>

\* The record that the next step of p passes to propagate, if any.
Journals(p) ==
    LET k == req[p].key IN
      CASE pc[p] \in {"append", "commit", "evicted"} -> rec[p]
        [] pc[p] = "stamp" -> [NoRecord EXCEPT ![k] = StampEffect(unixMillis(req[p].exp))]
        [] pc[p] = "deadline" /\ data[k] # Absent /\ ~(Live(data[k], t0[p]) /\ req[p].exp > t0[p])
             -> [NoRecord EXCEPT ![k] = DelEffect]
        [] OTHER -> NoRecord

-----------------------------------------------------------------------------
(***************************************************************************)
(* The background sampler collects, shard by shard, any indexed key that   *)
(* is expired (or not there); nothing is journalled.  And time passes.     *)
(***************************************************************************)
expireSample(k) ==
    /\ ShardFree(k)
    /\ k \in expiring
    /\ data[k] = Absent \/ Gone(data[k], now)
    /\ deleteLockedInWriteLockedShard(k)
    /\ UNCHANGED <<now, gate, wlock, pc, cmdVars, rec, replayed>>

Tick ==
    /\ now < MaxTime
    /\ now' = now + 1
    /\ UNCHANGED <<shardVars, gate, wlock, pc, cmdVars, rec, replayed>>

Step(p) ==
    \/ lockDurableMutation(p)
    \/ \E k \in Keys : Get(p, k) \/ Exists(p, k) \/ Batch(p, k)
    \/ GetCollect(p)
    \/ setLocked(p) \/ propagateSetLocked(p)
    \/ lockWriteShards(p) \/ BatchCommit(p) \/ unlockWriteShards(p)
    \/ ExpireAtGone(p) \/ ExpireAtBegin(p) \/ ExpireAtEnd(p)
    \/ RmwPeek(p) \/ RmwCheck(p) \/ RmwDrop(p) \/ RmwCalc(p) \/ RmwRefuse(p)
    \/ pickVictim(p) \/ Evict(p) \/ EvictAppend(p) \/ EvictDone(p)

Next ==
    \/ \E p \in Clients : Call(p) \/ Step(p)
    \/ \E k \in Keys : expireSample(k)
    \/ Tick

Spec == Init /\ [][Next]_vars

\* sync.Mutex and sync.RWMutex do not starve a waiter (a waiting Lock excludes new
\* readers, a starving Lock is handed the mutex), so a client that can proceed again
\* and again does.  Nothing obliges a client to send a command.
FairSpec == Spec /\ \A p \in Clients : SF_vars(Step(p))

-----------------------------------------------------------------------------
(***************************************************************************)
(* Properties.                                                             *)
(***************************************************************************)

\* The volatile-key index of the shards holds exactly the keys with a deadline,
\* whatever the order in which SET, MSET, EXPIREAT, lazy and active expiry, INCR and
\* eviction touched them: the sampler and volatile-lru look nowhere else.
IndexExact == \A k \in Keys : k \in expiring <=> data[k] # Absent /\ data[k].exp # Never

\* When Increment or Append is about to store, the entry it overwrites is the very
\* entry it read, deadline included; a key that is gone by then was never there or has
\* expired.  In other words the unlocked window of a read-modify-write loses nothing.
RmwAtomic ==
    \A p \in Clients :
      pc[p] = "apply" /\ req[p].op \in RMW =>
        LET k == req[p].key IN
          IF data[k] = Absent THEN ptr[p] = Absent \/ Expired(ptr[p], now)
                              ELSE p \in attached /\ new[p].exp = data[k].exp

\* No client dereferences the deadline of an entry (Increment and Append do, with no
\* shard lock held) while ExpireAt is overwriting that very field.
NoTornDeadline ==
    \A p, q \in Clients :
      ~ /\ pc[p] \in {"check", "calc"} /\ p \in attached
        /\ pc[q] = "stamp" /\ req[q].key = req[p].key

\* The part of the journal record under construction that concerns k.
Pending(k) == IF gate = NoClient THEN NoEffect ELSE rec[gate][k]

\* A restart never invents data: whatever replaying the journal at any later time
\* brings back under a key that no command is in the middle of changing is exactly what
\* the store holds there, value and (millisecond) deadline, although expirations are
\* not journalled and records are appended after the shard lock is released.
ReplayNeverInvents ==
    \A t \in Times, k \in Keys :
      t >= now /\ Pending(k) = NoEffect /\ replayed[t][k] # Absent =>
        data[k] # Absent /\ replayed[t][k] = Journalled(data[k])

\* A key without a deadline survives every restart.
PersistentKeysSurvive ==
    \A t \in Times, k \in Keys :
      t >= now /\ Pending(k) = NoEffect /\ data[k] # Absent /\ data[k].exp = Never =>
        replayed[t][k] = data[k]

\* What the log is documented to give: replaying it at any time brings back every key
\* that would be alive at that time.
ReplayKeepsLiveKeys ==
    \A t \in Times, k \in Keys :
      t >= now /\ Pending(k) = NoEffect /\ Live(data[k], t) =>
        replayed[t][k] = Journalled(data[k])

\* The shards whose locks p may be waiting for: a reader's in some order, all of them for
\* EnforceMemoryLimit, which adds up their sizes, a batch's lowest that is still missing.
Awaited(p) ==
    CASE pc[p] = "read" -> {ShardOf[k] : k \in todo[p]}
      [] pc[p] \in {"collect", "apply", "deadline", "peek", "drop", "evict"} -> {ShardOf[req[p].key]}
      [] pc[p] = "lock" -> {s \in Missing(p) : \A r \in Missing(p) : s <= r}
      [] pc[p] = "pick" -> Shards
      [] OTHER -> {}

Blocked(p) ==
    \/ pc[p] = "gate" /\ gate # NoClient
    \/ \E s \in Awaited(p) : wlock[s] # NoClient

\* Whatever batches, deadlines and evictions are under way on whatever shards, they never
\* all wait for each other: if there are commands, one of them waits for no lock.
NoDeadlock ==
    (\E p \in Clients : pc[p] # "idle") => \E p \in Clients : pc[p] # "idle" /\ ~Blocked(p)

\* Locks are all that a command ever waits for; in particular it never waits for a shard
\* that it has locked itself.
OnlyLocksBlock == \A p \in Clients : pc[p] # "idle" /\ ~Blocked(p) => ENABLED Step(p)

\* Every command that was sent returns: nobody waits for ever for the gate or for a
\* shard, whatever batches the other clients lock.
CallsReturn == \A p \in Clients : pc[p] # "idle" ~> pc[p] = "idle"
=============================================================================
