---------------------------- MODULE StoreProofs -----------------------------
(***************************************************************************)
(* Proofs about Store, for every set of keys, values, clients and shards,  *)
(* every clock resolution and every set of requests.                       *)
(***************************************************************************)
EXTENDS Store, TLAPS

-----------------------------------------------------------------------------
(***************************************************************************)
(* Deadlines, entries and the replay of one record.                        *)
(***************************************************************************)

\* unixMillis rounds a deadline down, and never below the first millisecond.
LEMMA MillisType ==
  ASSUME NEW d \in Deadlines
  PROVE  unixMillis(d) \in Deadlines /\ unixMillis(d) <= d /\ unixMillis(d) # Never
<1> DEFINE m == d % Res
           q == d \div Res
<1>1. Res \in Nat /\ Res > 0 /\ MaxTime \in Nat /\ d \in Nat /\ Res <= d /\ d <= MaxTime
  BY KeyspaceAssumption DEF Deadlines, Times
<1>2. m \in 0 .. Res - 1 /\ q \in Int
  BY <1>1
<1>3. d = Res * q + m
  BY <1>1
<1>4. Res * q >= Res
  <2>1. q >= 1
    <3> SUFFICES ASSUME q <= 0 PROVE FALSE
      BY <1>2
    <3> QED BY <1>1, <1>2, <1>3
  <2> QED BY <1>1, <1>2, <2>1
<1> QED BY <1>1, <1>2, <1>3, <1>4 DEF unixMillis, Deadlines, Times, Never

\* The journal's form of an entry is an entry: truncating a deadline to milliseconds
\* keeps it a deadline.
LEMMA JournalledType ==
  ASSUME NEW e \in Entry
  PROVE  /\ Journalled(e) \in Entry
         /\ Journalled(e).val = e.val
         /\ e.exp = Never => Journalled(e) = e
         /\ e.exp # Never => Journalled(e).exp = unixMillis(e.exp)
BY MillisType DEF Journalled, Entry

\* A missing key is not mistaken for an entry.
LEMMA AbsentNotEntry == \A e \in Entry : e # Absent
BY KeyspaceAssumption

\* What replaying a record at time t leaves is never expired at t.
LEMMA ReplayKeyType ==
  ASSUME NEW f \in Effect, NEW e \in Slot, NEW t \in Times
  PROVE  ReplayKey(f, e, t) \in Slot
<1>1. CASE f = NoEffect
  BY <1>1 DEF ReplayKey, NoEffect
<1>2. CASE f = DelEffect
  BY <1>2 DEF ReplayKey, DelEffect, Slot
<1>3. CASE f \in [do : {"put"}, entry : Entry]
  BY <1>3 DEF ReplayKey, Slot
<1>4. CASE f \in [do : {"stamp"}, exp : Deadlines]
  BY <1>4 DEF ReplayKey, Slot, Live, Entry
<1> QED BY <1>1, <1>2, <1>3, <1>4 DEF Effect

\* Replay never leaves an expired entry behind: what a record makes of an unexpired slot
\* is not expired at the time of the replay.
LEMMA ReplayKeyFresh ==
  ASSUME NEW f \in Effect, NEW e \in Slot, NEW t \in Times,
         e # Absent => ~Expired(e, t),
         ReplayKey(f, e, t) # Absent
  PROVE  ~Expired(ReplayKey(f, e, t), t)
<1>1. CASE f = NoEffect
  BY <1>1 DEF ReplayKey, NoEffect
<1>2. CASE f = DelEffect
  BY <1>2 DEF ReplayKey, DelEffect
<1>3. CASE f \in [do : {"put"}, entry : Entry]
  BY <1>3 DEF ReplayKey
<1>4. CASE f \in [do : {"stamp"}, exp : Deadlines]
  <2>1. Live(e, t) /\ f.exp > t /\ ReplayKey(f, e, t) = [e EXCEPT !.exp = f.exp]
    BY <1>4 DEF ReplayKey
  <2>2. ReplayKey(f, e, t).exp = f.exp
    BY <2>1 DEF Live, Slot, Entry
  <2> QED BY <2>1, <2>2, <1>4, KeyspaceAssumption DEF Expired, Deadlines, Times
<1> QED BY <1>1, <1>2, <1>3, <1>4 DEF Effect

-----------------------------------------------------------------------------
(***************************************************************************)
(* The shape of a command in progress, and who holds which lock.           *)
(***************************************************************************)
Building == {"append", "body", "commit", "evicted"}
Gated    == Building \cup {"apply", "lock", "deadline", "stamp", "peek", "check", "drop",
                           "calc", "pick", "evict"}

CmdShape(p) ==
    /\ t0[p] <= now
    /\ todo[p] \subseteq req[p].keys
    /\ req[p].op = "EXPIREAT" => req[p].exp # Never
    /\ pc[p] \in {"deadline", "stamp"} => req[p].op = "EXPIREAT"
    /\ pc[p] \in {"lock", "body", "commit"} => req[p].op \in Batches
    /\ pc[p] \in {"peek", "check", "drop", "calc"} => req[p].op \in RMW
    /\ pc[p] \in {"check", "drop"} => ptr[p] # Absent
    /\ pc[p] = "apply" => new[p] # Absent /\ req[p].op \in RMW \cup {"SET"}
    /\ pc[p] \notin Building => rec[p] = NoRecord

CmdLocks(p) ==
    /\ pc[p] = "stamp" => /\ wlock[ShardOf[req[p].key]] = p
                          /\ data[req[p].key] # Absent
    /\ pc[p] \in {"body", "commit"} => \A k \in req[p].keys : wlock[ShardOf[k]] = p

Shape == \A p \in Clients : CmdShape(p)
Locks == \A p \in Clients : CmdLocks(p)

Base == TypeOK /\ Shape /\ Locks

\* An idle client's placeholders are well typed, and every key has a shard.
LEMMA StoreTypes ==
  /\ NoRequest \in Requests
  /\ NoRequest \in Request
  /\ NoRecord \in Record
  /\ Res \in Times
  /\ \A k \in Keys : ShardOf[k] \in Shards
<1>1. NoRequest \in Requests
  BY StoreAssumption DEF NoRequest
<1>2. NoRecord \in Record
  BY DEF NoRecord, Record, Effect
<1> QED BY <1>1, <1>2, StoreAssumption, KeyspaceAssumption DEF Times

\* SetWithDeadline's turning into Del yields a request.
LEMMA EffectiveType ==
  ASSUME NEW r \in Requests, NEW t \in Times
  PROVE  /\ Effective(r, t) \in Request
         /\ Effective(r, t).op = "EXPIREAT" => Effective(r, t).exp # Never
<1>1. r \in Request /\ (r.op = "EXPIREAT" => r.exp # Never)
  BY StoreAssumption
<1> QED BY Zenon, <1>1 DEF Effective, Request, Ops, Batches

-----------------------------------------------------------------------------
(***************************************************************************)
(* Type correctness.                                                       *)
(***************************************************************************)
ShardTypes == /\ data \in [Keys -> Slot]
              /\ expiring \subseteq Keys
              /\ used \in [Shards -> Int]
              /\ attached \subseteq Clients

CmdTypes == /\ pc \in [Clients -> PCs]
            /\ req \in [Clients -> Request]
            /\ t0 \in [Clients -> Times]
            /\ ptr \in [Clients -> Slot]
            /\ new \in [Clients -> Slot]
            /\ todo \in [Clients -> SUBSET Keys]
            /\ rec \in [Clients -> Record]

\* A slot's size is an integer.
LEMMA SizeAtType ==
  ASSUME TypeOK, NEW k \in Keys
  PROVE  SizeAt(k) \in Int
BY StoreAssumption DEF TypeOK, SizeAt, Slot, Entry

\* So is the size of every entry that could be stored.
LEMMA SizeType ==
  ASSUME NEW k \in Keys, NEW e \in Entry
  PROVE  Size[<<k, e.val>>] \in Int
BY StoreAssumption DEF Entry

\* setLockedInWriteLockedShard keeps the types of the shard's maps and counters.
LEMMA SetType ==
  ASSUME TypeOK, NEW k \in Keys, NEW e \in Entry, setLockedInWriteLockedShard(k, e)
  PROVE  ShardTypes'
<1>1. SizeAt(k) \in Int /\ Size[<<k, e.val>>] \in Int
  BY SizeAtType, SizeType
<1>2. used' \in [Shards -> Int]
  BY <1>1, StoreTypes DEF TypeOK, setLockedInWriteLockedShard
<1> QED BY <1>2 DEF TypeOK, ShardTypes, setLockedInWriteLockedShard, Slot

\* deleteLockedInWriteLockedShard keeps the types of the shard's maps and counters.
LEMMA DelType ==
  ASSUME TypeOK, NEW k \in Keys, deleteLockedInWriteLockedShard(k)
  PROVE  ShardTypes'
<1>1. used' \in [Shards -> Int]
  BY SizeAtType, StoreTypes DEF TypeOK, deleteLockedInWriteLockedShard
<1> QED BY <1>1 DEF TypeOK, ShardTypes, deleteLockedInWriteLockedShard, Slot

\* Appending a record keeps the type of what a restart rebuilds.
LEMMA PropagateType ==
  ASSUME TypeOK, NEW r \in Record, propagate(r)
  PROVE  replayed' \in [Times -> [Keys -> Slot]]
<1>1. ASSUME NEW t \in Times
      PROVE  applyLogged(r, replayed[t], t) \in [Keys -> Slot]
  <2>1. \A k \in Keys : r[k] \in Effect /\ replayed[t][k] \in Slot
    BY <1>1 DEF TypeOK, Record
  <2> QED BY <2>1, <1>1, ReplayKeyType DEF applyLogged
<1> QED BY <1>1 DEF TypeOK, propagate

\* A command that returns leaves well-typed locals.
LEMMA ReturnType ==
  ASSUME TypeOK, NEW p \in Clients, Return(p)
  PROVE  CmdTypes'
BY StoreTypes DEF TypeOK, Return, Finish, Goto, CmdTypes, PCs, Slot

\* Changing one client's set of keys keeps the function well typed.
LEMMA SubsetUpdate ==
  ASSUME NEW f \in [Clients -> SUBSET Keys], NEW p \in Clients, NEW k \in Keys
  PROVE  /\ [f EXCEPT ![p] = f[p] \ {k}] \in [Clients -> SUBSET Keys]
         /\ [f EXCEPT ![p] = f[p] \cup {k}] \in [Clients -> SUBSET Keys]
<1>1. f[p] \ {k} \in SUBSET Keys /\ f[p] \cup {k} \in SUBSET Keys
  OBVIOUS
<1> QED BY <1>1

\* Remembering a key in a client's request keeps it a request.
LEMMA KeyUpdate ==
  ASSUME TypeOK, NEW p \in Clients, NEW k \in Keys
  PROVE  [req EXCEPT ![p].key = k] \in [Clients -> Request]
<1>1. req[p] \in Request
  BY DEF TypeOK
<1>2. [req[p] EXCEPT !.key = k] \in Request
  BY <1>1 DEF Request
<1> QED BY <1>2 DEF TypeOK

\* Advancing MGET or EXISTS to its next key keeps the locals well typed.
LEMMA NextKeyType ==
  ASSUME TypeOK, NEW p \in Clients, NEW k \in Keys, NextKey(p, k)
  PROVE  CmdTypes'
<1>1. CASE todo[p] = {k}
  BY <1>1, ReturnType DEF NextKey
<1>2. CASE todo[p] # {k}
  <2>1. todo' = [todo EXCEPT ![p] = todo[p] \ {k}]
    BY <1>2 DEF NextKey, TypeOK
  <2>2. todo' \in [Clients -> SUBSET Keys]
    BY <2>1, SubsetUpdate DEF TypeOK
  <2>3. t0' \in [Clients -> Times]
    BY Zenon, <1>2 DEF NextKey, TypeOK
  <2> QED BY <1>2, <2>2, <2>3 DEF NextKey, TypeOK, CmdTypes, Goto, PCs
<1> QED BY <1>1, <1>2

\* The records the commands build are records.
LEMMA EffectTypes ==
  /\ NoEffect \in Effect /\ DelEffect \in Effect
  /\ \A e \in Entry : PutEffect(e) \in Effect
  /\ \A d \in Deadlines : StampEffect(d) \in Effect
BY DEF Effect, PutEffect, StampEffect

\* Increment and Append compute an entry, with the old deadline or with none.
LEMMA CalcEntry ==
  ASSUME TypeOK, NEW p \in Clients, CmdShape(p), RmwCalc(p)
  PROVE  \E e \in Entry : /\ new' = [new EXCEPT ![p] = e]
                          /\ e.exp \in IF ptr[p] = Absent THEN {Never} ELSE DeadlineSeen(p)
<1>1. PICK d \in IF ptr[p] = Absent THEN {Never} ELSE DeadlineSeen(p) :
        new' = [new EXCEPT ![p] = [val |-> Computed(p), exp |-> d]]
  BY Zenon DEF RmwCalc
<1>2. d \in Deadlines \cup {Never}
  BY <1>1 DEF DeadlineSeen, TypeOK, Slot, Entry
<1>3. Computed(p) \in Vals
  <2>1. req[p].op \in RMW /\ req[p].vals[req[p].key] \in Vals
    BY DEF RmwCalc, CmdShape, TypeOK, Request
  <2>2. ptr[p] # Absent => ptr[p].val \in Vals
    BY DEF TypeOK, Slot, Entry
  <2> QED BY <2>1, <2>2, StoreAssumption DEF RmwCalc, Computed
<1>4. [val |-> Computed(p), exp |-> d] \in Entry
  BY <1>2, <1>3 DEF Entry
<1>5. [val |-> Computed(p), exp |-> d].exp = d
  OBVIOUS
<1> QED BY Zenon, <1>1, <1>4, <1>5

\* Every step of a client, of the sampler and of the clock keeps the types.
LEMMA TypeStep ==
  ASSUME Base, [Next]_vars
  PROVE  TypeOK'
<1> USE DEF Base
<1>1. ASSUME NEW p \in Clients, Call(p) PROVE TypeOK'
  <2>1. PICK r \in Requests :
          /\ req' = [req EXCEPT ![p] = Effective(r, now)]
          /\ todo' = [todo EXCEPT ![p] = Effective(r, now).keys]
          /\ Goto(p, IF r.op \in Reads THEN "read" ELSE "gate")
    BY Zenon, <1>1 DEF Call
  <2>2. Effective(r, now) \in Request
    BY EffectiveType DEF TypeOK
  <2>3. req' \in [Clients -> Request] /\ todo' \in [Clients -> SUBSET Keys]
    BY <2>1, <2>2 DEF TypeOK, Request
  <2>4. pc' \in [Clients -> PCs]
    BY <2>1 DEF TypeOK, Goto, PCs
  <2> QED BY <1>1, <2>3, <2>4 DEF Call, TypeOK, shardVars
<1>2. ASSUME NEW p \in Clients, lockDurableMutation(p) PROVE TypeOK'
  <2>1. new' \in [Clients -> Slot]
    BY <1>2 DEF TypeOK, lockDurableMutation, Request, Slot, Entry
  <2>2. pc' \in [Clients -> PCs]
    BY <1>2 DEF TypeOK, lockDurableMutation, Goto, PCs
  <2> QED BY <1>2, <2>1, <2>2 DEF TypeOK, lockDurableMutation, shardVars
<1>3. ASSUME NEW p \in Clients, NEW k \in Keys, Get(p, k) PROVE TypeOK'
  <2>1. CASE Gone(data[k], t0[p])
    <3>1. req' = [req EXCEPT ![p].key = k]
      BY <1>3, <2>1 DEF Get
    <3>2. req' \in [Clients -> Request]
      BY <3>1, KeyUpdate
    <3> QED BY Zenon, <1>3, <2>1, <3>2 DEF TypeOK, Get, Goto, PCs, shardVars
  <2>2. CASE ~Gone(data[k], t0[p])
    <3>1. CmdTypes'
      BY <1>3, <2>2, NextKeyType DEF Get
    <3>2. found' = found \/ found' = [found EXCEPT ![p] = found[p] \cup {k}]
      BY <1>3, <2>2 DEF Get
    <3>3. found' \in [Clients -> SUBSET Keys]
      <4>1. [found EXCEPT ![p] = found[p] \cup {k}] \in [Clients -> SUBSET Keys]
        BY SubsetUpdate DEF TypeOK
      <4> QED BY Zenon, <3>2, <4>1 DEF TypeOK
    <3> QED BY <1>3, <3>1, <3>3 DEF TypeOK, CmdTypes, Get, shardVars
  <2> QED BY <2>1, <2>2
<1>4. ASSUME NEW p \in Clients, GetCollect(p) PROVE TypeOK'
  <2> DEFINE k == req[p].key
  <2>1. k \in Keys
    BY DEF TypeOK, Request
  <2>2. CmdTypes'
    BY <1>4, <2>1, NextKeyType DEF GetCollect
  <2>3. ShardTypes'
    <3>1. CASE Gone(data[k], now)
      BY <1>4, <2>1, <3>1, DelType DEF GetCollect
    <3>2. CASE ~Gone(data[k], now)
      BY <1>4, <3>2 DEF GetCollect, shardVars, ShardTypes, TypeOK
    <3> QED BY <3>1, <3>2
  <2> QED BY <1>4, <2>2, <2>3 DEF TypeOK, CmdTypes, ShardTypes, GetCollect
<1>5. ASSUME NEW p \in Clients, NEW k \in Keys, Exists(p, k) PROVE TypeOK'
  <2>1. CmdTypes'
    BY <1>5, NextKeyType DEF Exists
  <2> QED BY <1>5, <2>1 DEF TypeOK, CmdTypes, Exists, shardVars
<1>6. ASSUME NEW p \in Clients, setLocked(p) PROVE TypeOK'
  <2> DEFINE k == req[p].key
  <2>1. k \in Keys /\ new[p] \in Entry
    BY <1>6 DEF TypeOK, Request, Shape, CmdShape, setLocked, Slot
  <2>2. ShardTypes'
    BY <1>6, <2>1, SetType DEF setLocked
  <2>3. PutEffect(Journalled(new[p])) \in Effect
    BY <2>1, JournalledType, EffectTypes
  <2>4. rec' \in [Clients -> Record]
    BY <1>6, <2>1, <2>3 DEF setLocked, TypeOK, Record
  <2> QED BY <1>6, <2>2, <2>4 DEF TypeOK, setLocked, ShardTypes, Goto, PCs, cmdVars
<1>7. ASSUME NEW p \in Clients, propagateSetLocked(p) PROVE TypeOK'
  <2>1. CmdTypes'
    BY <1>7, ReturnType DEF propagateSetLocked
  <2>2. replayed' \in [Times -> [Keys -> Slot]]
    BY <1>7, PropagateType DEF propagateSetLocked, TypeOK
  <2> QED BY <1>7, <2>1, <2>2 DEF TypeOK, CmdTypes, propagateSetLocked, shardVars
<1>8. ASSUME NEW p \in Clients, lockWriteShards(p) PROVE TypeOK'
  <2>1. PICK s \in Missing(p) : /\ wlock' = [wlock EXCEPT ![s] = p]
                                /\ Goto(p, IF Missing(p) = {s} THEN "body" ELSE "lock")
    BY Zenon, <1>8 DEF lockWriteShards
  <2> QED BY Zenon, <1>8, <2>1 DEF TypeOK, lockWriteShards, Goto, PCs, cmdVars, shardVars
<1>9. ASSUME NEW p \in Clients, NEW k \in Keys, Batch(p, k) PROVE TypeOK'
  <2>1. ShardTypes' /\ rec' \in [Clients -> Record] /\ found' \in [Clients -> SUBSET Keys]
    <3>1. CASE req[p].op = "MSET"
      <4> DEFINE e == [val |-> req[p].vals[k], exp |-> Never]
      <4>1. e \in Entry
        BY DEF TypeOK, Request, Entry
      <4>2. setLockedInWriteLockedShard(k, e) /\ rec' = [rec EXCEPT ![p][k] = PutEffect(e)]
            /\ UNCHANGED found
        BY <1>9, <3>1 DEF Batch, MSetKey
      <4>3. rec' \in [Clients -> Record]
        BY <4>1, <4>2, EffectTypes DEF TypeOK, Record
      <4> QED BY <4>1, <4>2, <4>3, SetType DEF TypeOK
    <3>2. CASE req[p].op # "MSET" /\ data[k] = Absent
      BY <1>9, <3>2 DEF Batch, DelKey, TypeOK, ShardTypes, shardVars
    <3>3. CASE req[p].op # "MSET" /\ data[k] # Absent
      <4>1. deleteLockedInWriteLockedShard(k) /\ rec' = [rec EXCEPT ![p][k] = DelEffect]
        BY <1>9, <3>3 DEF Batch, DelKey
      <4>2. rec' \in [Clients -> Record]
        BY <4>1, EffectTypes DEF TypeOK, Record
      <4>3. found' = found \/ found' = [found EXCEPT ![p] = found[p] \cup {k}]
        BY <1>9, <3>3 DEF Batch, DelKey
      <4>4. found' \in [Clients -> SUBSET Keys]
        <5>1. [found EXCEPT ![p] = found[p] \cup {k}] \in [Clients -> SUBSET Keys]
          BY SubsetUpdate DEF TypeOK
        <5> QED BY Zenon, <4>3, <5>1 DEF TypeOK
      <4> QED BY <4>1, <4>2, <4>4, DelType
    <3> QED BY <3>1, <3>2, <3>3
  <2> QED BY Zenon, <1>9, <2>1 DEF TypeOK, ShardTypes, Batch, Goto, PCs
<1>10. ASSUME NEW p \in Clients, BatchCommit(p) PROVE TypeOK'
  <2>1. replayed' \in [Times -> [Keys -> Slot]]
    BY <1>10, PropagateType DEF BatchCommit, TypeOK
  <2> QED BY <1>10, <2>1, StoreTypes DEF TypeOK, BatchCommit, Goto, PCs, shardVars, cmdVars
<1>11. ASSUME NEW p \in Clients, unlockWriteShards(p) PROVE TypeOK'
  <2>1. PICK s \in Held(p) :
          /\ wlock' = [wlock EXCEPT ![s] = NoClient]
          /\ IF Held(p) = {s} THEN Return(p) ELSE UNCHANGED <<pc, req, t0, ptr, new, todo, rec>>
    BY Zenon, <1>11 DEF unlockWriteShards
  <2>2. CmdTypes'
    <3>1. CASE Held(p) = {s}
      BY <2>1, <3>1, ReturnType
    <3>2. CASE Held(p) # {s}
      BY <2>1, <3>2 DEF TypeOK, CmdTypes
    <3> QED BY <3>1, <3>2
  <2> QED BY Zenon, <1>11, <2>1, <2>2 DEF TypeOK, CmdTypes, unlockWriteShards, shardVars
<1>12. ASSUME NEW p \in Clients, ExpireAtGone(p) PROVE TypeOK'
  <2> DEFINE k == req[p].key
  <2>1. k \in Keys
    BY DEF TypeOK, Request
  <2>2. CmdTypes'
    BY <1>12, ReturnType DEF ExpireAtGone
  <2>3. [NoRecord EXCEPT ![k] = DelEffect] \in Record
    BY Zenon, StoreTypes, EffectTypes DEF Record
  <2>4. ShardTypes' /\ replayed' \in [Times -> [Keys -> Slot]]
    <3>1. CASE UNCHANGED <<shardVars, replayed>>
      BY <3>1 DEF TypeOK, ShardTypes, shardVars
    <3>2. CASE deleteLockedInWriteLockedShard(k) /\ propagate([NoRecord EXCEPT ![k] = DelEffect])
      BY <2>1, <2>3, <3>2, DelType, PropagateType
    <3> QED BY Zenon, <1>12, <3>1, <3>2 DEF ExpireAtGone
  <2> QED BY <1>12, <2>2, <2>4 DEF TypeOK, CmdTypes, ShardTypes, ExpireAtGone
<1>13. ASSUME NEW p \in Clients, ExpireAtBegin(p) PROVE TypeOK'
  BY Zenon, <1>13 DEF TypeOK, ExpireAtBegin, Goto, PCs, shardVars, cmdVars
<1>14. ASSUME NEW p \in Clients, ExpireAtEnd(p) PROVE TypeOK'
  <2> DEFINE k == req[p].key
  <2>1. k \in Keys /\ data[k] \in Entry /\ req[p].exp \in Deadlines
    BY <1>14 DEF TypeOK, Request, Shape, CmdShape, Locks, CmdLocks, ExpireAtEnd, Slot
  <2>2. data' \in [Keys -> Slot]
    BY Zenon, <1>14, <2>1 DEF ExpireAtEnd, TypeOK, Slot, Entry
  <2>3. StampEffect(unixMillis(req[p].exp)) \in Effect
    BY <2>1, MillisType, EffectTypes
  <2>4. [NoRecord EXCEPT ![k] = StampEffect(unixMillis(req[p].exp))] \in Record
    BY Zenon, <2>3, StoreTypes DEF Record
  <2>5. replayed' \in [Times -> [Keys -> Slot]]
    BY <1>14, <2>4, PropagateType DEF ExpireAtEnd
  <2>6. ptr' \in [Clients -> Slot]
    BY Zenon, <1>14, <2>1, <2>2 DEF ExpireAtEnd, TypeOK
  <2> QED BY Zenon, <1>14, <2>1, <2>2, <2>5, <2>6, StoreTypes
          DEF ExpireAtEnd, TypeOK, Finish, Goto, PCs, Slot
<1>15. ASSUME NEW p \in Clients, RmwPeek(p) PROVE TypeOK'
  BY <1>15 DEF TypeOK, RmwPeek, Goto, PCs, Request
<1>16. ASSUME NEW p \in Clients, RmwCheck(p) PROVE TypeOK'
  BY <1>16 DEF TypeOK, RmwCheck, Goto, PCs, shardVars, cmdVars
<1>17. ASSUME NEW p \in Clients, RmwDrop(p) PROVE TypeOK'
  <2>1. ShardTypes'
    BY <1>17, DelType DEF RmwDrop, TypeOK, Request
  <2> QED BY <1>17, <2>1 DEF TypeOK, ShardTypes, RmwDrop, Goto, PCs, Slot
<1>18. ASSUME NEW p \in Clients, RmwCalc(p) PROVE TypeOK'
  <2>1. new' \in [Clients -> Slot]
    BY <1>18, CalcEntry DEF Shape, TypeOK, Slot
  <2> QED BY <1>18, <2>1 DEF TypeOK, RmwCalc, Goto, PCs, shardVars
<1>19. ASSUME NEW p \in Clients, RmwRefuse(p) PROVE TypeOK'
  <2>1. CmdTypes'
    BY <1>19, ReturnType DEF RmwRefuse
  <2> QED BY <1>19, <2>1 DEF TypeOK, CmdTypes, RmwRefuse
<1>20. ASSUME NEW p \in Clients, pickVictim(p) PROVE TypeOK'
  <2>1. req' \in [Clients -> Request]
    BY <1>20, KeyUpdate DEF pickVictim
  <2> QED BY <1>20, <2>1 DEF TypeOK, pickVictim, Goto, PCs, shardVars
<1>21. ASSUME NEW p \in Clients, Evict(p) PROVE TypeOK'
  <2>1. req[p].key \in Keys
    BY DEF TypeOK, Request
  <2>2. ShardTypes'
    BY <1>21, <2>1, DelType DEF Evict
  <2>3. rec' \in [Clients -> Record]
    BY <1>21, <2>1, EffectTypes DEF Evict, TypeOK, Record
  <2> QED BY <1>21, <2>2, <2>3 DEF TypeOK, ShardTypes, Evict, Goto, PCs, cmdVars
<1>22. ASSUME NEW p \in Clients, EvictAppend(p) PROVE TypeOK'
  <2>1. replayed' \in [Times -> [Keys -> Slot]]
    BY <1>22, PropagateType DEF EvictAppend, TypeOK
  <2> QED BY <1>22, <2>1, StoreTypes DEF TypeOK, EvictAppend, Goto, PCs, shardVars, cmdVars
<1>23. ASSUME NEW p \in Clients, EvictDone(p) PROVE TypeOK'
  <2>1. CmdTypes'
    BY <1>23, ReturnType DEF EvictDone
  <2> QED BY <1>23, <2>1 DEF TypeOK, CmdTypes, EvictDone, shardVars
<1>24. ASSUME NEW k \in Keys, expireSample(k) PROVE TypeOK'
  <2>1. ShardTypes'
    BY <1>24, DelType DEF expireSample
  <2> QED BY <1>24, <2>1 DEF TypeOK, ShardTypes, expireSample, cmdVars
<1>25. CASE Tick
  BY <1>25, KeyspaceAssumption DEF TypeOK, Tick, Times, shardVars, cmdVars
<1>26. CASE UNCHANGED vars
  BY <1>26 DEF TypeOK, vars, shardVars, cmdVars
<1> QED
  BY <1>1, <1>2, <1>3, <1>4, <1>5, <1>6, <1>7, <1>8, <1>9, <1>10, <1>11, <1>12, <1>13, <1>14,
     <1>15, <1>16, <1>17, <1>18, <1>19, <1>20, <1>21, <1>22, <1>23, <1>24, <1>25, <1>26
  DEF Next, Step

-----------------------------------------------------------------------------
(***************************************************************************)
(* A command in progress keeps its shape.                                  *)
(***************************************************************************)
LEMMA FinishShape ==
  ASSUME TypeOK, NEW p \in Clients, NEW q \in Clients, CmdShape(q), Finish(p), now' = now,
         q # p /\ ptr[q] # Absent => ptr'[q] # Absent
  PROVE  CmdShape(q)'
<1>1. CASE q = p
  <2>1. pc'[q] = "idle" /\ t0'[q] = Res /\ req'[q] = NoRequest /\ todo'[q] = {} /\ rec'[q] = NoRecord
    BY <1>1 DEF Finish, Goto, TypeOK
  <2>2. NoRequest.op = "EXPIREAT" => NoRequest.exp # Never
    BY StoreTypes, StoreAssumption
  <2>3. Res <= now
    BY KeyspaceAssumption DEF TypeOK, Times
  <2> QED BY ZenonT(30), <2>1, <2>2, <2>3 DEF CmdShape, Building
<1>2. CASE q # p
  <2>1. /\ pc'[q] = pc[q] /\ t0'[q] = t0[q] /\ req'[q] = req[q]
        /\ todo'[q] = todo[q] /\ rec'[q] = rec[q] /\ new'[q] = new[q]
    BY <1>2 DEF Finish, Goto, TypeOK
  <2> QED BY <1>2, <2>1 DEF CmdShape
<1> QED BY <1>1, <1>2

\* A command that returns leaves its client idle, with no record under construction.
LEMMA ReturnShape ==
  ASSUME TypeOK, NEW p \in Clients, NEW q \in Clients, CmdShape(q), Return(p), now' = now
  PROVE  CmdShape(q)'
<1>1. q # p => ptr'[q] = ptr[q]
  BY DEF Return, TypeOK
<1> QED BY <1>1, FinishShape DEF Return

\* MGET and EXISTS stay in the reading part of their code until they return.
LEMMA NextKeyShape ==
  ASSUME TypeOK, NEW p \in Clients, NEW k \in Keys, NEW q \in Clients, CmdShape(q),
         NextKey(p, k), now' = now, pc[p] \in {"read", "collect"}
  PROVE  CmdShape(q)'
<1>1. CASE todo[p] = {k}
  BY <1>1, ReturnShape DEF NextKey
<1>2. CASE todo[p] # {k}
  <2>1. t0'[q] <= now
    <3>1. t0'[q] = t0[q] \/ t0'[q] = now
      BY <1>2 DEF NextKey, TypeOK
    <3>2. t0[q] <= now
      BY DEF CmdShape
    <3>3. now \in Int
      BY KeyspaceAssumption DEF TypeOK, Times
    <3> QED BY <3>1, <3>2, <3>3
  <2>2. todo'[q] \subseteq todo[q]
    <3>1. todo' = [todo EXCEPT ![p] = todo[p] \ {k}]
      BY <1>2 DEF NextKey
    <3>2. todo'[q] = todo[q] \/ todo'[q] = todo[q] \ {k}
      BY <3>1 DEF TypeOK
    <3> QED BY <3>2
  <2>3. q = p => pc'[q] = "read" /\ rec[q] = NoRecord
    BY <1>2 DEF NextKey, Goto, TypeOK, CmdShape, Building
  <2>4. q # p => pc'[q] = pc[q]
    BY <1>2 DEF NextKey, Goto, TypeOK
  <2> QED BY <1>2, <2>1, <2>2, <2>3, <2>4 DEF NextKey, CmdShape
<1> QED BY <1>1, <1>2

\* A client's position agrees with the command it runs, after every step.
LEMMA ShapeStep ==
  ASSUME Base, [Next]_vars
  PROVE  Shape'
<1> SUFFICES ASSUME NEW q \in Clients PROVE CmdShape(q)'
  BY DEF Shape
<1> USE DEF Base
<1>0. TypeOK /\ CmdShape(q)
  BY DEF Shape
<1>1. ASSUME NEW p \in Clients, Call(p) PROVE CmdShape(q)'
  <2>1. PICK r \in Requests :
          /\ req' = [req EXCEPT ![p] = Effective(r, now)]
          /\ todo' = [todo EXCEPT ![p] = Effective(r, now).keys]
          /\ Goto(p, IF r.op \in Reads THEN "read" ELSE "gate")
    BY Zenon, <1>1 DEF Call
  <2>2. CASE q = p
    <3>1. /\ req'[q] = Effective(r, now) /\ todo'[q] = Effective(r, now).keys
          /\ pc'[q] \in {"read", "gate"} /\ t0'[q] = now /\ rec'[q] = rec[q] /\ now' = now
      BY <1>1, <2>1, <2>2 DEF Call, Goto, TypeOK
    <3>2. rec[q] = NoRecord
      BY Zenon, <1>0, <1>1, <2>2 DEF Call, CmdShape, Building
    <3>3. Effective(r, now).op = "EXPIREAT" => Effective(r, now).exp # Never
      BY EffectiveType DEF TypeOK
    <3>4. now <= now
      BY DEF TypeOK, Times
    <3> QED BY <3>1, <3>2, <3>3, <3>4 DEF CmdShape
  <2>3. CASE q # p
    BY Zenon, <1>0, <1>1, <2>1, <2>3 DEF Call, CmdShape, Goto, TypeOK
  <2> QED BY <2>2, <2>3
<1>2. ASSUME NEW p \in Clients, lockDurableMutation(p) PROVE CmdShape(q)'
  <2>1. CASE q = p
    <3>1. /\ t0'[q] = t0[q] /\ req'[q] = req[q] /\ todo'[q] = todo[q] /\ rec'[q] = NoRecord
          /\ ptr'[q] = ptr[q] /\ now' = now
      BY <1>0, <1>2, <2>1 DEF lockDurableMutation, CmdShape, Building
    <3>2. /\ pc'[q] = "apply" => req[q].op = "SET"
          /\ pc'[q] \in {"lock", "body", "commit"} => req[q].op \in Batches
          /\ pc'[q] \in {"deadline", "stamp"} => req[q].op = "EXPIREAT"
          /\ pc'[q] \in {"peek", "check", "drop", "calc"} => req[q].op \in RMW
          /\ pc'[q] \notin {"check", "drop"}
      BY <1>2, <2>1 DEF lockDurableMutation, Goto, TypeOK
    <3>3. req[q].op = "SET" => new'[q] = [val |-> req[p].vals[req[p].key], exp |-> req[p].exp]
      BY <1>2, <2>1 DEF lockDurableMutation, TypeOK
    <3>4. [val |-> req[p].vals[req[p].key], exp |-> req[p].exp] \in Entry
      BY DEF TypeOK, Request, Entry
    <3> QED BY <1>0, <3>1, <3>2, <3>3, <3>4, AbsentNotEntry DEF CmdShape
  <2>2. CASE q # p
    BY <1>0, <1>2, <2>2 DEF lockDurableMutation, CmdShape, Goto, TypeOK
  <2> QED BY <2>1, <2>2
<1>3. ASSUME NEW p \in Clients, NEW k \in Keys, Get(p, k) PROVE CmdShape(q)'
  <2>1. CASE Gone(data[k], t0[p])
    <3>1. req'[q].op = req[q].op /\ req'[q].keys = req[q].keys /\ req'[q].exp = req[q].exp
      <4>1. req' = [req EXCEPT ![p].key = k]
        BY <1>3, <2>1 DEF Get
      <4>2. req[p] \in Request
        BY DEF TypeOK
      <4>3. req'[p] = [req[p] EXCEPT !.key = k] /\ (q # p => req'[q] = req[q])
        BY <4>1 DEF TypeOK
      <4> QED BY <4>2, <4>3 DEF Request
    <3>2. /\ q = p => pc[q] = "read" /\ pc'[q] = "collect"
          /\ q # p => pc'[q] = pc[q] /\ req'[q] = req[q]
      BY <1>3, <2>1 DEF Get, Goto, TypeOK
    <3> QED BY <1>0, <1>3, <2>1, <3>1, <3>2 DEF Get, CmdShape, Building
  <2>2. CASE ~Gone(data[k], t0[p])
    BY <1>0, <1>3, <2>2, NextKeyShape DEF Get
  <2> QED BY <2>1, <2>2
<1>4. ASSUME NEW p \in Clients, GetCollect(p) PROVE CmdShape(q)'
  <2>1. req[p].key \in Keys
    BY DEF TypeOK, Request
  <2> QED BY <1>0, <1>4, <2>1, NextKeyShape DEF GetCollect
<1>5. ASSUME NEW p \in Clients, NEW k \in Keys, Exists(p, k) PROVE CmdShape(q)'
  BY <1>0, <1>5, NextKeyShape DEF Exists
<1>6. ASSUME NEW p \in Clients, setLocked(p) PROVE CmdShape(q)'
  BY ZenonT(30), <1>0, <1>6 DEF CmdShape, Building, Goto, TypeOK, cmdVars, shardVars, setLocked
<1>7. ASSUME NEW p \in Clients, propagateSetLocked(p) PROVE CmdShape(q)'
  BY ZenonT(30), <1>0, <1>7, ReturnShape DEF propagateSetLocked
<1>8. ASSUME NEW p \in Clients, lockWriteShards(p) PROVE CmdShape(q)'
  BY Zenon, <1>0, <1>8 DEF CmdShape, Building, Goto, TypeOK, cmdVars, shardVars, lockWriteShards
<1>9. ASSUME NEW p \in Clients, NEW k \in Keys, Batch(p, k) PROVE CmdShape(q)'
  <2>1. /\ todo'[q] \subseteq todo[q]
        /\ q = p => pc[q] = "body" /\ pc'[q] \in {"body", "commit"}
        /\ q # p => pc'[q] = pc[q]
    BY <1>9 DEF Batch, Goto, TypeOK
  <2>2. q # p => rec'[q] = rec[q]
    BY <1>9 DEF Batch, MSetKey, DelKey, TypeOK
  <2> QED BY Zenon, <1>0, <1>9, <2>1, <2>2 DEF Batch, CmdShape, Building
<1>10. ASSUME NEW p \in Clients, BatchCommit(p) PROVE CmdShape(q)'
  BY Zenon, <1>0, <1>10 DEF CmdShape, Building, Goto, TypeOK, cmdVars, shardVars, BatchCommit
<1>11. ASSUME NEW p \in Clients, unlockWriteShards(p) PROVE CmdShape(q)'
  <2>1. CASE Return(p)
    BY <1>0, <1>11, <2>1, ReturnShape DEF unlockWriteShards
  <2>2. CASE UNCHANGED <<pc, req, t0, ptr, new, todo, rec>>
    BY <1>0, <1>11, <2>2 DEF unlockWriteShards, CmdShape
  <2> QED BY <1>11, <2>1, <2>2 DEF unlockWriteShards
<1>12. ASSUME NEW p \in Clients, ExpireAtGone(p) PROVE CmdShape(q)'
  BY ZenonT(30), <1>0, <1>12, ReturnShape DEF ExpireAtGone
<1>13. ASSUME NEW p \in Clients, ExpireAtBegin(p) PROVE CmdShape(q)'
  BY Zenon, <1>0, <1>13 DEF CmdShape, Building, Goto, TypeOK, cmdVars, shardVars, ExpireAtBegin
<1>14. ASSUME NEW p \in Clients, ExpireAtEnd(p) PROVE CmdShape(q)'
  <2>1. req[p].key \in Keys /\ data[req[p].key] \in Entry /\ req[p].exp \in Deadlines
    BY <1>14 DEF TypeOK, Request, Shape, CmdShape, Locks, CmdLocks, ExpireAtEnd, Slot
  <2>2. data'[req[p].key] \in Entry
    BY Zenon, <1>14, <2>1 DEF ExpireAtEnd, TypeOK, Entry
  <2>3. ptr[q] # Absent => ptr'[q] # Absent
    BY <1>14, <2>2, AbsentNotEntry DEF ExpireAtEnd
  <2> QED BY <1>0, <1>14, <2>3, FinishShape DEF ExpireAtEnd
<1>15. ASSUME NEW p \in Clients, RmwPeek(p) PROVE CmdShape(q)'
  BY ZenonT(30), <1>0, <1>15 DEF CmdShape, Building, Goto, TypeOK, cmdVars, shardVars, RmwPeek
<1>16. ASSUME NEW p \in Clients, RmwCheck(p) PROVE CmdShape(q)'
  BY ZenonT(30), <1>0, <1>16 DEF CmdShape, Building, Goto, TypeOK, cmdVars, shardVars, RmwCheck
<1>17. ASSUME NEW p \in Clients, RmwDrop(p) PROVE CmdShape(q)'
  BY ZenonT(30), <1>0, <1>17 DEF CmdShape, Building, Goto, TypeOK, cmdVars, shardVars, RmwDrop
<1>18. ASSUME NEW p \in Clients, RmwCalc(p) PROVE CmdShape(q)'
  <2>1. new'[p] # Absent
    <3>1. PICK e \in Entry : new' = [new EXCEPT ![p] = e]
      BY <1>18, CalcEntry DEF Shape
    <3> QED BY <3>1, AbsentNotEntry DEF TypeOK
  <2>2. /\ q = p => pc[q] = "calc" /\ pc'[q] = "apply"
        /\ q # p => pc'[q] = pc[q] /\ new'[q] = new[q]
    BY <1>18 DEF RmwCalc, Goto, TypeOK
  <2> QED BY <1>0, <1>18, <2>1, <2>2 DEF RmwCalc, CmdShape, Building
<1>19. ASSUME NEW p \in Clients, RmwRefuse(p) PROVE CmdShape(q)'
  BY <1>0, <1>19, ReturnShape DEF RmwRefuse
<1>20. ASSUME NEW p \in Clients, pickVictim(p) PROVE CmdShape(q)'
  BY <1>0, <1>20 DEF CmdShape, Building, Goto, TypeOK, cmdVars, shardVars, pickVictim
<1>21. ASSUME NEW p \in Clients, Evict(p) PROVE CmdShape(q)'
  BY ZenonT(30), <1>0, <1>21 DEF CmdShape, Building, Goto, TypeOK, cmdVars, shardVars, Evict
<1>22. ASSUME NEW p \in Clients, EvictAppend(p) PROVE CmdShape(q)'
  BY Zenon, <1>0, <1>22 DEF CmdShape, Building, Goto, TypeOK, cmdVars, shardVars, EvictAppend
<1>23. ASSUME NEW p \in Clients, EvictDone(p) PROVE CmdShape(q)'
  BY <1>0, <1>23, ReturnShape DEF EvictDone
<1>24. ASSUME NEW k \in Keys, expireSample(k) PROVE CmdShape(q)'
  BY ZenonT(30), <1>0, <1>24 DEF CmdShape, expireSample, cmdVars
<1>25. CASE Tick
  <2>0. t0[q] \in Times /\ now \in Times
    BY <1>0 DEF TypeOK
  <2>1. t0[q] \in Int /\ now \in Int
    BY <2>0, KeyspaceAssumption DEF Times
  <2>2. t0[q] <= now /\ now' = now + 1 /\ UNCHANGED <<pc, req, t0, ptr, new, todo, rec>>
    BY Zenon, <1>0, <1>25 DEF CmdShape, Tick, cmdVars
  <2>3. t0'[q] <= now'
    BY <2>1, <2>2
  <2> QED BY <1>0, <2>2, <2>3 DEF CmdShape
<1>26. CASE UNCHANGED vars
  BY ZenonT(30), <1>0, <1>26 DEF CmdShape, vars, cmdVars
<1> QED
  BY <1>1, <1>2, <1>3, <1>4, <1>5, <1>6, <1>7, <1>8, <1>9, <1>10, <1>11, <1>12, <1>13, <1>14,
     <1>15, <1>16, <1>17, <1>18, <1>19, <1>20, <1>21, <1>22, <1>23, <1>24, <1>25, <1>26
  DEF Next, Step

-----------------------------------------------------------------------------
(***************************************************************************)
(* Shard locks: nobody deletes or replaces an entry that ExpireAt is       *)
(* stamping, and a batch keeps its shards until its record is appended.    *)
(***************************************************************************)
LEMMA SetData ==
  ASSUME TypeOK, NEW k \in Keys, NEW e \in Entry, setLockedInWriteLockedShard(k, e)
  PROVE  data'[k] = e /\ \A j \in Keys \ {k} : data'[j] = data[j]
BY Zenon DEF TypeOK, setLockedInWriteLockedShard

\* A deletion changes the slot of its key only.
LEMMA DelData ==
  ASSUME TypeOK, NEW k \in Keys, deleteLockedInWriteLockedShard(k)
  PROVE  data'[k] = Absent /\ \A j \in Keys \ {k} : data'[j] = data[j]
BY DEF TypeOK, deleteLockedInWriteLockedShard

\* A return moves its own client only.
LEMMA ReturnPc ==
  ASSUME TypeOK, NEW p \in Clients, Finish(p)
  PROVE  /\ pc'[p] = "idle" /\ rec'[p] = NoRecord
         /\ \A q \in Clients \ {p} : pc'[q] = pc[q] /\ req'[q] = req[q] /\ rec'[q] = rec[q]
                                     /\ new'[q] = new[q] /\ t0'[q] = t0[q]
BY DEF TypeOK, Finish, Goto

\* The step to the next key moves its own client only.
LEMMA NextKeyPc ==
  ASSUME TypeOK, NEW p \in Clients, NEW k \in Keys, NextKey(p, k)
  PROVE  /\ pc'[p] \in {"idle", "read"} /\ (rec'[p] = rec[p] \/ rec'[p] = NoRecord)
         /\ \A q \in Clients \ {p} : pc'[q] = pc[q] /\ req'[q] = req[q] /\ rec'[q] = rec[q]
                                     /\ new'[q] = new[q] /\ t0'[q] = t0[q] /\ ptr'[q] = ptr[q]
<1>1. CASE todo[p] = {k}
  BY <1>1, ReturnPc DEF NextKey, Return, TypeOK
<1>2. CASE todo[p] # {k}
  BY <1>2 DEF NextKey, Goto, TypeOK
<1> QED BY <1>1, <1>2

\* Shard write locks are held exactly by the batches and the ExpireAt that took them,
\* after every step.
LEMMA LocksStep ==
  ASSUME Base, [Next]_vars
  PROVE  Locks'
<1> SUFFICES ASSUME NEW q \in Clients PROVE CmdLocks(q)'
  BY DEF Locks
<1> USE DEF Base
<1>0. TypeOK /\ CmdLocks(q) /\ q # NoClient
  BY StoreAssumption DEF Locks
<1>1. ASSUME NEW p \in Clients, Call(p) PROVE CmdLocks(q)'
  <2>1. pc'[p] \in {"read", "gate"} /\ (q # p => pc'[q] = pc[q] /\ req'[q] = req[q])
    BY <1>1 DEF Call, Goto, TypeOK
  <2> QED BY <1>0, <1>1, <2>1 DEF Call, CmdLocks, shardVars
<1>2. ASSUME NEW p \in Clients, lockDurableMutation(p) PROVE CmdLocks(q)'
  <2>1. pc'[p] \notin {"stamp", "body", "commit"} /\ (q # p => pc'[q] = pc[q])
    BY <1>2 DEF lockDurableMutation, Goto, TypeOK
  <2> QED BY <1>0, <1>2, <2>1 DEF lockDurableMutation, CmdLocks, shardVars
<1>3. ASSUME NEW p \in Clients, NEW k \in Keys, Get(p, k) PROVE CmdLocks(q)'
  <2>1. pc'[p] \in {"idle", "read", "collect"} /\ (q # p => pc'[q] = pc[q] /\ req'[q] = req[q])
    BY <1>3, NextKeyPc DEF Get, Goto, TypeOK
  <2> QED BY <1>0, <1>3, <2>1 DEF Get, CmdLocks, shardVars
<1>4. ASSUME NEW p \in Clients, GetCollect(p) PROVE CmdLocks(q)'
  <2>1. req[p].key \in Keys
    BY DEF TypeOK, Request
  <2>2. pc'[p] \in {"idle", "read"} /\ (q # p => pc'[q] = pc[q] /\ req'[q] = req[q])
    BY ZenonT(30), <1>4, <2>1, NextKeyPc DEF GetCollect
  <2>3. \A j \in Keys : j = req[p].key \/ data'[j] = data[j]
    BY ZenonT(30), <1>4, <2>1, DelData DEF GetCollect, shardVars
  <2> QED BY ZenonT(30), <1>0, <1>4, <2>2, <2>3 DEF GetCollect, CmdLocks, ShardFree, TypeOK, Request
<1>5. ASSUME NEW p \in Clients, NEW k \in Keys, Exists(p, k) PROVE CmdLocks(q)'
  <2>1. pc'[p] \in {"idle", "read"} /\ (q # p => pc'[q] = pc[q] /\ req'[q] = req[q])
    BY <1>5, NextKeyPc DEF Exists
  <2> QED BY <1>0, <1>5, <2>1 DEF Exists, CmdLocks, shardVars
<1>6. ASSUME NEW p \in Clients, setLocked(p) PROVE CmdLocks(q)'
  <2>1. pc'[p] = "append" /\ (q # p => pc'[q] = pc[q]) /\ req' = req /\ wlock' = wlock
    BY <1>6 DEF setLocked, Goto, TypeOK, cmdVars
  <2>2. req[p].key \in Keys /\ new[p] \in Entry
    BY <1>6 DEF TypeOK, Request, Shape, CmdShape, setLocked, Slot
  <2>3. \A j \in Keys : j = req[p].key \/ data'[j] = data[j]
    BY <1>6, <2>2, SetData DEF setLocked
  <2> QED BY Zenon, <1>0, <1>6, <2>1, <2>3 DEF setLocked, CmdLocks, ShardFree, TypeOK, Request
<1>7. ASSUME NEW p \in Clients, propagateSetLocked(p) PROVE CmdLocks(q)'
  BY Zenon, <1>0, <1>7, ReturnPc DEF propagateSetLocked, Return, CmdLocks, shardVars
<1>8. ASSUME NEW p \in Clients, lockWriteShards(p) PROVE CmdLocks(q)'
  <2>1. PICK s \in Missing(p) : /\ wlock[s] = NoClient
                                /\ wlock' = [wlock EXCEPT ![s] = p]
                                /\ Goto(p, IF Missing(p) = {s} THEN "body" ELSE "lock")
    BY Zenon, <1>8 DEF lockWriteShards
  <2>2. data' = data /\ req' = req
    BY <1>8 DEF lockWriteShards, shardVars, cmdVars
  <2>3. CASE q = p /\ Missing(p) = {s}
    <3>1. pc'[q] = "body"
      BY <2>1, <2>3 DEF Goto, TypeOK
    <3>2. ASSUME NEW k \in req[p].keys PROVE wlock'[ShardOf[k]] = p
      <4>1. ShardOf[k] \in Shards
        BY StoreTypes DEF TypeOK, Request
      <4>2. ShardOf[k] = s \/ wlock[ShardOf[k]] = p
        BY <2>3, <4>1 DEF Missing, Held
      <4> QED BY <2>1, <4>1, <4>2 DEF TypeOK
    <3> QED BY <2>2, <2>3, <3>1, <3>2 DEF CmdLocks
  <2>4. CASE q = p /\ Missing(p) # {s}
    <3>1. pc'[q] = "lock"
      BY <2>1, <2>4 DEF Goto, TypeOK
    <3> QED BY <3>1 DEF CmdLocks
  <2>5. CASE q # p
    <3>1. pc'[q] = pc[q]
      BY <2>1, <2>5 DEF Goto, TypeOK
    <3>2. \A x \in Shards : wlock[x] = q => wlock'[x] = q
      BY <1>0, <2>1 DEF TypeOK
    <3>3. req[q].key \in Keys /\ req[q].keys \subseteq Keys
      BY DEF TypeOK, Request
    <3> QED BY <1>0, <2>2, <3>1, <3>2, <3>3, StoreTypes DEF CmdLocks
  <2> QED BY <2>3, <2>4, <2>5
<1>9. ASSUME NEW p \in Clients, NEW k \in Keys, Batch(p, k) PROVE CmdLocks(q)'
  <2>1. /\ pc[p] = "body" /\ pc'[p] \in {"body", "commit"} /\ (q # p => pc'[q] = pc[q])
        /\ req' = req /\ wlock' = wlock
    BY <1>9 DEF Batch, Goto, TypeOK
  <2>2. wlock[ShardOf[k]] = p
    BY ZenonT(30), <1>9, <2>1 DEF Batch, Locks, CmdLocks, Shape, CmdShape
  <2>3. \A j \in Keys : j = k \/ data'[j] = data[j]
    <3>1. [val |-> req[p].vals[k], exp |-> Never] \in Entry
      BY DEF TypeOK, Request, Entry
    <3> QED BY <1>9, <3>1, SetData, DelData DEF Batch, MSetKey, DelKey, shardVars
  <2> QED BY Zenon, <1>0, <2>1, <2>2, <2>3 DEF CmdLocks, TypeOK, Request
<1>10. ASSUME NEW p \in Clients, BatchCommit(p) PROVE CmdLocks(q)'
  BY ZenonT(30), <1>0, <1>10 DEF BatchCommit, Goto, CmdLocks, TypeOK, shardVars, cmdVars
<1>11. ASSUME NEW p \in Clients, unlockWriteShards(p) PROVE CmdLocks(q)'
  <2>1. PICK s \in Held(p) :
          /\ wlock' = [wlock EXCEPT ![s] = NoClient]
          /\ IF Held(p) = {s} THEN Return(p) ELSE UNCHANGED <<pc, req, t0, ptr, new, todo, rec>>
    BY ZenonT(30), <1>11 DEF unlockWriteShards
  <2>2. /\ pc'[p] \in {"idle", "unlock"}
        /\ q # p => pc'[q] = pc[q] /\ req'[q] = req[q]
    BY Zenon, <1>11, <2>1, ReturnPc DEF unlockWriteShards, Return
  <2>3. data' = data /\ \A x \in Shards : q # p /\ wlock[x] = q => wlock'[x] = q
    BY <1>11, <2>1 DEF unlockWriteShards, shardVars, Held, TypeOK
  <2>4. req[q].key \in Keys /\ req[q].keys \subseteq Keys
    BY DEF TypeOK, Request
  <2> QED BY Zenon, <1>0, <2>2, <2>3, <2>4, StoreTypes DEF CmdLocks
<1>12. ASSUME NEW p \in Clients, ExpireAtGone(p) PROVE CmdLocks(q)'
  <2>1. req[p].key \in Keys
    BY DEF TypeOK, Request
  <2>2. \A j \in Keys : j = req[p].key \/ data'[j] = data[j]
    BY ZenonT(30), <1>12, <2>1, DelData DEF ExpireAtGone, shardVars
  <2>3. pc'[p] = "idle" /\ wlock' = wlock /\ (q # p => pc'[q] = pc[q] /\ req'[q] = req[q])
    BY ZenonT(30), <1>12, ReturnPc DEF ExpireAtGone, Return
  <2> QED BY ZenonT(30), <1>0, <1>12, <2>2, <2>3 DEF ExpireAtGone, CmdLocks, ShardFree, TypeOK, Request
<1>13. ASSUME NEW p \in Clients, ExpireAtBegin(p) PROVE CmdLocks(q)'
  <2>1. /\ pc'[p] = "stamp" /\ (q # p => pc'[q] = pc[q]) /\ req' = req /\ data' = data
        /\ wlock' = [wlock EXCEPT ![ShardOf[req[p].key]] = p]
        /\ wlock[ShardOf[req[p].key]] = NoClient
        /\ data[req[p].key] # Absent
    BY ZenonT(30), <1>13 DEF ExpireAtBegin, Goto, TypeOK, shardVars, cmdVars, Live, ShardFree
  <2>2. \A x \in Shards : wlock[x] = q => wlock'[x] = q
    BY Zenon, <1>0, <2>1 DEF TypeOK
  <2>3. req[q].key \in Keys /\ req[q].keys \subseteq Keys /\ req[p].key \in Keys
    BY DEF TypeOK, Request
  <2>4. wlock'[ShardOf[req[p].key]] = p
    BY Zenon, <2>1, <2>3, StoreTypes DEF TypeOK
  <2> QED BY ZenonT(30), <1>0, <2>1, <2>2, <2>3, <2>4, StoreTypes DEF CmdLocks
<1>14. ASSUME NEW p \in Clients, ExpireAtEnd(p) PROVE CmdLocks(q)'
  <2>1. /\ pc[p] = "stamp" /\ pc'[p] = "idle" /\ (q # p => pc'[q] = pc[q] /\ req'[q] = req[q])
        /\ wlock' = [wlock EXCEPT ![ShardOf[req[p].key]] = NoClient]
    BY <1>14, ReturnPc DEF ExpireAtEnd
  <2>2. wlock[ShardOf[req[p].key]] = p /\ req[p].key \in Keys
    BY Zenon, <2>1 DEF Locks, CmdLocks, TypeOK, Request
  <2>3. \A j \in Keys : j = req[p].key \/ data'[j] = data[j]
    BY <1>14, <2>2 DEF ExpireAtEnd, TypeOK
  <2>4. \A x \in Shards : q # p /\ wlock[x] = q => wlock'[x] = q
    BY Zenon, <2>1, <2>2 DEF TypeOK
  <2>5. req[q].key \in Keys /\ req[q].keys \subseteq Keys
    BY DEF TypeOK, Request
  <2> QED BY <1>0, <2>1, <2>2, <2>3, <2>4, <2>5, StoreTypes DEF CmdLocks
<1>15. ASSUME NEW p \in Clients, RmwPeek(p) PROVE CmdLocks(q)'
  BY ZenonT(30), <1>0, <1>15 DEF RmwPeek, Goto, CmdLocks, TypeOK
<1>16. ASSUME NEW p \in Clients, RmwCheck(p) PROVE CmdLocks(q)'
  BY ZenonT(30), <1>0, <1>16 DEF RmwCheck, Goto, CmdLocks, TypeOK, shardVars, cmdVars
<1>17. ASSUME NEW p \in Clients, RmwDrop(p) PROVE CmdLocks(q)'
  <2>1. req[p].key \in Keys
    BY DEF TypeOK, Request
  <2>2. \A j \in Keys : j = req[p].key \/ data'[j] = data[j]
    BY ZenonT(30), <1>17, <2>1, DelData DEF RmwDrop
  <2> QED BY ZenonT(30), <1>0, <1>17, <2>2 DEF RmwDrop, Goto, CmdLocks, ShardFree, TypeOK, Request
<1>18. ASSUME NEW p \in Clients, RmwCalc(p) PROVE CmdLocks(q)'
  BY ZenonT(30), <1>0, <1>18 DEF RmwCalc, Goto, CmdLocks, TypeOK, shardVars
<1>19. ASSUME NEW p \in Clients, RmwRefuse(p) PROVE CmdLocks(q)'
  BY Zenon, <1>0, <1>19, ReturnPc DEF RmwRefuse, Return, CmdLocks
<1>20. ASSUME NEW p \in Clients, pickVictim(p) PROVE CmdLocks(q)'
  <2>1. pc'[p] = "evict" /\ (q # p => pc'[q] = pc[q] /\ req'[q] = req[q])
    BY <1>20 DEF pickVictim, Goto, TypeOK
  <2> QED BY <1>0, <1>20, <2>1 DEF pickVictim, CmdLocks, shardVars
<1>21. ASSUME NEW p \in Clients, Evict(p) PROVE CmdLocks(q)'
  <2>1. req[p].key \in Keys
    BY DEF TypeOK, Request
  <2>2. \A j \in Keys : j = req[p].key \/ data'[j] = data[j]
    BY <1>21, <2>1, DelData DEF Evict
  <2> QED BY Zenon, <1>0, <1>21, <2>2 DEF Evict, Goto, CmdLocks, ShardFree, TypeOK, Request, cmdVars
<1>22. ASSUME NEW p \in Clients, EvictAppend(p) PROVE CmdLocks(q)'
  BY ZenonT(30), <1>0, <1>22 DEF EvictAppend, Goto, CmdLocks, TypeOK, shardVars, cmdVars
<1>23. ASSUME NEW p \in Clients, EvictDone(p) PROVE CmdLocks(q)'
  BY ZenonT(30), <1>0, <1>23, ReturnPc DEF EvictDone, Return, CmdLocks, shardVars
<1>24. ASSUME NEW k \in Keys, expireSample(k) PROVE CmdLocks(q)'
  BY ZenonT(30), <1>0, <1>24, DelData DEF expireSample, CmdLocks, ShardFree, TypeOK, Request, cmdVars
<1>25. CASE Tick
  BY Zenon, <1>0, <1>25 DEF CmdLocks, Tick, shardVars, cmdVars
<1>26. CASE UNCHANGED vars
  BY Zenon, <1>0, <1>26 DEF CmdLocks, vars, shardVars, cmdVars
<1> QED
  BY <1>1, <1>2, <1>3, <1>4, <1>5, <1>6, <1>7, <1>8, <1>9, <1>10, <1>11, <1>12, <1>13, <1>14,
     <1>15, <1>16, <1>17, <1>18, <1>19, <1>20, <1>21, <1>22, <1>23, <1>24, <1>25, <1>26
  DEF Next, Step

\* The initial state satisfies Base.
LEMMA BaseInit == Init => Base
<1> SUFFICES ASSUME Init PROVE Base
  OBVIOUS
<1>1. TypeOK
  BY SMTT(30), StoreTypes DEF Init, TypeOK, PCs, Slot
<1>2. Shape
  <2>1. NoRequest.op = "EXPIREAT" => NoRequest.exp # Never
    BY StoreTypes, StoreAssumption
  <2>2. Res <= Res
    BY KeyspaceAssumption
  <2> QED BY Zenon, <2>1, <2>2 DEF Init, Shape, CmdShape
<1>3. Locks
  BY Zenon DEF Init, Locks, CmdLocks
<1> QED BY <1>1, <1>2, <1>3 DEF Base

\* Types, program positions and lock ownership hold in every state, with or without a
\* journal.
THEOREM BaseInvariant == Spec => []Base
<1>1. Base /\ [Next]_vars => Base'
  BY TypeStep, ShapeStep, LocksStep DEF Base
<1> QED BY <1>1, BaseInit, PTL DEF Spec

\* Every variable of the store keeps its type, in particular no step ever dereferences a
\* missing entry or stores anything but a value with a deadline or none.
THEOREM TypeCorrect == Spec => []TypeOK
<1>1. Base => TypeOK
  BY DEF Base
<1> QED BY <1>1, BaseInvariant, PTL

-----------------------------------------------------------------------------
(***************************************************************************)
(* The index of keys with a deadline.                                      *)
(***************************************************************************)

\* All a step ever does to the shards: nothing, storing an entry, deleting one, or
\* stamping one with a new deadline.
LEMMA ShardEffects ==
  ASSUME Base, [Next]_vars
  PROVE  \/ UNCHANGED <<data, expiring, used>>
         \/ \E k \in Keys, e \in Entry : setLockedInWriteLockedShard(k, e)
         \/ \E k \in Keys : deleteLockedInWriteLockedShard(k)
         \/ \E p \in Clients : ExpireAtEnd(p)
<1> DEFINE Quiet == UNCHANGED <<data, expiring, used>>
           Sets  == \E k \in Keys, e \in Entry : setLockedInWriteLockedShard(k, e)
           Dels  == \E k \in Keys : deleteLockedInWriteLockedShard(k)
<1> USE DEF Base
<1>0. \A p \in Clients : req[p].key \in Keys
  BY DEF TypeOK, Request
<1>1. ASSUME NEW p \in Clients, setLocked(p) PROVE Sets
  <2>1. new[p] \in Entry
    BY Zenon, <1>1 DEF TypeOK, Shape, CmdShape, setLocked, Slot
  <2> QED BY <1>0, <1>1, <2>1 DEF setLocked
<1>2. ASSUME NEW p \in Clients, NEW k \in Keys, Batch(p, k) PROVE Quiet \/ Sets \/ Dels
  <2>1. [val |-> req[p].vals[k], exp |-> Never] \in Entry
    BY DEF TypeOK, Request, Entry
  <2> QED BY <1>2, <2>1 DEF Batch, MSetKey, DelKey, shardVars
<1>3. ASSUME NEW p \in Clients, GetCollect(p) \/ ExpireAtGone(p) \/ RmwDrop(p) \/ Evict(p)
      PROVE  Quiet \/ Dels
  BY <1>0, <1>3 DEF GetCollect, ExpireAtGone, RmwDrop, Evict, shardVars
<1>4. ASSUME NEW k \in Keys, expireSample(k) PROVE Dels
  BY <1>4 DEF expireSample
<1>5. ASSUME NEW p \in Clients,
             \/ Call(p) \/ lockDurableMutation(p) \/ propagateSetLocked(p) \/ lockWriteShards(p)
             \/ BatchCommit(p) \/ unlockWriteShards(p) \/ ExpireAtBegin(p)
      PROVE  Quiet
  BY <1>5 DEF Call, lockDurableMutation, propagateSetLocked, lockWriteShards, BatchCommit,
              unlockWriteShards, ExpireAtBegin, shardVars
<1>6. ASSUME NEW p \in Clients,
             \/ RmwPeek(p) \/ RmwCheck(p) \/ RmwCalc(p) \/ RmwRefuse(p)
             \/ pickVictim(p) \/ EvictAppend(p) \/ EvictDone(p)
      PROVE  Quiet
  BY <1>6 DEF RmwPeek, RmwCheck, RmwCalc, RmwRefuse, pickVictim, EvictAppend, EvictDone, shardVars
<1>7. ASSUME NEW p \in Clients, NEW k \in Keys, Get(p, k) \/ Exists(p, k) PROVE Quiet
  BY <1>7 DEF Get, Exists, shardVars
<1>8. Tick \/ UNCHANGED vars => Quiet
  BY DEF Tick, vars, shardVars
<1> QED
  BY <1>1, <1>2, <1>3, <1>4, <1>5, <1>6, <1>7, <1>8 DEF Next, Step

\* Every step keeps the volatile-key index exact.
LEMMA IndexStep ==
  ASSUME Base, IndexExact, [Next]_vars
  PROVE  IndexExact'
<1> USE DEF Base
<1>1. CASE UNCHANGED <<data, expiring, used>>
  BY <1>1 DEF IndexExact
<1>2. ASSUME NEW k \in Keys, NEW e \in Entry, setLockedInWriteLockedShard(k, e)
      PROVE  IndexExact'
  <2>1. data'[k] = e /\ \A j \in Keys \ {k} : data'[j] = data[j]
    BY <1>2, SetData
  <2>2. expiring' = IF e.exp = Never THEN expiring \ {k} ELSE expiring \cup {k}
    BY <1>2 DEF setLockedInWriteLockedShard
  <2> QED BY <2>1, <2>2, AbsentNotEntry DEF IndexExact
<1>3. ASSUME NEW k \in Keys, deleteLockedInWriteLockedShard(k) PROVE IndexExact'
  <2>1. data'[k] = Absent /\ \A j \in Keys \ {k} : data'[j] = data[j]
    BY <1>3, DelData
  <2>2. expiring' = expiring \ {k}
    BY <1>3 DEF deleteLockedInWriteLockedShard
  <2> QED BY <2>1, <2>2 DEF IndexExact
<1>4. ASSUME NEW p \in Clients, ExpireAtEnd(p) PROVE IndexExact'
  <2> DEFINE k == req[p].key
  <2>1. k \in Keys /\ data[k] \in Entry /\ req[p].exp # Never /\ req[p].exp \in Deadlines
    BY <1>4 DEF TypeOK, Request, Shape, CmdShape, Locks, CmdLocks, ExpireAtEnd, Slot
  <2>2. data'[k] = [data[k] EXCEPT !.exp = req[p].exp] /\ \A j \in Keys \ {k} : data'[j] = data[j]
    BY <1>4, <2>1 DEF ExpireAtEnd, TypeOK
  <2>3. data'[k] \in Entry /\ data'[k].exp = req[p].exp
    BY <2>1, <2>2 DEF Entry
  <2>4. expiring' = expiring \cup {k}
    BY <1>4 DEF ExpireAtEnd
  <2> QED BY Zenon, <2>1, <2>2, <2>3, <2>4, AbsentNotEntry DEF IndexExact
<1> QED BY <1>1, <1>2, <1>3, <1>4, ShardEffects

\* The index the sampler and volatile-lru work from is exact in every reachable state,
\* with or without a journal: it names the keys with a deadline and no others.
THEOREM IndexIsExact == Spec => []IndexExact
<1>1. Init => IndexExact
  BY ZenonT(30) DEF Init, IndexExact
<1>2. Base /\ IndexExact /\ [Next]_vars => IndexExact'
  BY IndexStep
<1> QED BY <1>1, <1>2, BaseInvariant, PTL DEF Spec

-----------------------------------------------------------------------------
(***************************************************************************)
(* The durable-commit gate: with a journal attached, only its holder is    *)
(* between lockDurableMutation and unlockDurableMutation.                  *)
(***************************************************************************)
GateHeld == \A p \in Clients : pc[p] \in Gated <=> gate = p

\* With a journal, every step leaves each mutating client in possession of commitMu.
LEMMA GateStep ==
  ASSUME Durable, Base, GateHeld, [Next]_vars
  PROVE  GateHeld'
<1> USE DEF Base
<1>0. TypeOK /\ NoClient \notin Clients
  BY StoreAssumption
\* the holder stays inside, or somebody else stays outside
<1>1. ASSUME NEW p \in Clients, gate' = gate, pc[p] \in Gated <=> pc'[p] \in Gated,
             \A q \in Clients \ {p} : pc'[q] = pc[q]
      PROVE  GateHeld'
  BY <1>1 DEF GateHeld
\* the holder leaves
<1>2. ASSUME NEW p \in Clients, gate' = NoClient, pc[p] \in Gated, pc'[p] \notin Gated,
             \A q \in Clients \ {p} : pc'[q] = pc[q]
      PROVE  GateHeld'
  BY <1>0, <1>2 DEF GateHeld
<1>3. ASSUME NEW p \in Clients, Call(p) PROVE GateHeld'
  BY ZenonT(30), <1>0, <1>1, <1>3 DEF Call, Goto, TypeOK, Gated, Building
<1>4. ASSUME NEW p \in Clients, lockDurableMutation(p) PROVE GateHeld'
  <2>1. pc'[p] \in Gated /\ gate' = p /\ gate = NoClient /\ \A q \in Clients \ {p} : pc'[q] = pc[q]
    BY <1>4 DEF lockDurableMutation, Goto, TypeOK, Gated, Building
  <2> QED BY <1>0, <2>1 DEF GateHeld
<1>5. ASSUME NEW p \in Clients, NEW k \in Keys, Get(p, k) PROVE GateHeld'
  <2>1. pc'[p] \in {"idle", "read", "collect"} /\ \A q \in Clients \ {p} : pc'[q] = pc[q]
    BY <1>5, NextKeyPc DEF Get, Goto, TypeOK
  <2> QED BY <1>1, <1>5, <2>1 DEF Get, Gated, Building
<1>6. ASSUME NEW p \in Clients, NEW k \in Keys, Exists(p, k) PROVE GateHeld'
  <2>1. pc'[p] \in {"idle", "read"} /\ \A q \in Clients \ {p} : pc'[q] = pc[q]
    BY ZenonT(30), <1>6, NextKeyPc DEF Exists
  <2> QED BY ZenonT(30), <1>1, <1>6, <2>1 DEF Exists, Gated, Building
<1>7. ASSUME NEW p \in Clients, GetCollect(p) PROVE GateHeld'
  <2>1. pc'[p] \in {"idle", "read"} /\ \A q \in Clients \ {p} : pc'[q] = pc[q]
    BY ZenonT(30), <1>7, NextKeyPc DEF GetCollect, TypeOK, Request
  <2> QED BY ZenonT(30), <1>1, <1>7, <2>1 DEF GetCollect, Gated, Building
<1>8. ASSUME NEW p \in Clients,
             setLocked(p) \/ lockWriteShards(p) \/ ExpireAtBegin(p) \/ Evict(p) \/ EvictAppend(p)
      PROVE  GateHeld'
  <2>1. pc[p] \in Gated /\ pc'[p] \in Gated /\ gate' = gate /\ \A q \in Clients \ {p} : pc'[q] = pc[q]
    BY Zenon, <1>8 DEF setLocked, lockWriteShards, ExpireAtBegin, Evict, EvictAppend, Goto, TypeOK,
                Gated, Building
  <2> QED BY ZenonT(30), <1>1, <2>1
<1>9. ASSUME NEW p \in Clients, RmwPeek(p) \/ RmwCheck(p) \/ RmwDrop(p) \/ RmwCalc(p) \/ pickVictim(p)
      PROVE  GateHeld'
  <2>1. pc[p] \in Gated /\ pc'[p] \in Gated /\ gate' = gate /\ \A q \in Clients \ {p} : pc'[q] = pc[q]
    BY <1>9 DEF RmwPeek, RmwCheck, RmwDrop, RmwCalc, pickVictim, Goto, TypeOK, Gated, Building
  <2> QED BY <1>1, <2>1
<1>10. ASSUME NEW p \in Clients, NEW k \in Keys, Batch(p, k) PROVE GateHeld'
  BY ZenonT(30), <1>0, <1>1, <1>10 DEF Batch, Goto, TypeOK, Gated, Building
<1>11. ASSUME NEW p \in Clients, BatchCommit(p) PROVE GateHeld'
  BY Zenon, <1>0, <1>2, <1>11 DEF BatchCommit, Goto, TypeOK, Gated, Building
<1>12. ASSUME NEW p \in Clients, unlockWriteShards(p) PROVE GateHeld'
  <2>1. pc'[p] \in {"idle", "unlock"} /\ \A q \in Clients \ {p} : pc'[q] = pc[q]
    BY <1>12, ReturnPc DEF unlockWriteShards, Return
  <2> QED BY <1>1, <1>12, <2>1 DEF unlockWriteShards, Gated, Building
<1>13. ASSUME NEW p \in Clients,
              \/ propagateSetLocked(p) \/ ExpireAtGone(p) \/ ExpireAtEnd(p)
              \/ RmwRefuse(p) \/ EvictDone(p)
       PROVE  GateHeld'
  <2>1. Finish(p) /\ gate' = NoClient /\ pc[p] \in Gated
    BY <1>13 DEF propagateSetLocked, ExpireAtGone, ExpireAtEnd, RmwRefuse, EvictDone, Return,
                 Gated, Building
  <2>2. pc'[p] = "idle" /\ \A q \in Clients \ {p} : pc'[q] = pc[q]
    BY Zenon, <2>1, ReturnPc
  <2> QED BY <1>2, <2>1, <2>2 DEF Gated, Building
<1>14. ASSUME \/ \E k \in Keys : expireSample(k)
              \/ Tick
              \/ UNCHANGED vars
       PROVE  GateHeld'
  BY <1>14 DEF GateHeld, expireSample, Tick, vars
<1> QED
  BY <1>3, <1>4, <1>5, <1>6, <1>7, <1>8, <1>9, <1>10, <1>11, <1>12, <1>13, <1>14 DEF Next, Step

-----------------------------------------------------------------------------
(***************************************************************************)
(* Increment and Append behind the gate.                                   *)
(***************************************************************************)
Looking == {"check", "drop", "calc"}

\* The entry an attached client holds is the entry in the map.
Attached ==
    \A p \in attached : /\ pc[p] \in Looking \cup {"apply"}
                        /\ req[p].op \in RMW
                        /\ data[req[p].key] # Absent
                        /\ ptr[p] = data[req[p].key]

\* Between its look-up and its store, what a command looked up is still there, or was
\* absent, or has expired and been collected.
RmwSafe(p) ==
    LET k == req[p].key IN
      /\ pc[p] \in Looking => \/ p \in attached
                              \/ data[k] = Absent /\ (ptr[p] = Absent \/ Expired(ptr[p], now))
      /\ pc[p] = "drop" => Expired(ptr[p], t0[p])
      /\ pc[p] = "apply" /\ req[p].op \in RMW =>
           IF data[k] = Absent THEN ptr[p] = Absent \/ Expired(ptr[p], now)
                               ELSE p \in attached /\ new[p].exp = data[k].exp

RmwHeld == \A p \in Clients : RmwSafe(p)

\* Two clients are never behind the gate together.
LEMMA GatedAlone ==
  ASSUME GateHeld, NEW p \in Clients, NEW q \in Clients, pc[p] \in Gated, pc[q] \in Gated
  PROVE  p = q
BY DEF GateHeld

\* With a journal, every step keeps the entry a read-modify-write looked up equal to the
\* one in the map.
LEMMA AttachedStep ==
  ASSUME Base, Attached, [Next]_vars
  PROVE  Attached'
<1> USE DEF Base, Looking
<1>0. TypeOK
  OBVIOUS
<1>a. \A p \in Clients : req[p].key \in Keys
  BY DEF TypeOK, Request
\* a step of p that touches neither the entries nor any attached client
<1>b. ASSUME NEW p \in Clients, p \notin attached, data' = data, attached' = attached,
             \A q \in Clients \ {p} : pc'[q] = pc[q] /\ req'[q] = req[q] /\ ptr'[q] = ptr[q]
      PROVE  Attached'
  BY ZenonT(30), <1>b DEF Attached, TypeOK
\* a step of p that replaces or deletes under k
<1>c. ASSUME NEW p \in Clients, NEW k \in Keys, p \notin attached \/ req[p].key = k,
             attached' = attached \ Aliases(k),
             \A j \in Keys \ {k} : data'[j] = data[j],
             \A q \in Clients \ {p} : pc'[q] = pc[q] /\ req'[q] = req[q] /\ ptr'[q] = ptr[q]
      PROVE  Attached'
  <2> SUFFICES ASSUME NEW q \in attached'
               PROVE  /\ pc'[q] \in Looking \cup {"apply"} /\ req'[q].op \in RMW
                      /\ data'[req'[q].key] # Absent /\ ptr'[q] = data'[req'[q].key]
    BY Zenon DEF Attached
  <2>1. q \in attached /\ req[q].key # k /\ q # p /\ q \in Clients
    BY ZenonT(30), <1>c DEF Aliases, TypeOK
  <2>2. /\ pc'[q] = pc[q] /\ req'[q] = req[q] /\ ptr'[q] = ptr[q]
        /\ data'[req[q].key] = data[req[q].key]
    BY <1>a, <1>c, <2>1
  <2>3. /\ pc[q] \in Looking \cup {"apply"} /\ req[q].op \in RMW
        /\ data[req[q].key] # Absent /\ ptr[q] = data[req[q].key]
    BY <2>1 DEF Attached
  <2> QED BY <2>2, <2>3
<1>1. ASSUME NEW p \in Clients, Call(p) PROVE Attached'
  <2>1. p \notin attached
    BY Zenon, <1>1 DEF Attached, Call
  <2> QED BY ZenonT(30), <1>b, <1>1, <2>1 DEF Call, Goto, TypeOK, shardVars
<1>2. ASSUME NEW p \in Clients, lockDurableMutation(p) PROVE Attached'
  <2>1. p \notin attached
    BY <1>2 DEF Attached, lockDurableMutation
  <2> QED BY <1>b, <1>2, <2>1 DEF lockDurableMutation, Goto, TypeOK, shardVars
<1>3. ASSUME NEW p \in Clients, NEW k \in Keys, Get(p, k) PROVE Attached'
  <2>1. p \notin attached
    BY <1>3 DEF Attached, Get
  <2>2. \A q \in Clients \ {p} : pc'[q] = pc[q] /\ req'[q] = req[q] /\ ptr'[q] = ptr[q]
    BY <1>3, NextKeyPc DEF Get, Goto, TypeOK
  <2> QED BY <1>b, <1>3, <2>1, <2>2 DEF Get, shardVars
<1>4. ASSUME NEW p \in Clients, GetCollect(p) PROVE Attached'
  <2>1. p \notin attached
    BY <1>4 DEF Attached, GetCollect
  <2>2. \A q \in Clients \ {p} : pc'[q] = pc[q] /\ req'[q] = req[q] /\ ptr'[q] = ptr[q]
    BY ZenonT(30), <1>a, <1>4, NextKeyPc DEF GetCollect
  <2>3. CASE UNCHANGED shardVars
    BY ZenonT(30), <1>b, <2>1, <2>2, <2>3 DEF shardVars
  <2>4. CASE deleteLockedInWriteLockedShard(req[p].key)
    BY ZenonT(30), <1>a, <1>c, <2>1, <2>2, <2>4, DelData DEF deleteLockedInWriteLockedShard
  <2> QED BY Zenon, <1>4, <2>3, <2>4 DEF GetCollect
<1>5. ASSUME NEW p \in Clients, NEW k \in Keys, Exists(p, k) PROVE Attached'
  <2>1. p \notin attached
    BY ZenonT(30), <1>5 DEF Attached, Exists
  <2>2. \A q \in Clients \ {p} : pc'[q] = pc[q] /\ req'[q] = req[q] /\ ptr'[q] = ptr[q]
    BY Zenon, <1>5, NextKeyPc DEF Exists
  <2> QED BY ZenonT(30), <1>b, <1>5, <2>1, <2>2 DEF Exists, shardVars
<1>6. ASSUME NEW p \in Clients, setLocked(p) PROVE Attached'
  <2>1. new[p] \in Entry
    BY Zenon, <1>6 DEF TypeOK, Shape, CmdShape, setLocked, Slot
  <2>2. \A j \in Keys \ {req[p].key} : data'[j] = data[j]
    BY <1>a, <1>6, <2>1, SetData DEF setLocked
  <2>3. attached' = attached \ Aliases(req[p].key)
    BY <1>6 DEF setLocked, setLockedInWriteLockedShard
  <2>4. \A q \in Clients \ {p} : pc'[q] = pc[q] /\ req'[q] = req[q] /\ ptr'[q] = ptr[q]
    BY <1>6 DEF setLocked, Goto, TypeOK, cmdVars
  <2> QED BY <1>a, <1>c, <2>2, <2>3, <2>4
<1>7. ASSUME NEW p \in Clients, propagateSetLocked(p) \/ EvictDone(p) PROVE Attached'
  <2>1. p \notin attached
    BY Zenon, <1>7 DEF Attached, propagateSetLocked, EvictDone
  <2>2. Return(p) /\ UNCHANGED shardVars
    BY <1>7 DEF propagateSetLocked, EvictDone
  <2>3. \A q \in Clients \ {p} : pc'[q] = pc[q] /\ req'[q] = req[q] /\ ptr'[q] = ptr[q]
    BY ZenonT(30), <2>2, ReturnPc DEF Return, TypeOK
  <2> QED BY Zenon, <1>b, <2>1, <2>2, <2>3 DEF shardVars
<1>8. ASSUME NEW p \in Clients,
             lockWriteShards(p) \/ BatchCommit(p) \/ ExpireAtBegin(p) \/ EvictAppend(p)
      PROVE  Attached'
  <2>1. p \notin attached
    BY ZenonT(30), <1>8 DEF Attached, lockWriteShards, BatchCommit, ExpireAtBegin, EvictAppend
  <2> QED BY ZenonT(30), <1>b, <1>8, <2>1 DEF lockWriteShards, BatchCommit, ExpireAtBegin, EvictAppend, Goto,
                                  TypeOK, shardVars, cmdVars
<1>9. ASSUME NEW p \in Clients, NEW k \in Keys, Batch(p, k) PROVE Attached'
  <2>1. p \notin attached
    BY ZenonT(30), <1>9 DEF Attached, Batch
  <2>2. \A q \in Clients \ {p} : pc'[q] = pc[q] /\ req'[q] = req[q] /\ ptr'[q] = ptr[q]
    BY <1>9 DEF Batch, Goto, TypeOK
  <2>3. [val |-> req[p].vals[k], exp |-> Never] \in Entry
    BY DEF TypeOK, Request, Entry
  <2>4. CASE UNCHANGED shardVars
    BY ZenonT(30), <1>b, <2>1, <2>2, <2>4 DEF shardVars
  <2>5. CASE deleteLockedInWriteLockedShard(k)
    BY <1>c, <2>1, <2>2, <2>5, DelData DEF deleteLockedInWriteLockedShard
  <2>6. CASE setLockedInWriteLockedShard(k, [val |-> req[p].vals[k], exp |-> Never])
    BY <1>c, <2>1, <2>2, <2>3, <2>6, SetData DEF setLockedInWriteLockedShard
  <2> QED BY <1>9, <2>4, <2>5, <2>6 DEF Batch, MSetKey, DelKey, shardVars
<1>10. ASSUME NEW p \in Clients, unlockWriteShards(p) PROVE Attached'
  <2>1. p \notin attached
    BY <1>10 DEF Attached, unlockWriteShards
  <2>2. \A q \in Clients \ {p} : pc'[q] = pc[q] /\ req'[q] = req[q] /\ ptr'[q] = ptr[q]
    BY <1>10, ReturnPc DEF unlockWriteShards, Return, TypeOK
  <2> QED BY Zenon, <1>b, <1>10, <2>1, <2>2 DEF unlockWriteShards, shardVars
<1>11. ASSUME NEW p \in Clients, ExpireAtGone(p) PROVE Attached'
  <2>1. p \notin attached
    BY Zenon, <1>11 DEF Attached, ExpireAtGone
  <2>2. \A q \in Clients \ {p} : pc'[q] = pc[q] /\ req'[q] = req[q] /\ ptr'[q] = ptr[q]
    BY ZenonT(30), <1>11, ReturnPc DEF ExpireAtGone, Return, TypeOK
  <2>3. CASE UNCHANGED shardVars
    BY ZenonT(30), <1>b, <2>1, <2>2, <2>3 DEF shardVars
  <2>4. CASE deleteLockedInWriteLockedShard(req[p].key)
    BY ZenonT(30), <1>a, <1>c, <2>1, <2>2, <2>4, DelData DEF deleteLockedInWriteLockedShard
  <2> QED BY ZenonT(30), <1>11, <2>3, <2>4 DEF ExpireAtGone
<1>12. ASSUME NEW p \in Clients, ExpireAtEnd(p) PROVE Attached'
  <2> DEFINE k == req[p].key
  <2>1. p \notin attached /\ attached' = attached
    BY <1>12 DEF Attached, ExpireAtEnd
  <2>2. k \in Keys /\ data[k] \in Entry /\ req[p].exp \in Deadlines
    BY <1>12 DEF TypeOK, Request, Shape, CmdShape, Locks, CmdLocks, ExpireAtEnd, Slot
  <2>3. data'[k] \in Entry /\ \A j \in Keys \ {k} : data'[j] = data[j]
    BY Zenon, <1>12, <2>2 DEF ExpireAtEnd, TypeOK, Entry
  <2>4. \A q \in Clients \ {p} : pc'[q] = pc[q] /\ req'[q] = req[q]
    BY <1>12, ReturnPc DEF ExpireAtEnd
  <2>5. \A q \in attached : ptr'[q] = IF req[q].key = k THEN data'[k] ELSE ptr[q]
    BY <1>12 DEF ExpireAtEnd, Aliases, TypeOK
  <2>6. attached \subseteq Clients
    BY DEF TypeOK
  <2> SUFFICES ASSUME NEW q \in attached
               PROVE  /\ pc'[q] \in Looking \cup {"apply"} /\ req'[q].op \in RMW
                      /\ data'[req'[q].key] # Absent /\ ptr'[q] = data'[req'[q].key]
    BY <2>1 DEF Attached
  <2>7. q \in Clients \ {p} /\ req[q].key \in Keys
    BY <1>a, <2>1, <2>6
  <2>8. /\ pc'[q] = pc[q] /\ req'[q] = req[q]
        /\ pc[q] \in Looking \cup {"apply"} /\ req[q].op \in RMW
        /\ data[req[q].key] # Absent /\ ptr[q] = data[req[q].key]
    BY <2>4, <2>7 DEF Attached
  <2>9. CASE req[q].key = k
    BY <2>3, <2>5, <2>8, <2>9, AbsentNotEntry
  <2>10. CASE req[q].key # k
    BY <2>3, <2>5, <2>7, <2>8, <2>10
  <2> QED BY Zenon, <2>9, <2>10
<1>13. ASSUME NEW p \in Clients, RmwPeek(p) PROVE Attached'
  <2>1. /\ data' = data /\ req' = req /\ pc[p] = "peek"
        /\ attached' = IF data[req[p].key] = Absent THEN attached ELSE attached \cup {p}
        /\ ptr'[p] = data[req[p].key]
        /\ data[req[p].key] # Absent => pc'[p] = "check"
        /\ \A q \in Clients \ {p} : pc'[q] = pc[q] /\ ptr'[q] = ptr[q]
    BY <1>13 DEF RmwPeek, Goto, TypeOK
  <2>2. p \notin attached /\ req[p].op \in RMW /\ attached \subseteq Clients
    BY ZenonT(30), <2>1 DEF Attached, Shape, CmdShape, TypeOK
  <2> QED BY <2>1, <2>2 DEF Attached
<1>14. ASSUME NEW p \in Clients, RmwCheck(p) \/ RmwCalc(p) PROVE Attached'
  <2>1. /\ data' = data /\ req' = req /\ ptr' = ptr /\ attached' = attached
        /\ pc'[p] \in Looking \cup {"apply"}
        /\ \A q \in Clients \ {p} : pc'[q] = pc[q]
    BY Zenon, <1>14 DEF RmwCheck, RmwCalc, Goto, TypeOK, shardVars, cmdVars
  <2> QED BY ZenonT(30), <2>1 DEF Attached, TypeOK
<1>15. ASSUME NEW p \in Clients, RmwDrop(p) PROVE Attached'
  <2>1. \A q \in Clients \ {p} : pc'[q] = pc[q] /\ req'[q] = req[q] /\ ptr'[q] = ptr[q]
    BY <1>15 DEF RmwDrop, Goto, TypeOK
  <2> QED BY ZenonT(30), <1>a, <1>c, <1>15, <2>1, DelData DEF RmwDrop, deleteLockedInWriteLockedShard
<1>16. ASSUME NEW p \in Clients, RmwRefuse(p) PROVE Attached'
  <2>1. /\ attached' = attached \ {p} /\ data' = data
        /\ \A q \in Clients \ {p} : pc'[q] = pc[q] /\ req'[q] = req[q] /\ ptr'[q] = ptr[q]
    BY Zenon, <1>16, ReturnPc DEF RmwRefuse, Return, TypeOK
  <2> QED BY ZenonT(30), <2>1 DEF Attached, TypeOK
<1>17. ASSUME NEW p \in Clients, pickVictim(p) PROVE Attached'
  <2>1. p \notin attached
    BY <1>17 DEF Attached, pickVictim
  <2> QED BY <1>b, <1>17, <2>1 DEF pickVictim, Goto, TypeOK, shardVars
<1>18. ASSUME NEW p \in Clients, Evict(p) PROVE Attached'
  <2>1. \A q \in Clients \ {p} : pc'[q] = pc[q] /\ req'[q] = req[q] /\ ptr'[q] = ptr[q]
    BY <1>18 DEF Evict, Goto, TypeOK, cmdVars
  <2> QED BY <1>a, <1>c, <1>18, <2>1, DelData DEF Evict, deleteLockedInWriteLockedShard
<1>19. ASSUME NEW k \in Keys, expireSample(k) PROVE Attached'
  <2>1. /\ pc' = pc /\ req' = req /\ ptr' = ptr /\ attached' = attached \ Aliases(k)
        /\ \A j \in Keys \ {k} : data'[j] = data[j]
    BY <1>19, DelData DEF expireSample, cmdVars, deleteLockedInWriteLockedShard
  <2>2. \A q \in attached' : q \in attached /\ req[q].key \in Keys \ {k}
    BY ZenonT(30), <1>a, <2>1 DEF Aliases, TypeOK
  <2> QED BY <2>1, <2>2 DEF Attached
<1>20. ASSUME Tick \/ UNCHANGED vars PROVE Attached'
  BY ZenonT(30), <1>20 DEF Attached, Tick, vars, shardVars, cmdVars
<1> QED
  BY <1>1, <1>2, <1>3, <1>4, <1>5, <1>6, <1>7, <1>8, <1>9, <1>10, <1>11, <1>12, <1>13, <1>14,
     <1>15, <1>16, <1>17, <1>18, <1>19, <1>20 DEF Next, Step

Durably == Base /\ GateHeld /\ Attached /\ RmwHeld

\* With a journal, every step keeps the entry a read-modify-write is about to store in
\* agreement with the one it replaces.
LEMMA RmwStep ==
  ASSUME Durable, Durably, [Next]_vars
  PROVE  RmwHeld'
<1> SUFFICES ASSUME NEW q \in Clients PROVE RmwSafe(q)'
  BY DEF RmwHeld
<1> USE DEF Durably, Base
<1>0. TypeOK /\ RmwSafe(q) /\ CmdShape(q)
  BY DEF RmwHeld, Shape
<1>a. req[q].key \in Keys
  BY DEF TypeOK, Request
\* q is at rest, or outside the gate
<1>b. ASSUME pc'[q] \notin Looking \cup {"apply"} PROVE RmwSafe(q)'
  BY Zenon, <1>b DEF RmwSafe, Looking
\* another client acts behind the gate
<1>c. ASSUME NEW p \in Clients, p # q, pc[p] \in Gated, pc'[q] = pc[q]
      PROVE  RmwSafe(q)'
  <2>1. pc[q] \notin Gated
    BY <1>c, GatedAlone
  <2> QED BY <1>b, <1>c, <2>1 DEF Gated, Looking
\* another client acts without touching an entry
<1>d. ASSUME NEW p \in Clients, p # q, data' = data, attached' = attached, now' = now,
             /\ pc'[q] = pc[q] /\ req'[q] = req[q] /\ ptr'[q] = ptr[q]
             /\ new'[q] = new[q] /\ t0'[q] = t0[q]
      PROVE  RmwSafe(q)'
  BY <1>0, <1>d DEF RmwSafe
\* a collector deletes an expired entry
<1>e. ASSUME NEW k \in Keys, data[k] = Absent \/ Gone(data[k], now),
             deleteLockedInWriteLockedShard(k), now' = now,
             /\ pc'[q] = pc[q] /\ req'[q] = req[q] /\ ptr'[q] = ptr[q]
             /\ new'[q] = new[q] /\ t0'[q] = t0[q]
      PROVE  RmwSafe(q)'
  <2>1. data'[k] = Absent /\ (\A j \in Keys \ {k} : data'[j] = data[j]) /\ attached' = attached \ Aliases(k)
    BY ZenonT(30), <1>e, DelData DEF deleteLockedInWriteLockedShard
  <2>2. CASE req[q].key = k
    <3>1. q \in attached => ptr[q] = data[k]
      BY <2>2 DEF Attached
    <3> QED BY Zenon, <1>0, <1>e, <2>1, <2>2, <3>1 DEF RmwSafe, Gone
  <2>3. CASE req[q].key # k
    <3>1. q \in attached => q \in attached'
      BY <2>1, <2>3 DEF Aliases
    <3> QED BY Zenon, <1>0, <1>a, <1>e, <2>1, <2>3, <3>1 DEF RmwSafe
  <2> QED BY <2>2, <2>3
<1>1. ASSUME NEW p \in Clients, Call(p) PROVE RmwSafe(q)'
  <2>1. CASE p = q
    BY ZenonT(30), <1>b, <1>1, <2>1 DEF Call, Goto, TypeOK, Looking
  <2>2. CASE p # q
    BY ZenonT(30), <1>d, <1>1, <2>2 DEF Call, Goto, TypeOK, shardVars
  <2> QED BY <2>1, <2>2
<1>2. ASSUME NEW p \in Clients, lockDurableMutation(p) PROVE RmwSafe(q)'
  <2>1. CASE p = q
    <3>1. pc'[q] \notin Looking /\ (pc'[q] = "apply" => req'[q].op = "SET")
      BY <1>2, <2>1 DEF lockDurableMutation, Goto, TypeOK, Looking
    <3> QED BY Zenon, <3>1 DEF RmwSafe, RMW, Looking
  <2>2. CASE p # q
    BY <1>d, <1>2, <2>2 DEF lockDurableMutation, Goto, TypeOK, shardVars
  <2> QED BY <2>1, <2>2
<1>3. ASSUME NEW p \in Clients, NEW k \in Keys, Get(p, k) PROVE RmwSafe(q)'
  <2>1. CASE p = q
    <3>1. pc'[q] \in {"idle", "read", "collect"}
      BY <1>3, <2>1, NextKeyPc DEF Get, Goto, TypeOK
    <3> QED BY <1>b, <3>1 DEF Looking
  <2>2. CASE p # q
    <3>1. /\ pc'[q] = pc[q] /\ req'[q] = req[q] /\ ptr'[q] = ptr[q]
          /\ new'[q] = new[q] /\ t0'[q] = t0[q]
      BY <1>3, <2>2, NextKeyPc DEF Get, Goto, TypeOK
    <3> QED BY <1>d, <1>3, <2>2, <3>1 DEF Get, shardVars
  <2> QED BY <2>1, <2>2
<1>4. ASSUME NEW p \in Clients, GetCollect(p) PROVE RmwSafe(q)'
  <2>0. req[p].key \in Keys
    BY DEF TypeOK, Request
  <2>1. CASE p = q
    <3>1. pc'[q] \in {"idle", "read"}
      BY Zenon, <1>4, <2>0, <2>1, NextKeyPc DEF GetCollect
    <3> QED BY <1>b, <3>1 DEF Looking
  <2>2. CASE p # q
    <3>1. /\ pc'[q] = pc[q] /\ req'[q] = req[q] /\ ptr'[q] = ptr[q]
          /\ new'[q] = new[q] /\ t0'[q] = t0[q]
      BY <1>4, <2>0, <2>2, NextKeyPc DEF GetCollect
    <3>2. CASE Gone(data[req[p].key], now)
      BY ZenonT(30), <1>e, <1>4, <2>0, <3>1, <3>2 DEF GetCollect
    <3>3. CASE ~Gone(data[req[p].key], now)
      BY Zenon, <1>d, <1>4, <2>2, <3>1, <3>3 DEF GetCollect, shardVars
    <3> QED BY <3>2, <3>3
  <2> QED BY <2>1, <2>2
<1>5. ASSUME NEW p \in Clients, NEW k \in Keys, Exists(p, k) PROVE RmwSafe(q)'
  <2>1. CASE p = q
    <3>1. pc'[q] \in {"idle", "read"}
      BY <1>5, <2>1, NextKeyPc DEF Exists
    <3> QED BY <1>b, <3>1 DEF Looking
  <2>2. CASE p # q
    <3>1. /\ pc'[q] = pc[q] /\ req'[q] = req[q] /\ ptr'[q] = ptr[q]
          /\ new'[q] = new[q] /\ t0'[q] = t0[q]
      BY ZenonT(30), <1>5, <2>2, NextKeyPc DEF Exists
    <3> QED BY ZenonT(30), <1>d, <1>5, <2>2, <3>1 DEF Exists, shardVars
  <2> QED BY <2>1, <2>2
<1>6. ASSUME NEW p \in Clients, setLocked(p) \/ lockWriteShards(p) \/ BatchCommit(p) \/ ExpireAtBegin(p)
      PROVE  RmwSafe(q)'
  <2>1. /\ pc[p] \in Gated /\ pc'[p] \notin Looking \cup {"apply"}
        /\ q # p => pc'[q] = pc[q]
    BY ZenonT(30), <1>6 DEF setLocked, lockWriteShards, BatchCommit, ExpireAtBegin, Goto, TypeOK, Gated, Building, Looking
  <2> QED BY <1>b, <1>c, <2>1
<1>7. ASSUME NEW p \in Clients,
             \/ propagateSetLocked(p) \/ ExpireAtGone(p) \/ ExpireAtEnd(p)
             \/ RmwRefuse(p) \/ EvictDone(p)
      PROVE  RmwSafe(q)'
  <2>1. Finish(p) /\ pc[p] \in Gated
    BY <1>7 DEF propagateSetLocked, ExpireAtGone, ExpireAtEnd, RmwRefuse, EvictDone, Return,
                Gated, Building
  <2>2. pc'[p] = "idle" /\ (q # p => pc'[q] = pc[q])
    BY <2>1, ReturnPc
  <2> QED BY Zenon, <1>b, <1>c, <2>1, <2>2 DEF Looking
<1>8. ASSUME NEW p \in Clients, pickVictim(p) \/ Evict(p) \/ EvictAppend(p) PROVE RmwSafe(q)'
  <2>1. /\ pc[p] \in Gated /\ pc'[p] \notin Looking \cup {"apply"}
        /\ q # p => pc'[q] = pc[q]
    BY <1>8 DEF pickVictim, Evict, EvictAppend, Goto, TypeOK, Gated, Building, Looking
  <2> QED BY <1>b, <1>c, <2>1
<1>9. ASSUME NEW p \in Clients, NEW k \in Keys, Batch(p, k) PROVE RmwSafe(q)'
  <2>1. /\ pc[p] \in Gated /\ pc'[p] \notin Looking \cup {"apply"}
        /\ q # p => pc'[q] = pc[q]
    BY <1>9 DEF Batch, Goto, TypeOK, Gated, Building, Looking
  <2> QED BY <1>b, <1>c, <2>1
<1>10. ASSUME NEW p \in Clients, unlockWriteShards(p) PROVE RmwSafe(q)'
  <2>1. CASE p = q
    <3>1. pc'[q] \in {"idle", "unlock"}
      BY ZenonT(30), <1>10, <2>1, ReturnPc DEF unlockWriteShards, Return
    <3> QED BY <1>b, <3>1 DEF Looking
  <2>2. CASE p # q
    <3>1. /\ pc'[q] = pc[q] /\ req'[q] = req[q] /\ ptr'[q] = ptr[q]
          /\ new'[q] = new[q] /\ t0'[q] = t0[q]
      BY <1>10, <2>2, ReturnPc DEF unlockWriteShards, Return, TypeOK
    <3> QED BY Zenon, <1>d, <1>10, <2>2, <3>1 DEF unlockWriteShards, shardVars
  <2> QED BY <2>1, <2>2
<1>11. ASSUME NEW p \in Clients, RmwPeek(p) PROVE RmwSafe(q)'
  <2>1. pc[p] \in Gated /\ (q # p => pc'[q] = pc[q])
    BY <1>11 DEF RmwPeek, Goto, TypeOK, Gated
  <2>2. CASE p = q
    <3>1. /\ ptr'[q] = data[req[q].key] /\ data' = data /\ req' = req
          /\ pc'[q] = IF data[req[q].key] = Absent THEN "calc" ELSE "check"
          /\ attached' = IF data[req[q].key] = Absent THEN attached ELSE attached \cup {q}
      BY <1>11, <2>2 DEF RmwPeek, Goto, TypeOK
    <3> QED BY ZenonT(30), <3>1 DEF RmwSafe, Looking
  <2> QED BY <1>c, <2>1, <2>2
<1>12. ASSUME NEW p \in Clients, RmwCheck(p) PROVE RmwSafe(q)'
  <2>1. pc[p] \in Gated /\ (q # p => pc'[q] = pc[q])
    BY <1>12 DEF RmwCheck, Goto, TypeOK, Gated
  <2>2. CASE p = q
    <3>1. DeadlineSeen(q) = {ptr[q].exp}
      <4>1. \A r \in Clients : pc[r] # "stamp"
        BY Zenon, <1>12, <2>1, <2>2, GatedAlone DEF RmwCheck, Gated
      <4> QED BY <4>1 DEF DeadlineSeen
    <3>2. pc'[q] = IF ptr[q].exp # Never /\ ptr[q].exp <= t0[q] THEN "drop" ELSE "calc"
      BY <1>12, <2>2, <3>1 DEF RmwCheck, Goto, TypeOK
    <3>3. pc'[q] = "drop" => Expired(ptr[q], t0[q])
      BY <3>2 DEF Expired
    <3> QED BY Zenon, <1>0, <1>12, <2>2, <3>2, <3>3 DEF RmwCheck, RmwSafe, Looking, shardVars, cmdVars
  <2> QED BY <1>c, <2>1, <2>2
<1>13. ASSUME NEW p \in Clients, RmwDrop(p) PROVE RmwSafe(q)'
  <2>1. pc[p] \in Gated /\ (q # p => pc'[q] = pc[q])
    BY <1>13 DEF RmwDrop, Goto, TypeOK, Gated
  <2>2. CASE p = q
    <3>1. data'[req[q].key] = Absent /\ ptr'[q] = Absent /\ pc'[q] = "calc" /\ req' = req
      BY ZenonT(30), <1>a, <1>13, <2>2, DelData DEF RmwDrop, Goto, TypeOK
    <3> QED BY ZenonT(30), <3>1 DEF RmwSafe, Looking
  <2> QED BY <1>c, <2>1, <2>2
<1>14. ASSUME NEW p \in Clients, RmwCalc(p) PROVE RmwSafe(q)'
  <2>1. pc[p] \in Gated /\ (q # p => pc'[q] = pc[q])
    BY <1>14 DEF RmwCalc, Goto, TypeOK, Gated
  <2>2. CASE p = q
    <3>1. PICK e \in Entry : /\ new' = [new EXCEPT ![p] = e]
                             /\ e.exp \in IF ptr[p] = Absent THEN {Never} ELSE DeadlineSeen(p)
      BY <1>0, <1>14, <2>2, CalcEntry
    <3>2. DeadlineSeen(q) = {ptr[q].exp}
      <4>1. \A r \in Clients : pc[r] # "stamp"
        BY Zenon, <1>14, <2>1, <2>2, GatedAlone DEF RmwCalc, Gated
      <4> QED BY <4>1 DEF DeadlineSeen
    <3>3. ptr[q] # Absent => new'[q].exp = ptr[q].exp
      BY ZenonT(30), <2>2, <3>1, <3>2 DEF TypeOK
    <3>4. /\ pc[q] = "calc" /\ pc'[q] = "apply"
          /\ UNCHANGED <<now, data, attached, req, ptr, t0>>
      BY <1>14, <2>2 DEF RmwCalc, Goto, TypeOK, shardVars
    <3>5. q \in attached => ptr[q] = data[req[q].key] /\ ptr[q] # Absent
      BY ZenonT(30) DEF Attached
    <3> QED BY Zenon, <1>0, <3>3, <3>4, <3>5 DEF RmwSafe, Looking
  <2> QED BY <1>c, <2>1, <2>2
<1>15. ASSUME NEW k \in Keys, expireSample(k) PROVE RmwSafe(q)'
  BY Zenon, <1>e, <1>15 DEF expireSample, cmdVars
<1>16. CASE Tick
  <2>1. ptr[q] # Absent /\ Expired(ptr[q], now) => Expired(ptr[q], now + 1)
    <3>1. ptr[q] # Absent => ptr[q].exp \in Int
      BY KeyspaceAssumption DEF TypeOK, Slot, Entry, Deadlines, Times, Never
    <3> QED BY <3>1, KeyspaceAssumption DEF TypeOK, Times, Expired
  <2> QED BY Zenon, <1>0, <1>16, <2>1 DEF Tick, RmwSafe, shardVars, cmdVars
<1>17. CASE UNCHANGED vars
  BY Zenon, <1>0, <1>17 DEF vars, RmwSafe, shardVars, cmdVars
<1> QED
  BY <1>1, <1>2, <1>3, <1>4, <1>5, <1>6, <1>7, <1>8, <1>9, <1>10, <1>11, <1>12, <1>13, <1>14,
     <1>15, <1>16, <1>17 DEF Next, Step

\* The initial state satisfies Durably.
LEMMA DurableInit == Init => Durably
<1> SUFFICES ASSUME Init PROVE Durably
  OBVIOUS
<1>1. GateHeld
  BY ZenonT(30), StoreAssumption DEF Init, GateHeld, Gated, Building
<1>2. Attached /\ RmwHeld
  BY DEF Init, Attached, RmwHeld, RmwSafe, Looking
<1> QED BY <1>1, <1>2, BaseInit DEF Durably

\* Every step keeps Durably.
LEMMA DurableStep ==
  ASSUME Durable, Durably, [Next]_vars
  PROVE  Durably'
BY TypeStep, ShapeStep, LocksStep, GateStep, AttachedStep, RmwStep DEF Durably, Base

\* The inductive invariant behind RmwIsAtomic and DeadlinesNotTorn: with a journal
\* attached, commitMu is held through the whole of every mutation.
THEOREM DurableInvariant == ASSUME Durable PROVE Spec => []Durably
<1>1. Durably /\ [Next]_vars => Durably'
  BY DurableStep
<1> QED BY <1>1, DurableInit, PTL DEF Spec

\* With a journal attached, Increment and Append lose no update: they overwrite the entry
\* they read, deadline included, or one that has expired since.
THEOREM RmwIsAtomic == ASSUME Durable PROVE Spec => []RmwAtomic
<1>1. Durably => RmwAtomic
  BY DEF Durably, RmwHeld, RmwSafe, RmwAtomic
<1> QED BY <1>1, DurableInvariant, PTL

\* With a journal attached, no deadline is read while ExpireAt overwrites it.
THEOREM DeadlinesNotTorn == ASSUME Durable PROVE Spec => []NoTornDeadline
<1>1. Durably => NoTornDeadline
  <2> SUFFICES ASSUME Durably, NEW p \in Clients, NEW q \in Clients,
                      pc[p] \in {"check", "calc"}, pc[q] = "stamp"
               PROVE  FALSE
    BY DEF NoTornDeadline
  <2> QED BY GatedAlone DEF Durably, Gated
<1> QED BY <1>1, DurableInvariant, PTL

-----------------------------------------------------------------------------
(***************************************************************************)
(* What a step can do to a key and to the journal's view of it, f being    *)
(* the effect on the key of the record that the step appends.              *)
(***************************************************************************)

\* Nothing, or an expired entry is collected without a record.
Leaves(f, k) ==
    /\ f = NoEffect /\ Pending(k)' = Pending(k)
    /\ \/ data'[k] = data[k]
       \/ data'[k] = Absent /\ (data[k] = Absent \/ Expired(data[k], now))

\* The pending effect is appended.
Appends(f, k) == f = Pending(k) /\ Pending(k)' = NoEffect /\ data'[k] = data[k]

\* The entry is changed, and the record that says so is pending.
Prepares(f, k) ==
    /\ f = NoEffect
    /\ \/ data'[k] = Absent /\ Pending(k)' = DelEffect
       \/ \E e \in Entry : data'[k] = e /\ Pending(k)' = PutEffect(Journalled(e))

\* ExpireAt changes the entry and appends its record at once.
Restamps(f, k) ==
    /\ Pending(k) = NoEffect /\ Pending(k)' = NoEffect
    /\ \/ data'[k] = Absent /\ f = DelEffect
       \/ \E d \in Deadlines : /\ data[k] \in Entry /\ data'[k] = [data[k] EXCEPT !.exp = d]
                               /\ f = StampEffect(unixMillis(d))

Touches(f, k) == Leaves(f, k) \/ Appends(f, k) \/ Prepares(f, k) \/ Restamps(f, k)

\* The effect of a pending record is well typed.
LEMMA PendingType ==
  ASSUME TypeOK, NEW k \in Keys
  PROVE  Pending(k) \in Effect
BY EffectTypes DEF TypeOK, Pending, Record

\* A client that builds no record has none to lose when its command ends.
LEMMA FinishRec ==
  ASSUME Base, NEW p \in Clients, Finish(p), pc[p] \notin Building
  PROVE  rec' = rec
<1>1. rec[p] = NoRecord
  BY Zenon DEF Base, Shape, CmdShape
<1> QED BY <1>1 DEF Base, TypeOK, Finish

\* Nor when it moves to its next key.
LEMMA NextKeyRec ==
  ASSUME Base, NEW p \in Clients, NEW k \in Keys, NextKey(p, k), pc[p] \notin Building
  PROVE  rec' = rec
BY FinishRec DEF NextKey, Return

\* The gate's holder, outside Building, has nothing pending; neither has a free gate.
LEMMA NothingPending ==
  ASSUME Base, NEW p \in Clients, gate \in {p, NoClient}, pc[p] \notin Building, NEW k \in Keys
  PROVE  Pending(k) = NoEffect
<1>1. rec[p] = NoRecord
  BY DEF Base, Shape, CmdShape
<1> QED BY <1>1 DEF Pending, NoRecord

\* Replaying nothing changes nothing.
LEMMA ReplayNothing ==
  ASSUME NEW e, NEW t \in Times PROVE ReplayKey(NoEffect, e, t) = e
BY DEF ReplayKey, NoEffect

\* A record that concerns only key k.
LEMMA SingleRecord ==
  ASSUME NEW k \in Keys, NEW f \in Effect
  PROVE  /\ [NoRecord EXCEPT ![k] = f] \in Record
         /\ [NoRecord EXCEPT ![k] = f][k] = f
         /\ \A j \in Keys \ {k} : [NoRecord EXCEPT ![k] = f][j] = NoEffect
BY EffectTypes DEF NoRecord, Record

\* The deadline a command asks for is reached by its clock or is not.
LEMMA DeadlineReached ==
  ASSUME TypeOK, NEW p \in Clients
  PROVE  ~(req[p].exp <= t0[p] /\ req[p].exp > t0[p])
<1>1. \A t \in Times : t \in Int
  BY KeyspaceAssumption DEF Times
<1>2. Never \in Int
  BY DEF Never
<1>3. \A d \in Deadlines \cup {Never} : d \in Int
  BY <1>1, <1>2 DEF Deadlines
<1>4. req[p] \in Request /\ t0[p] \in Times
  BY DEF TypeOK
<1>5. req[p].exp \in Deadlines \cup {Never}
  BY <1>4 DEF Request
<1>6. req[p].exp \in Int /\ t0[p] \in Int
  BY <1>1, <1>3, <1>4, <1>5
<1> QED BY <1>6

\* Journals names the record that each step of a client appends, and every step touches
\* each key in one of the four ways.
LEMMA ClientTouches ==
  ASSUME Durable, Durably, NEW p \in Clients, Call(p) \/ Step(p)
  PROVE  /\ Journals(p) \in Record /\ now' = now
         /\ \A k \in Keys : Touches(Journals(p)[k], k)
         /\ \A t \in Times, k \in Keys :
              replayed'[t][k] = ReplayKey(Journals(p)[k], replayed[t][k], t)
<1> USE DEF Durably, Base
<1> DEFINE J == Journals(p)
           Good == /\ J \in Record /\ now' = now
                   /\ \A k \in Keys : Touches(J[k], k)
                   /\ \A t \in Times, k \in Keys :
                        replayed'[t][k] = ReplayKey(J[k], replayed[t][k], t)
<1>0. TypeOK /\ NoClient \notin Clients /\ req[p].key \in Keys /\ NoRecord \in Record
  BY StoreAssumption, StoreTypes DEF TypeOK, Request
<1>g. pc[p] \in Gated => gate = p
  BY DEF GateHeld
\* outside these positions nothing is appended
<1>n. pc[p] \notin {"append", "commit", "evicted", "stamp", "deadline"} => J = NoRecord
  BY DEF Journals
<1>m. ASSUME J = NoRecord, replayed' = replayed, now' = now, \A k \in Keys : Touches(NoEffect, k)
      PROVE  Good
  BY Zenon, <1>0, <1>m, ReplayNothing DEF NoRecord
\* steps that touch no entry, no record and not the gate
<1>q. ASSUME J = NoRecord, replayed' = replayed, now' = now, data' = data, gate' = gate, rec' = rec
      PROVE  Good
  <2>1. \A k \in Keys : Pending(k)' = Pending(k) /\ data'[k] = data[k]
    BY <1>q DEF Pending
  <2> QED BY Zenon, <1>m, <1>q, <2>1 DEF Touches, Leaves
\* the holder of the gate, with nothing pending, takes or leaves it
<1>r. ASSUME J = NoRecord, replayed' = replayed, now' = now, data' = data,
             \A k \in Keys : Pending(k) = NoEffect /\ Pending(k)' = NoEffect
      PROVE  Good
  <2>1. \A k \in Keys : Pending(k)' = Pending(k) /\ data'[k] = data[k]
    BY <1>r
  <2> QED BY Zenon, <1>m, <1>r, <2>1 DEF Touches, Leaves
\* an expired entry is collected
<1>c. ASSUME J = NoRecord, NEW k \in Keys, data[k] = Absent \/ Expired(data[k], now),
             deleteLockedInWriteLockedShard(k),
             replayed' = replayed, now' = now, gate' = gate, rec' = rec
      PROVE  Good
  <2>1. data'[k] = Absent /\ \A i \in Keys \ {k} : data'[i] = data[i]
    BY <1>0, <1>c, DelData
  <2>2. \A i \in Keys : Pending(i)' = Pending(i)
    BY Zenon, <1>c DEF Pending
  <2>3. ASSUME NEW i \in Keys PROVE Touches(NoEffect, i)
    BY Zenon, <1>c, <2>1, <2>2, <2>3 DEF Touches, Leaves
  <2> QED BY Zenon, <1>m, <1>c, <2>3
\* the holder of the gate changes an entry and prepares its record
<1>d. ASSUME J = NoRecord, gate = p, gate' = p, NEW k \in Keys, NEW f \in Effect,
             rec' = [rec EXCEPT ![p][k] = f], replayed' = replayed, now' = now,
             \A i \in Keys \ {k} : data'[i] = data[i],
             \/ data'[k] = Absent /\ f = DelEffect
             \/ \E e \in Entry : data'[k] = e /\ f = PutEffect(Journalled(e))
      PROVE  Good
  <2>1. rec[p] \in [Keys -> Effect] /\ p # NoClient
    BY <1>0 DEF TypeOK, Record
  <2>2. rec'[p][k] = f /\ \A i \in Keys \ {k} : rec'[p][i] = rec[p][i]
    BY Zenon, <1>0, <1>d, <2>1 DEF TypeOK
  <2>3. Pending(k)' = f /\ \A i \in Keys \ {k} : Pending(i)' = Pending(i)
    BY <1>d, <2>1, <2>2 DEF Pending
  <2>4. ASSUME NEW i \in Keys PROVE Touches(NoEffect, i)
    BY Zenon, <1>d, <2>3, <2>4 DEF Touches, Leaves, Prepares
  <2> QED BY Zenon, <1>m, <1>d, <2>4
\* the holder of the gate appends what is pending
<1>e. ASSUME J = rec[p], gate = p, propagate(rec[p]), now' = now, data' = data,
             \A k \in Keys : Pending(k)' = NoEffect
      PROVE  Good
  <2>1. rec[p] \in Record /\ \A k \in Keys : Pending(k) = rec[p][k]
    BY Zenon, <1>0, <1>e DEF TypeOK, Pending
  <2>2. \A t \in Times, k \in Keys : replayed'[t][k] = ReplayKey(J[k], replayed[t][k], t)
    BY <1>e DEF propagate, applyLogged
  <2>3. \A k \in Keys : data'[k] = data[k]
    BY <1>e
  <2> QED BY Zenon, <1>e, <2>1, <2>2, <2>3 DEF Touches, Appends
\* ExpireAt changes one entry and appends the record that says so
<1>f. ASSUME NEW k \in Keys, NEW f \in Effect, J = [NoRecord EXCEPT ![k] = f], propagate(J), now' = now,
             \A i \in Keys : Pending(i) = NoEffect /\ Pending(i)' = NoEffect,
             \A i \in Keys \ {k} : data'[i] = data[i],
             Restamps(f, k)
      PROVE  Good
  <2>1. J \in Record /\ J[k] = f /\ \A j \in Keys \ {k} : J[j] = NoEffect
    <3>1. /\ [NoRecord EXCEPT ![k] = f] \in Record
          /\ [NoRecord EXCEPT ![k] = f][k] = f
          /\ \A j \in Keys \ {k} : [NoRecord EXCEPT ![k] = f][j] = NoEffect
      BY SingleRecord
    <3> QED BY Zenon, <1>f, <3>1
  <2>2. \A t \in Times, j \in Keys : replayed'[t][j] = ReplayKey(J[j], replayed[t][j], t)
    BY <1>f DEF propagate, applyLogged
  <2>3. ASSUME NEW j \in Keys PROVE Touches(J[j], j)
    BY Zenon, <1>f, <2>1, <2>3 DEF Touches, Leaves
  <2> QED BY Zenon, <1>f, <2>1, <2>2, <2>3
<1>1. ASSUME Call(p) PROVE Good
  BY Zenon, <1>n, <1>q, <1>1 DEF Call, shardVars
<1>2. ASSUME lockDurableMutation(p) PROVE Good
  <2>1. \A k \in Keys : Pending(k) = NoEffect
    BY <1>2, NothingPending DEF lockDurableMutation, Building
  <2>2. rec[p] = NoRecord
    BY <1>2 DEF Shape, CmdShape, lockDurableMutation, Building
  <2>3. \A k \in Keys : Pending(k)' = NoEffect
    BY <1>2, <2>2 DEF lockDurableMutation, Pending, NoRecord
  <2> QED BY <1>n, <1>r, <1>2, <2>1, <2>3 DEF lockDurableMutation, shardVars
<1>3. ASSUME NEW k \in Keys, Get(p, k) PROVE Good
  <2>1. rec' = rec
    BY <1>3, NextKeyRec DEF Get, Building
  <2> QED BY <1>n, <1>q, <1>3, <2>1 DEF Get, shardVars
<1>4. ASSUME GetCollect(p) PROVE Good
  <2>1. rec' = rec
    BY <1>0, <1>4, NextKeyRec DEF GetCollect, Building
  <2>2. CASE Gone(data[req[p].key], now)
    BY <1>n, <1>c, <1>0, <1>4, <2>1, <2>2 DEF GetCollect, Gone
  <2>3. CASE ~Gone(data[req[p].key], now)
    BY <1>n, <1>q, <1>4, <2>1, <2>3 DEF GetCollect, shardVars
  <2> QED BY Zenon, <2>2, <2>3
<1>5. ASSUME NEW k \in Keys, Exists(p, k) PROVE Good
  <2>1. rec' = rec
    BY Zenon, <1>5, NextKeyRec DEF Exists, Building
  <2> QED BY <1>n, <1>q, <1>5, <2>1 DEF Exists, shardVars
<1>6. ASSUME setLocked(p) PROVE Good
  <2> DEFINE k == req[p].key
  <2>1. k \in Keys /\ new[p] \in Entry /\ gate = p /\ J = NoRecord
    BY Zenon, <1>0, <1>6, <1>g, <1>n DEF TypeOK, Shape, CmdShape, setLocked, Slot, Gated
  <2>2. data'[k] = new[p] /\ \A i \in Keys \ {k} : data'[i] = data[i]
    BY <1>6, <2>1, SetData DEF setLocked
  <2>3. PutEffect(Journalled(new[p])) \in Effect
    BY <2>1, JournalledType, EffectTypes
  <2> QED BY Zenon, <1>d, <1>6, <2>1, <2>2, <2>3 DEF setLocked
<1>7. ASSUME propagateSetLocked(p) PROVE Good
  <2>1. gate = p /\ J = rec[p]
    BY <1>7, <1>g DEF propagateSetLocked, Gated, Building, Journals
  <2>2. \A k \in Keys : Pending(k)' = NoEffect
    BY <1>7 DEF propagateSetLocked, Pending
  <2> QED BY Zenon, <1>e, <1>7, <2>1, <2>2 DEF propagateSetLocked, shardVars
<1>8. ASSUME lockWriteShards(p) PROVE Good
  BY Zenon, <1>n, <1>q, <1>8 DEF lockWriteShards, shardVars
<1>9. ASSUME NEW k \in Keys, Batch(p, k) PROVE Good
  <2>1. gate = p /\ gate' = p /\ replayed' = replayed /\ now' = now /\ J = NoRecord
    BY Zenon, <1>9, <1>g, <1>n DEF Batch, Gated, Building
  <2>2. CASE req[p].op = "MSET"
    <3> DEFINE e == [val |-> req[p].vals[k], exp |-> Never]
    <3>1. e \in Entry /\ e.exp = Never
      BY DEF TypeOK, Request, Entry
    <3>2. setLockedInWriteLockedShard(k, e) /\ rec' = [rec EXCEPT ![p][k] = PutEffect(e)]
      BY <1>9, <2>2 DEF Batch, MSetKey
    <3>3. Journalled(e) = e /\ PutEffect(e) \in Effect
      BY <3>1, JournalledType, EffectTypes
    <3>4. data'[k] = e /\ \A i \in Keys \ {k} : data'[i] = data[i]
      BY <3>1, <3>2, SetData
    <3> QED BY Zenon, <1>d, <2>1, <3>1, <3>2, <3>3, <3>4
  <2>3. CASE req[p].op # "MSET" /\ data[k] = Absent
    BY <1>q, <1>9, <2>1, <2>3 DEF Batch, DelKey, shardVars
  <2>4. CASE req[p].op # "MSET" /\ data[k] # Absent
    <3>1. deleteLockedInWriteLockedShard(k) /\ rec' = [rec EXCEPT ![p][k] = DelEffect]
      BY <1>9, <2>4 DEF Batch, DelKey
    <3>2. data'[k] = Absent /\ \A i \in Keys \ {k} : data'[i] = data[i]
      BY <3>1, DelData
    <3> QED BY Zenon, <1>d, <2>1, <3>1, <3>2, EffectTypes
  <2> QED BY <2>2, <2>3, <2>4
<1>10. ASSUME BatchCommit(p) PROVE Good
  <2>1. gate = p /\ J = rec[p]
    BY <1>10, <1>g DEF BatchCommit, Gated, Building, Journals
  <2>2. \A k \in Keys : Pending(k)' = NoEffect
    BY <1>10 DEF BatchCommit, Pending
  <2> QED BY Zenon, <1>e, <1>10, <2>1, <2>2 DEF BatchCommit, shardVars
<1>11. ASSUME unlockWriteShards(p) PROVE Good
  <2>1. rec' = rec
    BY <1>11, FinishRec DEF unlockWriteShards, Return, Building
  <2> QED BY Zenon, <1>n, <1>q, <1>11, <2>1 DEF unlockWriteShards, shardVars
<1>12. ASSUME ExpireAtGone(p) PROVE Good
  <2>0. PICK k \in Keys : k = req[p].key
    BY <1>0
  <2>1. gate = p /\ gate' = NoClient /\ now' = now /\ pc[p] = "deadline" /\ pc[p] \notin Building
    BY Zenon, <1>12, <1>g DEF ExpireAtGone, Gated, Building
  <2>2. \A j \in Keys : Pending(j) = NoEffect /\ Pending(j)' = NoEffect
    BY <2>1, NothingPending DEF Pending
  <2>3. CASE data[k] = Absent /\ UNCHANGED <<shardVars, replayed>>
    <3>1. J = NoRecord
      BY <2>0, <2>1, <2>3 DEF Journals
    <3> QED BY Zenon, <1>r, <2>1, <2>2, <2>3, <3>1 DEF shardVars
  <2>4. CASE /\ data[k] # Absent /\ (Expired(data[k], t0[p]) \/ req[p].exp <= t0[p])
             /\ deleteLockedInWriteLockedShard(k) /\ propagate([NoRecord EXCEPT ![k] = DelEffect])
    <3>1. ~(Live(data[k], t0[p]) /\ req[p].exp > t0[p])
      <4>1. ~(req[p].exp <= t0[p] /\ req[p].exp > t0[p])
        BY Zenon, <1>0, DeadlineReached
      <4> QED BY Zenon, <2>4, <4>1 DEF Live
    <3>2. J = [NoRecord EXCEPT ![k] = DelEffect]
      BY <2>0, <2>1, <2>4, <3>1 DEF Journals
    <3>3. data'[k] = Absent /\ \A i \in Keys \ {k} : data'[i] = data[i]
      BY <1>0, <2>4, DelData
    <3>4. Restamps(DelEffect, k)
      BY Zenon, <2>2, <3>3 DEF Restamps
    <3> QED BY Zenon, <1>0, <1>f, <2>1, <2>2, <2>4, <3>2, <3>3, <3>4, EffectTypes
  <2> QED BY Zenon, <1>12, <2>0, <2>3, <2>4 DEF ExpireAtGone, Gone
<1>13. ASSUME ExpireAtBegin(p) PROVE Good
  <2>1. J = NoRecord
    BY <1>13 DEF ExpireAtBegin, Journals
  <2> QED BY Zenon, <1>q, <1>13, <2>1 DEF ExpireAtBegin, shardVars
<1>14. ASSUME ExpireAtEnd(p) PROVE Good
  <2>0. PICK k \in Keys : k = req[p].key
    BY <1>0
  <2>d. PICK d : d = req[p].exp
    OBVIOUS
  <2> DEFINE f == StampEffect(unixMillis(d))
  <2>1. /\ gate = p /\ gate' = NoClient /\ now' = now /\ pc[p] = "stamp" /\ pc[p] \notin Building
        /\ propagate([NoRecord EXCEPT ![k] = f])
    BY <1>14, <1>g, <2>0, <2>d DEF ExpireAtEnd, Gated, Building
  <2>2. \A j \in Keys : Pending(j) = NoEffect /\ Pending(j)' = NoEffect
    BY Zenon, <2>1, NothingPending DEF Pending
  <2>3. data[k] \in Entry /\ d \in Deadlines
    <3>1. data[k] \in Slot /\ data[k] # Absent
      BY <2>0, <2>1 DEF TypeOK, Locks, CmdLocks
    <3>2. req[p] \in Request /\ req[p].exp # Never
      BY Zenon, <2>1 DEF TypeOK, Shape, CmdShape
    <3> QED BY <2>d, <3>1, <3>2 DEF Slot, Request
  <2>4. data'[k] = [data[k] EXCEPT !.exp = d] /\ \A i \in Keys \ {k} : data'[i] = data[i]
    BY <2>0, <2>d, <1>14 DEF ExpireAtEnd, TypeOK
  <2>5. f \in Effect
    BY <2>3, MillisType, EffectTypes
  <2>6. J = [NoRecord EXCEPT ![k] = f]
    BY <2>0, <2>d, <2>1 DEF Journals
  <2>7. Restamps(f, k)
    BY Zenon, <2>2, <2>3, <2>4 DEF Restamps
  <2> QED BY Zenon, <1>0, <1>f, <2>1, <2>2, <2>4, <2>5, <2>6, <2>7
<1>15. ASSUME RmwPeek(p) \/ RmwCheck(p) \/ RmwCalc(p) \/ pickVictim(p) PROVE Good
  BY <1>n, <1>q, <1>15 DEF RmwPeek, RmwCheck, RmwCalc, pickVictim, shardVars
<1>16. ASSUME RmwDrop(p) PROVE Good
  <2> DEFINE k == req[p].key
  <2>1. RmwSafe(p) /\ CmdShape(p) /\ pc[p] = "drop"
    BY <1>16 DEF RmwHeld, Shape, RmwDrop
  <2>2. ptr[p] \in Entry /\ Expired(ptr[p], t0[p]) /\ t0[p] <= now
    BY Zenon, <2>1 DEF CmdShape, RmwSafe, TypeOK, Slot
  <2>3. Expired(ptr[p], now)
    BY <2>2, KeyspaceAssumption DEF Expired, TypeOK, Times, Entry, Deadlines
  <2>4. data[k] = Absent \/ ptr[p] = data[k]
    BY <2>1 DEF RmwSafe, Looking, Attached
  <2> QED BY Zenon, <1>n, <1>c, <1>0, <1>16, <2>3, <2>4 DEF RmwDrop
<1>17. ASSUME RmwRefuse(p) \/ EvictDone(p) PROVE Good
  <2>1. /\ gate = p /\ gate' = NoClient /\ now' = now /\ pc[p] \notin Building
        /\ data' = data /\ replayed' = replayed /\ J = NoRecord
    BY <1>17, <1>g, <1>n DEF RmwRefuse, EvictDone, Gated, Building, shardVars
  <2>2. \A j \in Keys : Pending(j) = NoEffect /\ Pending(j)' = NoEffect
    BY <2>1, NothingPending DEF Pending
  <2> QED BY Zenon, <1>r, <2>1, <2>2
<1>18. ASSUME Evict(p) PROVE Good
  <2> DEFINE k == req[p].key
  <2>1. gate = p /\ gate' = p /\ k \in Keys /\ J = NoRecord
    BY <1>0, <1>18, <1>g, <1>n DEF Evict, Gated
  <2>2. data'[k] = Absent /\ \A i \in Keys \ {k} : data'[i] = data[i]
    BY <1>18, <2>1, DelData DEF Evict
  <2> QED BY Zenon, <1>d, <1>18, <2>1, <2>2, EffectTypes DEF Evict
<1>19. ASSUME EvictAppend(p) PROVE Good
  <2>1. gate = p /\ J = rec[p]
    BY <1>19, <1>g DEF EvictAppend, Gated, Building, Journals
  <2>2. \A k \in Keys : Pending(k)' = NoEffect
    <3>1. rec'[p] = NoRecord /\ gate' = p
      BY Zenon, <1>0, <1>19, <2>1 DEF EvictAppend, TypeOK
    <3> QED BY <1>0, <3>1 DEF Pending, NoRecord
  <2> QED BY Zenon, <1>e, <1>19, <2>1, <2>2 DEF EvictAppend, shardVars
<1> QED
  BY <1>1, <1>2, <1>3, <1>4, <1>5, <1>6, <1>7, <1>8, <1>9, <1>10, <1>11, <1>12, <1>13, <1>14,
     <1>15, <1>16, <1>17, <1>18, <1>19 DEF Step

\* The sampler and the clock append nothing.
LEMMA OthersTouch ==
  ASSUME Base, (\E k \in Keys : expireSample(k)) \/ Tick \/ UNCHANGED vars
  PROVE  /\ replayed' = replayed /\ (now' = now \/ now' = now + 1)
         /\ \A k \in Keys : Touches(NoEffect, k)
<1> SUFFICES ASSUME NEW i \in Keys
             PROVE  replayed' = replayed /\ (now' = now \/ now' = now + 1) /\ Touches(NoEffect, i)
  <2>1. replayed' = replayed /\ (now' = now \/ now' = now + 1)
    BY DEF expireSample, Tick, vars
  <2> QED BY <2>1
<1>1. ASSUME NEW k \in Keys, expireSample(k)
      PROVE  replayed' = replayed /\ now' = now /\ Touches(NoEffect, i)
  <2>1. data'[k] = Absent /\ \A j \in Keys \ {k} : data'[j] = data[j]
    BY <1>1, DelData DEF expireSample, Base
  <2>2. Pending(i)' = Pending(i)
    BY Zenon, <1>1 DEF expireSample, Pending
  <2>3. data[k] = Absent \/ Expired(data[k], now)
    BY <1>1 DEF expireSample, Gone
  <2> QED BY Zenon, <1>1, <2>1, <2>2, <2>3 DEF expireSample, Touches, Leaves
<1>2. ASSUME Tick \/ UNCHANGED vars
      PROVE  replayed' = replayed /\ (now' = now \/ now' = now + 1) /\ Touches(NoEffect, i)
  <2>1. Pending(i)' = Pending(i) /\ data'[i] = data[i]
    BY <1>2 DEF Tick, vars, shardVars, Pending
  <2> QED BY Zenon, <1>2, <2>1 DEF Tick, vars, Touches, Leaves
<1> QED BY <1>1, <1>2
=============================================================================
