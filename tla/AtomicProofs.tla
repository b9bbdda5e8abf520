---------------------------- MODULE AtomicProofs ----------------------------
(***************************************************************************)
(* What a store with a journal keeps, for every set of keys, clients,      *)
(* shards and requests: its journal brings back what it holds, and its     *)
(* commands are atomic, so that Store implements AtomicStore.  And, with a *)
(* journal or without one, the order in which locks are taken.             *)
(***************************************************************************)
EXTENDS Atomicity, StoreProofs

-----------------------------------------------------------------------------
(***************************************************************************)
(* What replaying the journal rebuilds, proved for a store with a journal  *)
(* attached.  The invariant speaks of every time t at which a restart may  *)
(* still happen and of the journal together with the record that the       *)
(* holder of the gate is about to append: a command's effect on a shard is *)
(* visible before its record, so the journal alone is not enough.          *)
(***************************************************************************)

\* What a slot x of the journal comes back as at t, once the pending record is appended.
Recovered(x, t, k) == ReplayKey(Pending(k), x, t)

\* The slot x that a log rebuilds at t under k agrees with the store.
Agrees(x, t, k) ==
    /\ x # Absent => ~Expired(x, t)
    /\ Recovered(x, t, k) # Absent => data[k] # Absent /\ Recovered(x, t, k) = Journalled(data[k])
    /\ data[k] # Absent /\ data[k].exp = Never => Recovered(x, t, k) = data[k]

Faithful == \A t \in Times, k \in Keys : t >= now => Agrees(replayed[t][k], t, k)

-----------------------------------------------------------------------------
(***************************************************************************)
(* Agreement is kept, whatever the step does to the key.  x is what a log  *)
(* rebuilds before the step; after it the log has one more record.         *)
(***************************************************************************)
LEMMA AgreesStep ==
  ASSUME TypeOK, NEW k \in Keys, NEW t \in Times, t >= now, NEW x \in Slot, NEW f \in Effect,
         Agrees(x, t, k), Touches(f, k)
  PROVE  Agrees(ReplayKey(f, x, t), t, k)'
<1> DEFINE y == ReplayKey(f, x, t)
<1>0. Pending(k) \in Effect /\ data[k] \in Slot
  BY PendingType DEF TypeOK
<1>1. y \in Slot /\ (y # Absent => ~Expired(y, t))
  BY ReplayKeyType, ReplayKeyFresh DEF Agrees
<1>2. Recovered(x, t, k) \in Slot /\ (Recovered(x, t, k) # Absent => ~Expired(Recovered(x, t, k), t))
  BY <1>0, ReplayKeyType, ReplayKeyFresh DEF Agrees, Recovered
<1>3. Recovered(y, t, k)' = ReplayKey(Pending(k)', y, t)
  BY DEF Recovered
<1>4. CASE Leaves(f, k)
  <2>1. y = x /\ Recovered(y, t, k)' = Recovered(x, t, k)
    BY <1>3, <1>4, ReplayNothing DEF Leaves, Recovered
  <2>2. CASE data'[k] = data[k]
    BY Zenon, <1>1, <2>1, <2>2 DEF Agrees
  <2>3. CASE data'[k] = Absent /\ (data[k] = Absent \/ Expired(data[k], now))
    \* no restart from now on could have brought the entry back, because the journal
    \* carries its deadline rounded down
    <3>1. Recovered(x, t, k) = Absent
      <4> SUFFICES ASSUME Recovered(x, t, k) # Absent PROVE FALSE
        OBVIOUS
      <4>1. data[k] \in Entry /\ Recovered(x, t, k) = Journalled(data[k]) /\ Expired(data[k], now)
        BY <1>0, <2>3 DEF Agrees, Slot
      <4>2. /\ data[k].exp \in Deadlines /\ data[k].exp <= now
            /\ Recovered(x, t, k).exp = unixMillis(data[k].exp)
        BY <4>1, JournalledType DEF Expired, Entry
      <4>3. /\ unixMillis(data[k].exp) \in Deadlines /\ unixMillis(data[k].exp) # Never
            /\ unixMillis(data[k].exp) <= data[k].exp
        BY <4>2, MillisType
      <4>4. Expired(Recovered(x, t, k), t)
        <5>1. \A d \in Times : d \in Int
          BY KeyspaceAssumption DEF Times
        <5>2. PICK m \in Int, d \in Int : m = unixMillis(data[k].exp) /\ d = data[k].exp
          BY <4>2, <4>3, <5>1 DEF Deadlines
        <5>3. m # Never /\ m <= d /\ d <= now /\ now <= t /\ now \in Int /\ t \in Int
          BY <4>2, <4>3, <5>1, <5>2 DEF TypeOK
        <5>4. m <= t
          BY <5>2, <5>3
        <5> QED BY <4>2, <5>2, <5>3, <5>4 DEF Expired
      <4> QED BY <1>2, <4>4
    <3> QED BY Zenon, <1>1, <2>1, <2>3, <3>1 DEF Agrees
  <2> QED BY <1>4, <2>2, <2>3 DEF Leaves
<1>5. CASE Appends(f, k)
  <2>1. y = Recovered(x, t, k)
    BY <1>5 DEF Appends, Recovered
  <2>2. Recovered(y, t, k)' = y
    BY <1>3, <1>5, ReplayNothing DEF Appends
  <2> QED BY Zenon, <1>1, <1>5, <2>1, <2>2 DEF Appends, Agrees
<1>6. CASE Prepares(f, k)
  <2>1. y = x
    BY <1>6, ReplayNothing DEF Prepares
  <2>2. CASE data'[k] = Absent /\ Pending(k)' = DelEffect
    <3>1. ReplayKey(DelEffect, y, t) = Absent
      BY DEF ReplayKey, DelEffect
    <3>2. Recovered(y, t, k)' = Absent
      BY Zenon, <1>3, <2>2, <3>1
    <3> QED BY Zenon, <1>1, <2>2, <3>2 DEF Agrees
  <2>3. ASSUME NEW e \in Entry, data'[k] = e, Pending(k)' = PutEffect(Journalled(e))
        PROVE  Agrees(y, t, k)'
    <3>0. ReplayKey(PutEffect(Journalled(e)), y, t)
            = IF Expired(Journalled(e), t) THEN Absent ELSE Journalled(e)
      BY DEF ReplayKey, PutEffect
    <3>1. Recovered(y, t, k)' = IF Expired(Journalled(e), t) THEN Absent ELSE Journalled(e)
      BY Zenon, <1>3, <2>3, <3>0
    <3>2. e # Absent /\ (e.exp = Never => Journalled(e) = e)
      BY AbsentNotEntry, JournalledType
    <3>3. e.exp = Never => ~Expired(Journalled(e), t)
      BY <3>2 DEF Expired
    <3> QED BY Zenon, <1>1, <2>3, <3>1, <3>2, <3>3 DEF Agrees
  <2> QED BY <1>6, <2>2, <2>3 DEF Prepares
<1>7. CASE Restamps(f, k)
  <2>1. Recovered(x, t, k) = x /\ Recovered(y, t, k)' = y
    BY <1>3, <1>7, ReplayNothing DEF Restamps, Recovered
  <2>2. CASE data'[k] = Absent /\ f = DelEffect
    <3>1. y = Absent
      BY <2>2 DEF ReplayKey, DelEffect
    <3> QED BY Zenon, <2>1, <2>2, <3>1 DEF Agrees
  <2>3. ASSUME NEW d \in Deadlines, data[k] \in Entry, data'[k] = [data[k] EXCEPT !.exp = d],
               f = StampEffect(unixMillis(d))
        PROVE  Agrees(y, t, k)'
    <3> DEFINE m == unixMillis(d)
    <3>1. /\ data'[k] \in Entry /\ data'[k].exp = d /\ data'[k].val = data[k].val
          /\ data'[k] # Absent /\ d # Never
      BY <2>3, AbsentNotEntry, KeyspaceAssumption DEF Entry, Deadlines, Times, Never
    <3>2. ASSUME y # Absent PROVE y = Journalled(data'[k])
      <4>1. Live(x, t) /\ y = [x EXCEPT !.exp = m]
        BY <2>3, <3>2 DEF ReplayKey, StampEffect
      <4>2. x = Journalled(data[k])
        BY <2>1, <4>1 DEF Agrees, Live
      <4>3. y = [val |-> data[k].val, exp |-> m]
        BY <4>1, <4>2 DEF Journalled
      <4> QED BY <3>1, <4>3 DEF Journalled
    <3> QED BY Zenon, <1>1, <2>1, <3>1, <3>2 DEF Agrees
  <2> QED BY Zenon, <1>7, <2>2, <2>3 DEF Restamps
<1> QED BY <1>4, <1>5, <1>6, <1>7 DEF Touches

\* Every step of the store keeps the log it appends to in agreement.
LEMMA FaithfulStep ==
  ASSUME Durable, Durably, Faithful, [Next]_vars
  PROVE  Faithful'
<1> SUFFICES ASSUME NEW t \in Times, NEW k \in Keys, t >= now'
             PROVE  Agrees(replayed[t][k], t, k)'
  BY DEF Faithful
<1>0. PICK x \in Slot : x = replayed[t][k]
  BY DEF Durably, Base, TypeOK
<1>1. ASSUME NEW f \in Effect, Touches(f, k), t >= now, replayed'[t][k] = ReplayKey(f, x, t)
      PROVE  Agrees(replayed[t][k], t, k)'
  <2>1. Agrees(x, t, k)
    BY <1>0, <1>1 DEF Faithful
  <2>2. Agrees(ReplayKey(f, x, t), t, k)'
    BY <1>1, <2>1, AgreesStep DEF Durably, Base
  <2> QED BY <1>1, <2>2 DEF Agrees, Recovered
<1>2. ASSUME NEW p \in Clients, Call(p) \/ Step(p) PROVE Agrees(replayed[t][k], t, k)'
  <2>1. PICK f \in Effect : f = Journals(p)[k]
    BY <1>2, ClientTouches DEF Record
  <2>2. Touches(f, k) /\ t >= now /\ replayed'[t][k] = ReplayKey(f, x, t)
    BY <1>0, <1>2, <2>1, ClientTouches
  <2> QED BY <1>1, <2>2
<1>3. ASSUME (\E j \in Keys : expireSample(j)) \/ Tick \/ UNCHANGED vars
      PROVE  Agrees(replayed[t][k], t, k)'
  <2>1. Touches(NoEffect, k) /\ replayed' = replayed /\ (now' = now \/ now' = now + 1)
    BY <1>3, OthersTouch DEF Durably
  <2>2. t >= now
    BY <2>1, KeyspaceAssumption DEF Durably, Base, TypeOK, Times
  <2>3. replayed'[t][k] = ReplayKey(NoEffect, x, t)
    BY <1>0, <2>1, ReplayNothing
  <2> QED BY <1>1, <2>1, <2>2, <2>3, EffectTypes
<1> QED BY <1>2, <1>3 DEF Next

\* An empty journal rebuilds the empty keyspace.
LEMMA FaithfulInit == Init => Faithful
<1> SUFFICES ASSUME Init, NEW t \in Times, NEW k \in Keys PROVE Agrees(replayed[t][k], t, k)
  BY DEF Faithful
<1>1. replayed[t][k] = Absent /\ data[k] = Absent /\ Pending(k) = NoEffect
  BY DEF Init, Pending
<1>2. Recovered(replayed[t][k], t, k) = Absent
  BY <1>1, ReplayNothing DEF Recovered
<1> QED BY <1>1, <1>2 DEF Agrees

\* Agreement is all that the two properties of restarts ask for.
LEMMA FaithfulImplies == Faithful => ReplayNeverInvents /\ PersistentKeysSurvive
<1> SUFFICES ASSUME Faithful, NEW t \in Times, NEW k \in Keys, t >= now, Pending(k) = NoEffect
             PROVE  /\ Recovered(replayed[t][k], t, k) = replayed[t][k]
                    /\ Agrees(replayed[t][k], t, k)
  BY DEF ReplayNeverInvents, PersistentKeysSurvive, Agrees
<1> QED BY ReplayNothing DEF Faithful, Recovered

\* The inductive invariant behind the two theorems on restarts: at every later time
\* replay rebuilds each settled key as the store has it, or loses it although it has a
\* deadline.
THEOREM FaithfulInvariant == ASSUME Durable PROVE Spec => []Faithful
<1>1. Durably /\ Faithful /\ [Next]_vars => Faithful'
  BY FaithfulStep
<1> QED BY <1>1, FaithfulInit, DurableInvariant, PTL DEF Spec

\* With a journal attached, replaying it at any later time brings back, under a key that
\* no command is changing, nothing but what the store holds there.
THEOREM NothingInvented == ASSUME Durable PROVE Spec => []ReplayNeverInvents
BY FaithfulImplies, FaithfulInvariant, PTL

\* With a journal attached, a key without a deadline survives a restart at any time.
THEOREM PersistentKeysRecovered == ASSUME Durable PROVE Spec => []PersistentKeysSurvive
BY FaithfulImplies, FaithfulInvariant, PTL
-----------------------------------------------------------------------------
(***************************************************************************)
(* What a command in progress remembers: the request it came from, and, at *)
(* the point where it changes the store, all it has established before.    *)
(***************************************************************************)
Origin(p) ==
    pc[p] \in Gated \cup {"gate"} =>
      /\ req[p].op \notin Reads
      /\ IF req[p].op = "EVICT"
           THEN \E r \in Requests : r.op = "EVICT"
           ELSE \E r \in Requests, t \in Times : t <= now /\ req[p] = Effective(r, t)
      /\ pc[p] \in {"pick", "evict", "evicted"} => req[p].op = "EVICT"
      /\ pc[p] \in {"gate", "lock"} => todo[p] = req[p].keys

Prepared(p) ==
    LET r == req[p] IN
      /\ pc[p] = "apply" /\ r.op = "SET" => new[p] = [val |-> r.vals[r.key], exp |-> r.exp]
      /\ pc[p] = "apply" /\ r.op \in RMW =>
           /\ new[p].val = Computed(p)
           /\ new[p].exp = IF ptr[p] = Absent THEN Never ELSE ptr[p].exp
      /\ pc[p] \in {"calc", "apply"} /\ r.op \in RMW /\ ptr[p] # Absent => ~Expired(ptr[p], t0[p])
      /\ pc[p] = "stamp" => Live(data[r.key], t0[p]) /\ r.exp > t0[p]

Origins == \A p \in Clients : Origin(p)
Readiness == \A p \in Clients : Prepared(p)

\* Only SET and DEL are rewritten on arrival, and no mutation becomes a read.
LEMMA EffectiveOp ==
  ASSUME NEW r \in Requests, NEW t \in Times
  PROVE  /\ r.op \notin Reads => Effective(r, t).op \notin Reads
         /\ Effective(r, t).op = "EVICT" => r.op = "EVICT"
         /\ Effective(r, t).op # "DEL" => Effective(r, t) = r
<1>1. r \in Request
  BY StoreAssumption
<1>2. CASE r.op = "SET" /\ r.exp # Never /\ r.exp <= t
  <2>1. Effective(r, t).op = "DEL"
    BY <1>1, <1>2 DEF Effective, Request
  <2> QED BY <2>1 DEF Reads
<1>3. CASE ~(r.op = "SET" /\ r.exp # Never /\ r.exp <= t)
  BY <1>3 DEF Effective
<1> QED BY <1>2, <1>3

\* A step of one client leaves the position and the locals of every other alone; only
\* ExpireAt writes through a pointer that another client may hold.
LEMMA OneActs ==
  ASSUME TypeOK, NEW p \in Clients, Call(p) \/ Step(p), NEW q \in Clients, q # p
  PROVE  /\ pc'[q] = pc[q] /\ req'[q] = req[q] /\ t0'[q] = t0[q] /\ new'[q] = new[q]
         /\ todo'[q] = todo[q] /\ now' = now
         /\ ptr'[q] = ptr[q] \/ ExpireAtEnd(p)
<1> DEFINE Same == /\ pc'[q] = pc[q] /\ req'[q] = req[q] /\ t0'[q] = t0[q] /\ new'[q] = new[q]
                   /\ todo'[q] = todo[q] /\ now' = now
           Kept == Same /\ ptr'[q] = ptr[q]
<1>0. req[p].key \in Keys
  BY DEF TypeOK, Request
<1>f. ASSUME Finish(p), now' = now PROVE Same
  BY <1>f DEF Finish, Goto, TypeOK
<1>r. ASSUME Return(p), now' = now PROVE Kept
  BY <1>f, <1>r DEF Return, TypeOK
<1>k. ASSUME NEW k \in Keys, NextKey(p, k), now' = now PROVE Kept
  <2>1. CASE todo[p] = {k}
    BY <1>k, <1>r, <2>1 DEF NextKey
  <2>2. CASE todo[p] # {k}
    BY <1>k, <2>2 DEF NextKey, Goto, TypeOK
  <2> QED BY <2>1, <2>2
<1>1. ASSUME Call(p) PROVE Kept
  BY ZenonT(30), <1>1 DEF Call, Goto, TypeOK
<1>2. ASSUME lockDurableMutation(p) PROVE Kept
  BY <1>2 DEF lockDurableMutation, Goto, TypeOK
<1>3. ASSUME NEW k \in Keys, Get(p, k) PROVE Kept
  BY <1>3, <1>k DEF Get, Goto, TypeOK
<1>4. ASSUME NEW k \in Keys, Exists(p, k) PROVE Kept
  BY Zenon, <1>4, <1>k DEF Exists
<1>5. ASSUME NEW k \in Keys, Batch(p, k) PROVE Kept
  BY ZenonT(30), <1>5 DEF Batch, Goto, TypeOK
<1>6. ASSUME GetCollect(p) PROVE Kept
  BY Zenon, <1>0, <1>6, <1>k DEF GetCollect
<1>7. ASSUME setLocked(p) \/ lockWriteShards(p) \/ BatchCommit(p) \/ ExpireAtBegin(p) \/ RmwCheck(p)
             \/ Evict(p) \/ EvictAppend(p)
      PROVE  Kept
  BY ZenonT(30), <1>7 DEF setLocked, lockWriteShards, BatchCommit, ExpireAtBegin, RmwCheck, Evict,
                          EvictAppend, Goto, TypeOK, cmdVars
<1>8. ASSUME propagateSetLocked(p) \/ ExpireAtGone(p) \/ RmwRefuse(p) \/ EvictDone(p) PROVE Kept
  BY Zenon, <1>r, <1>8 DEF propagateSetLocked, ExpireAtGone, RmwRefuse, EvictDone
<1>9. ASSUME unlockWriteShards(p) PROVE Kept
  BY ZenonT(30), <1>r, <1>9 DEF unlockWriteShards
<1>10. ASSUME ExpireAtEnd(p) PROVE Same
  BY Zenon, <1>f, <1>10 DEF ExpireAtEnd
<1>11. ASSUME RmwPeek(p) \/ RmwDrop(p) \/ pickVictim(p) PROVE Kept
  BY ZenonT(30), <1>11 DEF RmwPeek, RmwDrop, pickVictim, Goto, TypeOK
<1>12. ASSUME RmwCalc(p) PROVE Kept
  BY ZenonT(30), <1>12 DEF RmwCalc, Goto, TypeOK
<1> QED
  BY <1>1, <1>2, <1>3, <1>4, <1>5, <1>6, <1>7, <1>8, <1>9, <1>10, <1>11, <1>12 DEF Step

\* Every step keeps the link between a command in progress and the request it came from.
LEMMA OriginStep ==
  ASSUME Durably, Origins, [Next]_vars
  PROVE  Origins'
<1> SUFFICES ASSUME NEW q \in Clients PROVE Origin(q)'
  BY DEF Origins
<1> USE DEF Durably, Base
<1>0. TypeOK /\ Origin(q) /\ req[q].key \in Keys
  BY DEF Origins, TypeOK, Request
\* q is outside the mutating part of the code
<1>a. ASSUME pc'[q] \notin Gated \cup {"gate"} PROVE Origin(q)'
  BY <1>a DEF Origin
\* time may pass, but q does not move
<1>b. ASSUME now' = now \/ now' = now + 1, pc'[q] = pc[q], req'[q] = req[q], todo'[q] = todo[q]
      PROVE  Origin(q)'
  <2>1. \A t \in Times : t <= now => t <= now'
    BY <1>b, KeyspaceAssumption DEF TypeOK, Times
  <2> QED BY Zenon, <1>0, <1>b, <2>1 DEF Origin
\* q moves on with the same request
<1>c. ASSUME now' = now, req'[q] = req[q], pc[q] \in Gated \cup {"gate"},
             pc'[q] \in {"pick", "evict", "evicted"} => req[q].op = "EVICT",
             pc'[q] \in {"gate", "lock"} => pc[q] \in {"gate", "lock"} /\ todo'[q] = todo[q]
      PROVE  Origin(q)'
  BY Zenon, <1>0, <1>c DEF Origin
<1>1. ASSUME NEW p \in Clients, p # q, Call(p) \/ Step(p) PROVE Origin(q)'
  BY <1>b, <1>1, OneActs
<1>2. ASSUME Call(q) PROVE Origin(q)'
  <2>1. PICK r \in Requests :
          /\ req' = [req EXCEPT ![q] = Effective(r, now)]
          /\ todo' = [todo EXCEPT ![q] = Effective(r, now).keys]
          /\ Goto(q, IF r.op \in Reads THEN "read" ELSE "gate")
    BY Zenon, <1>2 DEF Call
  <2>2. /\ req'[q] = Effective(r, now) /\ todo'[q] = Effective(r, now).keys /\ now' = now
        /\ pc'[q] = IF r.op \in Reads THEN "read" ELSE "gate"
    BY <1>2, <2>1 DEF Goto, TypeOK, Call
  <2>3. CASE r.op \in Reads
    BY <1>a, <2>2, <2>3 DEF Gated, Building
  <2>4. CASE r.op \notin Reads
    <3>1. now \in Times /\ now <= now
      BY KeyspaceAssumption DEF TypeOK, Times
    <3>2. req'[q].op \notin Reads /\ (req'[q].op = "EVICT" => r.op = "EVICT")
      BY <2>2, <2>4, <3>1, EffectiveOp
    <3> QED BY Zenon, <2>2, <2>4, <3>1, <3>2 DEF Origin
  <2> QED BY <2>3, <2>4
<1>3. ASSUME lockDurableMutation(q) PROVE Origin(q)'
  <2>1. /\ pc[q] = "gate" /\ now' = now /\ req'[q] = req[q] /\ todo'[q] = todo[q]
        /\ pc'[q] = CASE req[q].op = "SET"      -> "apply"
                      [] req[q].op \in Batches  -> "lock"
                      [] req[q].op = "EXPIREAT" -> "deadline"
                      [] req[q].op \in RMW      -> "peek"
                      [] OTHER                  -> "pick"
    BY <1>3 DEF lockDurableMutation, Goto, TypeOK
  <2>2. req[q].op \in Ops /\ req[q].op \notin Reads
    BY <1>0, <2>1 DEF Origin, TypeOK, Request
  <2>3. pc'[q] \in {"pick", "evict", "evicted"} => req[q].op = "EVICT"
    BY <2>1, <2>2 DEF Ops, Reads, RMW, Batches
  <2> QED BY <1>c, <2>1, <2>3
<1>4. ASSUME NEW k \in Keys, Get(q, k) PROVE Origin(q)'
  <2>1. pc'[q] \in {"idle", "read", "collect"}
    BY <1>4, NextKeyPc DEF Get, Goto, TypeOK
  <2> QED BY <1>a, <2>1 DEF Gated, Building
<1>5. ASSUME (\E k \in Keys : Exists(q, k)) \/ GetCollect(q) PROVE Origin(q)'
  <2>1. pc'[q] \in {"idle", "read"}
    BY ZenonT(30), <1>0, <1>5, NextKeyPc DEF Exists, GetCollect
  <2> QED BY <1>a, <2>1 DEF Gated, Building
<1>6. ASSUME NEW k \in Keys, Batch(q, k) PROVE Origin(q)'
  <2>1. pc[q] = "body" /\ pc'[q] \in {"commit", "body"} /\ now' = now /\ req'[q] = req[q]
    BY ZenonT(30), <1>6 DEF Batch, Goto, TypeOK
  <2> QED BY <1>c, <2>1 DEF Gated, Building
<1>7. ASSUME setLocked(q) \/ lockWriteShards(q) \/ BatchCommit(q) \/ ExpireAtBegin(q) \/ RmwCheck(q)
             \/ RmwPeek(q) \/ RmwDrop(q) \/ RmwCalc(q)
      PROVE  Origin(q)'
  <2>1. /\ pc[q] \in Gated /\ now' = now /\ req'[q] = req[q] /\ todo'[q] = todo[q]
        /\ pc'[q] \notin {"gate", "pick", "evict", "evicted"}
        /\ pc'[q] = "lock" => pc[q] = "lock"
    BY <1>7 DEF setLocked, lockWriteShards, BatchCommit, ExpireAtBegin, RmwCheck, RmwPeek, RmwDrop,
                RmwCalc, Goto, TypeOK, cmdVars, Gated, Building
  <2> QED BY <1>c, <2>1
<1>8. ASSUME propagateSetLocked(q) \/ ExpireAtGone(q) \/ ExpireAtEnd(q) \/ RmwRefuse(q) \/ EvictDone(q)
      PROVE  Origin(q)'
  <2>1. Finish(q)
    BY Zenon, <1>8 DEF propagateSetLocked, ExpireAtGone, ExpireAtEnd, RmwRefuse, EvictDone, Return
  <2> QED BY <1>a, <2>1, ReturnPc DEF Gated, Building
<1>9. ASSUME unlockWriteShards(q) PROVE Origin(q)'
  <2>1. pc'[q] \in {"idle", "unlock"}
    BY Zenon, <1>9, ReturnPc DEF unlockWriteShards, Return
  <2> QED BY <1>a, <2>1 DEF Gated, Building
<1>10. ASSUME pickVictim(q) PROVE Origin(q)'
  <2>1. PICK k \in Keys : req' = [req EXCEPT ![q].key = k]
    BY Zenon, <1>10 DEF pickVictim
  <2>2. req'[q].op = req[q].op /\ pc[q] = "pick" /\ pc'[q] = "evict"
    BY <1>10, <2>1 DEF pickVictim, Goto, TypeOK, Request
  <2>3. req[q].op = "EVICT" /\ \E r \in Requests : r.op = "EVICT"
    BY <1>0, <2>2 DEF Origin, Gated
  <2> QED BY Zenon, <2>2, <2>3 DEF Origin, Reads
<1>11. ASSUME Evict(q) \/ EvictAppend(q) PROVE Origin(q)'
  <2>1. /\ pc[q] \in {"evict", "evicted"} /\ now' = now /\ req'[q] = req[q]
        /\ pc'[q] \in {"evicted", "pick"}
    BY <1>11 DEF Evict, EvictAppend, Goto, TypeOK, cmdVars
  <2>2. pc[q] \in Gated /\ req[q].op = "EVICT"
    BY <1>0, <2>1 DEF Origin, Gated, Building
  <2> QED BY <1>c, <2>1, <2>2
<1>12. ASSUME (\E k \in Keys : expireSample(k)) \/ Tick \/ UNCHANGED vars PROVE Origin(q)'
  BY Zenon, <1>b, <1>12 DEF expireSample, Tick, vars, cmdVars
<1> QED
  BY <1>1, <1>2, <1>3, <1>4, <1>5, <1>6, <1>7, <1>8, <1>9, <1>10, <1>11, <1>12 DEF Next, Step

\* Every step keeps what a command has established before it changes the store: nobody
\* else is behind the gate, and no collector touches the shard that ExpireAt has locked.
LEMMA PreparedStep ==
  ASSUME Durable, Durably, Readiness, [Next]_vars
  PROVE  Readiness'
<1> SUFFICES ASSUME NEW q \in Clients PROVE Prepared(q)'
  BY DEF Readiness
<1> USE DEF Durably, Base
<1>0. TypeOK /\ Prepared(q) /\ req[q].key \in Keys /\ CmdLocks(q) /\ CmdShape(q) /\ q # NoClient
  BY StoreAssumption DEF Readiness, TypeOK, Request, Locks, Shape
<1> DEFINE Point == {"calc", "apply", "stamp"}
\* q is not at such a point
<1>a. ASSUME pc'[q] \notin Point PROVE Prepared(q)'
  BY <1>a DEF Prepared
\* q does not move, and the entry it may be stamping stays
<1>b. ASSUME /\ pc'[q] = pc[q] /\ req'[q] = req[q] /\ t0'[q] = t0[q] /\ new'[q] = new[q]
             /\ ptr'[q] = ptr[q],
             pc[q] = "stamp" => data'[req[q].key] = data[req[q].key]
      PROVE  Prepared(q)'
  BY Zenon, <1>0, <1>b DEF Prepared, Computed
\* another client acts behind the gate
<1>c. ASSUME NEW p \in Clients, p # q, pc[p] \in Gated, pc'[q] = pc[q] PROVE Prepared(q)'
  <2>1. pc[q] \notin Gated
    BY <1>c, GatedAlone
  <2> QED BY <1>a, <1>c, <2>1 DEF Gated
\* a collector deletes in a shard that is not locked
<1>d. ASSUME NEW k \in Keys, ShardFree(k), deleteLockedInWriteLockedShard(k), pc[q] = "stamp"
      PROVE  data'[req[q].key] = data[req[q].key]
  <2>1. req[q].key # k
    BY <1>0, <1>d DEF ShardFree, CmdLocks
  <2> QED BY <1>0, <1>d, <2>1, DelData
<1>1. ASSUME NEW p \in Clients, p # q, pc[p] \in Gated, Call(p) \/ Step(p) PROVE Prepared(q)'
  BY <1>1, <1>c, OneActs
<1>2. ASSUME NEW p \in Clients, p # q, pc[p] \notin Gated, Call(p) \/ Step(p) PROVE Prepared(q)'
  <2>1. ~ExpireAtEnd(p)
    BY <1>2 DEF ExpireAtEnd, Gated
  <2>2. /\ pc'[q] = pc[q] /\ req'[q] = req[q] /\ t0'[q] = t0[q] /\ new'[q] = new[q]
        /\ ptr'[q] = ptr[q]
    BY <1>2, <2>1, OneActs
  <2>3. data' = data \/ GetCollect(p)
    <3>1. \/ Call(p) \/ lockDurableMutation(p) \/ GetCollect(p) \/ unlockWriteShards(p)
          \/ \E k \in Keys : Get(p, k) \/ Exists(p, k)
      BY <1>2 DEF Step, Batch, setLocked, propagateSetLocked, lockWriteShards, BatchCommit,
                  ExpireAtGone, ExpireAtBegin, ExpireAtEnd, RmwPeek, RmwCheck, RmwDrop, RmwCalc,
                  RmwRefuse, pickVictim, Evict, EvictAppend, EvictDone, Gated, Building
    <3> QED BY <3>1 DEF Call, lockDurableMutation, unlockWriteShards, Get, Exists, shardVars
  <2>4. ASSUME GetCollect(p), pc[q] = "stamp" PROVE data'[req[q].key] = data[req[q].key]
    <3>1. req[p].key \in Keys /\ ShardFree(req[p].key)
      BY <2>4 DEF GetCollect, TypeOK, Request
    <3>2. data' = data \/ deleteLockedInWriteLockedShard(req[p].key)
      BY <2>4 DEF GetCollect, shardVars
    <3> QED BY <1>d, <2>4, <3>1, <3>2
  <2> QED BY <1>b, <2>2, <2>3, <2>4
<1>3. ASSUME Call(q) PROVE Prepared(q)'
  <2>1. pc'[q] \in {"read", "gate"}
    BY <1>3 DEF Call, Goto, TypeOK
  <2> QED BY <1>a, <2>1
<1>4. ASSUME lockDurableMutation(q) PROVE Prepared(q)'
  <2>1. /\ req'[q] = req[q] /\ pc'[q] \notin {"calc", "stamp"}
        /\ pc'[q] = "apply" => /\ req[q].op = "SET"
                               /\ new'[q] = [val |-> req[q].vals[req[q].key], exp |-> req[q].exp]
    BY <1>4 DEF lockDurableMutation, Goto, TypeOK
  <2> QED BY <2>1 DEF Prepared, RMW
<1>5. ASSUME NEW k \in Keys, Get(q, k) PROVE Prepared(q)'
  <2>1. pc'[q] \in {"idle", "read", "collect"}
    BY <1>5, NextKeyPc DEF Get, Goto, TypeOK
  <2> QED BY <1>a, <2>1
<1>6. ASSUME (\E k \in Keys : Exists(q, k)) \/ GetCollect(q) PROVE Prepared(q)'
  <2>1. pc'[q] \in {"idle", "read"}
    BY ZenonT(30), <1>0, <1>6, NextKeyPc DEF Exists, GetCollect
  <2> QED BY <1>a, <2>1
<1>7. ASSUME (\E k \in Keys : Batch(q, k)) \/ setLocked(q) \/ lockWriteShards(q) \/ BatchCommit(q)
             \/ pickVictim(q) \/ Evict(q) \/ EvictAppend(q)
      PROVE  Prepared(q)'
  <2>1. pc'[q] \notin Point
    BY <1>7 DEF Batch, setLocked, lockWriteShards, BatchCommit, pickVictim, Evict, EvictAppend,
                Goto, TypeOK
  <2> QED BY <1>a, <2>1
<1>8. ASSUME propagateSetLocked(q) \/ ExpireAtGone(q) \/ ExpireAtEnd(q) \/ RmwRefuse(q) \/ EvictDone(q)
      PROVE  Prepared(q)'
  <2>1. Finish(q)
    BY Zenon, <1>8 DEF propagateSetLocked, ExpireAtGone, ExpireAtEnd, RmwRefuse, EvictDone, Return
  <2> QED BY <1>a, <2>1, ReturnPc
<1>9. ASSUME unlockWriteShards(q) PROVE Prepared(q)'
  <2>1. pc'[q] \in {"idle", "unlock"}
    BY <1>9, ReturnPc DEF unlockWriteShards, Return
  <2> QED BY <1>a, <2>1
<1>10. ASSUME ExpireAtBegin(q) PROVE Prepared(q)'
  <2>1. /\ pc'[q] = "stamp" /\ req' = req /\ t0' = t0 /\ data' = data
        /\ Live(data[req[q].key], t0[q]) /\ req[q].exp > t0[q]
    BY <1>10 DEF ExpireAtBegin, Goto, TypeOK, cmdVars, shardVars
  <2> QED BY Zenon, <2>1 DEF Prepared
<1>11. ASSUME RmwPeek(q) PROVE Prepared(q)'
  <2>1. ptr'[q] = data[req[q].key] /\ pc'[q] = IF ptr'[q] = Absent THEN "calc" ELSE "check"
    BY <1>11 DEF RmwPeek, Goto, TypeOK
  <2> QED BY Zenon, <2>1 DEF Prepared
<1>12. ASSUME RmwCheck(q) PROVE Prepared(q)'
  <2>1. \A r \in Clients : pc[r] # "stamp"
    BY Zenon, <1>12, GatedAlone DEF RmwCheck, Gated
  <2>2. DeadlineSeen(q) = {ptr[q].exp}
    BY <2>1 DEF DeadlineSeen
  <2>3. /\ pc'[q] = IF ptr[q].exp # Never /\ ptr[q].exp <= t0[q] THEN "drop" ELSE "calc"
        /\ ptr' = ptr /\ t0' = t0
    BY <1>12, <2>2 DEF RmwCheck, Goto, TypeOK, cmdVars
  <2> QED BY Zenon, <2>3 DEF Prepared, Expired
<1>13. ASSUME RmwDrop(q) PROVE Prepared(q)'
  <2>1. ptr'[q] = Absent /\ pc'[q] = "calc"
    BY <1>13 DEF RmwDrop, Goto, TypeOK
  <2> QED BY Zenon, <2>1 DEF Prepared
<1>14. ASSUME RmwCalc(q) PROVE Prepared(q)'
  <2>1. \A r \in Clients : pc[r] # "stamp"
    BY Zenon, <1>14, GatedAlone DEF RmwCalc, Gated
  <2>2. DeadlineSeen(q) = {ptr[q].exp}
    BY <2>1 DEF DeadlineSeen
  <2>3. PICK d \in IF ptr[q] = Absent THEN {Never} ELSE DeadlineSeen(q) :
          new' = [new EXCEPT ![q] = [val |-> Computed(q), exp |-> d]]
    BY Zenon, <1>14 DEF RmwCalc
  <2>4. /\ new'[q].val = Computed(q)
        /\ new'[q].exp = IF ptr[q] = Absent THEN Never ELSE ptr[q].exp
    BY <2>2, <2>3 DEF TypeOK
  <2>5. /\ pc[q] = "calc" /\ pc'[q] = "apply" /\ req[q].op \in RMW
        /\ ptr' = ptr /\ t0' = t0 /\ req' = req
    BY <1>0, <1>14 DEF RmwCalc, Goto, TypeOK, CmdShape
  <2>6. ptr[q] # Absent => ~Expired(ptr[q], t0[q])
    BY <1>0, <2>5 DEF Prepared
  <2>7. req[q].op # "SET"
    BY <2>5 DEF RMW
  <2> QED BY Zenon, <2>4, <2>5, <2>6, <2>7 DEF Prepared, Computed
<1>15. ASSUME NEW k \in Keys, expireSample(k) PROVE Prepared(q)'
  BY <1>b, <1>d, <1>15 DEF expireSample, cmdVars
<1>16. ASSUME Tick \/ UNCHANGED vars PROVE Prepared(q)'
  BY Zenon, <1>b, <1>16 DEF Tick, vars, cmdVars, shardVars
<1> QED
  BY <1>1, <1>2, <1>3, <1>4, <1>5, <1>6, <1>7, <1>8, <1>9, <1>10, <1>11, <1>12, <1>13, <1>14,
     <1>15, <1>16 DEF Next, Step

Linear == Durably /\ Origins /\ Readiness

\* The initial state satisfies Linear.
LEMMA LinearInit == Init => Linear
<1> SUFFICES ASSUME Init PROVE Linear
  OBVIOUS
<1>1. Origins
  BY DEF Init, Origins, Origin, Gated, Building
<1>2. Readiness
  BY Zenon DEF Init, Readiness, Prepared
<1> QED BY <1>1, <1>2, DurableInit DEF Linear

-----------------------------------------------------------------------------
(***************************************************************************)
(* The refinement mapping.                                                 *)
(***************************************************************************)

\* A key in the middle of a batch maps to what the batch leaves there, every other key
\* to the entry in its shard.
BarExact ==
    /\ \A p \in Clients, k \in Keys : InBatch(p, k) => kvBar[k] = BatchLeaves(p, k)
    /\ \A k \in Keys : (\A p \in Clients : ~InBatch(p, k)) => kvBar[k] = data[k]

\* One batch at a time is behind the gate, so the mapping is determined.
LEMMA BarIsExact == Durably => BarExact
<1> SUFFICES ASSUME Durably PROVE BarExact
  OBVIOUS
<1>1. ASSUME NEW p \in Clients, NEW k \in Keys, InBatch(p, k) PROVE kvBar[k] = BatchLeaves(p, k)
  <2>1. \A q \in Clients : InBatch(q, k) => q = p
    BY <1>1, GatedAlone DEF InBatch, Durably, Gated, Building
  <2>2. (CHOOSE q \in Clients : InBatch(q, k)) = p
    BY Zenon, <1>1, <2>1
  <2> QED BY Zenon, <1>1, <2>2 DEF kvBar
<1>2. ASSUME NEW k \in Keys, \A p \in Clients : ~InBatch(p, k) PROVE kvBar[k] = data[k]
  BY <1>2 DEF kvBar
<1> QED BY <1>1, <1>2 DEF BarExact

\* The same after a step.
LEMMA BarStaysExact == Durably' => BarExact'
BY BarIsExact, PTL

\* A step that changes the slot of k only, and no batch, changes the mapping at k only.
LEMMA BarUpdate ==
  ASSUME BarExact, BarExact', NEW k \in Keys, \A p \in Clients : ~InBatch(p, k),
         \A j \in Keys \ {k} : data'[j] = data[j],
         \A p \in Clients, j \in Keys : InBatch(p, j)' <=> InBatch(p, j),
         \A p \in Clients, j \in Keys : InBatch(p, j) => req'[p] = req[p]
  PROVE  kvBar' = [kvBar EXCEPT ![k] = data'[k]] /\ kvBar[k] = data[k]
<1>1. kvBar[k] = data[k] /\ kvBar'[k] = data'[k]
  BY Zenon DEF BarExact
<1>2. ASSUME NEW j \in Keys, j # k PROVE kvBar'[j] = kvBar[j]
  <2>1. ASSUME NEW p \in Clients, InBatch(p, j) PROVE kvBar'[j] = kvBar[j]
    <3>1. InBatch(p, j)' /\ req'[p] = req[p]
      BY Zenon, <1>2, <2>1
    <3>2. BatchLeaves(p, j)' = BatchLeaves(p, j)
      BY <3>1 DEF BatchLeaves
    <3>3. kvBar[j] = BatchLeaves(p, j)
      BY Zenon, <2>1 DEF BarExact
    <3>4. kvBar'[j] = BatchLeaves(p, j)'
      BY Zenon, <3>1 DEF BarExact
    <3> QED BY <3>2, <3>3, <3>4
  <2>2. CASE \A p \in Clients : ~InBatch(p, j)
    <3>1. \A p \in Clients : ~InBatch(p, j)'
      BY Zenon, <2>2
    <3>2. kvBar[j] = data[j] /\ kvBar'[j] = data'[j]
      BY Zenon, <2>2, <3>1 DEF BarExact
    <3> QED BY <1>2, <3>2
  <2> QED BY Zenon, <2>1, <2>2
<1>3. kvBar = [j \in Keys |-> kvBar[j]] /\ kvBar' = [j \in Keys |-> kvBar'[j]]
  BY DEF kvBar
<1> QED BY <1>1, <1>2, <1>3

\* A step that changes no slot and no batch leaves the mapping alone.
LEMMA BarSame ==
  ASSUME BarExact, BarExact', \A j \in Keys : data'[j] = data[j],
         \A p \in Clients, j \in Keys : InBatch(p, j)' <=> InBatch(p, j),
         \A p \in Clients, j \in Keys : InBatch(p, j) => req'[p] = req[p]
  PROVE  kvBar' = kvBar
<1>1. ASSUME NEW j \in Keys PROVE kvBar'[j] = kvBar[j]
  <2>1. ASSUME NEW p \in Clients, InBatch(p, j) PROVE kvBar'[j] = kvBar[j]
    <3>1. InBatch(p, j)' /\ req'[p] = req[p]
      BY Zenon, <1>1, <2>1
    <3>2. BatchLeaves(p, j)' = BatchLeaves(p, j)
      BY <3>1 DEF BatchLeaves
    <3>3. kvBar[j] = BatchLeaves(p, j)
      BY Zenon, <2>1 DEF BarExact
    <3>4. kvBar'[j] = BatchLeaves(p, j)'
      BY Zenon, <3>1 DEF BarExact
    <3> QED BY <3>2, <3>3, <3>4
  <2>2. CASE \A p \in Clients : ~InBatch(p, j)
    <3>1. \A p \in Clients : ~InBatch(p, j)'
      BY Zenon, <2>2
    <3>2. kvBar[j] = data[j] /\ kvBar'[j] = data'[j]
      BY Zenon, <2>2, <3>1 DEF BarExact
    <3> QED BY <1>1, <3>2
  <2> QED BY Zenon, <2>1, <2>2
<1>2. kvBar = [j \in Keys |-> kvBar[j]] /\ kvBar' = [j \in Keys |-> kvBar'[j]]
  BY DEF kvBar
<1> QED BY <1>1, <1>2

-----------------------------------------------------------------------------
(***************************************************************************)
(* The steps of AtomicStore, in terms of Store.                            *)
(***************************************************************************)

\* AtomicStore has its notions of time and expiry from Keyspace as well.
LEMMA SameNotions ==
  /\ Atomic!Never = Never /\ Atomic!Times = Times /\ Atomic!Deadlines = Deadlines
  /\ \A e, t : Atomic!Expired(e, t) <=> Expired(e, t)
  /\ \A e, t : Atomic!Live(e, t) <=> Live(e, t)
  /\ \A e, t : Atomic!Gone(e, t) <=> Gone(e, t)
  /\ \A t \in Times : t <= now => t \in Atomic!Earlier
BY DEF Atomic!Never, Never, Atomic!Times, Times, Atomic!Deadlines, Deadlines, Atomic!Expired, Expired,
       Atomic!Live, Live, Atomic!Gone, Gone, Atomic!Earlier

\* Collecting an expired entry is AtomicStore's Expire.
LEMMA AtomicExpire ==
  ASSUME NEW k \in Keys, Gone(kvBar[k], now), kvBar' = [kvBar EXCEPT ![k] = Absent], now' = now
  PROVE  Atomic!Next
BY Zenon, SameNotions DEF Atomic!Next, Atomic!Expire

\* The whole effect of a request is AtomicStore's Command.
LEMMA AtomicCommand ==
  ASSUME NEW r \in Requests, now' = now,
         \/ Atomic!Set(r) \/ Atomic!MSet(r) \/ Atomic!Del(r) \/ Atomic!ExpireAt(r)
         \/ Atomic!Update(r) \/ Atomic!UpdateDead(r) \/ Atomic!Evict(r)
  PROVE  Atomic!Next
BY DEF Atomic!Next, Atomic!Command

\* The request behind a mutation that was not rewritten on arrival.
LEMMA OwnRequest ==
  ASSUME Linear, NEW p \in Clients, pc[p] \in Gated, req[p].op \notin {"DEL", "EVICT"}
  PROVE  /\ req[p] \in Requests
         /\ \E t \in Times : /\ t <= now
                             /\ req[p].op = "SET" /\ req[p].exp # Never => req[p].exp > t
<1>1. PICK r \in Requests, t \in Times : t <= now /\ req[p] = Effective(r, t)
  BY DEF Linear, Origins, Origin
<1>2. Effective(r, t) = r
  BY <1>1, EffectiveOp
<1>3. r.op = "SET" /\ r.exp # Never => r.exp > t
  <2> SUFFICES ASSUME r.op = "SET", r.exp # Never, r.exp <= t PROVE FALSE
    <3>1. r.exp \in Deadlines \cup {Never}
      BY StoreAssumption DEF Request
    <3> QED BY <3>1, KeyspaceAssumption DEF Deadlines, Times, Never
  <2>1. r \in Request /\ Effective(r, t) = [r EXCEPT !.op = "DEL", !.keys = {r.key}]
    BY StoreAssumption DEF Effective
  <2>2. Effective(r, t).op = "DEL"
    BY <2>1 DEF Request
  <2> QED BY <1>2, <2>2
<1> QED BY <1>1, <1>2, <1>3

\* SET, INCR and APPEND act at the moment they store.
LEMMA StoreRefines ==
  ASSUME Linear, NEW p \in Clients, pc[p] = "apply", now' = now,
         kvBar[req[p].key] = data[req[p].key],
         kvBar' = [kvBar EXCEPT ![req[p].key] = new[p]]
  PROVE  Atomic!Next
<1> DEFINE r == req[p]
           e == data[r.key]
<1> USE DEF Linear, Durably, Base
<1>0. /\ TypeOK /\ r.key \in Keys /\ Prepared(p) /\ RmwSafe(p) /\ t0[p] \in Times /\ t0[p] <= now
      /\ new[p] \in Entry /\ r.op \in RMW \cup {"SET"}
  BY DEF TypeOK, Request, Readiness, RmwHeld, Shape, CmdShape, Slot
<1>1. /\ r \in Requests
      /\ \E t \in Times : t <= now /\ (r.op = "SET" /\ r.exp # Never => r.exp > t)
  <2>1. r.op \notin {"DEL", "EVICT"} /\ pc[p] \in Gated
    BY <1>0 DEF RMW, Gated
  <2> QED BY Zenon, <2>1, OwnRequest
<1>2. CASE r.op = "SET"
  <2>1. kvBar' = [kvBar EXCEPT ![r.key] = [val |-> r.vals[r.key], exp |-> r.exp]]
    BY <1>0, <1>2 DEF Prepared
  <2>2. r.exp # Never => \E t \in Atomic!Earlier : r.exp > t
    BY Zenon, <1>1, <1>2, SameNotions
  <2>3. Atomic!Set(r)
    BY Zenon, <1>2, <2>1, <2>2, SameNotions DEF Atomic!Set
  <2> QED BY <1>1, <2>3, AtomicCommand
<1>3. CASE r.op \in RMW /\ (e # Absent \/ ptr[p] = Absent)
  <2> DEFINE v == Compute[<<r.op, r.vals[r.key], IF e = Absent THEN Absent ELSE e.val>>]
  <2>1. e = ptr[p]
    <3>1. CASE e = Absent
      BY <1>3, <3>1
    <3>2. CASE e # Absent
      <4>1. p \in attached
        BY Zenon, <1>0, <1>3, <3>2 DEF RmwSafe
      <4> QED BY <4>1 DEF Attached
    <3> QED BY <3>1, <3>2
  <2>2. new[p].val = v /\ new[p].exp = IF e = Absent THEN Never ELSE e.exp
    BY Zenon, <1>0, <1>3, <2>1 DEF Prepared, Computed
  <2>3. new[p] = [val |-> v, exp |-> IF e = Absent THEN Never ELSE e.exp] /\ v # Err
    BY <1>0, <2>2, StoreAssumption DEF Entry
  <2>4. e # Absent => \E t \in Atomic!Earlier : ~Expired(e, t)
    <3>1. e # Absent => ~Expired(e, t0[p])
      BY Zenon, <1>0, <1>3, <2>1 DEF Prepared
    <3> QED BY Zenon, <1>0, <3>1, SameNotions
  <2>5. Atomic!Update(r)
    BY Zenon, <1>3, <2>3, <2>4, SameNotions DEF Atomic!Update
  <2> QED BY Zenon, <1>1, <2>5, AtomicCommand
<1>4. CASE r.op \in RMW /\ e = Absent /\ ptr[p] # Absent
  <2>1. Expired(ptr[p], now)
    BY Zenon, <1>0, <1>4 DEF RmwSafe
  <2>2. new[p].exp = ptr[p].exp
    BY Zenon, <1>0, <1>4 DEF Prepared
  <2>3. /\ new[p] = [val |-> new[p].val, exp |-> new[p].exp]
        /\ new[p].val \in Vals /\ new[p].exp \in Deadlines /\ new[p].exp <= now
    BY <1>0, <2>1, <2>2 DEF Entry, Expired
  <2>4. Atomic!UpdateDead(r)
    BY Zenon, <1>4, <2>3, SameNotions DEF Atomic!UpdateDead
  <2> QED BY <1>1, <2>4, AtomicCommand
<1> QED BY <1>0, <1>2, <1>3, <1>4

\* EXPIREAT acts at the moment it has overwritten the deadline, or deleted the key.
LEMMA ExpireAtRefines ==
  ASSUME Linear, NEW p \in Clients, pc[p] \in {"deadline", "stamp"}, now' = now,
         kvBar[req[p].key] = data[req[p].key], data[req[p].key] # Absent,
         \/ /\ Live(data[req[p].key], t0[p]) /\ req[p].exp > t0[p]
            /\ kvBar' = [kvBar EXCEPT ![req[p].key] = [val |-> data[req[p].key].val, exp |-> req[p].exp]]
         \/ /\ Expired(data[req[p].key], t0[p]) \/ req[p].exp <= t0[p]
            /\ kvBar' = [kvBar EXCEPT ![req[p].key] = Absent]
  PROVE  Atomic!Next
<1> USE DEF Linear, Durably, Base
<1>1. req[p].op = "EXPIREAT" /\ t0[p] \in Times /\ t0[p] <= now
  BY DEF Shape, CmdShape, TypeOK
<1>2. req[p] \in Requests
  BY <1>1, OwnRequest DEF Gated
<1>3. t0[p] \in Atomic!Earlier
  BY <1>1, SameNotions
<1>4. Atomic!ExpireAt(req[p])
  BY <1>1, <1>3, SameNotions DEF Atomic!ExpireAt
<1> QED BY Zenon, <1>2, <1>4, AtomicCommand

\* MSET and DEL act at the moment they hold the last of their shards.
LEMMA BatchRefines ==
  ASSUME Linear, BarExact, BarExact', NEW p \in Clients, lockWriteShards(p), pc'[p] = "body"
  PROVE  Atomic!Next
<1> DEFINE ks == req[p].keys
           gone == [k \in Keys |-> IF k \in ks THEN Absent ELSE kvBar[k]]
<1> USE DEF Linear, Durably, Base
<1>0. /\ TypeOK /\ pc[p] = "lock" /\ pc[p] \in Gated /\ todo[p] = ks /\ ks \subseteq Keys
      /\ now' = now /\ data' = data /\ req' = req /\ todo' = todo
      /\ \A q \in Clients \ {p} : pc'[q] = pc[q]
  BY DEF lockWriteShards, Gated, Origins, Origin, TypeOK, Request, Goto, cmdVars, shardVars
<1>1. \A q \in Clients, k \in Keys : ~InBatch(q, k)
  BY Zenon, <1>0, GatedAlone DEF InBatch, Gated, Building
<1>2. \A q \in Clients, k \in Keys : InBatch(q, k)' <=> q = p /\ k \in ks
  BY <1>0, <1>1 DEF InBatch
<1>3. \A k \in Keys \ ks : kvBar'[k] = kvBar[k]
  BY Zenon, <1>0, <1>1, <1>2 DEF BarExact
<1>4. \A k \in Keys : k \in ks => kvBar'[k] = BatchLeaves(p, k)
  <2> SUFFICES ASSUME NEW k \in Keys, k \in ks PROVE kvBar'[k] = BatchLeaves(p, k)
    OBVIOUS
  <2>1. InBatch(p, k)'
    BY <1>2
  <2>2. kvBar'[k] = BatchLeaves(p, k)'
    BY Zenon, <2>1 DEF BarExact
  <2>3. BatchLeaves(p, k)' = BatchLeaves(p, k)
    BY <1>0 DEF BatchLeaves
  <2> QED BY <2>2, <2>3
<1>5. kvBar' = [k \in Keys |-> IF k \in ks THEN BatchLeaves(p, k) ELSE kvBar[k]]
  <2>1. kvBar' = [k \in Keys |-> kvBar'[k]]
    BY DEF kvBar
  <2> QED BY <1>3, <1>4, <2>1
<1>6. CASE req[p].op = "MSET"
  <2>1. req[p] \in Requests
    BY <1>0, <1>6, OwnRequest
  <2>2. kvBar' = [k \in Keys |-> IF k \in ks THEN [val |-> req[p].vals[k], exp |-> Never] ELSE kvBar[k]]
    BY <1>5, <1>6 DEF BatchLeaves
  <2>3. Atomic!MSet(req[p])
    BY Zenon, <1>6, <2>2, SameNotions DEF Atomic!MSet
  <2> QED BY <1>0, <2>1, <2>3, AtomicCommand
<1>7. CASE req[p].op = "DEL"
  <2>1. kvBar' = gone
    BY <1>5, <1>7 DEF BatchLeaves
  <2>2. PICK r \in Requests, t \in Times : t <= now /\ req[p] = Effective(r, t)
    BY <1>0, <1>7 DEF Origins, Origin
  <2>3. r \in Request
    BY StoreAssumption
  <2>4. CASE r.op = "SET" /\ r.exp # Never /\ r.exp <= t
    <3>1. ks = {r.key}
      BY <2>2, <2>3, <2>4 DEF Effective, Request
    <3>2. r.exp <= now
      <4>0. r.exp \in Times \cup {Never} /\ now \in Times
        BY Zenon, <1>0, <2>3 DEF Request, Deadlines, TypeOK
      <4>1. r.exp \in Int /\ t \in Int /\ now \in Int
        BY <4>0, KeyspaceAssumption DEF Times, Never
      <4> QED BY <2>2, <2>4, <4>1
    <3>3. Atomic!Del(r)
      BY Zenon, <2>1, <2>4, <3>1, <3>2, SameNotions DEF Atomic!Del
    <3> QED BY <1>0, <3>3, AtomicCommand
  <2>5. CASE ~(r.op = "SET" /\ r.exp # Never /\ r.exp <= t)
    <3>1. r = req[p]
      BY <2>2, <2>5 DEF Effective
    <3>2. Atomic!Del(r)
      BY <1>7, <2>1, <3>1 DEF Atomic!Del
    <3> QED BY <1>0, <3>2, AtomicCommand
  <2> QED BY <2>4, <2>5
<1>8. req[p].op \in Batches
  BY Zenon, <1>0 DEF Shape, CmdShape
<1> QED BY <1>6, <1>7, <1>8 DEF Batches

\* A batch that works through its keys only brings the shards up to date with the mapping.
LEMMA BatchCatchesUp ==
  ASSUME Linear, BarExact, BarExact', NEW p \in Clients, NEW k \in Keys, Batch(p, k)
  PROVE  kvBar' = kvBar
<1> USE DEF Linear, Durably, Base
<1>0. /\ TypeOK /\ pc[p] = "body" /\ k \in todo[p] /\ req' = req
      /\ todo' = [todo EXCEPT ![p] = todo[p] \ {k}]
      /\ pc' = [pc EXCEPT ![p] = IF todo[p] = {k} THEN "commit" ELSE "body"]
  BY DEF Batch, Goto
<1>1. \A q \in Clients, j \in Keys : InBatch(q, j) => q = p
  BY <1>0, GatedAlone DEF InBatch, Gated, Building
<1>2. \A j \in Keys : InBatch(p, j) <=> j \in todo[p]
  BY <1>0 DEF InBatch
<1>3. \A j \in Keys : InBatch(p, j)' <=> j \in todo[p] /\ j # k
  <2>1. todo'[p] = todo[p] \ {k} /\ pc'[p] = IF todo[p] = {k} THEN "commit" ELSE "body"
    BY <1>0 DEF TypeOK
  <2>2. CASE todo[p] = {k}
    BY <2>1, <2>2 DEF InBatch
  <2>3. CASE todo[p] # {k}
    BY <2>1, <2>3 DEF InBatch
  <2> QED BY <2>2, <2>3
<1>4. \A q \in Clients, j \in Keys : InBatch(q, j)' => q = p
  <2> SUFFICES ASSUME NEW q \in Clients, NEW j \in Keys, InBatch(q, j)', q # p PROVE FALSE
    OBVIOUS
  <2>1. pc'[q] = pc[q] /\ todo'[q] = todo[q]
    BY Zenon, <1>0 DEF TypeOK
  <2> QED BY <1>1, <2>1 DEF InBatch
<1>5. data'[k] = BatchLeaves(p, k) /\ \A j \in Keys \ {k} : data'[j] = data[j]
  <2>1. CASE req[p].op = "MSET"
    <3>0. req[p].vals \in [Keys -> Vals]
      BY Zenon, <1>0 DEF TypeOK, Request
    <3>1. [val |-> req[p].vals[k], exp |-> Never] \in Entry
      BY Zenon, <3>0 DEF Entry
    <3> QED BY <1>0, <2>1, <3>1, SetData DEF Batch, MSetKey, BatchLeaves
  <2>2. CASE req[p].op # "MSET"
    <3>1. (data' = data /\ data[k] = Absent) \/ deleteLockedInWriteLockedShard(k)
      BY <2>2 DEF Batch, DelKey, shardVars
    <3> QED BY <1>0, <2>2, <3>1, DelData DEF BatchLeaves
  <2> QED BY <2>1, <2>2
<1>6. ASSUME NEW j \in Keys PROVE kvBar'[j] = kvBar[j]
  <2>1. BatchLeaves(p, j)' = BatchLeaves(p, j)
    BY <1>0 DEF BatchLeaves
  <2>2. CASE j = k
    <3>1. \A q \in Clients : ~InBatch(q, k)'
      BY Zenon, <1>3, <1>4
    <3>2. kvBar'[k] = data'[k]
      BY Zenon, <3>1 DEF BarExact
    <3>3. kvBar[k] = BatchLeaves(p, k)
      BY Zenon, <1>0, <1>2 DEF BarExact
    <3> QED BY <1>5, <2>2, <3>2, <3>3
  <2>3. CASE j # k /\ j \in todo[p]
    <3>1. InBatch(p, j) /\ InBatch(p, j)'
      BY <1>2, <1>3, <2>3
    <3>2. kvBar[j] = BatchLeaves(p, j) /\ kvBar'[j] = BatchLeaves(p, j)'
      BY Zenon, <3>1 DEF BarExact
    <3> QED BY <2>1, <3>2
  <2>4. CASE j # k /\ j \notin todo[p]
    <3>1. \A q \in Clients : ~InBatch(q, j) /\ ~InBatch(q, j)'
      BY Zenon, <1>1, <1>2, <1>3, <1>4, <2>4
    <3>2. kvBar[j] = data[j] /\ kvBar'[j] = data'[j]
      BY Zenon, <3>1 DEF BarExact
    <3> QED BY <1>5, <2>4, <3>2
  <2> QED BY <2>2, <2>3, <2>4
<1>7. kvBar = [j \in Keys |-> kvBar[j]] /\ kvBar' = [j \in Keys |-> kvBar'[j]]
  BY DEF kvBar
<1> QED BY <1>6, <1>7

\* Every step of Store is a step of AtomicStore, or changes nothing there.
LEMMA StepRefines ==
  ASSUME Durable, Linear, BarExact, BarExact', [Next]_vars
  PROVE  [Atomic!Next]_<<now, kvBar>>
<1> USE DEF Linear, Durably, Base
<1>0. TypeOK /\ NoClient \notin Clients /\ \A p \in Clients : req[p].key \in Keys
  BY StoreAssumption DEF TypeOK, Request
<1> DEFINE Still ==
             \A q \in Clients, j \in Keys : (InBatch(q, j)' <=> InBatch(q, j))
                                            /\ (InBatch(q, j) => req'[q] = req[q])
\* a client that is in no batch leaves the batches alone
<1>a. ASSUME NEW p \in Clients, Call(p) \/ Step(p), pc[p] # "body", pc'[p] # "body" PROVE Still
  <2> SUFFICES ASSUME NEW q \in Clients, NEW j \in Keys
               PROVE  (InBatch(q, j)' <=> InBatch(q, j)) /\ (InBatch(q, j) => req'[q] = req[q])
    BY Zenon
  <2>1. CASE q = p
    BY <1>a, <2>1 DEF InBatch
  <2>2. CASE q # p
    <3>1. pc'[q] = pc[q] /\ todo'[q] = todo[q] /\ req'[q] = req[q]
      BY <1>0, <1>a, <2>2, OneActs
    <3> QED BY <3>1 DEF InBatch
  <2> QED BY Zenon, <2>1, <2>2
\* a key whose shard is free is in no batch, nor is any key while a gated client is elsewhere
<1>b. ASSUME NEW k \in Keys, ShardFree(k) PROVE \A q \in Clients : ~InBatch(q, k)
  <2> SUFFICES ASSUME NEW q \in Clients, InBatch(q, k) PROVE FALSE
    OBVIOUS
  <2>1. k \in req[q].keys /\ pc[q] = "body"
    BY DEF InBatch, Shape, CmdShape
  <2>2. wlock[ShardOf[k]] = q
    BY <2>1 DEF Locks, CmdLocks
  <2> QED BY <1>0, <1>b, <2>2 DEF ShardFree
<1>c. ASSUME NEW p \in Clients, pc[p] \in Gated, pc[p] # "body", NEW k \in Keys
      PROVE  \A q \in Clients : ~InBatch(q, k)
  BY <1>c, GatedAlone DEF InBatch, Gated, Building
\* no entry changes
<1>d. ASSUME Still, data' = data PROVE kvBar' = kvBar
  <2>1. \A q \in Clients, j \in Keys : InBatch(q, j)' <=> InBatch(q, j)
    BY Zenon, <1>d
  <2>2. \A q \in Clients, j \in Keys : InBatch(q, j) => req'[q] = req[q]
    BY Zenon, <1>d
  <2>3. \A j \in Keys : data'[j] = data[j]
    BY <1>d
  <2> QED BY Zenon, <2>1, <2>2, <2>3, BarSame
\* one entry changes
<1>e. ASSUME Still, NEW k \in Keys, \A q \in Clients : ~InBatch(q, k),
             \A j \in Keys \ {k} : data'[j] = data[j]
      PROVE  kvBar' = [kvBar EXCEPT ![k] = data'[k]] /\ kvBar[k] = data[k]
  <2>1. \A q \in Clients, j \in Keys : InBatch(q, j)' <=> InBatch(q, j)
    BY Zenon, <1>e
  <2>2. \A q \in Clients, j \in Keys : InBatch(q, j) => req'[q] = req[q]
    BY Zenon, <1>e
  <2> QED BY Zenon, <1>e, <2>1, <2>2, BarUpdate
\* an entry that is expired, or was not there, is deleted
<1>g. ASSUME Still, now' = now, NEW k \in Keys, \A q \in Clients : ~InBatch(q, k),
             deleteLockedInWriteLockedShard(k), data[k] = Absent \/ Gone(data[k], now)
      PROVE  Atomic!Next \/ UNCHANGED <<now, kvBar>>
  <2>1. data'[k] = Absent /\ \A j \in Keys \ {k} : data'[j] = data[j]
    BY <1>0, <1>g, DelData
  <2>2. kvBar' = [kvBar EXCEPT ![k] = Absent] /\ kvBar[k] = data[k]
    BY <1>e, <1>g, <2>1
  <2>3. CASE data[k] = Absent
    <3>1. kvBar = [j \in Keys |-> kvBar[j]]
      BY DEF kvBar
    <3>2. kvBar' = kvBar
      BY <2>2, <2>3, <3>1
    <3> QED BY <1>g, <3>2
  <2>4. CASE Gone(data[k], now)
    BY Zenon, <1>g, <2>2, <2>4, AtomicExpire
  <2> QED BY <1>g, <2>3, <2>4
<1>1. ASSUME NEW p \in Clients,
             \/ Call(p) \/ lockDurableMutation(p) \/ BatchCommit(p) \/ ExpireAtBegin(p)
             \/ RmwPeek(p) \/ RmwCheck(p) \/ RmwCalc(p) \/ pickVictim(p) \/ EvictAppend(p)
      PROVE  UNCHANGED <<now, kvBar>>
  <2>1. now' = now /\ data' = data /\ pc[p] # "body" /\ pc'[p] # "body"
    BY <1>1 DEF Call, lockDurableMutation, BatchCommit, ExpireAtBegin, RmwPeek, RmwCheck, RmwCalc,
                pickVictim, EvictAppend, Goto, TypeOK, shardVars
  <2>2. Still
    BY Zenon, <1>a, <1>1, <2>1 DEF Step
  <2> QED BY <1>d, <2>1, <2>2
<1>2. ASSUME NEW p \in Clients, propagateSetLocked(p) \/ RmwRefuse(p) \/ EvictDone(p)
      PROVE  UNCHANGED <<now, kvBar>>
  <2>1. now' = now /\ data' = data /\ pc[p] # "body" /\ Finish(p)
    BY <1>2 DEF propagateSetLocked, RmwRefuse, EvictDone, Return, shardVars
  <2>2. pc'[p] # "body"
    BY Zenon, <1>0, <2>1, ReturnPc
  <2>3. Still
    BY Zenon, <1>a, <1>2, <2>1, <2>2 DEF Step
  <2> QED BY <1>d, <2>1, <2>3
<1>3. ASSUME NEW p \in Clients, unlockWriteShards(p) PROVE UNCHANGED <<now, kvBar>>
  <2>1. now' = now /\ data' = data /\ pc[p] # "body" /\ pc'[p] # "body"
    BY Zenon, <1>0, <1>3, ReturnPc DEF unlockWriteShards, Return, shardVars
  <2>2. Still
    BY Zenon, <1>a, <1>3, <2>1 DEF Step
  <2> QED BY <1>d, <2>1, <2>2
<1>4. ASSUME NEW p \in Clients, NEW k \in Keys, Get(p, k) \/ Exists(p, k) PROVE UNCHANGED <<now, kvBar>>
  <2>1. now' = now /\ data' = data /\ pc[p] # "body" /\ pc'[p] # "body"
    <3>1. NextKey(p, k) => pc'[p] # "body"
      BY <1>0, NextKeyPc
    <3> QED BY <1>0, <1>4, <3>1 DEF Get, Exists, Goto, TypeOK, shardVars
  <2>2. Still
    BY Zenon, <1>a, <1>4, <2>1 DEF Step
  <2> QED BY Zenon, <1>d, <2>1, <2>2
<1>5. ASSUME NEW p \in Clients, GetCollect(p) PROVE Atomic!Next \/ UNCHANGED <<now, kvBar>>
  <2> DEFINE k == req[p].key
  <2>1. now' = now /\ k \in Keys /\ ShardFree(k) /\ pc[p] # "body" /\ NextKey(p, k)
    BY <1>0, <1>5 DEF GetCollect
  <2>2. Still
    BY Zenon, <1>0, <1>a, <1>5, <2>1, NextKeyPc DEF Step
  <2>3. CASE Gone(data[k], now)
    BY Zenon, <1>b, <1>g, <1>5, <2>1, <2>2, <2>3 DEF GetCollect
  <2>4. CASE ~Gone(data[k], now)
    BY Zenon, <1>d, <1>5, <2>1, <2>2, <2>4 DEF GetCollect, shardVars
  <2> QED BY <2>3, <2>4
<1>6. ASSUME NEW p \in Clients, setLocked(p) PROVE Atomic!Next
  <2> DEFINE k == req[p].key
  <2>1. /\ now' = now /\ ShardFree(k) /\ pc[p] = "apply" /\ pc'[p] # "body"
        /\ setLockedInWriteLockedShard(k, new[p])
    BY <1>6 DEF setLocked, Goto, TypeOK
  <2>2. Still
    BY Zenon, <1>a, <1>6, <2>1 DEF Step
  <2>3. new[p] \in Entry
    BY Zenon, <2>1 DEF TypeOK, Shape, CmdShape, Slot
  <2>4. data'[k] = new[p] /\ \A j \in Keys \ {k} : data'[j] = data[j]
    BY <1>0, <2>1, <2>3, SetData
  <2>5. kvBar' = [kvBar EXCEPT ![k] = new[p]] /\ kvBar[k] = data[k]
    BY Zenon, <1>0, <1>b, <1>e, <2>1, <2>2, <2>4
  <2> QED BY Zenon, <2>1, <2>5, StoreRefines
<1>7. ASSUME NEW p \in Clients, lockWriteShards(p) PROVE Atomic!Next \/ UNCHANGED <<now, kvBar>>
  <2>1. now' = now /\ data' = data /\ pc[p] # "body"
    BY <1>7 DEF lockWriteShards, shardVars
  <2>2. CASE pc'[p] = "body"
    BY <1>7, <2>2, BatchRefines
  <2>3. CASE pc'[p] # "body"
    <3>1. Still
      BY Zenon, <1>a, <1>7, <2>1, <2>3 DEF Step
    <3> QED BY <1>d, <2>1, <3>1
  <2> QED BY <2>2, <2>3
<1>8. ASSUME NEW p \in Clients, NEW k \in Keys, Batch(p, k) PROVE UNCHANGED <<now, kvBar>>
  BY Zenon, <1>8, BatchCatchesUp DEF Batch
<1>9. ASSUME NEW p \in Clients, ExpireAtGone(p) PROVE Atomic!Next \/ UNCHANGED <<now, kvBar>>
  <2> DEFINE k == req[p].key
  <2>1. now' = now /\ k \in Keys /\ ShardFree(k) /\ pc[p] = "deadline" /\ Finish(p)
    BY Zenon, <1>0, <1>9 DEF ExpireAtGone, Return
  <2>2. Still
    BY Zenon, <1>0, <1>a, <1>9, <2>1, ReturnPc DEF Step
  <2>3. CASE data' = data
    BY Zenon, <1>d, <2>1, <2>2, <2>3
  <2>4. CASE /\ data[k] # Absent /\ (Expired(data[k], t0[p]) \/ req[p].exp <= t0[p])
             /\ deleteLockedInWriteLockedShard(k)
    <3>1. data'[k] = Absent /\ \A j \in Keys \ {k} : data'[j] = data[j]
      BY <1>0, <2>4, DelData
    <3>2. kvBar' = [kvBar EXCEPT ![k] = Absent] /\ kvBar[k] = data[k]
      BY <1>b, <1>e, <2>1, <2>2, <3>1
    <3>3. CASE data[k] # Absent
      BY Zenon, <2>1, <2>4, <3>2, <3>3, ExpireAtRefines
    <3>4. CASE data[k] = Absent
      BY Zenon, <1>b, <1>g, <2>1, <2>2, <2>4, <3>4
    <3> QED BY <3>3, <3>4
  <2> QED BY <1>9, <2>3, <2>4 DEF ExpireAtGone, Gone, shardVars
<1>10. ASSUME NEW p \in Clients, ExpireAtEnd(p) PROVE Atomic!Next
  <2> DEFINE k == req[p].key
             e == [val |-> data[k].val, exp |-> req[p].exp]
  <2>1. /\ now' = now /\ k \in Keys /\ pc[p] = "stamp" /\ Finish(p)
        /\ data' = [data EXCEPT ![k] = [data[k] EXCEPT !.exp = req[p].exp]]
    BY <1>0, <1>10 DEF ExpireAtEnd
  <2>2. Still
    BY Zenon, <1>0, <1>a, <1>10, <2>1, ReturnPc DEF Step
  <2>3. data[k] \in Entry /\ data[k] # Absent
    BY <2>1 DEF Locks, CmdLocks, TypeOK, Slot
  <2>4. data'[k] = e /\ \A j \in Keys \ {k} : data'[j] = data[j]
    <3>1. [data[k] EXCEPT !.exp = req[p].exp] = e
      BY <2>3 DEF Entry
    <3> QED BY <2>1, <3>1 DEF TypeOK
  <2>5. \A q \in Clients : ~InBatch(q, k)
    BY <1>c, <2>1 DEF Gated
  <2>6. kvBar' = [kvBar EXCEPT ![k] = e] /\ kvBar[k] = data[k]
    BY <1>e, <2>1, <2>2, <2>4, <2>5
  <2>7. Live(data[k], t0[p]) /\ req[p].exp > t0[p]
    BY Zenon, <2>1 DEF Readiness, Prepared
  <2> QED BY Zenon, <2>1, <2>3, <2>6, <2>7, ExpireAtRefines
<1>11. ASSUME NEW p \in Clients, RmwDrop(p) PROVE Atomic!Next \/ UNCHANGED <<now, kvBar>>
  <2> DEFINE k == req[p].key
  <2>1. /\ now' = now /\ k \in Keys /\ ShardFree(k) /\ pc[p] = "drop" /\ pc'[p] # "body"
        /\ deleteLockedInWriteLockedShard(k)
    BY Zenon, <1>0, <1>11 DEF RmwDrop, Goto, TypeOK
  <2>2. Still
    BY Zenon, <1>a, <1>11, <2>1 DEF Step
  <2>3. data[k] = Absent \/ Gone(data[k], now)
    <3>1. Expired(ptr[p], t0[p]) /\ (p \in attached \/ data[k] = Absent)
      BY <2>1 DEF RmwHeld, RmwSafe, Looking
    <3>2. CASE p \in attached
      <4>1. data[k] # Absent /\ Expired(data[k], t0[p])
        BY <3>1, <3>2 DEF Attached
      <4>a. data[k] \in Entry /\ t0[p] \in Times /\ now \in Times
        BY <2>1, <4>1 DEF TypeOK, Slot
      <4>b. t0[p] <= now
        BY DEF Shape, CmdShape
      <4>2. data[k].exp \in Int /\ t0[p] \in Int /\ now \in Int /\ t0[p] <= now
        BY <4>a, <4>b, KeyspaceAssumption DEF Entry, Deadlines, Times, Never
      <4> QED BY <4>1, <4>2 DEF Gone, Expired
    <3> QED BY Zenon, <3>1, <3>2
  <2> QED BY <1>b, <1>g, <2>1, <2>2, <2>3
<1>12. ASSUME NEW p \in Clients, Evict(p) PROVE Atomic!Next
  <2> DEFINE k == req[p].key
  <2>1. /\ now' = now /\ k \in Keys /\ ShardFree(k) /\ pc[p] = "evict" /\ pc'[p] # "body"
        /\ deleteLockedInWriteLockedShard(k)
    BY Zenon, <1>0, <1>12 DEF Evict, Goto, TypeOK
  <2>2. Still
    BY Zenon, <1>a, <1>12, <2>1 DEF Step
  <2>3. data'[k] = Absent /\ \A j \in Keys \ {k} : data'[j] = data[j]
    BY <1>0, <2>1, DelData
  <2>4. kvBar' = [kvBar EXCEPT ![k] = Absent]
    BY <1>b, <1>e, <2>1, <2>2, <2>3
  <2>5. PICK r \in Requests : r.op = "EVICT"
    BY <2>1 DEF Origins, Origin, Gated
  <2>6. Atomic!Evict(r)
    BY Zenon, <2>1, <2>4, <2>5 DEF Atomic!Evict
  <2> QED BY <2>1, <2>6, AtomicCommand
<1>13. ASSUME NEW k \in Keys, expireSample(k) PROVE Atomic!Next \/ UNCHANGED <<now, kvBar>>
  <2>1. Still
    BY Zenon, <1>13 DEF expireSample, InBatch, cmdVars
  <2> QED BY Zenon, <1>b, <1>g, <1>13, <2>1 DEF expireSample
<1>14. ASSUME Tick PROVE Atomic!Next
  <2>1. Still
    BY <1>14 DEF Tick, InBatch, cmdVars
  <2>2. kvBar' = kvBar
    BY Zenon, <1>d, <1>14, <2>1 DEF Tick, shardVars
  <2> QED BY <1>14, <2>2 DEF Tick, Atomic!Next, Atomic!Tick
<1>15. ASSUME UNCHANGED vars PROVE UNCHANGED <<now, kvBar>>
  <2>1. Still
    BY <1>15 DEF vars, InBatch, cmdVars
  <2> QED BY <1>d, <1>15, <2>1 DEF vars, shardVars
<1> QED
  BY <1>1, <1>2, <1>3, <1>4, <1>5, <1>6, <1>7, <1>8, <1>9, <1>10, <1>11, <1>12, <1>13, <1>14,
     <1>15 DEF Next, Step

\* With a journal attached, the critical sections of any number of clients, the sampler
\* and eviction, in any order, amount to whole commands executed one at a time: MSET and
\* DEL over several shards, INCR and APPEND with their unlocked window, and EXPIREAT
\* included.
THEOREM StoreIsAtomic == ASSUME Durable PROVE Spec => ImplementsAtomic
<1>1. Init => Atomic!Init
  <2> SUFFICES ASSUME Init PROVE Atomic!Init
    OBVIOUS
  <2>1. \A p \in Clients, k \in Keys : ~InBatch(p, k)
    BY Zenon DEF Init, InBatch
  <2>2. kvBar = [k \in Keys |-> Absent]
    BY <2>1 DEF Init, kvBar
  <2> QED BY <2>2 DEF Init, Atomic!Init
<1>2. Linear /\ [Next]_vars => Linear'
  BY DurableStep, OriginStep, PreparedStep DEF Linear
<1>3. Linear /\ Linear' /\ [Next]_vars => [Atomic!Next]_<<now, kvBar>>
  <2> SUFFICES ASSUME Linear, Linear', [Next]_vars PROVE [Atomic!Next]_<<now, kvBar>>
    OBVIOUS
  <2>1. BarExact /\ BarExact'
    BY BarIsExact, BarStaysExact DEF Linear
  <2> QED BY <2>1, StepRefines
<1> QED BY <1>1, <1>2, <1>3, LinearInit, PTL DEF Spec, ImplementsAtomic, Atomic!Spec

-----------------------------------------------------------------------------
(***************************************************************************)
(* Deadlock.  Nobody who holds a shard waits for the gate, and the shards  *)
(* that a batch still waits for lie above all that it holds.               *)
(***************************************************************************)
Holding == {"lock", "body", "commit", "unlock", "stamp"}

Ordered(p) ==
    /\ req[p].op \in Batches => req[p].keys # {}
    /\ gate = p => pc[p] \in Gated
    /\ \A s \in Held(p) : /\ pc[p] \in Holding
                          /\ pc[p] = "stamp" => s = ShardOf[req[p].key]
                          /\ pc[p] = "lock" => \A r \in Missing(p) : s < r
    /\ pc[p] = "lock" => Missing(p) # {}

InOrder == \A p \in Clients : Ordered(p)

\* A batch has keys, also when it is a SET that became a DEL.
LEMMA BatchHasKeys ==
  /\ NoRequest.op \in Batches => NoRequest.keys # {}
  /\ \A r \in Requests, t \in Times : Effective(r, t).op \in Batches => Effective(r, t).keys # {}
<1>1. \A r \in Requests : r \in Request /\ (r.op \in Batches => r.keys # {})
  BY StoreAssumption
<1>2. ASSUME NEW r \in Requests, NEW t \in Times, Effective(r, t).op \in Batches
      PROVE  Effective(r, t).keys # {}
  <2>1. CASE r.op = "SET" /\ r.exp # Never /\ r.exp <= t
    <3>1. Effective(r, t).keys = {r.key}
      BY <1>1, <2>1 DEF Effective, Request
    <3> QED BY <3>1
  <2>2. CASE ~(r.op = "SET" /\ r.exp # Never /\ r.exp <= t)
    BY <1>1, <1>2, <2>2 DEF Effective
  <2> QED BY <2>1, <2>2
<1> QED BY <1>1, <1>2, StoreTypes

\* What a batch waits for are shards.
LEMMA MissingShards ==
  ASSUME TypeOK, NEW p \in Clients
  PROVE  Missing(p) \subseteq Shards
<1>1. req[p].keys \subseteq Keys
  BY DEF TypeOK, Request
<1> QED BY <1>1, StoreTypes DEF Missing

\* Somebody whose locks, position and command stay as they are stays in order.
LEMMA OrderOther ==
  ASSUME TypeOK, InOrder, NEW q \in Clients, Held(q)' = Held(q), pc'[q] = pc[q], req'[q] = req[q],
         gate' = q => gate = q
  PROVE  Ordered(q)'
<1>1. Ordered(q)
  BY DEF InOrder
<1>2. Missing(q)' = Missing(q)
  BY DEF Missing
<1> QED BY Zenon, <1>1, <1>2 DEF Ordered

\* Taking or giving back one shard changes what its own client holds.
LEMMA HeldChange ==
  ASSUME TypeOK, NEW p \in Clients, NEW s \in Shards, NEW v \in {p, NoClient},
         wlock[s] \in {p, NoClient}, wlock' = [wlock EXCEPT ![s] = v]
  PROVE  /\ Held(p)' = IF v = p THEN Held(p) \cup {s} ELSE Held(p) \ {s}
         /\ \A x \in Clients \ {p} : Held(x)' = Held(x)
<1>1. \A r \in Shards : wlock'[r] = IF r = s THEN v ELSE wlock[r]
  BY DEF TypeOK
<1>2. \A x \in Clients : x # NoClient
  BY StoreAssumption
<1> QED BY <1>1, <1>2 DEF Held

\* A client that neither takes nor gives back a shard leaves the locks in order.
LEMMA OrderKept ==
  ASSUME TypeOK, InOrder, NEW p \in Clients, NEW q \in Clients, wlock' = wlock,
         pc[p] \notin Holding \/ pc'[p] \in {"body", "commit", "unlock"},
         pc'[p] # "stamp", pc'[p] = "lock" => pc[p] \notin Holding /\ req'[p].op \in Batches,
         req'[p].op \in Batches => req'[p].keys # {},
         gate' = p => pc'[p] \in Gated,
         \A x \in Clients \ {p} : pc'[x] = pc[x] /\ req'[x] = req[x] /\ (gate' = x => gate = x)
  PROVE  Ordered(q)'
<1>0. Held(q)' = Held(q) /\ Ordered(q)
  BY DEF Held, InOrder
<1>1. CASE q = p
  <2>1. pc[p] \notin Holding => Held(p) = {}
    BY <1>0, <1>1 DEF Ordered
  <2>2. pc'[p] = "lock" => Missing(p)' # {}
    <3> SUFFICES ASSUME pc'[p] = "lock" PROVE Missing(p)' # {}
      OBVIOUS
    <3>1. Held(p)' = {} /\ req'[p].keys # {}
      BY <1>0, <1>1, <2>1
    <3> QED BY <3>1 DEF Missing
  <2> QED BY <1>0, <1>1, <2>1, <2>2 DEF Ordered, Holding
<1>2. CASE q # p
  BY <1>0, <1>2, OrderOther
<1> QED BY <1>1, <1>2

\* A command that ends holds neither shard nor gate.
LEMMA OrderFinish ==
  ASSUME TypeOK, InOrder, NEW p \in Clients, NEW q \in Clients, Finish(p), wlock' = wlock,
         pc[p] \notin Holding, gate' = NoClient \/ (gate' = gate /\ pc[p] \notin Gated)
  PROVE  Ordered(q)'
<1>1. /\ pc'[p] = "idle" /\ req'[p] = NoRequest
      /\ \A x \in Clients \ {p} : pc'[x] = pc[x] /\ req'[x] = req[x]
  BY ReturnPc DEF Finish, TypeOK
<1>2. gate' # p /\ \A x \in Clients : gate' = x => gate = x
  BY Zenon, StoreAssumption DEF InOrder, Ordered
<1> QED BY Zenon, <1>1, <1>2, BatchHasKeys, OrderKept

\* MGET and EXISTS hold neither shard nor gate between two keys.
LEMMA OrderNextKey ==
  ASSUME TypeOK, InOrder, NEW p \in Clients, NEW q \in Clients, NEW k \in Keys, NextKey(p, k),
         wlock' = wlock, gate' = gate, pc[p] \in {"read", "collect"}
  PROVE  Ordered(q)'
<1>1. pc[p] \notin Holding /\ pc[p] \notin Gated
  BY DEF Holding, Gated, Building
<1>2. CASE todo[p] = {k}
  BY Zenon, <1>1, <1>2, OrderFinish DEF NextKey, Return
<1>3. CASE todo[p] # {k}
  <2>1. pc'[p] = "read" /\ req' = req /\ \A x \in Clients \ {p} : pc'[x] = pc[x]
    BY <1>3 DEF NextKey, Goto, TypeOK
  <2>2. gate # p /\ (req[p].op \in Batches => req[p].keys # {})
    BY Zenon, <1>1 DEF InOrder, Ordered
  <2> QED BY Zenon, <1>1, <2>1, <2>2, OrderKept
<1> QED BY Zenon, <1>2, <1>3

\* Every step leaves the locks in order.
LEMMA OrderStep ==
  ASSUME Base, InOrder, [Next]_vars
  PROVE  InOrder'
<1> SUFFICES ASSUME NEW q \in Clients PROVE Ordered(q)'
  BY DEF InOrder
<1>0. TypeOK /\ NoClient \notin Clients /\ \A p \in Clients : Ordered(p) /\ CmdLocks(p)
  BY StoreAssumption DEF InOrder, Base, Locks
<1>1. ASSUME NEW p \in Clients, Call(p) PROVE Ordered(q)'
  <2>1. /\ pc[p] = "idle" /\ pc'[p] \in {"read", "gate"} /\ wlock' = wlock /\ gate' = gate
        /\ \A x \in Clients \ {p} : pc'[x] = pc[x] /\ req'[x] = req[x]
    BY <1>0, <1>1 DEF Call, Goto, TypeOK
  <2>2. PICK r \in Requests : req'[p] = Effective(r, now)
    BY <1>0, <1>1 DEF Call, TypeOK
  <2>3. req'[p].op \in Batches => req'[p].keys # {}
    BY Zenon, <1>0, <2>2, BatchHasKeys DEF TypeOK
  <2>4. gate # p /\ pc[p] \notin Holding
    BY <1>0, <2>1 DEF Ordered, Gated, Building, Holding
  <2> QED BY <1>0, <2>1, <2>3, <2>4, OrderKept
<1>2. ASSUME NEW p \in Clients, lockDurableMutation(p) PROVE Ordered(q)'
  <2>1. /\ pc[p] = "gate" /\ pc'[p] \in {"apply", "lock", "deadline", "peek", "pick"}
        /\ pc'[p] = "lock" => req[p].op \in Batches
        /\ wlock' = wlock /\ req' = req /\ gate' \in {p, NoClient}
        /\ \A x \in Clients \ {p} : pc'[x] = pc[x]
    BY <1>0, <1>2 DEF lockDurableMutation, Goto, TypeOK
  <2>2. pc[p] \notin Holding /\ pc'[p] \in Gated
    BY <2>1 DEF Gated, Building, Holding
  <2>3. req[p].op \in Batches => req[p].keys # {}
    BY <1>0 DEF Ordered
  <2> QED BY Zenon, <1>0, <2>1, <2>2, <2>3, OrderKept
<1>3. ASSUME NEW p \in Clients, NEW k \in Keys, Get(p, k) PROVE Ordered(q)'
  <2>1. CASE Gone(data[k], t0[p])
    <3>1. /\ pc[p] = "read" /\ pc'[p] = "collect" /\ wlock' = wlock /\ gate' = gate
          /\ req' = [req EXCEPT ![p].key = k]
          /\ \A x \in Clients \ {p} : pc'[x] = pc[x] /\ req'[x] = req[x]
      BY <1>0, <1>3, <2>1 DEF Get, Goto, TypeOK
    <3>2. req'[p].op = req[p].op /\ req'[p].keys = req[p].keys
      BY <1>0, <3>1 DEF TypeOK, Request
    <3>3. gate # p /\ pc[p] \notin Holding /\ (req[p].op \in Batches => req[p].keys # {})
      BY <1>0, <3>1 DEF Ordered, Gated, Building, Holding
    <3> QED BY <1>0, <3>1, <3>2, <3>3, OrderKept
  <2>2. CASE ~Gone(data[k], t0[p])
    BY Zenon, <1>0, <1>3, <2>2, OrderNextKey DEF Get
  <2> QED BY <2>1, <2>2
<1>4. ASSUME NEW p \in Clients, NEW k \in Keys, Exists(p, k) PROVE Ordered(q)'
  BY Zenon, <1>0, <1>4, OrderNextKey DEF Exists
<1>5. ASSUME NEW p \in Clients, GetCollect(p) PROVE Ordered(q)'
  <2>1. req[p].key \in Keys
    BY <1>0 DEF TypeOK, Request
  <2> QED BY Zenon, <1>0, <1>5, <2>1, OrderNextKey DEF GetCollect
\* behind the gate, without a shard
<1>6. ASSUME NEW p \in Clients,
             \/ setLocked(p) \/ Evict(p) \/ EvictAppend(p)
             \/ RmwPeek(p) \/ RmwCheck(p) \/ RmwDrop(p) \/ RmwCalc(p)
      PROVE  Ordered(q)'
  <2>1. /\ pc[p] \notin Holding /\ pc'[p] \in Gated \ {"lock", "stamp"}
        /\ \A x \in Clients \ {p} : pc'[x] = pc[x]
    BY <1>0, <1>6 DEF setLocked, Evict, EvictAppend, RmwPeek, RmwCheck, RmwDrop, RmwCalc, Goto,
                      TypeOK, Holding, Gated, Building
  <2>2. wlock' = wlock /\ gate' = gate /\ req' = req
    BY <1>6 DEF setLocked, Evict, EvictAppend, RmwPeek, RmwCheck, RmwDrop, RmwCalc, cmdVars
  <2>3. req[p].op \in Batches => req[p].keys # {}
    BY <1>0 DEF Ordered
  <2> QED BY <1>0, <2>1, <2>2, <2>3, OrderKept
<1>7. ASSUME NEW p \in Clients, pickVictim(p) PROVE Ordered(q)'
  <2>1. PICK k \in Keys : req' = [req EXCEPT ![p].key = k]
    BY Zenon, <1>7 DEF pickVictim
  <2>2. /\ pc[p] = "pick" /\ pc'[p] = "evict" /\ wlock' = wlock /\ gate' = gate
        /\ \A x \in Clients \ {p} : pc'[x] = pc[x] /\ req'[x] = req[x]
    BY <1>0, <1>7, <2>1 DEF pickVictim, Goto, TypeOK
  <2>3. req'[p].op = req[p].op /\ req'[p].keys = req[p].keys
    BY <1>0, <2>1 DEF TypeOK, Request
  <2>4. pc[p] \notin Holding /\ pc'[p] \in Gated /\ (req[p].op \in Batches => req[p].keys # {})
    BY <1>0, <2>2 DEF Ordered, Gated, Building, Holding
  <2> QED BY Zenon, <1>0, <2>2, <2>3, <2>4, OrderKept
<1>8. ASSUME NEW p \in Clients,
             propagateSetLocked(p) \/ ExpireAtGone(p) \/ RmwRefuse(p) \/ EvictDone(p)
      PROVE  Ordered(q)'
  <2>1. Finish(p) /\ gate' = NoClient /\ wlock' = wlock /\ pc[p] \notin Holding
    BY <1>8 DEF propagateSetLocked, ExpireAtGone, RmwRefuse, EvictDone, Return, Holding
  <2> QED BY Zenon, <1>0, <2>1, OrderFinish
\* a batch that has its shards
<1>9. ASSUME NEW p \in Clients, (\E k \in Keys : Batch(p, k)) \/ BatchCommit(p) PROVE Ordered(q)'
  <2>1. /\ pc'[p] \in {"body", "commit", "unlock"} /\ wlock' = wlock /\ req' = req
        /\ gate' = NoClient \/ (gate' = gate /\ pc'[p] # "unlock")
        /\ \A x \in Clients \ {p} : pc'[x] = pc[x]
    BY <1>0, <1>9 DEF Batch, BatchCommit, Goto, TypeOK, cmdVars
  <2>2. (req[p].op \in Batches => req[p].keys # {}) /\ (gate' = p => pc'[p] \in Gated)
    BY Zenon, <1>0, <2>1 DEF Ordered, Gated, Building
  <2> QED BY Zenon, <1>0, <2>1, <2>2, OrderKept
\* a shard is taken or given back
<1>10. ASSUME NEW p \in Clients, lockWriteShards(p) PROVE Ordered(q)'
  <2>1. PICK s \in Missing(p) : /\ \A r \in Missing(p) : s <= r
                                /\ wlock[s] = NoClient
                                /\ wlock' = [wlock EXCEPT ![s] = p]
                                /\ Goto(p, IF Missing(p) = {s} THEN "body" ELSE "lock")
    BY Zenon, <1>10 DEF lockWriteShards
  <2>0. gate' = gate /\ req' = req /\ pc[p] = "lock"
    BY <1>10 DEF lockWriteShards, cmdVars
  <2>2. s \in Shards /\ Missing(p) \subseteq Shards
    BY <1>0, <2>1, MissingShards
  <2>3. Held(p)' = Held(p) \cup {s} /\ \A x \in Clients \ {p} : Held(x)' = Held(x)
    BY Zenon, <1>0, <2>1, <2>2, HeldChange
  <2>4. pc'[p] \in {"body", "lock"} /\ (pc'[p] = "lock" => Missing(p) # {s})
        /\ \A x \in Clients \ {p} : pc'[x] = pc[x]
    BY <1>0, <2>1 DEF Goto, TypeOK
  <2>5. CASE q = p
    <3>1. Missing(p)' = Missing(p) \ {s}
      BY <2>0, <2>3 DEF Missing
    <3>2. \A r \in Missing(p) \ {s} : s < r
      BY <2>1, <2>2 DEF Shards
    <3>3. Ordered(p)
      BY <1>0
    <3>4. \A h \in Held(p)', r \in Missing(p)' : h < r
      BY <2>0, <2>3, <3>1, <3>2, <3>3 DEF Ordered
    <3>5. pc'[p] \in Holding \cap Gated /\ pc'[p] # "stamp" /\ (pc'[p] = "lock" => Missing(p)' # {})
      BY <2>1, <2>4, <3>1 DEF Holding, Gated, Building
    <3> QED BY Zenon, <2>0, <2>5, <3>3, <3>4, <3>5 DEF Ordered
  <2>6. CASE q # p
    BY <1>0, <2>0, <2>3, <2>4, <2>6, OrderOther
  <2> QED BY <2>5, <2>6
<1>11. ASSUME NEW p \in Clients, unlockWriteShards(p) PROVE Ordered(q)'
  <2>1. PICK s \in Held(p) :
          /\ wlock' = [wlock EXCEPT ![s] = NoClient]
          /\ IF Held(p) = {s} THEN Return(p) ELSE UNCHANGED <<pc, req, t0, ptr, new, todo, rec>>
    BY Zenon, <1>11 DEF unlockWriteShards
  <2>2. s \in Shards /\ wlock[s] = p /\ gate' = gate /\ pc[p] = "unlock"
    BY <1>11, <2>1 DEF unlockWriteShards, Held
  <2>3. Held(p)' = Held(p) \ {s} /\ \A x \in Clients \ {p} : Held(x)' = Held(x)
    BY <1>0, <2>1, <2>2, HeldChange
  <2>4. gate # p
    BY <1>0, <2>2 DEF Ordered, Gated, Building
  <2>5. /\ \A x \in Clients \ {p} : pc'[x] = pc[x] /\ req'[x] = req[x]
        /\ \/ pc'[p] = "idle" /\ req'[p] = NoRequest /\ Held(p)' = {}
           \/ pc'[p] = "unlock" /\ req'[p] = req[p]
    <3>1. CASE Held(p) = {s}
      BY <1>0, <2>1, <2>3, <3>1, ReturnPc DEF Return, Finish, TypeOK
    <3>2. CASE Held(p) # {s}
      BY <2>1, <2>2, <3>2
    <3> QED BY <3>1, <3>2
  <2>6. CASE q = p
    BY <1>0, <2>2, <2>4, <2>5, <2>6, BatchHasKeys DEF Ordered, Holding
  <2>7. CASE q # p
    BY Zenon, <1>0, <2>2, <2>3, <2>5, <2>7, OrderOther
  <2> QED BY <2>6, <2>7
<1>12. ASSUME NEW p \in Clients, ExpireAtBegin(p) PROVE Ordered(q)'
  <2> DEFINE s == ShardOf[req[p].key]
  <2>1. /\ pc[p] = "deadline" /\ pc'[p] = "stamp" /\ wlock[s] = NoClient
        /\ wlock' = [wlock EXCEPT ![s] = p] /\ gate' = gate /\ req' = req
        /\ \A x \in Clients \ {p} : pc'[x] = pc[x]
    BY Zenon, <1>0, <1>12 DEF ExpireAtBegin, ShardFree, Goto, TypeOK, cmdVars
  <2>2. s \in Shards
    BY <1>0, StoreTypes DEF TypeOK, Request
  <2>3. Held(p) = {} /\ (req[p].op \in Batches => req[p].keys # {})
    BY <1>0, <2>1 DEF Ordered, Holding
  <2> HIDE DEF s
  <2>4. Held(p)' = Held(p) \cup {s} /\ \A x \in Clients \ {p} : Held(x)' = Held(x)
    BY <1>0, <2>1, <2>2, HeldChange
  <2>5. CASE q = p
    BY <2>1, <2>3, <2>4, <2>5 DEF Ordered, Holding, Gated, s
  <2>6. CASE q # p
    BY Zenon, <1>0, <2>1, <2>4, <2>6, OrderOther
  <2> QED BY <2>5, <2>6
<1>13. ASSUME NEW p \in Clients, ExpireAtEnd(p) PROVE Ordered(q)'
  <2> DEFINE s == ShardOf[req[p].key]
  <2>1. /\ pc[p] = "stamp" /\ wlock' = [wlock EXCEPT ![s] = NoClient] /\ gate' = NoClient /\ Finish(p)
    BY <1>13 DEF ExpireAtEnd
  <2>2. s \in Shards /\ wlock[s] = p
    BY <1>0, <2>1, StoreTypes DEF TypeOK, Request, CmdLocks
  <2>3. \A r \in Held(p) : r = s
    BY Zenon, <1>0, <2>1 DEF Ordered
  <2> HIDE DEF s
  <2>4. Held(p)' = Held(p) \ {s} /\ \A x \in Clients \ {p} : Held(x)' = Held(x)
    BY Zenon, <1>0, <2>1, <2>2, HeldChange
  <2>5. /\ pc'[p] = "idle" /\ req'[p] = NoRequest /\ Held(p)' = {}
        /\ \A x \in Clients \ {p} : pc'[x] = pc[x] /\ req'[x] = req[x]
    BY <1>0, <2>1, <2>3, <2>4, ReturnPc DEF Finish, TypeOK
  <2>6. CASE q = p
    BY <1>0, <2>1, <2>5, <2>6, BatchHasKeys DEF Ordered
  <2>7. CASE q # p
    BY Zenon, <1>0, <2>1, <2>4, <2>5, <2>7, OrderOther
  <2> QED BY <2>6, <2>7
<1>14. ASSUME (\E k \in Keys : expireSample(k)) \/ Tick \/ UNCHANGED vars PROVE Ordered(q)'
  <2>1. wlock' = wlock /\ pc' = pc /\ req' = req /\ gate' = gate
    BY <1>14 DEF expireSample, Tick, vars, cmdVars
  <2>2. Held(q)' = Held(q)
    BY <2>1 DEF Held
  <2> QED BY <1>0, <2>1, <2>2, OrderOther
<1> QED BY Zenon, <1>1, <1>2, <1>3, <1>4, <1>5, <1>6, <1>7, <1>8, <1>9, <1>10, <1>11, <1>12, <1>13,
           <1>14 DEF Next, Step

\* The locks are in order, always.
THEOREM LocksInOrder == Spec => []InOrder
<1>1. Init => InOrder
  <2> SUFFICES ASSUME Init, NEW p \in Clients PROVE Ordered(p)
    BY DEF InOrder
  <2>1. Held(p) = {} /\ gate # p /\ pc[p] = "idle" /\ req[p] = NoRequest
    BY Zenon, StoreAssumption DEF Init, Held
  <2> QED BY Zenon, <2>1, BatchHasKeys DEF Ordered
<1>2. Base /\ InOrder /\ [Next]_vars => InOrder'
  BY OrderStep
<1> QED BY <1>1, <1>2, BaseInvariant, PTL DEF Spec

\* Any set of shards has a highest one.
HighestShard == \A T \in SUBSET Shards : T # {} => \E h \in T : \A s \in T : s <= h

\* Nobody who is behind the gate, or holds a shard, waits for the gate; of those who hold a
\* shard, whoever holds the highest waits for nothing.
LEMMA SomebodyRuns ==
  ASSUME Base, InOrder, HighestShard
  PROVE  NoDeadlock
<1> SUFFICES ASSUME NEW c \in Clients, pc[c] # "idle"
             PROVE  \E p \in Clients : pc[p] # "idle" /\ ~Blocked(p)
  BY DEF NoDeadlock
<1> DEFINE T == {s \in Shards : wlock[s] # NoClient}
<1>0. TypeOK /\ NoClient \notin Clients /\ \A p \in Clients : Ordered(p)
  BY Zenon, StoreAssumption DEF InOrder, Base
<1>1. ASSUME NEW p \in Clients PROVE Awaited(p) \subseteq Shards
  <2>1. Missing(p) \subseteq Shards /\ ShardOf[req[p].key] \in Shards /\ todo[p] \subseteq Keys
    BY <1>0, <1>1, MissingShards, StoreTypes DEF TypeOK, Request
  <2> QED BY <2>1, StoreTypes DEF Awaited
<1>2. CASE T = {}
  <2>1. \A p \in Clients : Blocked(p) => pc[p] = "gate" /\ gate # NoClient
    BY <1>1, <1>2 DEF Blocked
  <2>2. CASE gate = NoClient
    BY <2>1, <2>2
  <2>3. CASE gate # NoClient
    <3>1. gate \in Clients /\ pc[gate] \in Gated
      BY Zenon, <1>0, <2>3 DEF TypeOK, Ordered
    <3>2. pc[gate] # "gate" /\ pc[gate] # "idle"
      BY <3>1 DEF Gated, Building
    <3> QED BY <2>1, <3>1, <3>2
  <2> QED BY <2>2, <2>3
<1>3. CASE T # {}
  <2>1. PICK h \in T : \A r \in T : r <= h
    BY Zenon, <1>3 DEF HighestShard
  <2>2. PICK p \in Clients : h \in Held(p)
    BY <1>0, <2>1 DEF Held, TypeOK
  <2>3. pc[p] \in Holding
    BY <1>0, <2>2 DEF Ordered
  <2>4. pc[p] = "lock" => \A s \in Awaited(p) : s \notin T
    <3> SUFFICES ASSUME pc[p] = "lock", NEW s \in Awaited(p), s \in T PROVE FALSE
      OBVIOUS
    <3>1. s \in Missing(p)
      BY DEF Awaited
    <3>2. h < s
      BY <1>0, <2>2, <3>1 DEF Ordered
    <3>3. s <= h /\ s \in Int /\ h \in Int
      BY <2>1, StoreAssumption DEF Shards
    <3> QED BY <3>2, <3>3
  <2>5. pc[p] # "lock" => Awaited(p) = {}
    BY <2>3 DEF Awaited, Holding
  <2>6. ~Blocked(p) /\ pc[p] # "idle"
    BY <1>1, <2>3, <2>4, <2>5 DEF Blocked, Holding
  <2> QED BY <2>6
<1> QED BY <1>2, <1>3
=============================================================================
