--------------------------- MODULE EvictionProofs ---------------------------
(***************************************************************************)
(* Eviction never takes an entry it must not take, and keeps the store     *)
(* within its budget and one command per client, for any keys, shards,     *)
(* clients, sizes, budget and sample.                                      *)
(***************************************************************************)
EXTENDS Eviction, TLAPS

Victim == [key : Keys \cup {Absent}, atime : Nat]
Evicting == {"check", "loop", "pick", "evict"}

\* The part of TypeOK that the argument needs.
Typed ==
    /\ data \in [Keys -> Entry \cup {Absent}]
    /\ clock \in Nat
    /\ gate \in Clients \cup {Nobody}
    /\ pc \in [Clients -> {"idle", "enforce", "check", "loop", "pick", "evict", "handler"}]
    /\ best \in [Clients -> Victim]

\* Deleting what is under k takes no entry without a TTL.
Harmless(k) == k \in Keys => data[k] = Absent \/ data[k].ttl

\* With a journal a client keeps the gate from its first look at the budget to its last
\* deletion, so that no handler comes between the choice of a victim and its end.
Kept ==
    /\ \A p \in Clients : pc[p] \notin {"pick", "evict"} => best[p].key = Absent
    /\ policy = "noeviction" => \A p \in Clients : pc[p] \notin {"loop", "pick", "evict"}
    /\ durable => \A p \in Clients : pc[p] \in Evicting => gate = p
    /\ policy = "volatile-lru" /\ durable => \A p \in Clients : Harmless(best[p].key)

-----------------------------------------------------------------------------
(***************************************************************************)
(* The budget.  A count of the bytes is a walk over the shards, one lock   *)
(* at a time, and a client that finds the count within the budget stores   *)
(* its command later, so a count misses what is stored behind it.  A walk  *)
(* that began earlier than another may be let through before it, and that  *)
(* order bounds what each can miss.                                        *)
(***************************************************************************)

\* Clients that may each be one command ahead of the budget.
N == Cardinality(Clients)

\* Clients that are counting bytes, and clients whose count was within the budget.
Walking == {p \in Clients : pc[p] \in {"check", "loop"}}
Granted == {p \in Clients : pc[p] = "handler"}

\* The entries in the shards that p has counted, and by how much they have grown since.
Counted(p) == {k \in Present : ShardOf[k] < shard[p]}
Missed(p)  == Bytes(Counted(p)) - sum[p]

\* older[p] are the walks that began before p's and go on.
Ordered(older) ==
    \A p \in Walking :
      /\ older[p] \subseteq Walking \ {p}
      /\ \A q \in Walking : q = p \/ q \in older[p] \/ p \in older[q]
      /\ \A q \in older[p] : older[q] \subseteq older[p]

\* The commands that may still be stored before p's: each handler at work, and each walk
\* that began earlier, may add one.
Ahead(older, p) == Cardinality(Granted \cup older[p]) * MaxGrowth

\* Either what p has missed and will miss fits one command of every other client, so that
\* p's count comes out that close, or the store already has room for all that is ahead.
Room(older, p) ==
    \/ Missed(p) + Ahead(older, p) <= (N - 1) * MaxGrowth
    \/ Used + Ahead(older, p) <= MaxMemory + (N - 1) * MaxGrowth

\* The budget with the commands already let through.
Within == Used + Cardinality(Granted) * MaxGrowth <= MaxMemory + N * MaxGrowth

Walks(older) == Ordered(older) /\ \A p \in Walking : Room(older, p)

\* The inductive invariant: some order of the walks under way leaves room for each.
Budgeted ==
    /\ Within
    /\ \E older \in [Clients -> SUBSET Clients] : Walks(older)

\* What is local to a walk, and where it rests.
Walked ==
    /\ shard \in [Clients -> Shards] /\ sum \in [Clients -> Nat]
    /\ scanned \in [Clients -> 0 .. EvictSample]
    /\ \A p \in Clients : best[p] = None \/ best[p].key \in Keys
    /\ \A p \in Clients : pc[p] = "evict" => best[p].key \in Keys
    /\ \A p \in Clients : /\ pc[p] \notin {"check", "loop"} => sum[p] = 0
                          /\ pc[p] \notin {"check", "loop", "pick"} => shard[p] = 0

-----------------------------------------------------------------------------
(***************************************************************************)
(* Bytes of sets of entries, numbers of clients, and the most that one     *)
(* command adds.  The argument about the budget needs no more of sums and  *)
(* cardinalities than Sums says; that it is so is shown after it.          *)
(***************************************************************************)
Sums ==
    /\ \A A \in SUBSET Keys : Bytes(A) \in Nat /\ Cardinality(A) \in Nat
    /\ \A A \in SUBSET Keys : \A B \in SUBSET A : Bytes(B) <= Bytes(A)
    /\ \A A, B \in SUBSET Keys : \A C \in SUBSET (A \cup B) : Bytes(C) <= Bytes(A) + Bytes(B)
    /\ \A A, B \in SUBSET Keys : A \cap B = {} => Bytes(A \cup B) = Bytes(A) + Bytes(B)
    /\ Bytes({}) = 0 /\ Cardinality({}) = 0
    /\ MaxGrowth \in Nat
    /\ \A c \in Commands : c.op = "put" => Bytes(c.keys) <= MaxGrowth
    /\ N \in Nat
    /\ \A p \in Clients : Cardinality(Clients \ {p}) = N - 1
    /\ \A A \in SUBSET Clients :
          /\ Cardinality(A) * MaxGrowth \in Nat
          /\ \A B \in SUBSET A : Cardinality(B) * MaxGrowth <= Cardinality(A) * MaxGrowth
          /\ \A p \in A : Cardinality(A) * MaxGrowth = Cardinality(A \ {p}) * MaxGrowth + MaxGrowth

\* Sizes of entries add up to a size.
LEMMA BytesType ==
  ASSUME Sums, NEW A \in SUBSET Keys
  PROVE  Bytes(A) \in Nat /\ Cardinality(A) \in Nat
BY DEF Sums

\* More entries are no smaller.
LEMMA BytesMonotone ==
  ASSUME Sums, NEW A \in SUBSET Keys, NEW B \in SUBSET A
  PROVE  Bytes(B) <= Bytes(A)
BY DEF Sums

\* What two sets cover is no larger than both.
LEMMA BytesCovered ==
  ASSUME Sums, NEW A \in SUBSET Keys, NEW B \in SUBSET Keys, NEW C, C \subseteq A \cup B
  PROVE  Bytes(C) <= Bytes(A) + Bytes(B)
BY DEF Sums

\* Two sets apart.
LEMMA BytesUnion ==
  ASSUME Sums, NEW A \in SUBSET Keys, NEW B \in SUBSET Keys, A \cap B = {}
  PROVE  Bytes(A \cup B) = Bytes(A) + Bytes(B)
BY DEF Sums

\* No entries, no bytes.
LEMMA BytesNone ==
  ASSUME Sums
  PROVE  Bytes({}) = 0 /\ Cardinality({}) = 0
BY DEF Sums

\* MaxGrowth is what it is called: no command adds more.
LEMMA GrowthBounds ==
  ASSUME Sums
  PROVE  /\ MaxGrowth \in Nat
         /\ \A c \in Commands : c.op = "put" => Bytes(c.keys) <= MaxGrowth
BY DEF Sums

\* One command's worth for each client of a set.
LEMMA Products ==
  ASSUME Sums, NEW A \in SUBSET Clients, NEW B \in SUBSET A
  PROVE  /\ Cardinality(A) * MaxGrowth \in Nat
         /\ Cardinality(B) * MaxGrowth <= Cardinality(A) * MaxGrowth
         /\ \A p \in A : Cardinality(A) * MaxGrowth = Cardinality(A \ {p}) * MaxGrowth + MaxGrowth
BY Zenon DEF Sums

-----------------------------------------------------------------------------
\* Facts about one state that every step below uses.
Sized ==
    /\ Used \in Nat /\ Present \in SUBSET Keys
    /\ Walking \in SUBSET Clients /\ Granted \in SUBSET Clients /\ Walking \cap Granted = {}
    /\ \A p \in Clients : Missed(p) \in Int /\ Counted(p) \in SUBSET Present
    /\ \A older \in [Clients -> SUBSET Clients] : \A p \in Clients : Ahead(older, p) \in Nat

\* They hold in every typed state.
LEMMA BoundTypes == Sums /\ Typed /\ Walked => Sized
<1> SUFFICES ASSUME Sums, Typed, Walked PROVE Sized
  OBVIOUS
<1>1. Present \in SUBSET Keys /\ \A p \in Clients : Counted(p) \in SUBSET Present
  BY DEF Present, Counted
<1>2. Used \in Nat
  BY <1>1, BytesType DEF Used
<1>3. ASSUME NEW p \in Clients PROVE Missed(p) \in Int
  <2>1. Bytes(Counted(p)) \in Nat
    BY <1>1, BytesType
  <2> QED BY <2>1 DEF Missed, Walked
<1>4. ASSUME NEW older \in [Clients -> SUBSET Clients], NEW p \in Clients PROVE Ahead(older, p) \in Nat
  <2>1. Granted \cup older[p] \in SUBSET Clients
    BY DEF Granted
  <2> QED BY <2>1, Products DEF Ahead
<1> QED BY <1>1, <1>2, <1>3, <1>4 DEF Walking, Granted, Sized

\* The share of one client in the overshoot.
LEMMA Shares ==
  ASSUME Sums, NEW p \in Clients
  PROVE  /\ (N - 1) * MaxGrowth \in Int /\ N * MaxGrowth \in Nat
         /\ N * MaxGrowth = (N - 1) * MaxGrowth + MaxGrowth
         /\ N - 1 = Cardinality(Clients \ {p})
         /\ MaxGrowth \in Nat /\ MaxMemory \in Nat
<1>3. N \in Nat /\ MaxGrowth \in Nat
  BY DEF Sums
<1>4. N * MaxGrowth \in Nat /\ (N - 1) * MaxGrowth \in Int
  BY <1>3
<1>5. N * MaxGrowth = Cardinality(Clients \ {p}) * MaxGrowth + MaxGrowth
  BY Products DEF N
<1>6. Cardinality(Clients \ {p}) = N - 1
  BY DEF Sums
<1> QED BY <1>3, <1>4, <1>5, <1>6, MemoryAssumption

\* What a walk has missed, and what may yet be added ahead of it, only shrink.
LEMMA RoomKept ==
  ASSUME Sums, Typed, Walked, Typed', Walked', NEW older \in [Clients -> SUBSET Clients],
         NEW new \in [Clients -> SUBSET Clients], NEW p \in Clients, Room(older, p),
         Used' <= Used, Missed(p)' <= Missed(p),
         Granted' \cup new[p] \subseteq Granted \cup older[p]
  PROVE  Room(new, p)'
<1>1. Ahead(new, p)' <= Ahead(older, p)
  <2>1. Granted \cup older[p] \in SUBSET Clients
    BY DEF Granted
  <2>2. Ahead(new, p)' = Cardinality(Granted' \cup new[p]) * MaxGrowth
    BY DEF Ahead
  <2> QED BY <2>1, <2>2, Products DEF Ahead
<1>2. (N - 1) * MaxGrowth \in Int /\ MaxMemory \in Nat
  BY Zenon, Shares
<1>3. Used \in Nat /\ Missed(p) \in Int /\ Ahead(older, p) \in Nat
  BY BoundTypes DEF Sized
<1>4. Sized'
  BY BoundTypes, PTL
<1>5. Used' \in Nat /\ Missed(p)' \in Int /\ Ahead(new, p)' \in Nat
  BY <1>4 DEF Sized
<1> QED BY <1>1, <1>2, <1>3, <1>5 DEF Room

\* Steps in which walks and handlers may end and entries may go.
LEMMA Shrink ==
  ASSUME Sums, Typed, Walked, Typed', Walked', Budgeted,
         Walking' \subseteq Walking, Granted' \subseteq Granted, Present' \subseteq Present,
         \A p \in Walking' : shard'[p] = shard[p] /\ sum'[p] = sum[p]
  PROVE  Budgeted'
<1>0. /\ Used \in Nat /\ Present \in SUBSET Keys
      /\ Walking \in SUBSET Clients /\ Granted \in SUBSET Clients
      /\ \A p \in Clients : Counted(p) \in SUBSET Present
  BY BoundTypes DEF Sized
<1>0a. Sized'
  BY BoundTypes, PTL
<1>0b. Used' \in Nat
  BY <1>0a DEF Sized
<1>1. Used' <= Used
  BY <1>0, BytesMonotone DEF Used
<1>2. Within'
  <2>1. Cardinality(Granted') * MaxGrowth <= Cardinality(Granted) * MaxGrowth
        /\ Cardinality(Granted) * MaxGrowth \in Nat
    BY <1>0, Products
  <2>2. Cardinality(Granted') * MaxGrowth \in Nat
    BY <1>0, Products
  <2>3. N * MaxGrowth \in Nat /\ MaxMemory \in Nat
    BY Products, MemoryAssumption DEF N
  <2> QED BY <1>0, <1>0b, <1>1, <2>1, <2>2, <2>3 DEF Budgeted, Within
<1>3. PICK older \in [Clients -> SUBSET Clients] : Walks(older)
  BY DEF Budgeted
<1>4. PICK new \in [Clients -> SUBSET Clients] : new = [p \in Clients |-> older[p] \cap Walking']
  BY Zenon
<1>5. Ordered(new)'
  BY <1>0, <1>3, <1>4 DEF Walks, Ordered
<1>6. ASSUME NEW p \in Walking' PROVE Room(new, p)'
  <2>1. p \in Clients /\ Room(older, p) /\ new[p] \subseteq older[p]
    BY <1>0, <1>3, <1>4 DEF Walks
  <2>2. Missed(p)' <= Missed(p)
    <3>1. Counted(p)' \subseteq Counted(p)
      BY <1>6 DEF Counted
    <3>2. Bytes(Counted(p)') <= Bytes(Counted(p)) /\ Bytes(Counted(p)) \in Nat /\ Bytes(Counted(p)') \in Nat
      BY <1>0, <2>1, <3>1, BytesMonotone, BytesType
    <3>3. Missed(p)' = Bytes(Counted(p)') - sum[p] /\ Missed(p) = Bytes(Counted(p)) - sum[p] /\ sum[p] \in Nat
      BY <1>6, <2>1 DEF Missed, Walked
    <3> QED BY <1>0, <2>1, <3>2, <3>3
  <2> QED BY <1>1, <2>1, <2>2, RoomKept
<1> QED BY <1>2, <1>5, <1>6 DEF Budgeted, Walks

\* A client starts to count from the first shard: every other walk is older than its own.
LEMMA Start ==
  ASSUME Sums, Typed, Walked, Typed', Walked', Budgeted, NEW p \in Clients,
         Walking' = Walking \cup {p}, Granted' = Granted, p \notin Granted, Present' \subseteq Present,
         shard'[p] = 0, sum'[p] = 0,
         \A q \in Walking \ {p} : shard'[q] = shard[q] /\ sum'[q] = sum[q]
  PROVE  Budgeted'
<1>0. /\ Used \in Nat /\ Present \in SUBSET Keys
      /\ Walking \in SUBSET Clients /\ Granted \in SUBSET Clients
      /\ \A q \in Clients : Counted(q) \in SUBSET Present
  BY BoundTypes DEF Sized
<1>1. Sized'
  BY BoundTypes, PTL
<1>2. Used' <= Used /\ Used' \in Nat
  BY <1>0, <1>1, BytesMonotone DEF Used, Sized
<1>3. Within'
  <2>1. Cardinality(Granted) * MaxGrowth \in Nat
    BY <1>0, Products
  <2>2. N * MaxGrowth \in Nat /\ MaxMemory \in Nat
    BY Zenon, Shares
  <2> QED BY <1>0, <1>2, <2>1, <2>2 DEF Budgeted, Within
<1>4. PICK older \in [Clients -> SUBSET Clients] : Walks(older)
  BY DEF Budgeted
<1>5. PICK new \in [Clients -> SUBSET Clients] :
        new = [q \in Clients |-> IF q = p THEN Walking \ {p} ELSE older[q] \ {p}]
  BY Zenon, <1>0
<1>6. Ordered(new)'
  <2>1. Ordered(older)
    BY <1>4 DEF Walks
  <2>2. ASSUME NEW q \in Walking', q # p
        PROVE  /\ new[q] \subseteq Walking' \ {q}
               /\ \A r \in Walking' : r = q \/ r \in new[q] \/ q \in new[r]
               /\ \A r \in new[q] : new[r] \subseteq new[q]
    BY <1>0, <1>5, <2>1, <2>2 DEF Ordered
  <2>3. /\ new[p] \subseteq Walking' \ {p}
        /\ \A r \in Walking' : r = p \/ r \in new[p] \/ p \in new[r]
        /\ \A r \in new[p] : new[r] \subseteq new[p]
    BY <1>0, <1>5, <2>1 DEF Ordered
  <2> QED BY <2>2, <2>3 DEF Ordered
<1>7. ASSUME NEW q \in Walking', q # p PROVE Room(new, q)'
  <2>1. q \in Clients /\ q \in Walking /\ Room(older, q) /\ new[q] \subseteq older[q]
    BY <1>0, <1>4, <1>5, <1>7 DEF Walks
  <2>2. Missed(q)' <= Missed(q)
    <3>1. Counted(q)' \subseteq Counted(q)
      BY <1>7, <2>1 DEF Counted
    <3>2. Bytes(Counted(q)') <= Bytes(Counted(q)) /\ Bytes(Counted(q)) \in Nat /\ Bytes(Counted(q)') \in Nat
      BY <1>0, <2>1, <3>1, BytesMonotone, BytesType
    <3>3. Missed(q)' = Bytes(Counted(q)') - sum[q] /\ Missed(q) = Bytes(Counted(q)) - sum[q] /\ sum[q] \in Nat
      BY Zenon, <1>7, <2>1 DEF Missed, Walked
    <3> QED BY <1>0, <2>1, <3>2, <3>3
  <2> QED BY <1>2, <2>1, <2>2, RoomKept
<1>8. Room(new, p)'
  <2>1. Counted(p)' = {}
    <3>1. Present' \in SUBSET Keys /\ \A k \in Keys : ShardOf[k] \in Nat
      BY <1>0, MemoryAssumption DEF Shards
    <3> QED BY <3>1 DEF Counted
  <2>2. Bytes({}) = 0
    BY BytesNone
  <2>3. Missed(p)' = 0
    BY <2>1, <2>2 DEF Missed
  <2>4. Ahead(new, p)' = Cardinality(Granted' \cup new[p]) * MaxGrowth
    BY DEF Ahead
  <2>5. Granted' \cup new[p] \subseteq Clients \ {p}
    BY <1>0, <1>5
  <2>6. Ahead(new, p)' <= Cardinality(Clients \ {p}) * MaxGrowth
    BY <2>4, <2>5, Products
  <2>7. Cardinality(Clients \ {p}) = N - 1 /\ (N - 1) * MaxGrowth \in Int
    BY Shares
  <2>8. Ahead(new, p)' \in Nat
    BY <1>1 DEF Sized
  <2>9. PICK top \in Int : top = (N - 1) * MaxGrowth
    BY <2>7
  <2>10. PICK ahead \in Nat : ahead = Ahead(new, p)' /\ ahead <= top
    BY Zenon, <2>6, <2>7, <2>8, <2>9
  <2>11. 0 + ahead <= top
    BY <2>9, <2>10
  <2>12. Missed(p)' + Ahead(new, p)' <= (N - 1) * MaxGrowth
    BY Zenon, <2>3, <2>9, <2>10, <2>11
  <2> QED BY Zenon, <2>12 DEF Room
<1> QED BY <1>3, <1>6, <1>7, <1>8 DEF Budgeted, Walks

\* A client counts one more shard: it misses nothing of it yet.
LEMMA Read ==
  ASSUME Sums, Typed, Walked, Typed', Walked', Budgeted, NEW p \in Clients,
         pc' = pc, data' = data, shard[p] + 1 = shard'[p], sum'[p] = sum[p] + used(shard[p]),
         \A q \in Clients \ {p} : shard'[q] = shard[q] /\ sum'[q] = sum[q]
  PROVE  Budgeted'
<1>0. Present \in SUBSET Keys /\ \A q \in Clients : Counted(q) \in SUBSET Present
  BY BoundTypes DEF Sized
<1>1. Present' = Present /\ Walking' = Walking /\ Granted' = Granted
  BY DEF Present, Walking, Granted
<1>2. Used' = Used /\ Within'
  BY <1>1 DEF Used, Budgeted, Within
<1>3. Missed(p)' = Missed(p)
  <2> DEFINE A == Counted(p)
             B == Present \cap InShard(shard[p])
  <2>1. shard[p] \in Nat /\ \A k \in Present : ShardOf[k] \in Nat
    BY <1>0, MemoryAssumption DEF Walked, Shards
  <2>2. Counted(p)' = A \cup B /\ A \cap B = {} /\ A \in SUBSET Keys /\ B \in SUBSET Keys
    BY <1>0, <1>1, <2>1 DEF Counted, InShard
  <2>3. Bytes(B) = used(shard[p]) /\ Bytes(A) = Bytes(Counted(p))
    BY DEF used
  <2> HIDE DEF A, B
  <2>4. Bytes(A \cup B) = Bytes(A) + Bytes(B) /\ Bytes(A) \in Nat /\ Bytes(B) \in Nat
    BY <2>2, BytesUnion, BytesType
  <2>5. Bytes(Counted(p)') = Bytes(A \cup B)
    BY <2>2, Zenon
  <2>6. Missed(p)' = Bytes(Counted(p)') - sum'[p] /\ Missed(p) = Bytes(Counted(p)) - sum[p] /\ sum[p] \in Nat
    BY DEF Missed, Walked
  <2> QED BY <2>3, <2>4, <2>5, <2>6
<1>4. ASSUME NEW q \in Clients, q # p PROVE Missed(q)' = Missed(q)
  BY <1>1, <1>4 DEF Missed, Counted
<1>5. ASSUME NEW older \in [Clients -> SUBSET Clients], Walks(older) PROVE Walks(older)'
  <2>1. Ordered(older)'
    BY <1>1, <1>5 DEF Walks, Ordered
  <2>2. ASSUME NEW q \in Walking' PROVE Room(older, q)'
    <3>1. q \in Clients /\ Room(older, q)
      BY <1>1, <1>5, <2>2 DEF Walks, Walking
    <3>2. Missed(q)' = Missed(q) /\ Ahead(older, q)' = Ahead(older, q)
      BY <1>1, <1>3, <1>4, <3>1 DEF Ahead
    <3> QED BY <1>2, <3>1, <3>2 DEF Room
  <2> QED BY <2>1, <2>2 DEF Walks
<1> QED BY <1>2, <1>5 DEF Budgeted

\* A client's count is within the budget: what it missed is at most what the others had
\* room for, and so are the walks that are older than its own.
LEMMA Grant ==
  ASSUME Sums, Typed, Walked, Typed', Walked', Budgeted, NEW p \in Walking, LastShard(p),
         sum[p] + used(shard[p]) <= MaxMemory, data' = data,
         Walking' = Walking \ {p}, Granted' = Granted \cup {p},
         \A q \in Clients \ {p} : shard'[q] = shard[q] /\ sum'[q] = sum[q]
  PROVE  Budgeted'
<1>0. /\ Used \in Nat /\ Present \in SUBSET Keys /\ p \in Clients
      /\ Walking \in SUBSET Clients /\ Granted \in SUBSET Clients /\ Walking \cap Granted = {}
      /\ \A q \in Clients : Counted(q) \in SUBSET Present /\ Missed(q) \in Int
      /\ \A older \in [Clients -> SUBSET Clients] : \A q \in Clients : Ahead(older, q) \in Nat
  BY BoundTypes DEF Sized
<1>1. Sized'
  BY BoundTypes, PTL
<1>2. Present' = Present /\ Used' = Used
  BY DEF Present, Used
<1>3. Used <= MaxMemory + Missed(p)
  <2> DEFINE A == Counted(p)
             B == Present \cap InShard(shard[p])
  <2>1. \A k \in Present : ShardOf[k] \in Nat /\ ShardOf[k] <= shard[p]
    BY <1>0, MemoryAssumption DEF LastShard, Shards
  <2>2. Present = A \cup B /\ A \cap B = {} /\ A \in SUBSET Keys /\ B \in SUBSET Keys
    <3>1. shard[p] \in Nat
      BY <1>0 DEF Walked, Shards
    <3>2. \A k \in Present : ShardOf[k] < shard[p] \/ ShardOf[k] = shard[p]
      BY <2>1, <3>1
    <3>3. \A k \in Present : ~(ShardOf[k] < shard[p] /\ ShardOf[k] = shard[p])
      BY <2>1, <3>1
    <3>4. Present \in SUBSET Keys
      BY <1>0
    <3> QED BY Zenon, <3>2, <3>3, <3>4 DEF Counted, InShard
  <2>3. Bytes(B) = used(shard[p]) /\ Bytes(A) = Bytes(Counted(p))
    BY DEF used
  <2> HIDE DEF A, B
  <2>4. Bytes(A \cup B) = Bytes(A) + Bytes(B) /\ Bytes(A) \in Nat /\ Bytes(B) \in Nat
    BY <2>2, BytesUnion, BytesType
  <2>5. Used = Bytes(A \cup B)
    BY <2>2, Zenon DEF Used
  <2>6. Missed(p) = Bytes(Counted(p)) - sum[p] /\ sum[p] \in Nat /\ MaxMemory \in Nat
    BY <1>0, MemoryAssumption DEF Missed, Walked
  <2> QED BY <2>3, <2>4, <2>5, <2>6
<1>4. PICK older \in [Clients -> SUBSET Clients] : Walks(older)
  BY DEF Budgeted
<1>5. /\ (N - 1) * MaxGrowth \in Int /\ N * MaxGrowth \in Nat
      /\ N * MaxGrowth = (N - 1) * MaxGrowth + MaxGrowth
      /\ MaxGrowth \in Nat /\ MaxMemory \in Nat
  BY Zenon, <1>0, Shares
<1>6. Used + Ahead(older, p) <= MaxMemory + (N - 1) * MaxGrowth
  <2>1. Room(older, p)
    BY <1>4 DEF Walks
  <2>2. Missed(p) \in Int /\ Ahead(older, p) \in Nat
    BY <1>0
  <2> QED BY <1>0, <1>3, <1>5, <2>1, <2>2 DEF Room
<1>7. Within'
  <2>1. Granted' \in SUBSET Clients /\ p \in Granted' /\ Granted' \ {p} = Granted
    BY <1>0
  <2>2. Cardinality(Granted') * MaxGrowth = Cardinality(Granted' \ {p}) * MaxGrowth + MaxGrowth
        /\ Cardinality(Granted') * MaxGrowth \in Nat
    BY <2>1, Products
  <2>3. Granted \cup older[p] \in SUBSET Clients
    BY <1>0
  <2>4. Cardinality(Granted) * MaxGrowth <= Ahead(older, p) /\ Cardinality(Granted) * MaxGrowth \in Nat
    BY <1>0, <2>3, Products DEF Ahead
  <2>5. Cardinality(Granted') * MaxGrowth = Cardinality(Granted) * MaxGrowth + MaxGrowth
    BY <2>1, <2>2, Zenon
  <2> QED BY <1>0, <1>2, <1>5, <1>6, <2>4, <2>5 DEF Within
<1>8. PICK new \in [Clients -> SUBSET Clients] : new = [q \in Clients |-> older[q] \ {p}]
  BY Zenon
<1>9. Ordered(older)
  BY <1>4 DEF Walks
<1>10. Ordered(new)'
  BY <1>0, <1>8, <1>9 DEF Ordered
<1>11. ASSUME NEW q \in Walking' PROVE Room(new, q)'
  <2>1. q \in Clients /\ q \in Walking /\ q # p /\ Room(older, q)
    BY Zenon, <1>0, <1>4, <1>11 DEF Walks
  <2>2. CASE p \in older[q]
    <3>1. Granted' \cup new[q] \subseteq Granted \cup older[q]
      BY <1>8, <2>1, <2>2
    <3>2. Missed(q)' = Missed(q)
      BY Zenon, <1>2, <2>1 DEF Missed, Counted
    <3>3. Missed(q)' <= Missed(q) /\ Used' <= Used
      BY <1>0, <1>2, <2>1, <3>2
    <3> QED BY <2>1, <3>1, <3>3, RoomKept
  <2>3. CASE q \in older[p]
    <3> DEFINE A == Granted \cup older[p]
               X == Granted \cup older[q]
    <3>1. /\ older[q] \subseteq older[p] /\ p \notin older[p] /\ q \notin older[q]
          /\ q \notin Granted /\ p \notin Granted
      BY <1>0, <1>9, <2>1, <2>3 DEF Ordered
    <3>2. /\ A \in SUBSET Clients /\ q \in A /\ X \in SUBSET (A \ {q})
          /\ X \cup {p} \in SUBSET Clients /\ (X \cup {p}) \ {p} = X
          /\ Granted' \cup new[q] = X \cup {p}
          /\ A \ {q} \in SUBSET Clients
      BY <1>0, <1>8, <2>1, <2>3, <3>1
    <3>3. Ahead(older, p) = Cardinality(A) * MaxGrowth
          /\ Ahead(new, q)' = Cardinality(Granted' \cup new[q]) * MaxGrowth
      BY DEF Ahead
    <3> HIDE DEF A, X
    <3>4. Ahead(new, q)' = Cardinality(X \cup {p}) * MaxGrowth
      BY <3>2, <3>3, Zenon
    <3>5. Cardinality(X \cup {p}) * MaxGrowth = Cardinality((X \cup {p}) \ {p}) * MaxGrowth + MaxGrowth
      BY <3>2, Products
    <3>6. Cardinality((X \cup {p}) \ {p}) * MaxGrowth = Cardinality(X) * MaxGrowth
      BY <3>2, Zenon
    <3>7. Cardinality(A) * MaxGrowth = Cardinality(A \ {q}) * MaxGrowth + MaxGrowth
      BY <3>2, Products
    <3>8. /\ Cardinality(X) * MaxGrowth <= Cardinality(A \ {q}) * MaxGrowth
          /\ Cardinality(A \ {q}) * MaxGrowth \in Nat
      BY <3>2, Products
    <3>9. Cardinality(X) * MaxGrowth \in Nat
      BY <3>2, Products
    <3>10. Ahead(new, q)' <= Ahead(older, p) /\ Ahead(new, q)' \in Nat
      BY <1>5, <3>3, <3>4, <3>5, <3>6, <3>7, <3>8, <3>9
    <3>11. Ahead(older, p) \in Nat
      BY <1>0
    <3> QED BY <1>0, <1>2, <1>5, <1>6, <3>10, <3>11 DEF Room
  <2> QED BY <1>9, <2>1, <2>2, <2>3 DEF Ordered
<1> QED BY <1>7, <1>10, <1>11 DEF Budgeted, Walks

\* A handler stores its command's entries: the keyspace, and what a walk has missed, grow
\* by no more than one command, and there is one client fewer that may store.
LEMMA Put ==
  ASSUME Sums, Typed, Walked, Typed', Walked', Budgeted, NEW p \in Granted,
         NEW c \in Commands, c.op = "put", Present' \subseteq Present \cup c.keys,
         Walking' = Walking, Granted' = Granted \ {p},
         \A q \in Clients \ {p} : shard'[q] = shard[q] /\ sum'[q] = sum[q]
  PROVE  Budgeted'
<1>0. /\ Used \in Nat /\ Present \in SUBSET Keys /\ p \in Clients
      /\ Walking \in SUBSET Clients /\ Granted \in SUBSET Clients /\ Walking \cap Granted = {}
      /\ \A q \in Clients : Counted(q) \in SUBSET Present /\ Missed(q) \in Int
      /\ \A older \in [Clients -> SUBSET Clients] : \A q \in Clients : Ahead(older, q) \in Nat
  BY BoundTypes DEF Sized
<1>1. Sized'
  BY BoundTypes, PTL
<1>2. /\ Used' \in Nat /\ Present' \in SUBSET Keys
      /\ \A q \in Clients : Counted(q)' \in SUBSET Present' /\ Missed(q)' \in Int
      /\ \A older \in [Clients -> SUBSET Clients] : \A q \in Clients : Ahead(older, q)' \in Nat
  BY <1>1 DEF Sized
<1>3. /\ (N - 1) * MaxGrowth \in Int /\ N * MaxGrowth \in Nat
      /\ N * MaxGrowth = (N - 1) * MaxGrowth + MaxGrowth
      /\ MaxGrowth \in Nat /\ MaxMemory \in Nat
  BY <1>0, Shares
<1>4. c.keys \in SUBSET Keys /\ Bytes(c.keys) <= MaxGrowth /\ Bytes(c.keys) \in Nat
  <2>1. c.keys \in SUBSET Keys
    BY MemoryAssumption DEF Command
  <2> QED BY <2>1, GrowthBounds, BytesType
<1>5. Used' <= Used + MaxGrowth
  <2>1. Bytes(Present') <= Bytes(Present) + Bytes(c.keys)
    BY <1>0, <1>4, BytesCovered
  <2> QED BY <1>0, <1>2, <1>3, <1>4, <2>1 DEF Used
<1>6. Within'
  <2>1. Cardinality(Granted) * MaxGrowth = Cardinality(Granted \ {p}) * MaxGrowth + MaxGrowth
        /\ Cardinality(Granted) * MaxGrowth \in Nat
    BY <1>0, Products
  <2>2. Cardinality(Granted \ {p}) * MaxGrowth \in Nat
    BY <1>0, Products
  <2>3. PICK a \in Nat, b \in Nat, z \in Nat :
          /\ a = Cardinality(Granted) * MaxGrowth /\ b = Cardinality(Granted \ {p}) * MaxGrowth
          /\ z = MaxMemory + N * MaxGrowth
    <3>1. MaxMemory + N * MaxGrowth \in Nat
      BY <1>3
    <3> QED BY <2>1, <2>2, <3>1, Zenon
  <2>4. a \in Nat /\ b \in Nat /\ z \in Nat /\ a = b + MaxGrowth
        /\ MaxGrowth \in Nat /\ Used \in Nat /\ Used' \in Nat
    BY <1>0, <1>2, <1>3, <2>1, <2>3
  <2>5. Used + a <= z
    BY <2>3 DEF Budgeted, Within
  <2>6. Used' + b <= z
    BY <1>5, <2>4, <2>5
  <2> QED BY <1>0, <2>3, <2>6 DEF Within
<1>7. PICK older \in [Clients -> SUBSET Clients] : Walks(older)
  BY DEF Budgeted
<1>8. Ordered(older)'
  BY <1>7 DEF Walks, Ordered
<1>9. ASSUME NEW q \in Walking' PROVE Room(older, q)'
  <2>1. q \in Clients /\ q # p /\ Room(older, q) /\ p \notin older[q]
    BY <1>0, <1>7, <1>9 DEF Walks, Ordered
  <2>2. Missed(q)' <= Missed(q) + MaxGrowth
    <3>1. Counted(q)' \subseteq Counted(q) \cup c.keys
      BY <2>1 DEF Counted
    <3>2. Counted(q) \in SUBSET Keys /\ Counted(q)' \in SUBSET Keys
      BY <1>0, <1>2, <2>1
    <3>3. Bytes(Counted(q)') <= Bytes(Counted(q)) + Bytes(c.keys)
          /\ Bytes(Counted(q)) \in Nat /\ Bytes(Counted(q)') \in Nat
      BY <1>4, <3>1, <3>2, BytesCovered, BytesType
    <3>4. Missed(q)' = Bytes(Counted(q)') - sum[q] /\ Missed(q) = Bytes(Counted(q)) - sum[q] /\ sum[q] \in Nat
      BY <2>1 DEF Missed, Walked
    <3>5. Bytes(c.keys) \in Nat /\ Bytes(c.keys) <= MaxGrowth /\ MaxGrowth \in Nat
      BY <1>3, <1>4
    <3> QED BY <3>3, <3>4, <3>5
  <2>3. Ahead(older, q) = Ahead(older, q)' + MaxGrowth
    <3> DEFINE A == Granted \cup older[q]
    <3>1. A \in SUBSET Clients /\ p \in A /\ Granted' \cup older[q] = A \ {p}
      BY <1>0, <2>1
    <3>2. Ahead(older, q) = Cardinality(A) * MaxGrowth
          /\ Ahead(older, q)' = Cardinality(Granted' \cup older[q]) * MaxGrowth
      BY DEF Ahead
    <3> HIDE DEF A
    <3>3. Ahead(older, q)' = Cardinality(A \ {p}) * MaxGrowth
      BY <3>1, <3>2, Zenon
    <3>4. Cardinality(A) * MaxGrowth = Cardinality(A \ {p}) * MaxGrowth + MaxGrowth
      BY <3>1, Products
    <3> QED BY <3>2, <3>3, <3>4
  <2>4. Missed(q) \in Int /\ Missed(q)' \in Int /\ Ahead(older, q) \in Nat /\ Ahead(older, q)' \in Nat
    BY <1>0, <1>2, <2>1
  <2> QED BY <1>0, <1>2, <1>3, <1>5, <2>1, <2>2, <2>3, <2>4 DEF Room
<1> QED BY <1>6, <1>7, <1>8, <1>9 DEF Budgeted, Walks

-----------------------------------------------------------------------------
\* A walk that ends, or starts again, leaves nothing behind.
LEMMA FromStartWalked ==
  ASSUME Typed, Walked, NEW p \in Clients, NEW l, l # "evict", FromStart(p), pc' = [pc EXCEPT ![p] = l]
  PROVE  Walked'
<1>1. 0 \in Shards /\ 0 \in 0 .. EvictSample
  BY MemoryAssumption DEF Shards
<1>2. /\ shard' = [shard EXCEPT ![p] = 0] /\ sum' = [sum EXCEPT ![p] = 0]
      /\ best' = [best EXCEPT ![p] = None] /\ scanned' = [scanned EXCEPT ![p] = 0]
  BY DEF FromStart
<1>3. shard' \in [Clients -> Shards] /\ sum' \in [Clients -> Nat] /\ scanned' \in [Clients -> 0 .. EvictSample]
  BY <1>1, <1>2 DEF Walked
<1>4. \A q \in Clients : IF q = p THEN best'[q] = None /\ pc'[q] = l ELSE best'[q] = best[q] /\ pc'[q] = pc[q]
  BY <1>2 DEF Typed
<1>5. \A q \in Clients : IF q = p THEN shard'[q] = 0 /\ sum'[q] = 0 ELSE shard'[q] = shard[q] /\ sum'[q] = sum[q]
  BY <1>2 DEF Walked
<1> QED BY <1>3, <1>4, <1>5 DEF Walked

\* pickVictim's walk goes on, or ends with what it found.
LEMMA PickWalked ==
  ASSUME Typed, Walked, NEW p \in Clients, pc[p] = "pick", NEW b, b = None \/ b.key \in Keys,
         NEW n \in Nat,
         Chosen(p, b) \/ (~LastShard(p) /\ n < EvictSample /\ NextShard(p, b, n))
  PROVE  Walked'
<1>1. 0 \in Shards /\ 0 \in 0 .. EvictSample /\ NumShards \in Nat /\ EvictSample \in Nat
  BY MemoryAssumption DEF Shards
<1>2. CASE Chosen(p, b) /\ b = None
  <2>1. FromStart(p) /\ pc' = [pc EXCEPT ![p] = "idle"]
    BY <1>2 DEF Chosen, Leave, Goto
  <2> QED BY Zenon, <2>1, FromStartWalked
<1>3. CASE Chosen(p, b) /\ b # None
  <2>1. /\ best' = [best EXCEPT ![p] = b] /\ shard' = [shard EXCEPT ![p] = 0] /\ sum' = sum
        /\ scanned' = [scanned EXCEPT ![p] = 0] /\ pc' = [pc EXCEPT ![p] = "evict"]
    BY <1>3 DEF Chosen, Goto
  <2>2. shard' \in [Clients -> Shards] /\ sum' \in [Clients -> Nat] /\ scanned' \in [Clients -> 0 .. EvictSample]
    BY <1>1, <2>1 DEF Walked
  <2>3. \A q \in Clients : IF q = p THEN best'[q] = b /\ pc'[q] = "evict" ELSE best'[q] = best[q] /\ pc'[q] = pc[q]
    BY <2>1 DEF Typed
  <2>4. \A q \in Clients : sum'[q] = sum[q] /\ IF q = p THEN shard'[q] = 0 ELSE shard'[q] = shard[q]
    BY <2>1 DEF Walked
  <2> QED BY Zenon, <1>3, <2>2, <2>3, <2>4 DEF Walked
<1>4. CASE ~LastShard(p) /\ n < EvictSample /\ NextShard(p, b, n)
  <2>1. /\ best' = [best EXCEPT ![p] = b] /\ shard' = [shard EXCEPT ![p] = shard[p] + 1] /\ sum' = sum
        /\ scanned' = [scanned EXCEPT ![p] = n] /\ pc' = pc
    BY <1>4 DEF NextShard
  <2>2. shard[p] + 1 \in Shards /\ n \in 0 .. EvictSample
    BY <1>1, <1>4 DEF LastShard, Shards, Walked
  <2>3. shard' \in [Clients -> Shards] /\ sum' \in [Clients -> Nat] /\ scanned' \in [Clients -> 0 .. EvictSample]
    BY <2>1, <2>2 DEF Walked
  <2>4. \A q \in Clients : pc'[q] = pc[q] /\ IF q = p THEN best'[q] = b ELSE best'[q] = best[q]
    BY <2>1 DEF Typed
  <2>5. \A q \in Clients : sum'[q] = sum[q] /\ (q # p => shard'[q] = shard[q])
    BY <2>1 DEF Walked
  <2> QED BY <2>3, <2>4, <2>5 DEF Walked
<1> QED BY <1>2, <1>3, <1>4

\* Every step keeps Walked.
LEMMA WalkedStep ==
  ASSUME Sums, Typed, Walked, [Next]_vars
  PROVE  Walked'
<1>1. ASSUME NEW p \in Clients, dispatch(p) \/ Enforce(p) PROVE Walked'
  <2>1. PICK l \in {"handler", "enforce", "check"} : pc' = [pc EXCEPT ![p] = l]
    BY <1>1 DEF dispatch, Enforce, Goto
  <2>2. shard' = shard /\ sum' = sum /\ best' = best /\ scanned' = scanned
    BY <1>1 DEF dispatch, Enforce, walkVars
  <2>3. pc[p] \in {"idle", "enforce"}
    BY <1>1 DEF dispatch, Enforce
  <2>4. \A q \in Clients : IF q = p THEN pc'[q] = l ELSE pc'[q] = pc[q]
    BY <2>1 DEF Typed
  <2> QED BY <2>2, <2>3, <2>4 DEF Walked
<1>2. ASSUME NEW p \in Clients, UsedWalk(p) PROVE Walked'
  <2>1. pc[p] \in {"check", "loop"}
    BY <1>2 DEF UsedWalk
  <2>2. CASE ~LastShard(p)
    <3>1. /\ shard' = [shard EXCEPT ![p] = shard[p] + 1] /\ sum' = [sum EXCEPT ![p] = sum[p] + used(shard[p])]
          /\ pc' = pc /\ best' = best /\ scanned' = scanned
      BY <1>2, <2>2 DEF UsedWalk
    <3>2. shard[p] + 1 \in Shards
      BY <2>2, MemoryAssumption DEF LastShard, Shards, Walked
    <3>3. used(shard[p]) \in Nat /\ sum[p] \in Nat
      <4>1. Present \cap InShard(shard[p]) \in SUBSET Keys
        BY DEF Present
      <4> QED BY <4>1, BytesType DEF used, Walked
    <3>4. shard' \in [Clients -> Shards] /\ sum' \in [Clients -> Nat]
      BY <3>1, <3>2, <3>3 DEF Walked
    <3>5. \A q \in Clients : q # p => shard'[q] = shard[q] /\ sum'[q] = sum[q]
      BY <3>1 DEF Walked
    <3> QED BY <2>1, <3>1, <3>4, <3>5 DEF Walked
  <2>3. CASE LastShard(p)
    <3>1. Verdict(p, sum[p] + used(shard[p]))
      BY <1>2, <2>3 DEF UsedWalk
    <3>2. PICK l \in {"handler", "idle", "loop", "pick"} : FromStart(p) /\ pc' = [pc EXCEPT ![p] = l]
      BY <3>1 DEF Verdict, Leave, Goto
    <3> QED BY Zenon, <3>2, FromStartWalked
  <2> QED BY <2>2, <2>3
<1>3. ASSUME NEW p \in Clients, pickOldest(p) PROVE Walked'
  <2>1. pc[p] = "pick"
    BY <1>3 DEF pickOldest
  <2>2. PICK C \in Draw(Pool(shard[p]), EvictSample - scanned[p]) : \E b \in Older(best[p], C) :
          LET n == scanned[p] + Cardinality(C) IN
            IF n >= EvictSample \/ LastShard(p) THEN Chosen(p, b) ELSE NextShard(p, b, n)
    BY Zenon, <1>3 DEF pickOldest
  <2> DEFINE n == scanned[p] + Cardinality(C)
  <2>3. PICK b \in Older(best[p], C) :
          IF n >= EvictSample \/ LastShard(p) THEN Chosen(p, b) ELSE NextShard(p, b, n)
    BY Zenon, <2>2
  <2>4. C \subseteq Pool(shard[p])
    BY Zenon DEF Draw, kSubset
  <2>5. C \in SUBSET Keys
    BY <2>4 DEF Pool, Present, expiring
  <2>6. b = None \/ b.key \in Keys
    <3>1. b = best[p] \/ \E k \in C : b = Candidate(k)
      BY DEF Older
    <3> QED BY <2>5, <3>1 DEF Candidate, Walked
  <2>7. n \in Nat
    <3>1. Cardinality(C) \in Nat
      BY <2>5, BytesType
    <3> QED BY <3>1 DEF Walked
  <2>8. EvictSample \in Nat
    BY MemoryAssumption
  <2> HIDE DEF n
  <2>9. Chosen(p, b) \/ (~LastShard(p) /\ n < EvictSample /\ NextShard(p, b, n))
    BY <2>3, <2>7, <2>8
  <2> QED BY <2>1, <2>6, <2>7, <2>9, PickWalked
<1>4. ASSUME NEW p \in Clients, pickAny(p) PROVE Walked'
  <2>1. pc[p] = "pick" /\ 0 < EvictSample
    BY <1>4, MemoryAssumption DEF pickAny
  <2>2. ASSUME NEW k \in Pool(shard[p]), Chosen(p, Candidate(k)) PROVE Walked'
    <3>1. Candidate(k).key \in Keys
      BY DEF Pool, Present, expiring, Candidate
    <3> QED BY <2>1, <2>2, <3>1, PickWalked
  <2>3. CASE Chosen(p, None) \/ (~LastShard(p) /\ NextShard(p, None, 0))
    BY <2>1, <2>3, PickWalked
  <2> QED BY <1>4, <2>2, <2>3 DEF pickAny
<1>5. ASSUME NEW p \in Clients, Evict(p) \/ Handler(p) PROVE Walked'
  <2>1. PICK l \in {"loop", "idle"} : FromStart(p) /\ pc' = [pc EXCEPT ![p] = l]
    BY <1>5 DEF Evict, Handler, Leave, Goto
  <2> QED BY <2>1, FromStartWalked
<1>6. ASSUME NEW k \in Keys, Get(k) \/ Collect(k) PROVE Walked'
  <2>1. pc' = pc /\ shard' = shard /\ sum' = sum /\ best' = best /\ scanned' = scanned
    BY <1>6 DEF Get, Collect, walkVars
  <2> QED BY <2>1 DEF Walked
<1>7. CASE tick
  <2>1. pc' = pc /\ shard' = shard /\ sum' = sum /\ scanned' = scanned
    BY <1>7 DEF tick
  <2>2. Rank(0) = 0
    <3>1. Stamps \subseteq Nat
      <4>1. \A k \in Present : data[k].atime \in Nat
        BY DEF Present, Typed, Entry
      <4>2. \A p \in Clients : best[p].atime \in Nat
        BY DEF Typed, Victim
      <4> QED BY <4>1, <4>2 DEF Stamps
    <3>1a. \A u \in Nat : ~(u < 0)
      OBVIOUS
    <3>2. {u \in Stamps : u < 0} = {}
      BY <3>1, <3>1a, Zenon
    <3>3. Cardinality({}) = 0
      BY BytesNone
    <3> QED BY <3>2, <3>3, Zenon DEF Rank
  <2>3. ASSUME NEW p \in Clients
        PROVE  best'[p].key = best[p].key /\ (best[p] = None => best'[p] = None)
    <3>1. best'[p] = [best[p] EXCEPT !.atime = Rank(best[p].atime)] /\ best[p] \in Victim
      BY <1>7 DEF tick, Typed
    <3>2. best'[p].key = best[p].key
      BY <3>1 DEF Victim
    <3>3. ASSUME best[p] = None PROVE best'[p] = None
      BY <2>2, <3>1, <3>3 DEF None
    <3> QED BY <3>2, <3>3
  <2> QED BY <2>1, <2>3 DEF Walked
<1>8. CASE UNCHANGED vars
  BY <1>8 DEF vars, walkVars, Walked
<1> QED
  BY <1>1, <1>2, <1>3, <1>4, <1>5, <1>6, <1>7, <1>8 DEF Next, Step

\* Every step keeps the budget.
LEMMA BudgetedStep ==
  ASSUME Sums, MaxMemory > 0, Typed, Walked, Typed', Walked', Budgeted, [Next]_vars
  PROVE  Budgeted'
<1>0. Walking \in SUBSET Clients /\ Granted \in SUBSET Clients
  BY DEF Walking, Granted
<1>1. ASSUME NEW p \in Clients, NEW l, pc' = [pc EXCEPT ![p] = l], l \notin {"check", "loop", "handler"},
             Present' \subseteq Present,
             \A q \in Clients \ {p} : shard'[q] = shard[q] /\ sum'[q] = sum[q]
      PROVE  Budgeted'
  <2>1. \A q \in Clients : IF q = p THEN pc'[q] = l ELSE pc'[q] = pc[q]
    BY <1>1 DEF Typed
  <2>2. Walking' \subseteq Walking \ {p} /\ Granted' \subseteq Granted
    BY <1>1, <2>1 DEF Walking, Granted
  <2>3. \A q \in Walking' : shard'[q] = shard[q] /\ sum'[q] = sum[q]
    BY <1>0, <1>1, <2>2
  <2> QED BY Zenon, <1>1, <2>2, <2>3, Shrink
<1>2. ASSUME NEW p \in Clients, NEW l \in {"check", "loop"}, pc' = [pc EXCEPT ![p] = l], pc[p] # "handler",
             Present' \subseteq Present, shard'[p] = 0, sum'[p] = 0,
             \A q \in Clients \ {p} : shard'[q] = shard[q] /\ sum'[q] = sum[q]
      PROVE  Budgeted'
  <2>1. \A q \in Clients : IF q = p THEN pc'[q] = l ELSE pc'[q] = pc[q]
    BY <1>2 DEF Typed
  <2>2. Walking' = Walking \cup {p} /\ Granted' = Granted /\ p \notin Granted
    BY <1>2, <2>1 DEF Walking, Granted
  <2>3. \A q \in Walking \ {p} : shard'[q] = shard[q] /\ sum'[q] = sum[q]
    BY <1>0, <1>2
  <2> QED BY <1>2, <2>2, <2>3, Start
<1>3. ASSUME NEW p \in Clients, FromStart(p)
      PROVE  /\ shard'[p] = 0 /\ sum'[p] = 0
             /\ \A q \in Clients \ {p} : shard'[q] = shard[q] /\ sum'[q] = sum[q]
  BY <1>3 DEF FromStart, Walked
<1>4. ASSUME data' = data PROVE Present' \subseteq Present
  BY <1>4 DEF Present
<1>5. ASSUME NEW p \in Clients, dispatch(p) PROVE Budgeted'
  <2>1. /\ pc' = [pc EXCEPT ![p] = "enforce"] /\ data' = data /\ shard' = shard /\ sum' = sum
    <3>1. MaxMemory # 0
      BY MemoryAssumption
    <3> QED BY <1>5, <3>1 DEF dispatch, Goto, walkVars
  <2> QED BY Zenon, <1>1, <1>4, <2>1
<1>6. ASSUME NEW p \in Clients, Enforce(p) PROVE Budgeted'
  <2>1. /\ pc[p] = "enforce" /\ pc' = [pc EXCEPT ![p] = "check"] /\ data' = data /\ shard' = shard /\ sum' = sum
    BY <1>6 DEF Enforce, Goto, walkVars
  <2>2. shard[p] = 0 /\ sum[p] = 0
    BY <2>1 DEF Walked
  <2> QED BY Zenon, <1>2, <1>4, <2>1, <2>2
<1>7. ASSUME NEW p \in Clients, UsedWalk(p) PROVE Budgeted'
  <2>1. pc[p] \in {"check", "loop"} /\ data' = data /\ p \in Walking
    BY <1>7 DEF UsedWalk, Walking
  <2>2. CASE ~LastShard(p)
    <3>1. /\ shard' = [shard EXCEPT ![p] = shard[p] + 1] /\ sum' = [sum EXCEPT ![p] = sum[p] + used(shard[p])]
          /\ pc' = pc
      BY <1>7, <2>2 DEF UsedWalk
    <3>2. /\ shard[p] + 1 = shard'[p] /\ sum'[p] = sum[p] + used(shard[p])
          /\ \A q \in Clients \ {p} : shard'[q] = shard[q] /\ sum'[q] = sum[q]
      BY <3>1 DEF Walked
    <3> QED BY <2>1, <3>1, <3>2, Read
  <2>3. CASE LastShard(p)
    <3>1. Verdict(p, sum[p] + used(shard[p]))
      BY <1>7, <2>3 DEF UsedWalk
    <3>2. CASE sum[p] + used(shard[p]) <= MaxMemory
      <4>1. FromStart(p) /\ pc' = [pc EXCEPT ![p] = "handler"]
        BY <3>1, <3>2 DEF Verdict, Leave, Goto
      <4>2. \A q \in Clients : IF q = p THEN pc'[q] = "handler" ELSE pc'[q] = pc[q]
        BY <4>1 DEF Typed
      <4>3. Walking' = Walking \ {p} /\ Granted' = Granted \cup {p}
        BY <2>1, <4>2 DEF Walking, Granted
      <4> QED BY <1>3, <2>1, <2>3, <3>2, <4>1, <4>3, Grant
    <3>3. CASE ~(sum[p] + used(shard[p]) <= MaxMemory)
      <4>1. FromStart(p) /\ \E l \in {"idle", "loop", "pick"} : pc' = [pc EXCEPT ![p] = l]
        BY <3>1, <3>3 DEF Verdict, Leave, Goto
      <4>2. PICK l \in {"idle", "loop", "pick"} : pc' = [pc EXCEPT ![p] = l]
        BY Zenon, <4>1
      <4>3. pc[p] # "handler"
        BY <2>1
      <4>4. CASE l = "loop"
        BY Zenon, <1>2, <1>3, <1>4, <2>1, <4>1, <4>2, <4>3, <4>4
      <4>5. CASE l # "loop"
        BY Zenon, <1>1, <1>3, <1>4, <2>1, <4>1, <4>2, <4>5
      <4> QED BY <4>4, <4>5
    <3> QED BY <3>2, <3>3
  <2> QED BY <2>2, <2>3
<1>8. ASSUME NEW p \in Clients, pickOldest(p) \/ pickAny(p) PROVE Budgeted'
  <2>1. pc[p] = "pick" /\ data' = data
    BY Zenon, <1>8 DEF pickOldest, pickAny
  <2>2. \E b : Chosen(p, b) \/ \E n : NextShard(p, b, n)
    BY Zenon, <1>8 DEF pickOldest, pickAny
  <2>3. PICK b : Chosen(p, b) \/ \E n : NextShard(p, b, n)
    BY Zenon, <2>2
  <2>4. /\ \E l \in {"idle", "pick", "evict"} : pc' = [pc EXCEPT ![p] = l]
        /\ \A q \in Clients \ {p} : shard'[q] = shard[q] /\ sum'[q] = sum[q]
    <3>1. CASE Chosen(p, b)
      BY <3>1 DEF Chosen, Leave, Goto, FromStart, Walked
    <3>2. ASSUME NEW n, NextShard(p, b, n)
          PROVE  pc' = [pc EXCEPT ![p] = "pick"] /\ \A q \in Clients \ {p} : shard'[q] = shard[q] /\ sum'[q] = sum[q]
      BY <2>1, <3>2 DEF NextShard, Typed, Walked
    <3> QED BY Zenon, <2>3, <3>1, <3>2
  <2> QED BY Zenon, <1>1, <1>4, <2>1, <2>4
<1>9. ASSUME NEW p \in Clients, Evict(p) PROVE Budgeted'
  <2>1. /\ pc[p] = "evict" /\ data' = [data EXCEPT ![best[p].key] = Absent]
        /\ pc' = [pc EXCEPT ![p] = "loop"] /\ FromStart(p)
    BY <1>9 DEF Evict, Goto
  <2>2. Present' \subseteq Present
    BY <2>1 DEF Present, Typed
  <2> QED BY Zenon, <1>2, <1>3, <2>1, <2>2
<1>10. ASSUME NEW p \in Clients, Handler(p) PROVE Budgeted'
  <2>1. pc[p] = "handler" /\ pc' = [pc EXCEPT ![p] = "idle"] /\ FromStart(p)
    BY <1>10 DEF Handler, Leave, Goto
  <2>2. PICK c \in Commands :
          data' = [k \in Keys |-> IF k \notin c.keys THEN data[k]
                                  ELSE IF c.op = "del" THEN Absent
                                  ELSE [ttl |-> c.ttl, atime |-> clock]]
    BY <1>10 DEF Handler
  <2>3. CASE c.op = "del"
    <3>1. Present' \subseteq Present
      BY <2>2, <2>3 DEF Present
    <3> QED BY Zenon, <1>1, <1>3, <2>1, <3>1
  <2>4. CASE c.op = "put"
    <3>1. Present' \subseteq Present \cup c.keys
      BY <2>2 DEF Present
    <3>2. \A q \in Clients : IF q = p THEN pc'[q] = "idle" ELSE pc'[q] = pc[q]
      BY <2>1 DEF Typed
    <3>3. Walking' = Walking /\ Granted' = Granted \ {p} /\ p \in Granted
      BY <2>1, <3>2 DEF Walking, Granted
    <3> QED BY <1>3, <2>1, <2>4, <3>1, <3>3, Put
  <2>5. c.op \in {"put", "del"}
    BY MemoryAssumption DEF Command
  <2> QED BY <2>3, <2>4, <2>5
<1>11. ASSUME pc' = pc, shard' = shard, sum' = sum, Present' \subseteq Present PROVE Budgeted'
  <2>1. Walking' \subseteq Walking /\ Granted' \subseteq Granted
    BY <1>11 DEF Walking, Granted
  <2> QED BY <1>11, <2>1, Shrink
<1>12. ASSUME NEW k \in Keys, Get(k) \/ Collect(k) PROVE Budgeted'
  <2>1. pc' = pc /\ shard' = shard /\ sum' = sum
    BY <1>12 DEF Get, Collect, walkVars
  <2>2. Present' \subseteq Present
    BY <1>12 DEF Get, Collect, expiring, Present, Typed
  <2> QED BY <1>11, <2>1, <2>2
<1>13. CASE tick
  <2>1. Present' \subseteq Present
    BY <1>13 DEF tick, Present
  <2> QED BY <1>11, <1>13, <2>1 DEF tick
<1>14. CASE UNCHANGED vars
  BY <1>4, <1>11, <1>14 DEF vars, walkVars
<1> QED
  BY <1>5, <1>6, <1>7, <1>8, <1>9, <1>10, <1>12, <1>13, <1>14 DEF Next, Step

\* At the start nothing is stored and nobody is counting.
LEMMA BudgetedInit ==
  ASSUME Sums, Init
  PROVE  Typed /\ Kept /\ Walked /\ Budgeted
<1>0. None \in Victim /\ None.key = Absent /\ Absent \notin Keys
  BY MemoryAssumption DEF None, Victim
<1>1. Typed /\ Kept
  BY <1>0 DEF Init, Typed, Kept, Evicting, Harmless
<1>2. Walked
  BY MemoryAssumption DEF Init, Walked, Shards
<1>3. Present = {} /\ Walking = {} /\ Granted = {}
  BY DEF Init, Present, Walking, Granted
<1>4. Bytes({}) = 0 /\ Cardinality({}) = 0
  BY BytesNone
<1>5. Used = 0 /\ Cardinality(Granted) = 0
  BY <1>3, <1>4, Zenon DEF Used
<1>6. Within
  <2>1. N * MaxGrowth \in Nat /\ MaxMemory \in Nat /\ MaxGrowth \in Nat
    BY Products, GrowthBounds, MemoryAssumption DEF N
  <2> QED BY <1>5, <2>1 DEF Within
<1>7. [p \in Clients |-> {}] \in [Clients -> SUBSET Clients]
  OBVIOUS
<1>8. ASSUME NEW older \in [Clients -> SUBSET Clients] PROVE Walks(older)
  BY <1>3 DEF Walks, Ordered
<1> QED BY Zenon, <1>1, <1>2, <1>6, <1>7, <1>8 DEF Budgeted

-----------------------------------------------------------------------------
(***************************************************************************)
(* Sums and cardinalities, and that the choice of a victim is Kept.        *)
(***************************************************************************)
INSTANCE SumProofs

\* Subsets of the keys are finite, and so are their sizes.
LEMMA Finite ==
  ASSUME NEW A \in SUBSET Keys
  PROVE  IsFiniteSet(A) /\ Cardinality(A) \in Nat /\ \A k \in A : EntrySize[k] \in Nat
BY FS_Subset, FS_CardinalityType, MemoryAssumption

\* One more client, one more command's worth.
LEMMA OneMore ==
  ASSUME NEW m \in Nat, NEW g \in Nat
  PROVE  (m + 1) * g = m * g + g /\ m * g \in Nat
OBVIOUS

\* Fewer clients, fewer commands' worth.
LEMMA Scaled ==
  ASSUME NEW m \in Nat, NEW n \in Nat, m <= n, NEW g \in Nat
  PROVE  m * g <= n * g
OBVIOUS

\* What the argument needs of sums and cardinalities is true of them.
LEMMA SumsHold == Sums
<1>1. ASSUME NEW A \in SUBSET Keys PROVE Bytes(A) \in Nat /\ Cardinality(A) \in Nat
  BY Finite, SumNat DEF Bytes
<1>2. ASSUME NEW A \in SUBSET Keys, NEW B \in SUBSET A PROVE Bytes(B) <= Bytes(A)
  BY Finite, SumMonotone DEF Bytes
<1>3. ASSUME NEW A \in SUBSET Keys, NEW B \in SUBSET Keys, NEW C \in SUBSET (A \cup B)
      PROVE  Bytes(C) <= Bytes(A) + Bytes(B)
  <2>1. IsFiniteSet(A) /\ IsFiniteSet(B) /\ \A k \in A \cup B : EntrySize[k] \in Nat
    BY Finite
  <2> QED BY <2>1, SumCovered DEF Bytes
<1>4. ASSUME NEW A \in SUBSET Keys, NEW B \in SUBSET Keys, A \cap B = {}
      PROVE  Bytes(A \cup B) = Bytes(A) + Bytes(B)
  <2>1. IsFiniteSet(A) /\ IsFiniteSet(B) /\ \A k \in A \cup B : EntrySize[k] \in Int
    BY Finite
  <2> QED BY <1>4, <2>1, SumUnion DEF Bytes
<1>5. Bytes({}) = 0 /\ Cardinality({}) = 0
  BY SumEmpty, FS_EmptySet DEF Bytes
<1>6. /\ MaxGrowth \in Nat
      /\ \A c \in Commands : c.op = "put" => Bytes(c.keys) <= MaxGrowth
  <2> DEFINE X == {0} \cup {Bytes(c.keys) : c \in {d \in Commands : d.op = "put"}}
  <2>1. \A c \in Commands : c.keys \in SUBSET Keys
    BY MemoryAssumption DEF Command
  <2>2. Bytes(Keys) \in Nat /\ \A c \in Commands : Bytes(c.keys) \in Nat /\ Bytes(c.keys) <= Bytes(Keys)
    BY <1>1, <1>2, <2>1
  <2>3. X \in SUBSET Nat /\ X # {} /\ \A x \in X : x <= Bytes(Keys)
    BY <2>2
  <2>4. \A c \in Commands : c.op = "put" => Bytes(c.keys) \in X
    OBVIOUS
  <2>5. MaxGrowth = Max(X)
    BY DEF MaxGrowth
  <2> HIDE DEF X
  <2>6. \E x \in X : \A y \in X : x >= y
    BY Zenon, <2>2, <2>3, Greatest
  <2>7. MaxGrowth \in X /\ \A y \in X : MaxGrowth >= y
    BY <2>5, <2>6 DEF Max
  <2> QED BY <2>2, <2>3, <2>4, <2>7
<1>7. N \in Nat /\ IsFiniteSet(Clients)
  BY FS_CardinalityType, MemoryAssumption DEF N
<1>8. ASSUME NEW A \in SUBSET Clients PROVE IsFiniteSet(A) /\ Cardinality(A) \in Nat
  BY <1>7, FS_Subset, FS_CardinalityType
<1>9. ASSUME NEW A \in SUBSET Clients, NEW p \in A PROVE Cardinality(A \ {p}) = Cardinality(A) - 1
  BY <1>8, FS_RemoveElement
<1>10. ASSUME NEW A \in SUBSET Clients, NEW B \in SUBSET A
       PROVE  Cardinality(B) * MaxGrowth <= Cardinality(A) * MaxGrowth
  <2>1. Cardinality(A) \in Nat /\ Cardinality(B) \in Nat /\ Cardinality(B) <= Cardinality(A)
    BY <1>8, FS_Subset
  <2> QED BY <1>6, <2>1, Scaled
<1>11. ASSUME NEW A \in SUBSET Clients
       PROVE  /\ Cardinality(A) * MaxGrowth \in Nat
              /\ \A p \in A : Cardinality(A) * MaxGrowth = Cardinality(A \ {p}) * MaxGrowth + MaxGrowth
  <2>1. Cardinality(A) * MaxGrowth \in Nat
    BY <1>6, <1>8, OneMore
  <2>2. ASSUME NEW p \in A PROVE Cardinality(A) * MaxGrowth = Cardinality(A \ {p}) * MaxGrowth + MaxGrowth
    <3>1. Cardinality(A \ {p}) \in Nat /\ Cardinality(A) = Cardinality(A \ {p}) + 1
      BY <1>8, <1>9
    <3> QED BY <1>6, <3>1, OneMore
  <2> QED BY <2>1, <2>2
<1>12. \A p \in Clients : Cardinality(Clients \ {p}) = N - 1
  BY <1>9 DEF N
<1> QED BY Zenon, <1>1, <1>2, <1>3, <1>4, <1>5, <1>6, <1>7, <1>10, <1>11, <1>12 DEF Sums

\* A set of stamps, one for each element of a finite set, is finite.
LEMMA StampsFinite ==
  ASSUME NEW S, IsFiniteSet(S), NEW f, DOMAIN f = S, f = [x \in S |-> f[x]]
  PROVE  IsFiniteSet({f[x] : x \in S})
<1> DEFINE T == {f[x] : x \in S}
<1>1. f \in Surjection(S, T)
  <2>1. f \in [S -> T]
    OBVIOUS
  <2>2. \A t \in T : \E x \in S : f[x] = t
    OBVIOUS
  <2> QED BY <2>1, <2>2 DEF Surjection
<1> HIDE DEF T
<1>2. IsFiniteSet(T)
  BY <1>1, FS_Surjection
<1> QED BY <1>2 DEF T

\* The rank of a stamp is a number.
LEMMA RankType ==
  ASSUME Typed, NEW t
  PROVE  Rank(t) \in Nat
<1>1. Present \in SUBSET Keys /\ IsFiniteSet(Keys) /\ IsFiniteSet(Clients)
  BY MemoryAssumption DEF Present
<1>2. IsFiniteSet(Present)
  BY <1>1, FS_Subset
<1> DEFINE f == [k \in Present |-> data[k].atime]
           g == [p \in Clients |-> best[p].atime]
<1>3. IsFiniteSet({f[k] : k \in Present})
  <2>1. DOMAIN f = Present /\ f = [x \in Present |-> f[x]]
    OBVIOUS
  <2> HIDE DEF f
  <2> QED BY <1>2, <2>1, StampsFinite
<1>4. IsFiniteSet({g[p] : p \in Clients})
  <2>1. DOMAIN g = Clients /\ g = [x \in Clients |-> g[x]]
    OBVIOUS
  <2> HIDE DEF g
  <2> QED BY <1>1, <2>1, StampsFinite
<1>5. Stamps = {f[k] : k \in Present} \cup {g[p] : p \in Clients}
  BY DEF Stamps
<1>6. IsFiniteSet(Stamps)
  BY Zenon, <1>3, <1>4, <1>5, FS_Union
<1>7. {u \in Stamps : u < t} \in SUBSET Stamps
  OBVIOUS
<1>8. IsFiniteSet({u \in Stamps : u < t})
  BY <1>6, <1>7, FS_Subset
<1> QED BY <1>8, FS_CardinalityType DEF Rank

\* A client that gives the gate back keeps both parts of the invariant.
LEMMA LeaveKept ==
  ASSUME Typed, Kept, NEW p \in Clients, NEW l \in {"idle", "handler"}, Leave(p, l),
         UNCHANGED <<config, data, clock>>
  PROVE  Typed' /\ Kept'
<1>1. /\ pc' = [pc EXCEPT ![p] = l] /\ best' = [best EXCEPT ![p] = None]
      /\ gate' = IF gate = p THEN Nobody ELSE gate
      /\ policy' = policy /\ durable' = durable /\ data' = data /\ clock' = clock
  BY DEF Leave, Goto, FromStart, config
<1>2. None \in Victim /\ None.key = Absent /\ Absent \notin Keys
  BY MemoryAssumption DEF None, Victim
<1>3. Typed'
  BY <1>1, <1>2 DEF Typed
<1>4. \A q \in Clients : q # p => pc'[q] = pc[q] /\ best'[q] = best[q]
  BY <1>1 DEF Typed
<1>5. pc'[p] = l /\ best'[p].key = Absent
  BY <1>1, <1>2 DEF Typed
<1>6. Kept'
  <2>1. \A q \in Clients : pc'[q] \notin {"pick", "evict"} => best'[q].key = Absent
    BY <1>4, <1>5 DEF Kept
  <2>2. policy' = "noeviction" => \A q \in Clients : pc'[q] \notin {"loop", "pick", "evict"}
    BY <1>1, <1>4, <1>5 DEF Kept
  <2>3. durable' => \A q \in Clients : pc'[q] \in Evicting => gate' = q
    BY <1>1, <1>4, <1>5 DEF Kept, Evicting
  <2>4. policy' = "volatile-lru" /\ durable' => \A q \in Clients : Harmless(best[q].key)
    BY <1>1 DEF Kept
  <2>5. policy' = "volatile-lru" /\ durable' => \A q \in Clients : Harmless(best[q].key)'
    BY <1>1, <1>2, <1>4, <1>5, <2>4 DEF Harmless
  <2> QED BY <2>1, <2>2, <2>3, <2>5 DEF Kept
<1> QED BY <1>3, <1>6

\* A client that evicts moves on with a harmless victim, or with none.
LEMMA MoveKept ==
  ASSUME Typed, Kept, NEW p \in Clients, pc[p] \in Evicting, NEW l \in Evicting,
         pc' = [pc EXCEPT ![p] = l], NEW b \in Victim, best' = [best EXCEPT ![p] = b],
         UNCHANGED <<config, data, clock, gate>>,
         l \notin {"pick", "evict"} => b.key = Absent,
         policy = "noeviction" => l = "check",
         policy = "volatile-lru" /\ durable => Harmless(b.key)
  PROVE  Typed' /\ Kept'
<1>1. policy' = policy /\ durable' = durable /\ data' = data /\ clock' = clock /\ gate' = gate
  BY DEF config
<1>2. Typed'
  BY <1>1 DEF Typed, Evicting
<1>3. \A q \in Clients : q # p => pc'[q] = pc[q] /\ best'[q] = best[q]
  BY DEF Typed
<1>4. pc'[p] = l /\ best'[p] = b
  BY DEF Typed
<1>5. Kept'
  <2>1. \A q \in Clients : pc'[q] \notin {"pick", "evict"} => best'[q].key = Absent
    BY <1>3, <1>4 DEF Kept
  <2>2. policy' = "noeviction" => \A q \in Clients : pc'[q] \notin {"loop", "pick", "evict"}
    BY <1>1, <1>3, <1>4 DEF Kept
  <2>3. durable' => \A q \in Clients : pc'[q] \in Evicting => gate' = q
    BY <1>1, <1>3, <1>4 DEF Kept
  <2>4. policy' = "volatile-lru" /\ durable' => \A q \in Clients : Harmless(best[q].key)
    BY <1>1 DEF Kept
  <2>5. policy' = "volatile-lru" /\ durable' => \A q \in Clients : Harmless(best[q].key)'
    BY <1>1, <1>3, <1>4, <2>4 DEF Harmless
  <2> QED BY <2>1, <2>2, <2>3, <2>5 DEF Kept
<1> QED BY <1>2, <1>5

\* The end of pickVictim.
LEMMA ChosenKept ==
  ASSUME Typed, Kept, NEW p \in Clients, pc[p] = "pick", NEW b \in Victim, Chosen(p, b),
         UNCHANGED <<config, data, clock>>,
         policy = "volatile-lru" /\ durable => Harmless(b.key)
  PROVE  Typed' /\ Kept'
<1>1. CASE b = None
  BY <1>1, LeaveKept DEF Chosen
<1>2. CASE b # None
  <2>1. best' = [best EXCEPT ![p] = b] /\ pc' = [pc EXCEPT ![p] = "evict"] /\ gate' = gate
    BY <1>2 DEF Chosen, Goto
  <2>2. policy # "noeviction"
    BY DEF Kept
  <2> QED BY Zenon, <2>1, <2>2, MoveKept DEF Evicting
<1> QED BY <1>1, <1>2

\* One more shard of the walk.
LEMMA NextShardKept ==
  ASSUME Typed, Kept, NEW p \in Clients, pc[p] = "pick", NEW b \in Victim, NEW n, NextShard(p, b, n),
         UNCHANGED <<config, data, clock>>,
         policy = "volatile-lru" /\ durable => Harmless(b.key)
  PROVE  Typed' /\ Kept'
<1>1. best' = [best EXCEPT ![p] = b] /\ pc' = [pc EXCEPT ![p] = "pick"] /\ gate' = gate
  BY DEF NextShard, Typed
<1>2. policy # "noeviction"
  BY DEF Kept
<1> QED BY Zenon, <1>1, <1>2, MoveKept DEF Evicting

\* The victim of a sample: the one before, or a key of the pool.
LEMMA OlderKept ==
  ASSUME Typed, Kept, NEW p \in Clients, NEW s, NEW C, C \subseteq Pool(s), NEW b \in Older(best[p], C)
  PROVE  b \in Victim /\ (policy = "volatile-lru" /\ durable => Harmless(b.key))
<1>1. b = best[p] \/ \E k \in C : b = Candidate(k)
  BY DEF Older
<1>2. CASE b = best[p]
  BY <1>2 DEF Typed, Kept
<1>3. ASSUME NEW k \in C, b = Candidate(k)
      PROVE  b \in Victim /\ (policy = "volatile-lru" /\ durable => Harmless(b.key))
  <2>1. k \in Keys /\ data[k] \in Entry /\ (policy = "volatile-lru" => data[k].ttl)
    BY DEF Pool, Present, expiring, Typed
  <2>2. b.key = k /\ b \in Victim
    BY <1>3, <2>1 DEF Candidate, Victim, Entry
  <2> QED BY <2>1, <2>2 DEF Harmless
<1> QED BY <1>1, <1>2, <1>3

\* Steps that neither move a client nor change a victim's key.
LEMMA OthersKept ==
  ASSUME Typed, Kept, UNCHANGED <<config, gate, pc>>, data' \in [Keys -> Entry \cup {Absent}],
         clock' \in Nat, best' \in [Clients -> Victim],
         \A p \in Clients : best'[p].key = best[p].key,
         \A k \in Keys : data'[k] = Absent \/ (data[k] # Absent /\ data'[k].ttl = data[k].ttl)
  PROVE  Typed' /\ Kept'
<1>1. policy' = policy /\ durable' = durable /\ gate' = gate /\ pc' = pc
  BY DEF config
<1>2. Typed'
  BY <1>1 DEF Typed
<1>3. Kept'
  <2>1. \A p \in Clients : pc'[p] \notin {"pick", "evict"} => best'[p].key = Absent
    BY <1>1 DEF Kept
  <2>2. policy' = "volatile-lru" /\ durable' => \A p \in Clients : Harmless(best[p].key)
    BY <1>1 DEF Kept
  <2>3. ASSUME NEW p \in Clients, Harmless(best[p].key) PROVE Harmless(best[p].key)'
    <3>1. best'[p].key \in Keys => data[best[p].key] = Absent \/ data[best[p].key].ttl
      BY <2>3 DEF Harmless
    <3> QED BY <3>1 DEF Harmless
  <2>4. policy' = "volatile-lru" /\ durable' => \A p \in Clients : Harmless(best[p].key)'
    BY <2>2, <2>3
  <2> QED BY <1>1, <2>1, <2>4 DEF Kept
<1> QED BY <1>2, <1>3

\* Every step keeps the invariant.
LEMMA KeptStep ==
  ASSUME Typed, Kept, [Next]_vars
  PROVE  Typed' /\ Kept'
<1> DEFINE Goal == Typed' /\ Kept'
<1>0. None \in Victim /\ None.key = Absent /\ Absent \notin Keys
  BY MemoryAssumption DEF None, Victim
<1>1. ASSUME NEW p \in Clients, dispatch(p) PROVE Goal
  <2>1. /\ pc[p] = "idle" /\ policy' = policy /\ durable' = durable /\ data' = data /\ clock' = clock
        /\ gate' = gate /\ best' = best
    BY <1>1 DEF dispatch, config, walkVars
  <2>2. PICK l \in {"handler", "enforce"} : pc' = [pc EXCEPT ![p] = l]
    BY Zenon, <1>1 DEF dispatch, Goto
  <2>3. Typed'
    BY <2>1, <2>2 DEF Typed
  <2>4. pc'[p] = l /\ \A q \in Clients : q # p => pc'[q] = pc[q]
    BY <2>2 DEF Typed
  <2> QED BY <2>1, <2>3, <2>4 DEF Kept, Evicting, Harmless
<1>2. ASSUME NEW p \in Clients, Enforce(p) PROVE Goal
  <2>1. /\ pc[p] = "enforce" /\ policy' = policy /\ durable' = durable /\ data' = data /\ clock' = clock
        /\ best' = best /\ gate = Nobody /\ pc' = [pc EXCEPT ![p] = "check"]
        /\ gate' = IF durable THEN p ELSE Nobody
    BY <1>2 DEF Enforce, Goto, config, walkVars
  <2>2. Typed'
    BY <2>1 DEF Typed
  <2>3. pc'[p] = "check" /\ \A q \in Clients : q # p => pc'[q] = pc[q]
    BY <2>1 DEF Typed
  <2>4. durable => \A q \in Clients : pc[q] \notin Evicting
    BY <2>1, MemoryAssumption DEF Kept
  <2> QED BY <2>1, <2>2, <2>3, <2>4 DEF Kept, Harmless
<1>3. ASSUME NEW p \in Clients, UsedWalk(p) PROVE Goal
  <2>1. pc[p] \in {"check", "loop"} /\ UNCHANGED <<config, data, clock>>
    BY <1>3 DEF UsedWalk
  <2>2. CASE ~LastShard(p)
    <3>1. UNCHANGED <<gate, pc, best>>
      BY <1>3, <2>2 DEF UsedWalk
    <3> QED BY <2>1, <3>1 DEF config, Typed, Kept, Harmless
  <2>3. ASSUME NEW t, Verdict(p, t) PROVE Goal
    <3>1. CASE t <= MaxMemory
      <4>1. Leave(p, "handler")
        BY <2>3, <3>1 DEF Verdict
      <4> QED BY <2>1, <4>1, LeaveKept
    <3>2. CASE ~(t <= MaxMemory) /\ policy = "noeviction"
      <4>1. Leave(p, "idle")
        BY <2>3, <3>2 DEF Verdict
      <4> QED BY <2>1, <4>1, LeaveKept
    <3>3. CASE ~(t <= MaxMemory) /\ policy # "noeviction"
      <4>1. /\ Goto(p, IF pc[p] = "check" THEN "loop" ELSE "pick")
            /\ FromStart(p) /\ gate' = gate
        BY <2>3, <3>3 DEF Verdict
      <4>2. PICK l \in {"loop", "pick"} : pc' = [pc EXCEPT ![p] = l]
        BY Zenon, <4>1 DEF Goto
      <4>3. best' = [best EXCEPT ![p] = None]
        BY <4>1 DEF FromStart
      <4> QED BY Zenon, <1>0, <2>1, <3>3, <4>1, <4>2, <4>3, MoveKept DEF Evicting, Harmless
    <3> QED BY <3>1, <3>2, <3>3
  <2> QED BY <1>3, <2>2, <2>3 DEF UsedWalk
<1>4. ASSUME NEW p \in Clients, pickOldest(p) PROVE Goal
  <2>1. pc[p] = "pick" /\ UNCHANGED <<config, data, clock>>
    BY <1>4 DEF pickOldest
  <2>2. PICK C \in Draw(Pool(shard[p]), EvictSample - scanned[p]) : \E b \in Older(best[p], C) :
          Chosen(p, b) \/ NextShard(p, b, scanned[p] + Cardinality(C))
    BY Zenon, <1>4 DEF pickOldest
  <2>2a. PICK b \in Older(best[p], C) : Chosen(p, b) \/ NextShard(p, b, scanned[p] + Cardinality(C))
    BY Zenon, <2>2
  <2>3. C \subseteq Pool(shard[p])
    BY Zenon DEF Draw, kSubset
  <2>4. b \in Victim /\ (policy = "volatile-lru" /\ durable => Harmless(b.key))
    BY Zenon, <2>3, OlderKept
  <2>5. CASE Chosen(p, b)
    BY <2>1, <2>4, <2>5, ChosenKept
  <2>6. CASE NextShard(p, b, scanned[p] + Cardinality(C))
    BY <2>1, <2>4, <2>6, NextShardKept
  <2> QED BY <2>2a, <2>5, <2>6
<1>5. ASSUME NEW p \in Clients, pickAny(p) PROVE Goal
  <2>1. pc[p] = "pick" /\ policy # "volatile-lru" /\ UNCHANGED <<config, data, clock>>
    BY <1>5 DEF pickAny
  <2>2. ASSUME NEW k \in Pool(shard[p]), Chosen(p, Candidate(k)) PROVE Goal
    <3>1. Candidate(k) \in Victim
      BY DEF Pool, Present, expiring, Candidate, Victim, Entry, Typed
    <3> QED BY <2>1, <2>2, <3>1, ChosenKept
  <2>3. CASE Chosen(p, None)
    BY <1>0, <2>1, <2>3, ChosenKept
  <2>4. CASE NextShard(p, None, 0)
    BY <1>0, <2>1, <2>4, NextShardKept
  <2> QED BY <1>5, <2>2, <2>3, <2>4 DEF pickAny
<1>6. ASSUME NEW p \in Clients, Evict(p) PROVE Goal
  <2>1. /\ pc[p] = "evict" /\ data' = [data EXCEPT ![best[p].key] = Absent]
        /\ pc' = [pc EXCEPT ![p] = "loop"] /\ best' = [best EXCEPT ![p] = None]
        /\ policy' = policy /\ durable' = durable /\ clock' = clock /\ gate' = gate
    BY <1>6 DEF Evict, Goto, FromStart, config
  <2>2. Typed'
    BY Zenon, <1>0, <2>1 DEF Typed
  <2>3. pc'[p] = "loop" /\ best'[p].key = Absent
    BY <1>0, <2>1 DEF Typed
  <2>4. \A q \in Clients : q # p => pc'[q] = pc[q] /\ best'[q] = best[q]
    BY <2>1 DEF Typed
  <2>5. ASSUME NEW k, Harmless(k) PROVE Harmless(k)'
    BY <2>1, <2>5 DEF Harmless, Typed
  <2>6. policy' = "volatile-lru" /\ durable' => \A q \in Clients : Harmless(best[q].key)'
    <3> SUFFICES ASSUME policy = "volatile-lru", durable, NEW q \in Clients
                 PROVE  Harmless(best[q].key)'
      BY <2>1
    <3>1. Harmless(best[q].key)
      BY DEF Kept
    <3> QED BY <1>0, <2>3, <2>4, <2>5, <3>1 DEF Harmless
  <2>7. policy # "noeviction"
    BY <2>1 DEF Kept
  <2> QED BY <2>1, <2>2, <2>3, <2>4, <2>6, <2>7 DEF Kept, Evicting
<1>7. ASSUME NEW p \in Clients, Handler(p) PROVE Goal
  <2>1. /\ pc[p] = "handler" /\ gate = Nobody /\ policy' = policy /\ durable' = durable /\ clock' = clock
        /\ pc' = [pc EXCEPT ![p] = "idle"] /\ best' = [best EXCEPT ![p] = None] /\ gate' = Nobody
    BY <1>7, MemoryAssumption DEF Handler, Leave, Goto, FromStart, config
  <2>2. data' \in [Keys -> Entry \cup {Absent}]
    <3>1. PICK c \in Commands :
             data' = [k \in Keys |-> IF k \notin c.keys THEN data[k]
                                     ELSE IF c.op = "del" THEN Absent
                                     ELSE [ttl |-> c.ttl, atime |-> clock]]
      BY <1>7 DEF Handler
    <3>2. [ttl |-> c.ttl, atime |-> clock] \in Entry
      BY MemoryAssumption DEF Command, Entry, Typed
    <3> QED BY <3>1, <3>2 DEF Typed
  <2>3. Typed'
    BY <1>0, <2>1, <2>2 DEF Typed
  <2>4. pc'[p] = "idle" /\ best'[p].key = Absent
    BY <1>0, <2>1 DEF Typed
  <2>5. \A q \in Clients : q # p => pc'[q] = pc[q] /\ best'[q] = best[q]
    BY <2>1 DEF Typed
  <2>6. durable => \A q \in Clients : pc[q] \notin Evicting
    BY <2>1, MemoryAssumption DEF Kept
  <2>7. durable => \A q \in Clients : best'[q].key = Absent
    BY <2>4, <2>5, <2>6 DEF Kept, Evicting
  <2> QED BY <1>0, <2>1, <2>3, <2>4, <2>5, <2>6, <2>7 DEF Kept, Evicting, Harmless
<1>8. ASSUME NEW k \in Keys, Get(k) PROVE Goal
  <2>1. /\ data[k] \in Entry /\ data' = [data EXCEPT ![k] = [data[k] EXCEPT !.atime = clock]]
        /\ UNCHANGED <<config, gate, pc>> /\ clock' = clock /\ best' = best
    BY <1>8 DEF Get, Present, Typed, walkVars
  <2>2. [data[k] EXCEPT !.atime = clock] \in Entry /\ [data[k] EXCEPT !.atime = clock].ttl = data[k].ttl
    BY <2>1 DEF Entry, Typed
  <2>3. data' \in [Keys -> Entry \cup {Absent}]
    BY <2>1, <2>2 DEF Typed
  <2>4. \A i \in Keys : data'[i] = Absent \/ (data[i] # Absent /\ data'[i].ttl = data[i].ttl)
    BY <2>1, <2>2, MemoryAssumption DEF Typed
  <2> QED BY <2>1, <2>3, <2>4, OthersKept DEF Typed
<1>9. ASSUME NEW k \in Keys, Collect(k) PROVE Goal
  <2>1. data' = [data EXCEPT ![k] = Absent] /\ UNCHANGED <<config, gate, pc>> /\ clock' = clock /\ best' = best
    BY <1>9 DEF Collect, walkVars
  <2>2. data' \in [Keys -> Entry \cup {Absent}]
    BY <2>1 DEF Typed
  <2>3. \A i \in Keys : data'[i] = Absent \/ (data[i] # Absent /\ data'[i].ttl = data[i].ttl)
    BY <2>1 DEF Typed
  <2> QED BY <2>1, <2>2, <2>3, OthersKept DEF Typed
<1>10. CASE tick
  <2>1. /\ clock' = Rank(clock + 1) /\ UNCHANGED <<config, gate, pc>>
        /\ data' = [k \in Keys |-> IF data[k] = Absent THEN Absent
                                   ELSE [data[k] EXCEPT !.atime = Rank(data[k].atime)]]
        /\ best' = [p \in Clients |-> [best[p] EXCEPT !.atime = Rank(best[p].atime)]]
    BY <1>10 DEF tick
  <2>2. ASSUME NEW e \in Entry, NEW t \in Nat
        PROVE  [e EXCEPT !.atime = t] \in Entry /\ [e EXCEPT !.atime = t].ttl = e.ttl
    BY DEF Entry
  <2>3. ASSUME NEW b \in Victim, NEW t \in Nat
        PROVE  [b EXCEPT !.atime = t] \in Victim /\ [b EXCEPT !.atime = t].key = b.key
    BY DEF Victim
  <2>4. ASSUME NEW k \in Keys, data[k] # Absent
        PROVE  data'[k] \in Entry /\ data'[k].ttl = data[k].ttl
    <3>1. data[k] \in Entry /\ Rank(data[k].atime) \in Nat
      BY <2>4, RankType DEF Typed
    <3> QED BY Zenon, <2>1, <2>2, <2>4, <3>1
  <2>5. ASSUME NEW p \in Clients PROVE best'[p] \in Victim /\ best'[p].key = best[p].key
    <3>1. best[p] \in Victim /\ Rank(best[p].atime) \in Nat
      BY RankType DEF Typed
    <3> QED BY Zenon, <2>1, <2>3, <3>1
  <2>6. data' \in [Keys -> Entry \cup {Absent}]
    BY <2>1, <2>4
  <2>7. best' \in [Clients -> Victim]
    BY <2>1, <2>5
  <2>8. \A i \in Keys : data'[i] = Absent \/ (data[i] # Absent /\ data'[i].ttl = data[i].ttl)
    BY <2>1, <2>4
  <2>9. clock' \in Nat
    BY <2>1, RankType
  <2> QED BY Zenon, <2>1, <2>5, <2>6, <2>7, <2>8, <2>9, OthersKept
<1>11. CASE UNCHANGED vars
  BY <1>11 DEF vars, config, walkVars, Typed, Kept, Harmless
<1> QED
  BY <1>1, <1>2, <1>3, <1>4, <1>5, <1>6, <1>7, <1>8, <1>9, <1>10, <1>11 DEF Next, Step

\* Under the invariant a step takes an entry without a TTL only for a client's command.
LEMMA KeptImplies ==
  ASSUME Typed, Kept, Next, policy = "noeviction" \/ (policy = "volatile-lru" /\ durable),
         NEW k \in Present, ~data[k].ttl, data'[k] = Absent
  PROVE  \E p \in Clients : pc[p] = "handler" /\ pc'[p] = "idle"
<1>0. k \in Keys /\ data[k] \in Entry /\ data[k] # Absent /\ Absent \notin Entry
  BY MemoryAssumption DEF Present, Typed
<1>1. ASSUME NEW p \in Clients, dispatch(p) \/ Enforce(p) \/ UsedWalk(p) \/ pickOldest(p) \/ pickAny(p)
      PROVE  FALSE
  <2>1. data' = data
    BY Zenon, <1>1 DEF dispatch, Enforce, UsedWalk, pickOldest, pickAny
  <2> QED BY <1>0, <2>1
<1>2. ASSUME NEW p \in Clients, Evict(p) PROVE FALSE
  <2>1. pc[p] = "evict" /\ data' = [data EXCEPT ![best[p].key] = Absent]
    BY <1>2 DEF Evict
  <2>2. k = best[p].key
    BY <1>0, <2>1 DEF Typed
  <2>3. Harmless(k)
    BY <2>1, <2>2 DEF Kept
  <2> QED BY <1>0, <2>3 DEF Harmless
<1>3. ASSUME NEW p \in Clients, Handler(p) PROVE pc[p] = "handler" /\ pc'[p] = "idle"
  <2>1. pc[p] = "handler" /\ pc' = [pc EXCEPT ![p] = "idle"]
    BY <1>3 DEF Handler, Leave, Goto
  <2> QED BY <2>1 DEF Typed
<1>4. ASSUME NEW i \in Keys, Get(i) PROVE FALSE
  <2>1. data' = [data EXCEPT ![i] = [data[i] EXCEPT !.atime = clock]] /\ data[i] \in Entry
    BY <1>4 DEF Get, Present, Typed
  <2>2. [data[i] EXCEPT !.atime = clock] \in Entry
    BY <2>1 DEF Entry, Typed
  <2> QED BY <1>0, <2>1, <2>2 DEF Typed
<1>5. ASSUME NEW i \in Keys, Collect(i) PROVE FALSE
  BY <1>0, <1>5 DEF Collect, expiring, Typed
<1>6. CASE tick
  <2>1. data'[k] = [data[k] EXCEPT !.atime = Rank(data[k].atime)]
    BY <1>0, <1>6 DEF tick
  <2>2. [data[k] EXCEPT !.atime = Rank(data[k].atime)] \in Entry
    <3>1. Rank(data[k].atime) \in Nat
      BY RankType
    <3> QED BY <1>0, <3>1 DEF Entry
  <2> QED BY <1>0, <2>1, <2>2
<1> QED BY <1>1, <1>2, <1>3, <1>4, <1>5, <1>6 DEF Next, Step

\* An entry without a TTL is lost only to a client's own command: EnforceMemoryLimit
\* deletes its victim by name after it has let go of the victim's shard, but under
\* volatile-lru with a journal the gate keeps every handler out in between.
THEOREM PersistentEntriesKept == Spec => PersistentKept
<1>1. Init => Typed /\ Kept
  <2> SUFFICES ASSUME Init PROVE Typed /\ Kept
    OBVIOUS
  <2>1. None \in Victim /\ None.key = Absent /\ Absent \notin Keys
    BY MemoryAssumption DEF None, Victim
  <2>2. Typed
    BY <2>1 DEF Init, Typed
  <2> QED BY <2>1, <2>2 DEF Init, Kept, Evicting, Harmless
<1>2. Typed /\ Kept /\ [Next]_vars => Typed' /\ Kept'
  BY KeptStep
<1>3. Typed /\ Kept /\ [Next]_vars =>
        [policy = "noeviction" \/ (policy = "volatile-lru" /\ durable) =>
           \A k \in Present : ~data[k].ttl /\ data'[k] = Absent =>
             \E p \in Clients : pc[p] = "handler" /\ pc'[p] = "idle"]_vars
  BY KeptImplies
<1> QED BY <1>1, <1>2, <1>3, PTL DEF Spec, PersistentKept

\* The budget is exceeded by at most one command per client.
THEOREM OvershootBounded == Spec => []BoundedOvershoot
<1> DEFINE Inv == Typed /\ Kept /\ Walked /\ (MaxMemory > 0 => Budgeted)
<1>1. Init => Inv
  BY SumsHold, BudgetedInit
<1>2. Inv /\ [Next]_vars => Inv'
  BY SumsHold, KeptStep, WalkedStep, BudgetedStep
<1>3. Inv => BoundedOvershoot
  <2> SUFFICES ASSUME Typed, Walked, Budgeted PROVE Used <= MaxMemory + Cardinality(Clients) * MaxGrowth
    BY DEF BoundedOvershoot
  <2>1. Used \in Nat /\ Granted \in SUBSET Clients
    BY SumsHold, BoundTypes DEF Sized
  <2>2. Cardinality(Granted) * MaxGrowth \in Nat /\ N * MaxGrowth \in Nat /\ MaxMemory \in Nat
    BY SumsHold, <2>1, Products, MemoryAssumption DEF N
  <2> QED BY <2>1, <2>2 DEF Budgeted, Within, N
<1> QED BY <1>1, <1>2, <1>3, PTL DEF Spec

\* The model's variables keep their types: walks and samples stay inside their bounds.
THEOREM EvictionTypes == Spec => []TypeOK
<1> DEFINE Configured == policy \in Policies /\ durable \in Journals
<1>1. Init => Typed /\ Kept /\ Walked /\ Configured
  <2>1. Init => Configured
    BY DEF Init
  <2> QED BY <2>1, SumsHold, BudgetedInit
<1>2. Typed /\ Kept /\ Walked /\ Configured /\ [Next]_vars => (Typed /\ Kept /\ Walked /\ Configured)'
  <2>1. ASSUME [Next]_vars PROVE UNCHANGED config
    BY Zenon, <2>1 DEF Next, Step, dispatch, Enforce, UsedWalk, pickOldest, pickAny, Evict, Handler,
                       Get, Collect, tick, vars
  <2>2. Configured /\ UNCHANGED config => Configured'
    BY DEF config
  <2> QED BY <2>1, <2>2, SumsHold, KeptStep, WalkedStep
<1>3. Typed /\ Walked /\ Configured => TypeOK
  BY DEF Typed, Walked, TypeOK, Victim
<1> QED BY <1>1, <1>2, <1>3, PTL DEF Spec
=============================================================================
