---------------------------- MODULE AOFLogProofs ----------------------------
(***************************************************************************)
(* Proofs about AOFLog, for any number of connections, shards and          *)
(* mutations, any buffer size, and with write, fsync and rename faults.    *)
(* First what a rewrite keeps; then, if a rename is durable, what a crash  *)
(* leaves; then the orderly end, and the order of the commits.             *)
(***************************************************************************)
EXTENDS AOFLog, SequenceTheorems, TLAPS

-----------------------------------------------------------------------------
(***************************************************************************)
(* Sequences of mutations.                                                 *)
(***************************************************************************)

\* What a log reflects grows by the record appended to it.
LEMMA RangeAppend ==
  ASSUME NEW s \in Seq(Recs), NEW r \in Recs
  PROVE  Append(s, r) \in Seq(Recs) /\ Range(Append(s, r)) = Range(s) \cup {r}
<1>1. /\ Append(s, r) \in Seq(Recs) /\ Len(Append(s, r)) = Len(s) + 1
      /\ \A i \in 1 .. Len(s) : Append(s, r)[i] = s[i]
      /\ Append(s, r)[Len(s) + 1] = r
  BY AppendProperties
<1>2. /\ Range(s) = {s[i] : i \in 1 .. Len(s)}
      /\ Range(Append(s, r)) = {Append(s, r)[i] : i \in 1 .. Len(Append(s, r))}
  BY Zenon, <1>1, RangeEquality
<1>3. Len(s) \in Nat
  OBVIOUS
<1> QED BY <1>1, <1>2, <1>3

\* A buffer that holds one record.
LEMMA RangeSingle ==
  ASSUME NEW r \in Recs
  PROVE  <<r>> \in Seq(Recs) /\ Range(<<r>>) = {r}
BY DEF Range

\* The empty sequence of records.
LEMMA EmptyLog == <<>> \in Seq(Recs) /\ Range(<<>>) = {} /\ Len(<<>>) = 0
BY DEF Range

\* The first n records of a log.
LEMMA PrefixRange ==
  ASSUME NEW s \in Seq(Recs), NEW n \in 0 .. Len(s)
  PROVE  /\ SubSeq(s, 1, n) \in Seq(Recs) /\ Len(SubSeq(s, 1, n)) = n
         /\ Range(SubSeq(s, 1, n)) = {s[i] : i \in 1 .. n}
<1>1. n \in Int /\ n >= 0 /\ \A i \in 1 .. n : s[i] \in Recs
  OBVIOUS
<1>2. /\ SubSeq(s, 1, n) \in Seq(Recs)
      /\ Len(SubSeq(s, 1, n)) = n
      /\ \A i \in 1 .. n : SubSeq(s, 1, n)[i] = s[i]
  BY <1>1, SubSeqProperties
<1>3. Range(SubSeq(s, 1, n)) = {SubSeq(s, 1, n)[i] : i \in 1 .. n}
  BY Zenon, <1>2, RangeEquality
<1> QED BY <1>2, <1>3

\* Any part of the buffer is a sequence of records.
LEMMA PartType ==
  ASSUME NEW s \in Seq(Recs), NEW m \in 1 .. Len(s) + 1, NEW n \in 0 .. Len(s)
  PROVE  SubSeq(s, m, n) \in Seq(Recs)
<1>1. m \in Int /\ n \in Int /\ \A i \in m .. n : s[i] \in Recs
  OBVIOUS
<1> QED BY <1>1, SubSeqProperties

\* Records on stable storage stay there when the log grows and more of it is synced.
LEMMA PrefixKept ==
  ASSUME NEW s \in Seq(Recs), NEW t \in Seq(Recs), NEW n \in 0 .. Len(s),
         NEW m \in n .. Len(s \o t)
  PROVE  Range(SubSeq(s, 1, n)) \subseteq Range(SubSeq(s \o t, 1, m))
<1>1. /\ s \o t \in Seq(Recs) /\ Len(s \o t) = Len(s) + Len(t)
      /\ \A i \in 1 .. Len(s) : (s \o t)[i] = s[i]
  BY ConcatProperties
<1>2. m \in 0 .. Len(s \o t)
  BY <1>1
<1>3. Range(SubSeq(s, 1, n)) = {s[i] : i \in 1 .. n}
  BY PrefixRange
<1>4. Range(SubSeq(s \o t, 1, m)) = {(s \o t)[i] : i \in 1 .. m}
  BY Zenon, <1>1, <1>2, PrefixRange
<1> QED BY <1>1, <1>3, <1>4

\* Cutting the log at n keeps what was synced before n.
LEMMA PrefixCut ==
  ASSUME NEW s \in Seq(Recs), NEW n \in 0 .. Len(s), NEW m \in n .. Len(s)
  PROVE  /\ Range(SubSeq(s, 1, n)) \subseteq Range(SubSeq(s, 1, m))
         /\ SubSeq(SubSeq(s, 1, m), 1, m) = SubSeq(s, 1, m)
<1>1. m \in 0 .. Len(s) /\ \A i \in 1 .. n : i \in 1 .. m
  OBVIOUS
<1>2. Range(SubSeq(s, 1, n)) = {s[i] : i \in 1 .. n} /\ Range(SubSeq(s, 1, m)) = {s[i] : i \in 1 .. m}
  BY <1>1, PrefixRange
<1>3. SubSeq(SubSeq(s, 1, m), 1, m) = SubSeq(s, 1, m)
  <2>1. SubSeq(s, 1, m) \in Seq(Recs) /\ Len(SubSeq(s, 1, m)) = m
    BY <1>1, PrefixRange
  <2> QED BY <2>1, SubSeqFull
<1> QED BY <1>1, <1>2, <1>3

-----------------------------------------------------------------------------
(***************************************************************************)
(* The inductive invariant.  Control: who is where, with which mutation.   *)
(***************************************************************************)
Active == {"append", "sync", "fsync"}

\* A writer that is past Commit works on a mutation that is in memory.
Ids == \A w \in Writers : pc[w] \in Active => id[w] \in applied

\* The mutation about to be appended is nobody else's and not acknowledged.
Fresh ==
    \A v \in Writers : pc[v] = "append" =>
      /\ id[v] \notin acked
      /\ \A w \in Writers \ {v} : pc[w] \in Active => id[w] # id[v]

\* A goroutine that waits for fsync(2) holds Log.mu.
Mutex == \A p \in Procs : pc[p] = "fsync" => mu = p

\* No command and no rewrite runs in a process that is not up.
Stopped == up # "up" => rpc = "idle" /\ \A w \in Writers : pc[w] = "idle"

\* The rewrite goroutine exists while Log.rewriting is set.
RewritePos == /\ rewriting <=> rpc # "idle"
              /\ rpc = "install" => left = {}
              /\ rpc = "idle" => snap = NoImage

AckedApplied == up = "up" => acked \subseteq applied

Control == TypeOK /\ Ids /\ Fresh /\ Mutex /\ Stopped /\ RewritePos /\ AckedApplied

(***************************************************************************)
(* Data: where a mutation is while a rewrite is under way, and what the    *)
(* disk holds.                                                             *)
(***************************************************************************)
InFlight(r) == \E w \in Writers : pc[w] = "append" /\ id[w] = r

\* What the rewrite would install, if every shard still to be read were read now.
InRewrite(r) == \/ r \in Range(tail)
                \/ \A s \in ShardsOf[r] : s \in left \/ r \in snap[s]

TailComplete ==
    up = "up" /\ ~err /\ rewriting => \A r \in applied : InRewrite(r) \/ InFlight(r)

\* A snapshot that holds a batch in one shard holds it in all, or the tail has it.
SnapWhole ==
    \A s \in Shards : \A r \in snap[s] :
      /\ r \in applied /\ s \in ShardsOf[r]
      /\ r \in Batch => err \/ InRewrite(r)

\* A writer that waits for fsync(2) has its record in the file.
Flushed == \A w \in Writers : pc[w] = "fsync" => id[w] \in InKernel

AckedOnDisk == Policy = "always" => acked \subseteq OnDisk

Data == NothingForgotten /\ TailComplete /\ SnapWhole /\ Flushed /\ AckedOnDisk /\ BatchesWhole

-----------------------------------------------------------------------------
(***************************************************************************)
(* Type correctness.                                                       *)
(***************************************************************************)
LogTypes == /\ log \in Seq(Recs) /\ buf \in Seq(Recs) /\ partial \in BOOLEAN
            /\ synced \in 0 .. Len(log)

ReplyTypes == /\ acked \subseteq Recs /\ blind \subseteq Recs
              /\ id \in [Writers -> Recs \cup {0}]
              /\ pc \in [Procs -> {"idle", "gate", "append", "sync", "fsync"}]

\* More records in the file, the same ones on stable storage.
LEMMA GrowType ==
  ASSUME TypeOK, NEW m \in Seq(Recs), log' = log \o m, synced' = synced
  PROVE  log' \in Seq(Recs) /\ synced' \in 0 .. Len(log')
<1>1. log' \in Seq(Recs) /\ Len(log') = Len(log) + Len(m)
  BY ConcatProperties DEF TypeOK
<1> QED BY <1>1 DEF TypeOK

\* A failed write(2) leaves a well-typed file and buffer, and only adds to the file.
LEMMA WriteFailsType ==
  ASSUME TypeOK, WriteFails, synced' = synced
  PROVE  LogTypes' /\ err' = TRUE /\ \E m \in Seq(Recs) : log' = log \o m
<1>1. PICK n \in 0 .. Len(buf) : /\ log' = log \o SubSeq(buf, 1, n)
                                 /\ buf' = SubSeq(buf, n + 1, Len(buf))
                                 /\ partial' \in BOOLEAN
  BY DEF WriteFails
<1>2. Len(buf) \in Nat /\ buf \in Seq(Recs)
  BY DEF TypeOK
<1>3. SubSeq(buf, 1, n) \in Seq(Recs) /\ buf' \in Seq(Recs)
  BY <1>1, <1>2, PartType
<1> QED BY Zenon, <1>1, <1>3, GrowType DEF LogTypes, WriteFails

\* A reply keeps the types of what it records.
LEMMA ReplyType ==
  ASSUME TypeOK, Ids, NEW w \in Writers, NEW ok \in BOOLEAN, pc[w] \in Active, Reply(w, ok)
  PROVE  ReplyTypes'
<1>1. id[w] \in Recs
  BY DEF TypeOK, Ids
<1> QED BY <1>1 DEF TypeOK, ReplyTypes, Reply, Goto, Procs

\* The end of Append keeps the types.
LEMMA AppendedType ==
  ASSUME TypeOK, Ids, NEW w \in Writers, NEW ok \in BOOLEAN, pc[w] \in Active, Appended(w, ok)
  PROVE  ReplyTypes' /\ gate' = Nobody
<1>1. CASE Policy = "always"
  BY <1>1 DEF Appended, TypeOK, ReplyTypes, Goto, Procs
<1>2. CASE Policy # "always"
  BY <1>2, ReplyType DEF Appended
<1> QED BY <1>1, <1>2

\* The end of a sync keeps the types.
LEMMA SyncDoneType ==
  ASSUME TypeOK, Ids, NEW p \in Procs, NEW ok \in BOOLEAN,
         p # Syncer => pc[p] \in Active, SyncDone(p, ok)
  PROVE  ReplyTypes'
<1>1. CASE p = Syncer
  BY <1>1 DEF SyncDone, TypeOK, ReplyTypes, Goto, Procs
<1>2. CASE p # Syncer
  BY <1>2, ReplyType DEF SyncDone, Procs
<1> QED BY <1>1, <1>2

\* The empty snapshot is a snapshot.
LEMMA ImageTypes == NoImage \in Image
BY DEF NoImage, Image

\* The end of a rewrite keeps the types.
LEMMA EndRewriteType ==
  ASSUME TypeOK, EndRewrite
  PROVE  /\ rewriting' = FALSE /\ tail' \in Seq(Recs) /\ rpc' = "idle"
         /\ snap' \in Image /\ left' \subseteq Shards
BY ImageTypes, EmptyLog DEF TypeOK, EndRewrite

\* Every step keeps the types.
LEMMA LogTypeStep ==
  ASSUME Control, [Next]_vars
  PROVE  TypeOK'
<1> USE DEF Control
<1>1. ASSUME NEW w \in Writers, Admit(w) PROVE TypeOK'
  BY <1>1 DEF Admit, TypeOK, Goto, Procs, fileVars, rwVars
<1>2. ASSUME NEW w \in Writers, Commit(w) PROVE TypeOK'
  <2>1. PICK r \in Recs : id' = [id EXCEPT ![w] = r] /\ applied' = applied \cup {r}
    BY Zenon, <1>2 DEF Commit
  <2> QED BY <1>2, <2>1 DEF Commit, TypeOK, Goto, Procs, fileVars, rwVars
<1>3. ASSUME NEW w \in Writers, AppendOk(w) PROVE TypeOK'
  <2>1. id[w] \in Recs
    BY <1>3 DEF AppendOk, Ids, Active, TypeOK
  <2>2. LogTypes'
    <3>1. CASE buf' = Append(buf, id[w]) /\ UNCHANGED <<log, partial>>
      BY <1>3, <2>1, <3>1, RangeAppend DEF AppendOk, LogTypes, TypeOK
    <3>2. CASE log' = log \o buf /\ buf' = <<id[w]>> /\ partial' \in BOOLEAN
      BY <1>3, <2>1, <3>2, GrowType, RangeSingle DEF AppendOk, LogTypes, TypeOK
    <3> QED BY <1>3, <3>1, <3>2 DEF AppendOk
  <2>3. tail' \in Seq(Recs)
    BY <1>3, <2>1, RangeAppend DEF AppendOk, TypeOK
  <2>4. ReplyTypes' /\ gate' = Nobody
    BY Zenon, <1>3, AppendedType DEF AppendOk, Active
  <2> QED BY <1>3, <2>2, <2>3, <2>4 DEF AppendOk, TypeOK, LogTypes, ReplyTypes
<1>4. ASSUME NEW w \in Writers, AppendFails(w) PROVE TypeOK'
  <2>1. LogTypes' /\ err' \in BOOLEAN
    <3>1. CASE UNCHANGED <<log, buf, partial, err>>
      BY <1>4, <3>1 DEF AppendFails, TypeOK, LogTypes
    <3>2. CASE WriteFails
      BY <1>4, <3>2, WriteFailsType DEF AppendFails
    <3> QED BY <1>4, <3>1, <3>2 DEF AppendFails
  <2>2. ReplyTypes' /\ gate' = Nobody
    BY Zenon, <1>4, AppendedType DEF AppendFails, Active
  <2> QED BY <1>4, <2>1, <2>2 DEF AppendFails, TypeOK, LogTypes, ReplyTypes, rwVars
<1>5. ASSUME NEW w \in Writers, SyncRefused(w) PROVE TypeOK'
  <2>1. ReplyTypes'
    BY Zenon, <1>5, ReplyType DEF SyncRefused, Active
  <2> QED BY <1>5, <2>1 DEF SyncRefused, TypeOK, ReplyTypes, fileVars, rwVars
<1>6. ASSUME NEW p \in Procs, Flush(p) PROVE TypeOK'
  <2>1. LogTypes'
    BY Zenon, <1>6, GrowType, EmptyLog DEF Flush, LogTypes, TypeOK
  <2>2. mu' \in Procs \cup {Nobody} /\ pc' \in [Procs -> {"idle", "gate", "append", "sync", "fsync"}]
    BY <1>6 DEF Flush, Goto, TypeOK
  <2> QED BY <1>6, <2>1, <2>2 DEF Flush, TypeOK, LogTypes, rwVars
<1>7. ASSUME NEW p \in Procs, FlushFails(p) PROVE TypeOK'
  <2>1. LogTypes' /\ err' = TRUE
    BY <1>7, WriteFailsType DEF FlushFails
  <2>2. ReplyTypes'
    BY Zenon, <1>7, SyncDoneType DEF FlushFails, AtSync, Active
  <2> QED BY <1>7, <2>1, <2>2 DEF FlushFails, TypeOK, LogTypes, ReplyTypes, rwVars
<1>8. ASSUME NEW p \in Procs, Fsync(p) PROVE TypeOK'
  <2>1. ReplyTypes'
    BY Zenon, <1>8, SyncDoneType DEF Fsync, Active
  <2>2. Len(log) \in 0 .. Len(log)
    BY DEF TypeOK
  <2> QED BY <1>8, <2>1, <2>2 DEF Fsync, TypeOK, ReplyTypes, rwVars
<1>9. ASSUME NEW p \in Procs, FsyncFails(p) PROVE TypeOK'
  <2>1. ReplyTypes'
    BY Zenon, <1>9, SyncDoneType DEF FsyncFails, Active
  <2> QED BY <1>9, <2>1 DEF FsyncFails, TypeOK, ReplyTypes, fileVars, rwVars
<1>10. CASE BeginRewrite
  BY <1>10, ImageTypes, EmptyLog DEF BeginRewrite, TypeOK, fileVars
<1>11. ASSUME NEW s \in Shards, AOFSnapshot(s) PROVE TypeOK'
  <2>1. {r \in applied : s \in ShardsOf[r]} \in SUBSET Recs
    BY DEF TypeOK
  <2>2. snap' \in Image
    BY <1>11, <2>1 DEF AOFSnapshot, TypeOK, Image
  <2> QED BY <1>11, <2>2 DEF AOFSnapshot, TypeOK, fileVars
<1>12. CASE abortRewrite
  BY Zenon, <1>12, EndRewriteType DEF abortRewrite, TypeOK, fileVars
<1>13. CASE FinishRewrite
  <2>1. old' \subseteq [base : Image, log : Seq(Recs)]
    <3>1. \A n \in synced .. Len(log) : SubSeq(log, 1, n) \in Seq(Recs)
      BY PrefixRange DEF TypeOK
    <3>2. \A n \in synced .. Len(log) : [base |-> base, log |-> SubSeq(log, 1, n)]
                                          \in [base : Image, log : Seq(Recs)]
      BY <3>1 DEF TypeOK
    <3> DEFINE cuts == {[base |-> base, log |-> SubSeq(log, 1, n)] : n \in synced .. Len(log)}
    <3>3. cuts \subseteq [base : Image, log : Seq(Recs)]
      BY <3>2
    <3>4. old' = IF RenameVolatile THEN old \cup cuts ELSE {}
      BY <1>13 DEF FinishRewrite
    <3> HIDE DEF cuts
    <3> QED BY <3>3, <3>4 DEF TypeOK
  <2>2. Len(tail) \in 0 .. Len(tail)
    BY DEF TypeOK
  <2>3. err' \in BOOLEAN /\ buf' \in Seq(Recs)
    BY Zenon, <1>13, EmptyLog DEF FinishRewrite, TypeOK
  <2>4. log' \in Seq(Recs) /\ base' \in Image /\ synced' \in 0 .. Len(log') /\ partial' \in BOOLEAN
    BY Zenon, <1>13, <2>2 DEF FinishRewrite, TypeOK
  <2> QED BY Zenon, <1>13, <2>1, <2>3, <2>4, EndRewriteType DEF FinishRewrite, TypeOK
<1>14. CASE Close
  <2>1. LogTypes'
    <3>1. CASE err
      BY <1>14, <3>1 DEF Close, TypeOK, LogTypes
    <3>2. CASE ~err
      <4>1. log' = log \o buf /\ synced' = Len(log') /\ partial' = FALSE /\ buf' = <<>>
        BY <1>14, <3>2 DEF Close
      <4>2. log' \in Seq(Recs)
        BY <4>1, ConcatProperties DEF TypeOK
      <4>3. synced' \in 0 .. Len(log')
        BY <4>1, <4>2
      <4> QED BY Zenon, <4>1, <4>2, <4>3, EmptyLog DEF LogTypes
    <3> QED BY <3>1, <3>2
  <2> QED BY <1>14, <2>1 DEF Close, TypeOK, LogTypes, rwVars
<1>14a. CASE CloseFails
  <2>1. LogTypes' /\ err' = TRUE
    <3>1. CASE WriteFails
      BY <1>14a, <3>1, WriteFailsType DEF CloseFails
    <3>2. CASE err' = TRUE /\ log' = log \o buf /\ buf' = <<>> /\ partial' = FALSE
      <4>1. log' \in Seq(Recs) /\ Len(log') = Len(log) + Len(buf) /\ synced' = synced
        BY <1>14a, <3>2, ConcatProperties DEF CloseFails, TypeOK
      <4>2. synced' \in 0 .. Len(log')
        BY <4>1 DEF TypeOK
      <4> QED BY Zenon, <3>2, <4>1, <4>2, EmptyLog DEF LogTypes
    <3> QED BY Zenon, <1>14a, <3>1, <3>2 DEF CloseFails
  <2> QED BY <1>14a, <2>1 DEF CloseFails, TypeOK, LogTypes, rwVars
<1>15. ASSUME Die, base' \in Image, log' \in Seq(Recs), synced' \in 0 .. Len(log'),
              partial' \in BOOLEAN, old' \subseteq old
       PROVE  TypeOK'
  BY Zenon, <1>15, ImageTypes, EmptyLog DEF Die, TypeOK
<1>16. CASE ProcessCrash
  BY <1>15, <1>16 DEF ProcessCrash, fileVars, TypeOK
<1>17. CASE MachineCrash
  <2>1. ASSUME NEW n \in synced .. Len(log), log' = SubSeq(log, 1, n), synced' = n
        PROVE  log' \in Seq(Recs) /\ synced' \in 0 .. Len(log')
    <3>1. n \in 0 .. Len(log)
      BY DEF TypeOK
    <3> QED BY <2>1, <3>1, PrefixRange DEF TypeOK
  <2>2. ASSUME NEW f \in old, log' = f.log, synced' = Len(f.log)
        PROVE  log' \in Seq(Recs) /\ synced' \in 0 .. Len(log')
    BY <2>2 DEF TypeOK
  <2>3. \A f \in old : f.base \in Image
    BY DEF TypeOK
  <2> QED BY Zenon, <1>15, <1>17, <2>1, <2>2, <2>3 DEF MachineCrash, TypeOK
<1>18. CASE Replay
  <2>1. InKernel \subseteq Recs
    BY RangeOfSeq DEF InKernel, Whole, TypeOK
  <2> QED BY Zenon, <1>18, <2>1, EmptyLog DEF Replay, TypeOK, rwVars
<1>19. CASE UNCHANGED vars
  BY <1>19 DEF vars, TypeOK, fileVars, rwVars
<1> QED
  BY <1>1, <1>2, <1>3, <1>4, <1>5, <1>6, <1>7, <1>8, <1>9, <1>10, <1>11, <1>12, <1>13, <1>14, <1>14a,
     <1>16, <1>17, <1>18, <1>19 DEF Next, Write, Sync, Rewrite, Lifecycle

-----------------------------------------------------------------------------
(***************************************************************************)
(* Control.                                                                *)
(***************************************************************************)

\* Goroutine p moves on and perhaps acknowledges its own mutation.
Moves(p) ==
    /\ UNCHANGED <<applied, up>>
    /\ \A q \in Procs \ {p} : pc'[q] = pc[q]
    /\ \A w \in Writers \ {p} : id'[w] = id[w]
    /\ p \in Writers /\ pc'[p] \in Active => pc[p] \in Active /\ id'[p] = id[p] /\ acked' = acked
    /\ pc'[p] = "append" => pc[p] = "append"
    /\ \/ acked' = acked
       \/ p \in Writers /\ pc[p] \in Active /\ acked' = acked \cup {id[p]}

\* A move of one goroutine keeps the mutations in flight distinct, unacknowledged and
\* applied.
LEMMA MovesStep ==
  ASSUME Control, NEW p \in Procs, Moves(p)
  PROVE  Ids' /\ Fresh' /\ AckedApplied'
<1> USE DEF Control
<1>0. \A w \in Writers : w \in Procs
  BY DEF Procs
<1>1. Ids'
  <2> SUFFICES ASSUME NEW w \in Writers, pc'[w] \in Active PROVE id'[w] \in applied'
    BY DEF Ids
  <2> QED BY <1>0 DEF Ids, Moves
<1>2. AckedApplied'
  BY DEF AckedApplied, Moves, Ids
<1>3. Fresh'
  <2> SUFFICES ASSUME NEW v \in Writers, pc'[v] = "append"
               PROVE  /\ id'[v] \notin acked'
                      /\ \A w \in Writers \ {v} : pc'[w] \in Active => id'[w] # id'[v]
    BY DEF Fresh
  <2>1. pc[v] = "append" /\ id'[v] = id[v]
    BY <1>0 DEF Moves, Active
  <2>2. id[v] \notin acked /\ \A w \in Writers \ {v} : pc[w] \in Active => id[w] # id[v]
    BY <2>1 DEF Fresh
  <2>3. id[v] \notin acked'
    <3>1. CASE acked' = acked
      BY <2>2, <3>1
    <3>2. CASE p \in Writers /\ pc[p] \in Active /\ acked' = acked \cup {id[p]} /\ acked' # acked
      <4>1. p # v
        BY <3>2 DEF Moves, Active
      <4> QED BY <2>2, <3>2, <4>1
    <3> QED BY <3>1, <3>2 DEF Moves
  <2>4. ASSUME NEW w \in Writers \ {v}, pc'[w] \in Active PROVE id'[w] # id'[v]
    <3>1. pc[w] \in Active /\ id'[w] = id[w]
      BY <1>0, <2>4 DEF Moves
    <3> QED BY <2>1, <2>2, <3>1
  <2> QED BY <2>1, <2>3, <2>4
<1> QED BY <1>1, <1>2, <1>3

\* A reply is a move of its own goroutine, which ends idle.
LEMMA ReplyMoves ==
  ASSUME TypeOK, NEW w \in Writers, NEW ok \in BOOLEAN, pc[w] \in Active, Reply(w, ok),
         UNCHANGED <<applied, up>>
  PROVE  Moves(w) /\ pc'[w] = "idle"
BY DEF TypeOK, Reply, Goto, Moves, Active, Procs

\* The end of Append is a move of its own goroutine.
LEMMA AppendedMoves ==
  ASSUME TypeOK, NEW w \in Writers, NEW ok \in BOOLEAN, pc[w] = "append", Appended(w, ok),
         UNCHANGED <<applied, up>>
  PROVE  Moves(w) /\ pc'[w] \in {"idle", "sync"}
<1>1. CASE Policy = "always"
  BY <1>1 DEF Appended, TypeOK, Moves, Goto, Active, Procs
<1>2. CASE Policy # "always"
  BY <1>2, ReplyMoves DEF Appended, Active
<1> QED BY <1>1, <1>2

\* The end of a sync is a move of its own goroutine, which ends idle.
LEMMA SyncDoneMoves ==
  ASSUME TypeOK, NEW p \in Procs, NEW ok \in BOOLEAN,
         p # Syncer => pc[p] \in Active, SyncDone(p, ok), UNCHANGED <<applied, up>>
  PROVE  Moves(p) /\ pc'[p] = "idle"
<1>1. CASE p = Syncer
  BY <1>1, LogAssumption DEF SyncDone, TypeOK, Moves, Goto, Active, Procs
<1>2. CASE p # Syncer
  BY <1>2, ReplyMoves DEF SyncDone, Procs
<1> QED BY <1>1, <1>2

\* A flush is a move of its own goroutine.
LEMMA FlushMoves ==
  ASSUME TypeOK, NEW p \in Procs, Flush(p)
  PROVE  Moves(p) /\ (pc' = pc \/ (pc'[p] = "fsync" /\ mu' = p))
<1>1. p \in Writers => pc[p] = "sync"
  BY LogAssumption DEF Flush, AtSync, Procs
<1>2. pc' = pc \/ pc' = [pc EXCEPT ![p] = "fsync"]
  BY DEF Flush, Goto
<1>3. \A q \in Procs \ {p} : pc'[q] = pc[q]
  BY <1>2 DEF TypeOK
<1>4. pc' = pc \/ (pc'[p] = "fsync" /\ mu' = p)
  <2>1. pc' = pc \/ (mu' = p /\ pc' = [pc EXCEPT ![p] = "fsync"])
    BY DEF Flush, Goto
  <2>2. CASE pc' = pc
    BY <2>2
  <2>3. CASE mu' = p /\ pc' = [pc EXCEPT ![p] = "fsync"]
    BY <2>3 DEF TypeOK
  <2> QED BY <2>1, <2>2, <2>3
<1>5. UNCHANGED <<applied, up, id, acked>>
  BY DEF Flush
<1>6. /\ p \in Writers /\ pc'[p] \in Active => pc[p] \in Active
      /\ pc'[p] = "append" => pc[p] = "append"
  BY <1>1, <1>4 DEF Active
<1> QED BY <1>3, <1>4, <1>5, <1>6 DEF Moves

\* Every step is a move of one goroutine, a commit, a rewrite step or a lifecycle step.
LEMMA MovesOrNot ==
  ASSUME TypeOK, [Next]_vars
  PROVE  \/ \E p \in Procs : Moves(p)
         \/ \E w \in Writers : Commit(w)
         \/ ProcessCrash \/ MachineCrash \/ Replay \/ Close \/ CloseFails
<1> DEFINE Goal == \E p \in Procs : Moves(p)
<1>0. \A w \in Writers : w \in Procs
  BY DEF Procs
<1>1. ASSUME NEW w \in Writers, Admit(w) PROVE Goal
  <2>1. Moves(w)
    BY <1>1 DEF Admit, Goto, TypeOK, Moves, Active, Procs
  <2> QED BY <1>0, <2>1
<1>2. ASSUME NEW w \in Writers, AppendOk(w) \/ AppendFails(w) PROVE Goal
  <2>1. Moves(w)
    BY Zenon, <1>2, AppendedMoves DEF AppendOk, AppendFails
  <2> QED BY <1>0, <2>1
<1>3. ASSUME NEW w \in Writers, SyncRefused(w) PROVE Goal
  <2>1. Moves(w)
    BY Zenon, <1>3, ReplyMoves DEF SyncRefused, Active
  <2> QED BY <1>0, <2>1
<1>4. ASSUME NEW p \in Procs, Sync(p) PROVE Goal
  <2>1. CASE Flush(p)
    BY <2>1, FlushMoves
  <2>2. CASE FlushFails(p)
    BY Zenon, <2>2, SyncDoneMoves DEF FlushFails, AtSync, Active
  <2>3. CASE Fsync(p) \/ FsyncFails(p)
    BY Zenon, <2>3, SyncDoneMoves DEF Fsync, FsyncFails, Active
  <2> QED BY <1>4, <2>1, <2>2, <2>3 DEF Sync
<1>5. ASSUME UNCHANGED <<applied, up, pc, id, acked>> PROVE Goal
  <2>1. Syncer \in Procs /\ Moves(Syncer)
    BY <1>5, LogAssumption DEF Moves, Procs
  <2> QED BY <2>1
<1>6. CASE Rewrite
  BY <1>5, <1>6 DEF Rewrite, BeginRewrite, AOFSnapshot, abortRewrite, FinishRewrite
<1>7. CASE UNCHANGED vars
  BY <1>5, <1>7 DEF vars
<1> QED BY <1>1, <1>2, <1>3, <1>4, <1>6, <1>7 DEF Next, Write, Lifecycle

\* Every step keeps Control.
LEMMA ControlStep ==
  ASSUME Control, [Next]_vars
  PROVE  Control'
<1> USE DEF Control
<1>0. TypeOK' /\ (\A w \in Writers : w \in Procs) /\ Nobody \notin Procs
  BY LogTypeStep, LogAssumption DEF Procs
<1>1. Ids' /\ Fresh' /\ AckedApplied'
  <2>1. ASSUME NEW p \in Procs, Moves(p) PROVE Ids' /\ Fresh' /\ AckedApplied'
    BY <2>1, MovesStep
  <2>2. ASSUME NEW w \in Writers, Commit(w) PROVE Ids' /\ Fresh' /\ AckedApplied'
    <3>1. PICK r \in Recs : /\ \A q \in applied : q < r
                            /\ id' = [id EXCEPT ![w] = r] /\ applied' = applied \cup {r}
      BY Zenon, <2>2 DEF Commit
    <3>2. r \notin applied
      BY <3>1 DEF Recs
    <3>3. /\ up = "up" /\ acked' = acked /\ up' = up
          /\ id'[w] = r /\ pc'[w] = "append" /\ pc[w] = "gate"
          /\ \A v \in Writers \ {w} : id'[v] = id[v] /\ pc'[v] = pc[v]
      BY <1>0, <2>2, <3>1 DEF Commit, TypeOK, Goto, Stopped
    <3>4. Ids'
      BY <3>1, <3>3 DEF Ids, Active
    <3>5. AckedApplied' /\ acked \subseteq applied
      BY <3>1, <3>3 DEF AckedApplied
    <3>6. Fresh'
      <4> SUFFICES ASSUME NEW v \in Writers, pc'[v] = "append"
                   PROVE  /\ id'[v] \notin acked
                          /\ \A u \in Writers \ {v} : pc'[u] \in Active => id'[u] # id'[v]
        BY <3>3 DEF Fresh
      <4>1. CASE v = w
        BY <3>2, <3>3, <3>5, <4>1 DEF Ids
      <4>2. CASE v # w
        <5>1. pc[v] = "append" /\ id[v] \in applied
          BY <3>3, <4>2 DEF Ids, Active
        <5> QED BY <3>2, <3>3, <4>2, <5>1 DEF Fresh
      <4> QED BY <4>1, <4>2
    <3> QED BY <3>4, <3>5, <3>6
  <2>3. ASSUME Die PROVE Ids' /\ Fresh' /\ AckedApplied'
    <3>1. up' = "down" /\ \A w \in Writers : pc'[w] = "idle"
      BY <1>0, <2>3 DEF Die
    <3> QED BY <3>1 DEF Ids, Fresh, AckedApplied, Active
  <2>4. CASE Replay
    <3>1. \A w \in Writers : pc'[w] = "idle"
      BY <1>0, <2>4 DEF Replay, Stopped
    <3>2. acked' \subseteq applied'
      BY <2>4 DEF Replay
    <3> QED BY <3>1, <3>2 DEF Ids, Fresh, AckedApplied, Active
  <2>5. CASE Close \/ CloseFails
    BY <2>5 DEF Close, CloseFails, Ids, Fresh, AckedApplied
  <2> QED BY Zenon, <2>1, <2>2, <2>3, <2>4, <2>5, MovesOrNot DEF ProcessCrash, MachineCrash
<1>2. Mutex'
  <2> SUFFICES ASSUME NEW q \in Procs, pc'[q] = "fsync" PROVE mu' = q
    BY DEF Mutex
  \* q was waiting already and Log.mu has not changed hands
  <2>a. ASSUME pc[q] = "fsync", mu' = mu PROVE mu' = q
    BY <2>a DEF Mutex
  <2>1. ASSUME NEW w \in Writers, Admit(w) \/ Commit(w) PROVE mu' = q
    BY <2>a, <2>1 DEF Admit, Commit, Goto, TypeOK
  <2>2. ASSUME NEW w \in Writers, AppendOk(w) \/ AppendFails(w) PROVE mu' = q
    <3>1. Moves(w) /\ pc'[w] \in {"idle", "sync"} /\ mu' = mu
      BY Zenon, <2>2, AppendedMoves DEF AppendOk, AppendFails
    <3> QED BY <2>a, <3>1 DEF Moves
  <2>3. ASSUME NEW w \in Writers, SyncRefused(w) PROVE mu' = q
    <3>1. Moves(w) /\ pc'[w] = "idle" /\ mu' = mu
      BY Zenon, <2>3, ReplyMoves DEF SyncRefused, Active
    <3> QED BY <2>a, <3>1 DEF Moves
  <2>4. ASSUME NEW p \in Procs, Flush(p) PROVE mu' = q
    <3>1. mu = Nobody /\ pc[q] # "fsync"
      BY <1>0, <2>4 DEF Flush, Mutex
    <3> QED BY <2>4, <3>1, FlushMoves DEF Moves
  <2>5. ASSUME NEW p \in Procs, FlushFails(p) PROVE mu' = q
    <3>1. Moves(p) /\ pc'[p] = "idle" /\ mu' = mu
      BY Zenon, <2>5, SyncDoneMoves DEF FlushFails, AtSync, Active
    <3> QED BY <2>a, <3>1 DEF Moves
  <2>6. ASSUME NEW p \in Procs, Fsync(p) \/ FsyncFails(p) PROVE mu' = q
    <3>1. Moves(p) /\ pc'[p] = "idle" /\ mu = p
      BY Zenon, <2>6, SyncDoneMoves DEF Fsync, FsyncFails, Active, Mutex
    <3> QED BY <3>1 DEF Moves, Mutex
  <2>7. CASE Rewrite
    BY <2>a, <2>7 DEF Rewrite, BeginRewrite, AOFSnapshot, abortRewrite, FinishRewrite
  <2>8. CASE Lifecycle
    BY <2>a, <2>8 DEF Lifecycle, Close, CloseFails, ProcessCrash, MachineCrash, Die, Replay
  <2>9. CASE UNCHANGED vars
    BY <2>a, <2>9 DEF vars
  <2> QED BY <2>1, <2>2, <2>3, <2>4, <2>5, <2>6, <2>7, <2>8, <2>9 DEF Next, Write, Sync
<1>3. Stopped'
  <2>1. CASE up # "up"
    <3>1. rpc = "idle" /\ \A w \in Writers : pc[w] = "idle"
      BY <2>1 DEF Stopped
    <3>2. ASSUME NEW w \in Writers, Write(w) PROVE Stopped'
      BY ZenonT(30), <2>1, <3>1, <3>2 DEF Write, Admit, Commit, AppendOk, AppendFails, SyncRefused
    <3>3. ASSUME NEW p \in Procs, Sync(p) PROVE Stopped'
      <4>1. p = Syncer /\ pc[p] = "fsync"
        BY Zenon, <2>1, <3>1, <3>3 DEF Sync, Flush, FlushFails, AtSync, Fsync, FsyncFails, Procs
      <4>2. Moves(p) /\ rpc' = rpc
        BY ZenonT(30), <3>3, <4>1, SyncDoneMoves DEF Sync, Flush, FlushFails, AtSync, Fsync, FsyncFails, rwVars
      <4> QED BY Zenon, <1>0, <3>1, <4>1, <4>2, LogAssumption DEF Moves, Stopped
    <3>4. CASE Rewrite
      BY Zenon, <2>1, <3>1, <3>4 DEF Rewrite, BeginRewrite, AOFSnapshot, abortRewrite, FinishRewrite
    <3>5. CASE Lifecycle
      BY <2>1, <3>1, <3>5 DEF Lifecycle, Close, CloseFails, ProcessCrash, MachineCrash, Die, Replay, Stopped
    <3>6. CASE UNCHANGED vars
      BY <3>1, <3>6 DEF vars, rwVars, Stopped
    <3> QED BY <3>2, <3>3, <3>4, <3>5, <3>6 DEF Next
  <2>2. CASE up = "up"
    <3>1. CASE Close \/ CloseFails
      BY <3>1 DEF Close, CloseFails, rwVars, Stopped
    <3>2. CASE Die
      BY <1>0, <3>2 DEF Die, Stopped
    <3>3. CASE Replay
      BY <3>3 DEF Replay, Stopped
    <3>4. CASE up' = up
      BY <2>2, <3>4 DEF Stopped
    <3> QED BY ZenonT(30), <3>1, <3>2, <3>3, <3>4, MovesOrNot DEF ProcessCrash, MachineCrash, Moves, Commit
  <2> QED BY <2>1, <2>2
<1>4. RewritePos'
  <2>1. ASSUME UNCHANGED <<rewriting, rpc, left, snap>> PROVE RewritePos'
    BY <2>1 DEF RewritePos
  <2>2. CASE UNCHANGED rwVars \/ \E w \in Writers : AppendOk(w)
    BY Zenon, <2>1, <2>2 DEF rwVars, AppendOk
  <2>3. CASE BeginRewrite
    BY <2>3 DEF BeginRewrite, RewritePos
  <2>4. ASSUME NEW s \in Shards, AOFSnapshot(s) PROVE RewritePos'
    BY <2>4 DEF AOFSnapshot, RewritePos
  <2>5. CASE EndRewrite
    BY <2>5 DEF EndRewrite, RewritePos
  <2>6. CASE Die
    BY <2>6 DEF Die, RewritePos
  <2>7. ASSUME NEW w \in Writers, Write(w) PROVE UNCHANGED rwVars \/ AppendOk(w)
    BY Zenon, <2>7 DEF Write, Admit, Commit, AppendFails, SyncRefused
  <2>8. ASSUME NEW p \in Procs, Sync(p) PROVE UNCHANGED rwVars
    BY Zenon, <2>8 DEF Sync, Flush, FlushFails, Fsync, FsyncFails
  <2> QED BY Zenon, <2>2, <2>3, <2>4, <2>5, <2>6, <2>7, <2>8
          DEF Next, Rewrite, abortRewrite, FinishRewrite, Lifecycle, Close, CloseFails, ProcessCrash,
              MachineCrash, Replay, vars
<1> QED BY <1>0, <1>1, <1>2, <1>3, <1>4

\* The initial state satisfies Control.
LEMMA ControlInit == Init => Control
<1> SUFFICES ASSUME Init PROVE Control
  OBVIOUS
<1>1. TypeOK
  <2>1. log = <<>> /\ synced = 0 /\ buf = <<>> /\ tail = <<>>
    BY DEF Init
  <2>2. log \in Seq(Recs) /\ buf \in Seq(Recs) /\ tail \in Seq(Recs) /\ synced \in 0 .. Len(log)
    BY <2>1, EmptyLog
  <2>3. /\ pc \in [Procs -> {"idle", "gate", "append", "sync", "fsync"}]
        /\ id \in [Writers -> Recs \cup {0}]
    BY DEF Init
  <2> QED BY Zenon, <2>2, <2>3, ImageTypes DEF Init, TypeOK
<1>2. \A p \in Procs : pc[p] = "idle"
  BY DEF Init
<1>3. Ids /\ Fresh /\ Mutex
  BY <1>2 DEF Ids, Fresh, Mutex, Active, Procs
<1>4. Stopped /\ RewritePos /\ AckedApplied
  BY DEF Init, Stopped, RewritePos, AckedApplied
<1> QED BY <1>1, <1>3, <1>4 DEF Control

\* Who holds Log.mu, which mutations are in flight and where the rewrite stands agree in
\* every state, faults and crashes included.
THEOREM ControlInvariant == Spec => []Control
<1>1. Control /\ [Next]_vars => Control'
  BY ControlStep
<1> QED BY <1>1, ControlInit, PTL DEF Spec

\* The state of the log, of the rewrite and of every writer stays within its type,
\* through faults, crashes and restarts.
THEOREM LogTypeCorrect == Spec => []TypeOK
<1>1. Control => TypeOK
  BY DEF Control
<1> QED BY <1>1, ControlInvariant, PTL

-----------------------------------------------------------------------------
(***************************************************************************)
(* No mutation is forgotten.                                               *)
(***************************************************************************)

\* A goroutine that is not appending leaves the records in flight in flight.
LEMMA InFlightKept ==
  ASSUME NEW p \in Procs, Moves(p), pc[p] # "append", NEW r, InFlight(r)
  PROVE  InFlight(r)'
<1>1. PICK w \in Writers : pc[w] = "append" /\ id[w] = r
  BY DEF InFlight
<1>2. w # p /\ w \in Procs
  BY <1>1 DEF Procs
<1> QED BY <1>1, <1>2 DEF InFlight, Moves

\* File and buffer together reflect what their records and the snapshot reflect.
LEMMA WholeMono ==
  ASSUME NEW b, NEW s \in Seq(Recs), NEW t \in Seq(Recs), Range(s) \subseteq Range(t)
  PROVE  Whole(b, s) \subseteq Whole(b, t)
BY DEF Whole

\* Every step keeps the file complete, and the snapshot and tail of a rewrite complete
\* as well.
LEMMA ForgetStep ==
  ASSUME Control, NothingForgotten, TailComplete, [Next]_vars
  PROVE  NothingForgotten' /\ TailComplete'
<1> DEFINE Goal == NothingForgotten' /\ TailComplete'
<1>a. TypeOK' /\ \A w \in Writers : w \in Procs
  BY LogTypeStep DEF Control, Procs
<1>b. log \in Seq(Recs) /\ buf \in Seq(Recs)
  BY DEF Control, TypeOK
<1>c. log' \in Seq(Recs) /\ buf' \in Seq(Recs)
  BY <1>a DEF TypeOK
<1>d. log \o buf \in Seq(Recs) /\ log' \o buf' \in Seq(Recs)
  BY <1>b, <1>c, ConcatProperties
<1>h. Range(log \o buf) = Range(log) \cup Range(buf)
  BY <1>b, RangeConcatenation
<1>i. Range(log' \o buf') = Range(log') \cup Range(buf')
  BY <1>c, RangeConcatenation
<1>0. /\ TypeOK' /\ \A w \in Writers : w \in Procs
      /\ log \o buf \in Seq(Recs) /\ Range(log \o buf) = Range(log) \cup Range(buf)
  BY <1>a, <1>d, <1>h
<1>1. (log \o buf)' \in Seq(Recs) /\ Range(log' \o buf') = Range(log') \cup Range(buf')
  BY <1>d, <1>i
<1> USE DEF Control
<1>e. ASSUME err' \/ up' # "up" PROVE Goal
  BY Zenon, <1>e DEF NothingForgotten, TailComplete
\* steps that lose neither a record of the file or the buffer nor one in flight
<1>f. ASSUME ~err, up' = up, applied' = applied, base' = base,
             Range(log) \cup Range(buf) \subseteq Range(log') \cup Range(buf'),
             \A r \in applied : InFlight(r) => InFlight(r)'
      PROVE  NothingForgotten'
  <2>1. Whole(base, log \o buf) \subseteq Whole(base', log' \o buf')
    BY ZenonT(30), <1>0, <1>1, <1>f, WholeMono
  <2> QED BY Zenon, <1>f, <2>1 DEF NothingForgotten, InFlight
<1>g. ASSUME ~err, up' = up, applied' = applied, UNCHANGED rwVars,
             \A r \in applied : InFlight(r) => InFlight(r)'
      PROVE  TailComplete'
  BY <1>g DEF TailComplete, InRewrite, rwVars
<1>2. ASSUME NEW w \in Writers, Admit(w) PROVE Goal
  <2>1. Moves(w) /\ pc[w] # "append"
    BY <1>2 DEF Admit, Goto, TypeOK, Moves, Active, Procs
  <2>2. \A r \in applied : InFlight(r) => InFlight(r)'
    BY <1>0, <2>1, InFlightKept
  <2> QED BY <1>f, <1>g, <1>2, <2>2 DEF Admit, fileVars
<1>3. ASSUME NEW w \in Writers, Commit(w) PROVE Goal
  <2>1. PICK r \in Recs : id' = [id EXCEPT ![w] = r] /\ applied' = applied \cup {r}
    BY Zenon, <1>3 DEF Commit
  <2>2. InFlight(r)'
    BY <1>0, <1>3, <2>1 DEF Commit, Goto, TypeOK, InFlight
  <2>3. ASSUME NEW q, InFlight(q) PROVE InFlight(q)'
    <3>1. PICK v \in Writers : pc[v] = "append" /\ id[v] = q
      BY <2>3 DEF InFlight
    <3>2. v # w
      BY <1>3, <3>1 DEF Commit
    <3> QED BY <1>0, <1>3, <2>1, <3>1, <3>2 DEF Commit, Goto, TypeOK, InFlight
  <2>4. UNCHANGED <<up, err, base, log, buf, rewriting, tail, left, snap>>
    BY <1>3 DEF Commit, fileVars, rwVars
  <2>5. NothingForgotten'
    BY <2>1, <2>2, <2>3, <2>4 DEF NothingForgotten, InFlight
  <2>6. TailComplete'
    BY Zenon, <2>1, <2>2, <2>3, <2>4 DEF TailComplete, InRewrite
  <2> QED BY <2>5, <2>6
<1>4. ASSUME NEW w \in Writers, AppendOk(w) PROVE Goal
  <2>1. /\ id[w] \in Recs /\ ~err /\ pc[w] = "append"
        /\ UNCHANGED <<up, applied, base, rewriting, left, snap>>
    BY <1>4 DEF AppendOk, Ids, Active, TypeOK
  <2>2. Range(log') \cup Range(buf') = Range(log) \cup Range(buf) \cup {id[w]}
    <3>1. CASE buf' = Append(buf, id[w]) /\ log' = log
      BY <2>1, <3>1, RangeAppend DEF TypeOK
    <3>2. CASE log' = log \o buf /\ buf' = <<id[w]>>
      BY <1>0, <2>1, <3>2, RangeSingle
    <3> QED BY <1>4, <3>1, <3>2 DEF AppendOk
  <2>3. rewriting => Range(tail') = Range(tail) \cup {id[w]}
    BY <1>4, <2>1, RangeAppend DEF AppendOk, TypeOK
  <2>4. ASSUME NEW r, InFlight(r), r # id[w] PROVE InFlight(r)'
    <3>1. PICK v \in Writers : pc[v] = "append" /\ id[v] = r
      BY <2>4 DEF InFlight
    <3>2. v # w /\ Moves(w)
      BY ZenonT(30), <1>4, <2>4, <3>1, AppendedMoves DEF AppendOk
    <3> QED BY <1>0, <3>1, <3>2 DEF Moves, InFlight
  <2>5. NothingForgotten'
    <3>1. Whole(base, log \o buf) \cup {id[w]} \subseteq Whole(base', log' \o buf')
      BY <1>0, <1>1, <2>1, <2>2 DEF Whole
    <3> QED BY <2>1, <2>4, <3>1 DEF NothingForgotten, InFlight
  <2>6. TailComplete'
    BY <2>1, <2>3, <2>4 DEF TailComplete, InRewrite
  <2> QED BY <2>5, <2>6
<1>5. ASSUME NEW w \in Writers, AppendFails(w) \/ SyncRefused(w) PROVE Goal
  <2>1. err'
    <3>1. CASE AppendFails(w)
      BY <3>1 DEF AppendFails, WriteFails
    <3>2. CASE SyncRefused(w)
      BY <3>2 DEF SyncRefused
    <3> QED BY <1>5, <3>1, <3>2
  <2> QED BY <1>e, <2>1
<1>6. ASSUME NEW p \in Procs, Flush(p) PROVE Goal
  <2>1. Moves(p) /\ pc[p] # "append"
    BY Zenon, <1>6, FlushMoves DEF Flush, AtSync
  <2>2. \A r \in applied : InFlight(r) => InFlight(r)'
    BY <2>1, InFlightKept
  <2>3. Range(log') \cup Range(buf') = Range(log) \cup Range(buf)
    BY <1>0, <1>6, EmptyLog DEF Flush
  <2> QED BY <1>f, <1>g, <1>6, <2>2, <2>3 DEF Flush
<1>7. ASSUME NEW p \in Procs, FlushFails(p) \/ FsyncFails(p) PROVE Goal
  <2>1. err'
    BY Zenon, <1>7 DEF FlushFails, FsyncFails, WriteFails
  <2> QED BY <1>e, <2>1
<1>8. ASSUME NEW p \in Procs, Fsync(p) PROVE Goal
  <2>1. Moves(p) /\ pc[p] # "append"
    BY Zenon, <1>8, SyncDoneMoves DEF Fsync, Active
  <2>2. \A r \in applied : InFlight(r) => InFlight(r)'
    BY <2>1, InFlightKept
  <2>3. CASE err
    BY <1>e, <1>8, <2>3 DEF Fsync
  <2>4. CASE ~err
    BY <1>f, <1>g, <1>8, <2>2, <2>4 DEF Fsync
  <2> QED BY <2>3, <2>4
<1>9. CASE BeginRewrite
  <2>1. NothingForgotten'
    BY <1>9 DEF BeginRewrite, fileVars, NothingForgotten
  <2>2. TailComplete'
    <3>1. \A r \in applied : ShardsOf[r] \subseteq Shards
      BY LogAssumption DEF TypeOK
    <3> QED BY <1>9, <3>1 DEF BeginRewrite, TailComplete, InRewrite
  <2> QED BY <2>1, <2>2
<1>10. ASSUME NEW s \in Shards, AOFSnapshot(s) PROVE Goal
  <2>1. NothingForgotten'
    BY <1>10 DEF AOFSnapshot, fileVars, NothingForgotten
  <2>2. /\ snap'[s] = {r \in applied : s \in ShardsOf[r]} /\ left' = left \ {s}
        /\ \A q \in Shards \ {s} : snap'[q] = snap[q]
    BY <1>10 DEF AOFSnapshot, TypeOK, Image
  <2>3. \A r \in applied : ShardsOf[r] \subseteq Shards
    BY LogAssumption DEF TypeOK
  <2>4. \A r \in applied : InRewrite(r) => InRewrite(r)'
    BY Zenon, <1>10, <2>2, <2>3 DEF InRewrite, AOFSnapshot
  <2>5. TailComplete'
    BY ZenonT(30), <1>10, <2>4 DEF AOFSnapshot, TailComplete, InFlight
  <2> QED BY <2>1, <2>5
<1>11. CASE abortRewrite
  BY Zenon, <1>11 DEF abortRewrite, EndRewrite, fileVars, NothingForgotten, TailComplete
<1>12. CASE FinishRewrite
  <2>1. CASE err'
    BY <1>e, <2>1
  <2>2. CASE ~err'
    <3>1. /\ base' = snap /\ log' = tail /\ buf' = <<>> /\ left = {} /\ rewriting /\ ~err
          /\ UNCHANGED <<up, applied, pc, id>> /\ rewriting' = FALSE
      BY ZenonT(30), <1>12, <2>2 DEF FinishRewrite, EndRewrite, RewritePos
    <3>2. \A r \in applied : InRewrite(r) => r \in Whole(base', log' \o buf')
      BY ZenonT(30), <1>1, <3>1 DEF InRewrite, Whole, TypeOK
    <3> QED BY ZenonT(30), <3>1, <3>2 DEF NothingForgotten, TailComplete, InFlight
  <2> QED BY <2>1, <2>2
<1>13. CASE Close \/ CloseFails \/ ProcessCrash \/ MachineCrash
  BY <1>e, <1>13 DEF Close, CloseFails, ProcessCrash, MachineCrash, Die
<1>14. CASE Replay
  <2>1. rewriting' = FALSE
    BY <1>14 DEF Replay, Stopped, RewritePos, rwVars, TypeOK
  <2>2. Whole(base', log' \o buf') = InKernel
    BY Zenon, <1>1, <1>14, EmptyLog DEF Replay, InKernel, Whole
  <2> QED BY ZenonT(30), <1>14, <2>1, <2>2 DEF Replay, NothingForgotten, TailComplete
<1>15. CASE UNCHANGED vars
  BY Zenon, <1>15 DEF vars, fileVars, rwVars, NothingForgotten, TailComplete, InRewrite, InFlight
<1> QED
  BY <1>2, <1>3, <1>4, <1>5, <1>6, <1>7, <1>8, <1>9, <1>10, <1>11, <1>12, <1>13, <1>14, <1>15
  DEF Next, Write, Sync, Rewrite, Lifecycle

\* As long as the log has not failed, every mutation in memory is in the file, in the
\* buffer or about to be appended: a rewrite that swaps file and buffer forgets none of
\* the mutations that race with it.
THEOREM NoneForgotten == Spec => []NothingForgotten
<1>1. Init => NothingForgotten /\ TailComplete
  BY DEF Init, NothingForgotten, TailComplete
<1>2. Control /\ NothingForgotten /\ TailComplete /\ [Next]_vars => NothingForgotten' /\ TailComplete'
  BY ForgetStep
<1> QED BY <1>1, <1>2, ControlInvariant, PTL DEF Spec

-----------------------------------------------------------------------------
(***************************************************************************)
(* What the disk holds, when a machine crash cannot undo a rename.         *)
(***************************************************************************)

\* Apart from a rewrite that installs its file, a step leaves the snapshot alone and
\* takes nothing off the disk: the file grows, is synced, or is cut after what is synced.
LEMMA OnDiskGrows ==
  ASSUME Control, old = {}, [Next]_vars
  PROVE  FinishRewrite \/ (base' = base /\ OnDisk \subseteq OnDisk')
<1> DEFINE Goal == base' = base /\ OnDisk \subseteq OnDisk'
<1> USE DEF Control
<1>1. ASSUME base' = base, log' = log, synced' = synced PROVE Goal
  BY <1>1 DEF OnDisk
<1>2. ASSUME base' = base, NEW m \in Seq(Recs), log' = log \o m, synced' \in synced .. Len(log')
      PROVE  Goal
  <2>1. Range(SubSeq(log, 1, synced)) \subseteq Range(SubSeq(log', 1, synced'))
    BY <1>2, PrefixKept DEF TypeOK
  <2> QED BY <1>2, <2>1 DEF OnDisk, Whole
<1>3. ASSUME base' = base, NEW m \in Seq(Recs), log' = log \o m, synced' = synced PROVE Goal
  <2>1. synced' \in synced .. Len(log')
    BY <1>3, GrowType DEF TypeOK
  <2> QED BY ZenonT(30), <1>2, <1>3, <2>1
<1>4. ASSUME NEW w \in Writers, Write(w) PROVE Goal
  <2>1. CASE Admit(w) \/ Commit(w) \/ SyncRefused(w)
    BY Zenon, <1>1, <2>1 DEF Admit, Commit, SyncRefused, fileVars
  <2>2. CASE AppendOk(w)
    BY Zenon, <1>1, <1>3, <2>2 DEF AppendOk, TypeOK
  <2>3. CASE AppendFails(w)
    <3>1. base' = base /\ synced' = synced
      BY <2>3 DEF AppendFails
    <3>2. CASE UNCHANGED <<log, buf, partial, err>>
      BY <1>1, <3>1, <3>2
    <3>3. CASE WriteFails
      BY <1>3, <3>1, <3>3, WriteFailsType
    <3> QED BY <2>3, <3>2, <3>3 DEF AppendFails
  <2> QED BY <1>4, <2>1, <2>2, <2>3 DEF Write
<1>5. ASSUME NEW p \in Procs, Sync(p) PROVE Goal
  <2>1. CASE Flush(p)
    BY Zenon, <1>3, <2>1 DEF Flush, TypeOK
  <2>2. CASE FlushFails(p)
    BY <1>3, <2>2, WriteFailsType DEF FlushFails
  <2>3. CASE Fsync(p)
    <3>1. log' = log \o <<>> /\ <<>> \in Seq(Recs) /\ base' = base /\ synced' = Len(log')
      BY <2>3, ConcatEmptySeq, EmptyLog DEF Fsync, TypeOK
    <3>2. synced' \in synced .. Len(log')
      BY <2>3 DEF Fsync, TypeOK
    <3> QED BY Zenon, <1>2, <3>1, <3>2
  <2>4. CASE FsyncFails(p)
    BY <1>1, <2>4 DEF FsyncFails, fileVars
  <2> QED BY <1>5, <2>1, <2>2, <2>3, <2>4 DEF Sync
<1>6. CASE BeginRewrite \/ abortRewrite \/ \E s \in Shards : AOFSnapshot(s)
  BY <1>1, <1>6 DEF BeginRewrite, abortRewrite, AOFSnapshot, fileVars
<1>7. CASE Close
  <2>1. CASE err
    BY <1>1, <1>7, <2>1 DEF Close
  <2>2. CASE ~err
    <3>1. log' = log \o buf /\ synced' = Len(log') /\ base' = base
      BY <1>7, <2>2 DEF Close
    <3>2. Len(log') = Len(log) + Len(buf) /\ Len(log') \in Nat
      BY <3>1, ConcatProperties DEF TypeOK
    <3>3. synced' \in synced .. Len(log')
      BY <3>1, <3>2 DEF TypeOK
    <3> QED BY <1>2, <3>1, <3>3 DEF TypeOK
  <2> QED BY <2>1, <2>2
<1>7a. CASE CloseFails
  <2>1. base' = base /\ synced' = synced
    BY <1>7a DEF CloseFails
  <2>2. CASE WriteFails
    BY <1>3, <2>1, <2>2, WriteFailsType
  <2>3. CASE log' = log \o buf
    BY Zenon, <1>3, <2>1, <2>3 DEF TypeOK
  <2> QED BY <1>7a, <2>2, <2>3 DEF CloseFails
<1>8. CASE ProcessCrash
  BY <1>1, <1>8 DEF ProcessCrash, fileVars
<1>9. CASE MachineCrash
  <2>1. PICK n \in synced .. Len(log) : log' = SubSeq(log, 1, n) /\ synced' = n /\ base' = base
    BY <1>9 DEF MachineCrash
  <2>2. Range(SubSeq(log, 1, synced)) \subseteq Range(SubSeq(log', 1, synced'))
    BY Zenon, <2>1, PrefixCut DEF TypeOK
  <2> QED BY <2>1, <2>2 DEF OnDisk, Whole
<1>10. CASE Replay
  BY <1>1, <1>10 DEF Replay
<1>11. CASE UNCHANGED vars
  BY <1>1, <1>11 DEF vars, fileVars
<1> QED
  BY <1>4, <1>5, <1>6, <1>7, <1>7a, <1>8, <1>9, <1>10, <1>11 DEF Next, Rewrite, Lifecycle

\* When a rename is durable, no step leaves an older file to come back.
LEMMA OldStep ==
  ASSUME ~RenameVolatile, old = {}, [Next]_vars
  PROVE  old' = {}
<1>1. ASSUME NEW w \in Writers, Write(w) PROVE old' = {}
  BY Zenon, <1>1 DEF Write, Admit, Commit, AppendOk, AppendFails, SyncRefused, fileVars
<1>2. ASSUME NEW p \in Procs, Sync(p) PROVE old' = {}
  BY Zenon, <1>2 DEF Sync, Flush, FlushFails, Fsync, FsyncFails, fileVars
<1>3. CASE Rewrite
  BY <1>3 DEF Rewrite, BeginRewrite, AOFSnapshot, abortRewrite, FinishRewrite, fileVars
<1>4. CASE Lifecycle \/ UNCHANGED vars
  BY <1>4 DEF Lifecycle, Close, CloseFails, ProcessCrash, MachineCrash, Replay, vars, fileVars
<1> QED BY <1>1, <1>2, <1>3, <1>4 DEF Next

\* Every step keeps a batch that a snapshot saw in one shard on its way into the whole
\* rewrite.
LEMMA SnapStep ==
  ASSUME Control, TailComplete, SnapWhole, [Next]_vars
  PROVE  SnapWhole'
<1> USE DEF Control
<1>0. TypeOK' /\ \A s \in Shards : snap[s] \subseteq Recs
  BY ZenonT(30), LogTypeStep DEF TypeOK, Image
<1>1. ASSUME snap' = NoImage PROVE SnapWhole'
  BY <1>1 DEF SnapWhole, NoImage
<1>2. ASSUME snap' = snap, left' = left, applied \subseteq applied', Range(tail) \subseteq Range(tail'),
             err => err'
      PROVE  SnapWhole'
  BY <1>2 DEF SnapWhole, InRewrite
<1>3. ASSUME NEW w \in Writers, Write(w) PROVE SnapWhole'
  <2>1. CASE Admit(w) \/ Commit(w) \/ SyncRefused(w)
    BY ZenonT(30), <1>2, <2>1 DEF Admit, Commit, SyncRefused, rwVars
  <2>2. CASE AppendOk(w)
    <3>1. id[w] \in Recs
      BY <2>2 DEF AppendOk, Ids, Active, TypeOK
    <3>2. Range(tail) \subseteq Range(tail')
      BY <2>2, <3>1, RangeAppend DEF AppendOk, TypeOK
    <3> QED BY ZenonT(30), <1>2, <2>2, <3>2 DEF AppendOk
  <2>3. CASE AppendFails(w)
    BY <1>2, <2>3 DEF AppendFails, WriteFails, rwVars
  <2> QED BY <1>3, <2>1, <2>2, <2>3 DEF Write
<1>4. ASSUME NEW p \in Procs, Sync(p) PROVE SnapWhole'
  BY ZenonT(30), <1>2, <1>4 DEF Sync, Flush, FlushFails, WriteFails, Fsync, FsyncFails, rwVars
<1>5. ASSUME NEW s \in Shards, AOFSnapshot(s) PROVE SnapWhole'
  <2>1. /\ snap'[s] = {r \in applied : s \in ShardsOf[r]} /\ left' = left \ {s}
        /\ \A q \in Shards \ {s} : snap'[q] = snap[q]
        /\ UNCHANGED <<applied, tail, err>> /\ rpc = "snapshot" /\ ~ShardLocked(s)
    BY Zenon, <1>5 DEF AOFSnapshot, TypeOK, Image
  <2>2. \A r \in applied : ShardsOf[r] \subseteq Shards
    BY LogAssumption DEF TypeOK
  <2>3. \A r \in applied : InRewrite(r) => InRewrite(r)'
    BY ZenonT(30), <1>5, <2>1, <2>2 DEF InRewrite
  <2>4. up = "up" /\ rewriting
    BY <2>1 DEF Stopped, RewritePos
  <2> SUFFICES ASSUME NEW q \in Shards, NEW r \in snap'[q]
               PROVE  /\ r \in applied /\ q \in ShardsOf[r]
                      /\ r \in Batch => err \/ InRewrite(r)'
    BY ZenonT(30), <2>1 DEF SnapWhole
  <2>5. CASE q = s
    <3>1. r \in applied /\ s \in ShardsOf[r]
      BY <2>1, <2>5
    <3>2. r \in Batch => ~InFlight(r)
      BY <2>1, <3>1 DEF ShardLocked, InFlight
    <3>3. r \in Batch => err \/ InRewrite(r)
      BY ZenonT(30), <2>4, <3>1, <3>2 DEF TailComplete
    <3> QED BY <2>3, <2>5, <3>1, <3>3
  <2>6. CASE q # s
    BY <2>1, <2>3, <2>6 DEF SnapWhole
  <2> QED BY <2>5, <2>6
<1>6. CASE BeginRewrite \/ abortRewrite \/ FinishRewrite
  BY ZenonT(30), <1>1, <1>6 DEF BeginRewrite, abortRewrite, FinishRewrite, EndRewrite
<1>7. CASE Close \/ CloseFails
  BY <1>2, <1>7 DEF Close, CloseFails, WriteFails, rwVars
<1>8. CASE ProcessCrash \/ MachineCrash
  BY <1>1, <1>8 DEF ProcessCrash, MachineCrash, Die
<1>9. CASE Replay
  BY <1>1, <1>9 DEF Replay, Stopped, RewritePos, rwVars
<1>10. CASE UNCHANGED vars
  BY <1>2, <1>10 DEF vars, rwVars
<1> QED
  BY <1>3, <1>4, <1>5, <1>6, <1>7, <1>8, <1>9, <1>10 DEF Next, Rewrite, Lifecycle

\* Every step keeps a record that is being fsynced in the file.
LEMMA FlushedStep ==
  ASSUME Control, NothingForgotten, Flushed, [Next]_vars
  PROVE  Flushed'
<1> USE DEF Control
<1>0. TypeOK' /\ (\A w \in Writers : w \in Procs) /\ Nobody \notin Procs
  BY LogTypeStep, LogAssumption DEF Procs
<1> SUFFICES ASSUME NEW v \in Writers, pc'[v] = "fsync" PROVE id'[v] \in InKernel'
  BY DEF Flushed
<1>1. pc[v] = "fsync" => mu = v /\ mu # Nobody
  BY <1>0 DEF Mutex
<1>2. ASSUME pc[v] = "fsync", id'[v] = id[v], base' = base, log' = log PROVE id'[v] \in InKernel'
  BY <1>2 DEF Flushed, InKernel
<1>3. ASSUME NEW w \in Writers, Write(w) PROVE id'[v] \in InKernel'
  <2>1. CASE Admit(w)
    BY <1>1, <2>1, <1>0 DEF Admit, Goto, TypeOK
  <2>2. CASE Commit(w)
    BY ZenonT(30), <1>0, <1>2, <2>2 DEF Commit, Goto, TypeOK, fileVars
  <2>3. CASE AppendOk(w) \/ AppendFails(w)
    <3>1. Moves(w) /\ pc'[w] # "fsync" /\ mu = Nobody
      BY ZenonT(30), <2>3, AppendedMoves DEF AppendOk, AppendFails
    <3> QED BY ZenonT(30), <1>0, <1>1, <3>1 DEF Moves
  <2>4. CASE SyncRefused(w)
    <3>1. Moves(w) /\ pc'[w] # "fsync" /\ mu = Nobody
      BY ZenonT(30), <2>4, ReplyMoves DEF SyncRefused, Active
    <3> QED BY ZenonT(30), <1>0, <1>1, <3>1 DEF Moves
  <2> QED BY ZenonT(30), <1>3, <2>1, <2>2, <2>3, <2>4 DEF Write
<1>4. ASSUME NEW p \in Procs, Flush(p) PROVE id'[v] \in InKernel'
  <2>1. Moves(p) /\ mu = Nobody /\ ~err
    BY Zenon, <1>4, FlushMoves DEF Flush
  <2>2. p = v /\ pc[v] = "sync"
    BY ZenonT(30), <1>0, <1>1, <1>4, <2>1, LogAssumption DEF Moves, Flush, AtSync
  <2>3. up = "up" /\ id[v] \in applied
    BY <2>2 DEF Stopped, Ids, Active
  <2>4. \A w \in Writers : pc[w] = "append" => id[w] # id[v]
    BY <2>2 DEF Fresh, Active
  <2>5. id[v] \in Whole(base, log \o buf)
    BY <2>1, <2>3, <2>4 DEF NothingForgotten
  <2> QED BY ZenonT(30), <1>4, <2>5 DEF Flush, InKernel
<1>5. ASSUME NEW p \in Procs, FlushFails(p) PROVE id'[v] \in InKernel'
  <2>1. Moves(p) /\ pc'[p] = "idle" /\ mu = Nobody
    BY ZenonT(30), <1>5, SyncDoneMoves DEF FlushFails, AtSync, Active
  <2> QED BY <1>0, <1>1, <2>1 DEF Moves
<1>6. ASSUME NEW p \in Procs, Fsync(p) \/ FsyncFails(p) PROVE id'[v] \in InKernel'
  <2>1. Moves(p) /\ pc'[p] = "idle" /\ mu = p
    BY ZenonT(30), <1>6, SyncDoneMoves DEF Fsync, FsyncFails, Active, Mutex
  <2> QED BY <1>0, <1>1, <2>1 DEF Moves
<1>7. CASE Rewrite
  BY Zenon, <1>1, <1>2, <1>7 DEF Rewrite, BeginRewrite, AOFSnapshot, abortRewrite, FinishRewrite, fileVars
<1>8. CASE Lifecycle
  BY <1>0, <1>2, <1>8 DEF Lifecycle, Close, CloseFails, ProcessCrash, MachineCrash, Die, Replay, Stopped
<1>9. CASE UNCHANGED vars
  BY Zenon, <1>2, <1>9 DEF vars, fileVars
<1> QED BY Zenon, <1>3, <1>4, <1>5, <1>6, <1>7, <1>8, <1>9 DEF Next, Sync

\* The file that FinishRewrite installs is on disk as a whole.
LEMMA InstalledOnDisk ==
  ASSUME TypeOK, FinishRewrite
  PROVE  OnDisk' = Whole(snap, tail)
<1>1. base' = snap /\ log' = tail /\ synced' = Len(tail)
  BY Zenon DEF FinishRewrite
<1> QED BY Zenon, <1>1, SubSeqFull DEF OnDisk, TypeOK

\* Under "always", every step keeps the acknowledged mutations on disk.
LEMMA AckedStep ==
  ASSUME Control, TailComplete, Flushed, AckedOnDisk, old = {}, [Next]_vars
  PROVE  AckedOnDisk'
<1> USE DEF Control
<1> SUFFICES ASSUME Policy = "always" PROVE acked' \subseteq OnDisk'
  BY DEF AckedOnDisk
<1>0. \A w \in Writers : w \in Procs
  BY DEF Procs
<1>1. CASE FinishRewrite
  <2>1. rpc = "install" /\ up = "up" /\ ~err /\ rewriting /\ left = {} /\ acked' = acked
    BY <1>1 DEF FinishRewrite, Stopped, RewritePos
  <2>2. ASSUME NEW r \in acked PROVE r \in Whole(snap, tail)
    <3>1. r \in applied /\ ~InFlight(r)
      BY <2>1, <2>2 DEF AckedApplied, Fresh, InFlight
    <3>2. InRewrite(r)
      BY <2>1, <3>1 DEF TailComplete
    <3> QED BY ZenonT(30), <2>1, <3>1, <3>2 DEF InRewrite, Whole, TypeOK
  <2> QED BY <1>1, <2>1, <2>2, InstalledOnDisk
<1>2. CASE ~FinishRewrite /\ acked' \subseteq acked
  BY <1>2, OnDiskGrows DEF AckedOnDisk
<1>3. ASSUME NEW p \in Procs, Fsync(p), p # Syncer PROVE acked' \subseteq OnDisk'
  <2>1. p \in Writers /\ acked' = acked \cup {id[p]} /\ ~FinishRewrite /\ pc[p] = "fsync"
    <3>1. p \in Writers /\ Reply(p, TRUE) /\ pc[p] = "fsync" /\ mu = p
      BY Zenon, <1>3 DEF Fsync, SyncDone, Procs, Mutex
    <3> QED BY Zenon, <1>0, <3>1, LogAssumption DEF Reply, FinishRewrite
  <2>2. base' = base /\ log' = log /\ synced' = Len(log)
    BY <1>3 DEF Fsync
  <2>3. OnDisk' = InKernel
    BY ZenonT(30), <2>2, SubSeqFull DEF OnDisk, InKernel, TypeOK
  <2>4. id[p] \in InKernel
    BY <2>1 DEF Flushed
  <2> QED BY <2>1, <2>3, <2>4, OnDiskGrows DEF AckedOnDisk
<1>4. ASSUME NEW w \in Writers, Write(w) PROVE acked' = acked
  <2>1. CASE Admit(w) \/ Commit(w)
    BY <2>1 DEF Admit, Commit
  <2>2. CASE AppendOk(w) \/ AppendFails(w)
    BY Zenon, <2>2 DEF AppendOk, AppendFails, Appended
  <2>3. CASE SyncRefused(w)
    BY <2>3 DEF SyncRefused, Reply
  <2> QED BY <1>4, <2>1, <2>2, <2>3 DEF Write
<1>5. ASSUME NEW p \in Procs, Sync(p), ~(Fsync(p) /\ p # Syncer) PROVE acked' = acked
  <2>1. CASE Flush(p)
    BY <2>1 DEF Flush
  <2>2. CASE FlushFails(p) \/ FsyncFails(p)
    BY <2>2 DEF FlushFails, FsyncFails, SyncDone, Reply
  <2>3. CASE Fsync(p) /\ p = Syncer
    BY <2>3 DEF Fsync, SyncDone
  <2> QED BY <1>5, <2>1, <2>2, <2>3 DEF Sync
<1>6. CASE Rewrite
  <2>1. acked' = acked
    BY Zenon, <1>6 DEF Rewrite, BeginRewrite, AOFSnapshot, abortRewrite, FinishRewrite
  <2> QED BY <1>1, <1>2, <2>1
<1>7. CASE Lifecycle \/ UNCHANGED vars
  <2>1. acked' \subseteq acked
    BY Zenon, <1>7 DEF Lifecycle, Close, CloseFails, ProcessCrash, MachineCrash, Die, Replay, vars
  <2> QED BY <1>1, <1>2, <2>1
<1> QED BY <1>1, <1>2, <1>3, <1>4, <1>5, <1>6, <1>7 DEF Next

\* Every step keeps the batches of the file on disk whole.
LEMMA BatchStep ==
  ASSUME Control, SnapWhole, BatchesWhole, old = {}, [Next]_vars
  PROVE  BatchesWhole'
<1> USE DEF Control
<1>1. CASE FinishRewrite
  <2>1. base' = snap /\ left = {} /\ ~err
    BY ZenonT(30), <1>1 DEF FinishRewrite, RewritePos
  <2>2. ASSUME NEW s \in Shards, NEW r \in snap[s] PROVE r \in Whole(snap, tail)
    <3>1. r \in Recs /\ s \in ShardsOf[r] /\ (r \in Batch => InRewrite(r))
      BY ZenonT(30), <2>1 DEF SnapWhole, TypeOK
    <3>2. CASE r \in Batch
      BY <2>1, <3>1, <3>2 DEF InRewrite, Whole
    <3>3. CASE r \notin Batch
      <4>1. ShardsOf[r] = {s}
        BY <3>1, <3>3, LogAssumption
      <4> QED BY <3>1, <4>1 DEF Whole
    <3> QED BY <3>2, <3>3
  <2> QED BY <1>1, <2>1, <2>2, InstalledOnDisk DEF BatchesWhole
<1>2. CASE base' = base /\ OnDisk \subseteq OnDisk'
  BY Zenon, <1>2 DEF BatchesWhole
<1> QED BY <1>1, <1>2, OnDiskGrows

Disk == Control /\ Data /\ old = {}

\* The initial state satisfies Disk.
LEMMA DiskInit == Init => Disk
<1> SUFFICES ASSUME Init PROVE Disk
  OBVIOUS
<1>1. Control /\ old = {}
  BY ControlInit DEF Init
<1>2. NothingForgotten /\ TailComplete /\ AckedOnDisk
  BY DEF Init, NothingForgotten, TailComplete, AckedOnDisk
<1>3. SnapWhole /\ BatchesWhole
  BY DEF Init, SnapWhole, BatchesWhole, NoImage
<1>4. Flushed
  BY DEF Init, Flushed, Procs
<1> QED BY <1>1, <1>2, <1>3, <1>4 DEF Disk, Data

\* Every step keeps Disk.
LEMMA DiskStep ==
  ASSUME ~RenameVolatile, Disk, [Next]_vars
  PROVE  Disk'
BY ControlStep, ForgetStep, SnapStep, FlushedStep, AckedStep, BatchStep, OldStep DEF Disk, Data

\* The inductive invariant behind AckedAreDurable and BatchesAreWhole.
THEOREM DiskInvariant == ASSUME ~RenameVolatile PROVE Spec => []Disk
<1>1. Disk /\ [Next]_vars => Disk'
  BY DiskStep
<1> QED BY <1>1, DiskInit, PTL DEF Spec

\* Under "always", and where a rename survives a machine crash, no write acknowledged
\* with the log in good order is lost: SyncIfAlways syncs the file that holds the record,
\* and FinishRewrite installs no file without it.
THEOREM AckedAreDurable == ASSUME ~RenameVolatile PROVE Spec => []AckedSurvive
<1>1. Disk => AckedSurvive
  <2> SUFFICES ASSUME Disk, Policy = "always", NEW f \in CrashFiles
               PROVE  acked \subseteq Whole(f.base, f.log)
    BY DEF AckedSurvive
  <2>1. PICK n \in synced .. Len(log) : f = [base |-> base, log |-> SubSeq(log, 1, n)]
    BY DEF CrashFiles, Disk
  <2>2. f.base = base /\ f.log = SubSeq(log, 1, n)
    BY <2>1
  <2>3. Range(SubSeq(log, 1, synced)) \subseteq Range(SubSeq(log, 1, n))
    BY PrefixCut DEF Disk, Control, TypeOK
  <2>4. OnDisk \subseteq Whole(base, SubSeq(log, 1, n))
    BY <2>3 DEF OnDisk, Whole
  <2> QED BY <2>2, <2>4 DEF Disk, Data, AckedOnDisk
<1> QED BY <1>1, DiskInvariant, PTL

\* The file on disk never reflects an MSET or a DEL in one of its shards only, although
\* AOFSnapshot reads shard by shard without the gate: a batch keeps its shards locked
\* until its record is mirrored into the tail.
THEOREM BatchesAreWhole == ASSUME ~RenameVolatile PROVE Spec => []BatchesWhole
<1>1. Disk => BatchesWhole
  BY DEF Disk, Data
<1> QED BY <1>1, DiskInvariant, PTL

-----------------------------------------------------------------------------
(***************************************************************************)
(* An orderly shutdown.                                                    *)
(***************************************************************************)

\* In a process that is not up, nothing but the end of a sync already under way and
\* the next start can happen.
LEMMA OnlySyncEnds ==
  ASSUME Control, up # "up", [Next]_vars
  PROVE  Fsync(Syncer) \/ FsyncFails(Syncer) \/ Replay \/ UNCHANGED vars
<1> USE DEF Control
<1>1. rpc = "idle" /\ \A w \in Writers : pc[w] = "idle"
  BY DEF Stopped
<1>2. ASSUME NEW w \in Writers PROVE ~Write(w) /\ ~Sync(w)
  <2>1. w # Syncer /\ pc[w] = "idle"
    BY <1>1, LogAssumption
  <2> QED BY Zenon, <2>1 DEF Write, Admit, Commit, AppendOk, AppendFails, SyncRefused,
                      Sync, Flush, FlushFails, Fsync, FsyncFails, AtSync
<1>3. ~Flush(Syncer) /\ ~FlushFails(Syncer)
  BY Zenon DEF Flush, FlushFails, AtSync
<1>4. ~Rewrite
  BY Zenon, <1>1 DEF Rewrite, BeginRewrite, AOFSnapshot, abortRewrite, FinishRewrite
<1>5. ~Close /\ ~CloseFails /\ ~ProcessCrash /\ ~MachineCrash
  BY DEF Close, CloseFails, ProcessCrash, MachineCrash, Die
<1> QED BY <1>2, <1>3, <1>4, <1>5 DEF Next, Sync, Lifecycle, Procs

\* Every step keeps what a shutdown has brought to the disk there.
LEMMA ShutdownStep ==
  ASSUME Control, NothingForgotten, ShutdownKeepsAll, [Next]_vars
  PROVE  ShutdownKeepsAll'
<1> USE DEF Control
<1> SUFFICES ASSUME up' = "closed", ~err' PROVE applied' \subseteq OnDisk'
  BY DEF ShutdownKeepsAll
<1>1. CASE up # "up"
  <2>1. CASE Fsync(Syncer)
    <3>1. up = "closed" /\ ~err /\ applied' = applied /\ base' = base /\ log' = log /\ synced' = Len(log)
      BY <2>1 DEF Fsync
    <3>2. Range(SubSeq(log, 1, synced)) \subseteq Range(SubSeq(log, 1, Len(log)))
      <4>1. Len(log) \in synced .. Len(log)
        BY DEF TypeOK
      <4> QED BY Zenon, <4>1, PrefixCut DEF TypeOK
    <3>3. OnDisk \subseteq OnDisk'
      BY Zenon, <3>1, <3>2 DEF OnDisk, Whole
    <3> QED BY <3>1, <3>3 DEF ShutdownKeepsAll
  <2>2. CASE FsyncFails(Syncer) \/ Replay
    BY <2>2 DEF FsyncFails, Replay
  <2>3. CASE UNCHANGED vars
    <3>1. UNCHANGED <<up, err, applied, base, log, synced>>
      BY <2>3 DEF vars, fileVars
    <3> QED BY <3>1 DEF ShutdownKeepsAll, OnDisk, Whole
  <2> QED BY <1>1, <2>1, <2>2, <2>3, OnlySyncEnds
<1>2. CASE up = "up"
  <2>1. Close
    <3>1. ASSUME NEW w \in Writers, Write(w) PROVE up' = up
      BY Zenon, <3>1 DEF Write, Admit, Commit, AppendOk, AppendFails, SyncRefused
    <3>2. ASSUME NEW p \in Procs, Sync(p) PROVE up' = up
      BY Zenon, <3>2 DEF Sync, Flush, FlushFails, Fsync, FsyncFails
    <3>3. Rewrite \/ UNCHANGED vars => up' = up
      BY DEF Rewrite, BeginRewrite, AOFSnapshot, abortRewrite, FinishRewrite, vars
    <3>4. ~CloseFails /\ ~ProcessCrash /\ ~MachineCrash /\ ~Replay
      BY DEF CloseFails, WriteFails, ProcessCrash, MachineCrash, Die, Replay
    <3> QED BY <1>2, <3>1, <3>2, <3>3, <3>4 DEF Next, Lifecycle
  <2>2. /\ ~err /\ log' = log \o buf /\ synced' = Len(log') /\ base' = base /\ applied' = applied
        /\ \A w \in Writers : pc[w] = "idle"
    BY <2>1 DEF Close
  <2>3. log' \in Seq(Recs)
    BY <2>2, ConcatProperties DEF TypeOK
  <2>4. OnDisk' = Whole(base, log \o buf)
    BY Zenon, <2>2, <2>3, SubSeqFull DEF OnDisk
  <2> QED BY <1>2, <2>2, <2>4 DEF NothingForgotten
<1> QED BY <1>1, <1>2

\* An orderly shutdown with a log in good order leaves every mutation on disk, whatever
\* the fsync policy: Close flushes and syncs, and FinishRewrite has forgotten nothing.
THEOREM ShutdownIsComplete == Spec => []ShutdownKeepsAll
<1>1. Init => ShutdownKeepsAll
  BY DEF Init, ShutdownKeepsAll
<1>2. Control /\ NothingForgotten /\ ShutdownKeepsAll /\ [Next]_vars => ShutdownKeepsAll'
  BY ShutdownStep
<1> QED BY <1>1, <1>2, ControlInvariant, NoneForgotten, PTL DEF Spec

-----------------------------------------------------------------------------
(***************************************************************************)
(* The order of the mutations.                                             *)
(***************************************************************************)
InOrder(S) == \E n \in 0 .. MaxRecs : S = 1 .. n      \* the first n mutations

Reflected(b) == {r \in Recs : \A s \in ShardsOf[r] : r \in b[s]}

\* Wherever records l after snapshot b are cut from the k-th on, no mutation is missing.
CutsInOrder(b, l, k) ==
    \A n \in k .. Len(l) : InOrder({l[i] : i \in 1 .. n} \cup Reflected(b))

MemoryInOrder == InOrder(applied)

\* The mutation about to be appended is the last one, and its writer holds the gate.
LastInFlight ==
    \A w \in Writers : pc[w] = "append" => gate = w /\ \A q \in applied : q <= id[w]

\* File, buffer and tail hold nothing that is not in memory.
NothingExtra ==
    up = "up" /\ ~err => /\ Whole(base, log \o buf) \subseteq applied
                         /\ rewriting => Range(tail) \subseteq applied

FileInOrder == CutsInOrder(base, log, synced)
BufInOrder  == up = "up" /\ ~err => CutsInOrder(base, log \o buf, synced)

Order == MemoryInOrder /\ LastInFlight /\ NothingExtra /\ FileInOrder /\ BufInOrder

\* What a whole sequence of records reflects.
LEMMA WholeIsCut ==
  ASSUME NEW b, NEW l \in Seq(Recs)
  PROVE  Whole(b, l) = {l[i] : i \in 1 .. Len(l)} \cup Reflected(b)
<1>1. Range(l) = {l[i] : i \in 1 .. Len(l)}
  BY Zenon, RangeEquality
<1> QED BY <1>1 DEF Whole, Reflected

\* Fewer records, or a later first cut, leave fewer cuts.
LEMMA CutsPrefix ==
  ASSUME NEW b, NEW l \in Seq(Recs), NEW m \in Seq(Recs), NEW j \in Nat, NEW k \in Nat,
         j <= k, Len(m) <= Len(l), \A i \in 1 .. Len(m) : m[i] = l[i], CutsInOrder(b, l, j)
  PROVE  CutsInOrder(b, m, k)
<1> SUFFICES ASSUME NEW n \in k .. Len(m) PROVE InOrder({m[i] : i \in 1 .. n} \cup Reflected(b))
  BY DEF CutsInOrder
<1>1. n \in j .. Len(l) /\ \A i \in 1 .. n : m[i] = l[i]
  OBVIOUS
<1>2. {m[i] : i \in 1 .. n} = {l[i] : i \in 1 .. n}
  BY <1>1
<1> QED BY Zenon, <1>1, <1>2 DEF CutsInOrder

\* One more record adds one more cut.
LEMMA CutsAppend ==
  ASSUME NEW b, NEW l \in Seq(Recs), NEW r \in Recs, NEW k \in Nat, CutsInOrder(b, l, k),
         InOrder(Whole(b, l) \cup {r})
  PROVE  CutsInOrder(b, Append(l, r), k)
<1> DEFINE m == Append(l, r)
<1>1. /\ m \in Seq(Recs) /\ Len(m) = Len(l) + 1 /\ Len(l) \in Nat
      /\ \A i \in 1 .. Len(l) : m[i] = l[i]
  <2>1. m \in Seq(Recs) /\ Len(m) = Len(l) + 1 /\ Len(l) \in Nat
    BY AppendProperties
  <2>2. ASSUME NEW i \in 1 .. Len(l) PROVE m[i] = l[i]
    BY AppendProperties
  <2> QED BY <2>1, <2>2
<1>1a. m[Len(l) + 1] = r
  BY AppendProperties
<1> HIDE DEF m
<1> SUFFICES ASSUME NEW n \in k .. Len(m) PROVE InOrder({m[i] : i \in 1 .. n} \cup Reflected(b))
  BY DEF CutsInOrder, m
<1>2. CASE n <= Len(l)
  <2>1. {m[i] : i \in 1 .. n} = {l[i] : i \in 1 .. n}
    BY <1>1, <1>2
  <2> QED BY <1>1, <1>2, <2>1 DEF CutsInOrder
<1>3. CASE n = Len(l) + 1
  <2>1. Range(m) = Range(l) \cup {r}
    BY RangeAppend DEF m
  <2>2. Whole(b, m) = Whole(b, l) \cup {r}
    BY <2>1 DEF Whole
  <2> QED BY Zenon, <1>1, <1>3, <2>2, WholeIsCut
<1> QED BY <1>1, <1>2, <1>3

\* The only cut after the last record.
LEMMA CutsLast ==
  ASSUME NEW b, NEW l \in Seq(Recs)
  PROVE  CutsInOrder(b, l, Len(l)) <=> InOrder(Whole(b, l))
<1>1. Len(l) .. Len(l) = {Len(l)}
  OBVIOUS
<1>2. Whole(b, l) = {l[i] : i \in 1 .. Len(l)} \cup Reflected(b)
  BY WholeIsCut
<1> QED BY Zenon, <1>1, <1>2 DEF CutsInOrder

\* Any first part of the buffer may reach the file.
LEMMA CutsPart ==
  ASSUME NEW b, NEW l \in Seq(Recs), NEW m \in Seq(Recs), NEW n \in 0 .. Len(m), NEW k \in Nat,
         CutsInOrder(b, l \o m, k)
  PROVE  CutsInOrder(b, l \o SubSeq(m, 1, n), k)
<1>1. n \in Int /\ \A i \in 1 .. n : m[i] \in Recs
  OBVIOUS
<1>2. /\ SubSeq(m, 1, n) \in Seq(Recs) /\ Len(SubSeq(m, 1, n)) = n
      /\ \A i \in 1 .. n : SubSeq(m, 1, n)[i] = m[i]
  BY <1>1, SubSeqProperties
<1> DEFINE c == SubSeq(m, 1, n)
<1> HIDE DEF c
<1>3. c \in Seq(Recs) /\ Len(c) = n /\ \A i \in 1 .. n : c[i] = m[i]
  BY <1>2 DEF c
<1>4. /\ l \o m \in Seq(Recs) /\ Len(l \o m) = Len(l) + Len(m)
      /\ \A i \in 1 .. Len(l) + Len(m) : (l \o m)[i] = IF i <= Len(l) THEN l[i] ELSE m[i - Len(l)]
  BY ConcatProperties
<1>5. /\ l \o c \in Seq(Recs) /\ Len(l \o c) = Len(l) + n
      /\ \A i \in 1 .. Len(l) + n : (l \o c)[i] = IF i <= Len(l) THEN l[i] ELSE c[i - Len(l)]
  BY Zenon, <1>3, ConcatProperties
<1>6. Len(l) \in Nat /\ Len(m) \in Nat
  OBVIOUS
<1>7. ASSUME NEW i \in 1 .. Len(l) + n PROVE (l \o c)[i] = (l \o m)[i]
  <2>1. i \in 1 .. Len(l) + Len(m) /\ (i > Len(l) => i - Len(l) \in 1 .. n)
    BY <1>6
  <2> QED BY <1>3, <1>4, <1>5, <2>1
<1>8. Len(l \o c) <= Len(l \o m) /\ \A i \in 1 .. Len(l \o c) : (l \o c)[i] = (l \o m)[i]
  BY <1>4, <1>5, <1>6, <1>7
<1>9. k <= k
  OBVIOUS
<1>10. CutsInOrder(b, l \o c, k)
  BY Zenon, <1>4, <1>5, <1>8, <1>9, CutsPrefix
<1> QED BY <1>10 DEF c

\* The set of a step's gaps closed: only the last mutation may be missing.
LEMMA AllButLast ==
  ASSUME MemoryInOrder, NEW S, S \subseteq applied, NEW a \in Int,
         \A q \in applied : q <= a, \A r \in applied : r \in S \/ r = a
  PROVE  InOrder(S)
<1>1. PICK n \in 0 .. MaxRecs : applied = 1 .. n
  BY DEF MemoryInOrder, InOrder
<1>0. n \in Nat /\ 0 \in 0 .. MaxRecs
  BY LogAssumption
<1>2. CASE n = 0
  <2>1. S = 1 .. 0
    BY <1>1, <1>2
  <2> QED BY <1>0, <2>1 DEF InOrder
<1>3. CASE n > 0 /\ n \in S
  <2>1. \A r \in 1 .. n : r \in S
    <3>1. n \in applied /\ n <= a
      BY <1>0, <1>1, <1>3
    <3> QED BY <1>0, <1>1, <1>3, <3>1
  <2>2. S = 1 .. n
    BY Zenon, <1>1, <2>1
  <2> QED BY <2>2 DEF InOrder
<1>4. CASE n > 0 /\ n \notin S
  <2>1. n = a
    BY <1>0, <1>1, <1>4
  <2>2. /\ \A r \in 1 .. n - 1 : r \in 1 .. n /\ r # n
        /\ \A r \in 1 .. n : r # n => r \in 1 .. n - 1
        /\ n - 1 \in 0 .. MaxRecs
    BY <1>0, <1>4, LogAssumption
  <2>3. S = 1 .. n - 1
    BY Zenon, <1>1, <1>4, <2>1, <2>2
  <2> QED BY <2>2, <2>3 DEF InOrder
<1> QED BY <1>0, <1>2, <1>3, <1>4

\* With an append that has not failed, or without one, what is in memory is accounted for
\* by a set S up to the record in flight.
LEMMA AllOfMemory ==
  ASSUME Control, MemoryInOrder, LastInFlight, NEW S, S \subseteq applied,
         \A r \in applied : r \in S \/ InFlight(r)
  PROVE  InOrder(S)
<1>1. CASE \E r \in applied : InFlight(r)
  <2>1. PICK w \in Writers : pc[w] = "append" /\ id[w] \in applied
    BY <1>1 DEF InFlight
  <2>2. id[w] \in Int /\ \A q \in applied : q <= id[w]
    BY <2>1, LogAssumption DEF LastInFlight, Control, TypeOK, Recs
  <2>3. ASSUME NEW r \in applied PROVE r \in S \/ r = id[w]
    BY <2>1, <2>3 DEF LastInFlight, InFlight
  <2> QED BY <2>2, <2>3, AllButLast
<1>2. CASE ~\E r \in applied : InFlight(r)
  <2>1. S = applied
    BY <1>2
  <2> QED BY <2>1 DEF MemoryInOrder
<1> QED BY <1>1, <1>2

\* A failed write(2) leaves the file in order.
LEMMA WriteFailsOrder ==
  ASSUME TypeOK, BufInOrder, up = "up", ~err, WriteFails, base' = base, synced' = synced
  PROVE  FileInOrder'
<1>1. PICK n \in 0 .. Len(buf) : log' = log \o SubSeq(buf, 1, n)
  BY Zenon DEF WriteFails
<1>2. CutsInOrder(base, log \o buf, synced) /\ synced \in Nat
  BY DEF BufInOrder, TypeOK
<1>3. CutsInOrder(base, log \o SubSeq(buf, 1, n), synced)
  BY Zenon, <1>2, CutsPart DEF TypeOK
<1> QED BY Zenon, <1>1, <1>3 DEF FileInOrder

\* The whole buffer reaches the file, and more of the file may be synced.
LEMMA FlushOrder ==
  ASSUME TypeOK, BufInOrder, up = "up", ~err, log' = log \o buf, base' = base,
         synced' \in synced .. Len(log')
  PROVE  FileInOrder'
<1>1. /\ log' \in Seq(Recs) /\ Len(log') \in Nat /\ synced \in Nat /\ synced' \in Nat
      /\ synced <= synced' /\ Len(log') <= Len(log')
  BY ConcatProperties DEF TypeOK
<1>2. CutsInOrder(base, log', synced)
  BY DEF BufInOrder
<1>3. CutsInOrder(base, log', synced')
  BY Zenon, <1>1, <1>2, CutsPrefix
<1> QED BY Zenon, <1>3 DEF FileInOrder

\* Steps that keep the snapshot, the file, its buffer and what is in memory.
LEMMA SameFileOrder ==
  ASSUME Order, UNCHANGED <<applied, base, log, synced>>,
         (up' = "up" /\ ~err') => /\ up = "up" /\ ~err /\ buf' = buf
                                  /\ rewriting' => Range(tail') \subseteq applied
  PROVE  MemoryInOrder' /\ NothingExtra' /\ FileInOrder' /\ BufInOrder'
<1> USE DEF Order
<1>1. MemoryInOrder' /\ FileInOrder'
  BY Zenon DEF MemoryInOrder, FileInOrder
<1>2. NothingExtra' /\ BufInOrder'
  BY Zenon DEF NothingExtra, BufInOrder
<1> QED BY <1>1, <1>2

\* A goroutine that moves, to any place but Append, leaves the gate to whoever is there.
LEMMA LastKept ==
  ASSUME TypeOK, LastInFlight, applied' = applied, gate' = gate, NEW p \in Procs, Moves(p),
         pc'[p] # "append"
  PROVE  LastInFlight'
<1> SUFFICES ASSUME NEW v \in Writers, pc'[v] = "append"
             PROVE  gate' = v /\ \A q \in applied' : q <= id'[v]
  BY DEF LastInFlight
<1>1. v # p /\ v \in Procs
  BY DEF Procs
<1>2. pc[v] = "append" /\ id'[v] = id[v]
  BY <1>1 DEF Moves
<1> QED BY <1>2 DEF LastInFlight

\* Appending the mutation in flight completes what file and buffer reflect.
LEMMA AppendOrder ==
  ASSUME Control, NothingForgotten, Order, NEW w \in Writers, AppendOk(w)
  PROVE  MemoryInOrder' /\ LastInFlight' /\ NothingExtra' /\ FileInOrder' /\ BufInOrder'
<1> USE DEF Control, Order
<1>1. /\ pc[w] = "append" /\ ~err /\ up = "up" /\ id[w] \in Recs /\ id[w] \in applied
      /\ UNCHANGED <<up, applied, base, synced, err, rewriting>>
  BY DEF AppendOk, Stopped, Ids, Active, TypeOK
<1>2. log \in Seq(Recs) /\ buf \in Seq(Recs) /\ synced \in Nat
  BY DEF TypeOK
<1>3. log' \o buf' = Append(log \o buf, id[w])
  <2>1. log \o buf \in Seq(Recs) /\ <<id[w]>> \in Seq(Recs)
    BY Zenon, <1>1, <1>2, ConcatProperties, RangeSingle
  <2>2. Append(log \o buf, id[w]) = (log \o buf) \o <<id[w]>>
    BY Zenon, <1>1, <2>1, AppendIsConcat
  <2>3. CASE log' = log \o buf /\ buf' = <<id[w]>>
    BY Zenon, <2>2, <2>3
  <2>4. CASE buf' = Append(buf, id[w]) /\ log' = log
    <3>1. buf' = buf \o <<id[w]>>
      BY Zenon, <1>1, <1>2, <2>4, AppendIsConcat
    <3>2. (log \o buf) \o <<id[w]>> = log \o (buf \o <<id[w]>>)
      BY <1>2, <2>1, ConcatAssociative
    <3> QED BY Zenon, <2>2, <2>4, <3>1, <3>2
  <2> QED BY Zenon, <2>3, <2>4 DEF AppendOk
<1>4. log \o buf \in Seq(Recs)
  BY <1>2, ConcatProperties
<1>5. Whole(base, log' \o buf') = Whole(base, log \o buf) \cup {id[w]}
  <2>1. Range(Append(log \o buf, id[w])) = Range(log \o buf) \cup {id[w]}
    BY Zenon, <1>1, <1>4, RangeAppend
  <2> QED BY <1>3, <2>1 DEF Whole
<1>6. Whole(base, log \o buf) \cup {id[w]} = applied
  <2>1. ASSUME NEW r \in applied PROVE r \in Whole(base, log \o buf) \/ r = id[w]
    <3>1. r \in Whole(base, log \o buf) \/ \E v \in Writers : pc[v] = "append" /\ id[v] = r
      BY <1>1, <2>1 DEF NothingForgotten
    <3> QED BY <1>1, <3>1 DEF LastInFlight
  <2>2. Whole(base, log \o buf) \subseteq applied
    BY <1>1 DEF NothingExtra
  <2> QED BY <1>1, <2>1, <2>2
<1>7. MemoryInOrder'
  BY Zenon, <1>1 DEF MemoryInOrder
<1>8. LastInFlight'
  <2>1. Moves(w) /\ pc'[w] # "append"
    BY ZenonT(30), <1>1, AppendedMoves DEF AppendOk
  <2>2. ASSUME NEW v \in Writers, pc'[v] = "append" PROVE FALSE
    <3>1. v # w /\ v \in Procs
      BY <2>1, <2>2 DEF Procs
    <3>2. pc[v] = "append"
      BY <2>1, <2>2, <3>1 DEF Moves
    <3> QED BY <1>1, <3>1, <3>2 DEF LastInFlight
  <2> QED BY Zenon, <2>2 DEF LastInFlight
<1>9. NothingExtra'
  <2>1. rewriting => Range(tail') = Range(tail) \cup {id[w]}
    BY <1>1, RangeAppend DEF AppendOk, TypeOK
  <2> QED BY Zenon, <1>1, <1>5, <1>6, <2>1 DEF NothingExtra
<1>10. BufInOrder'
  <2>1. CutsInOrder(base, log \o buf, synced) /\ InOrder(Whole(base, log \o buf) \cup {id[w]})
    BY Zenon, <1>1, <1>6 DEF BufInOrder, MemoryInOrder
  <2>2. CutsInOrder(base, Append(log \o buf, id[w]), synced)
    BY Zenon, <1>1, <1>2, <1>4, <2>1, CutsAppend
  <2> QED BY Zenon, <1>1, <1>3, <2>2 DEF BufInOrder
<1>11. FileInOrder'
  <2>1. CASE log' = log
    BY Zenon, <1>1, <2>1 DEF FileInOrder
  <2>2. CASE log' = log \o buf
    BY Zenon, <1>1, <2>2 DEF FileInOrder, BufInOrder
  <2> QED BY Zenon, <2>1, <2>2 DEF AppendOk
<1> QED BY <1>7, <1>8, <1>9, <1>10, <1>11

\* The file that FinishRewrite installs misses at most the mutation in flight.
LEMMA FinishOrder ==
  ASSUME Control, TailComplete, SnapWhole, Order, FinishRewrite
  PROVE  MemoryInOrder' /\ LastInFlight' /\ NothingExtra' /\ FileInOrder' /\ BufInOrder'
<1> USE DEF Control, Order
<1>1. /\ rpc = "install" /\ ~err /\ up = "up" /\ rewriting /\ left = {} /\ rewriting' = FALSE
      /\ base' = snap /\ log' = tail /\ synced' = Len(tail)
      /\ UNCHANGED <<up, applied, gate, pc, id>>
  BY Zenon DEF FinishRewrite, EndRewrite, Stopped, RewritePos
<1>2. tail \in Seq(Recs)
  BY DEF TypeOK
<1> DEFINE S == Whole(snap, tail)
<1>3. S \subseteq applied
  <2>1. Range(tail) \subseteq applied
    BY <1>1 DEF NothingExtra
  <2>2. ASSUME NEW r \in Recs, \A s \in ShardsOf[r] : r \in snap[s] PROVE r \in applied
    <3>1. PICK s \in Shards : s \in ShardsOf[r]
      BY LogAssumption
    <3> QED BY <2>2, <3>1 DEF SnapWhole
  <2> QED BY <2>1, <2>2 DEF Whole
<1>4. ASSUME NEW r \in applied PROVE r \in S \/ InFlight(r)
  <2>1. InRewrite(r) \/ InFlight(r)
    BY <1>1 DEF TailComplete
  <2>2. InRewrite(r) => r \in S
    BY Zenon, <1>1 DEF InRewrite, Whole, TypeOK
  <2> QED BY <2>1, <2>2
<1> HIDE DEF S
<1>5. InOrder(S)
  BY <1>3, <1>4, AllOfMemory
<1>6. CutsInOrder(snap, tail, Len(tail))
  BY Zenon, <1>2, <1>5, CutsLast DEF S
<1>7. FileInOrder'
  BY Zenon, <1>1, <1>6 DEF FileInOrder
<1>8. ~err' => log' \o buf' = tail
  <2>1. ~err' => buf' = <<>>
    BY DEF FinishRewrite
  <2> QED BY Zenon, <1>1, <1>2, <2>1, ConcatEmptySeq
<1>9. BufInOrder'
  BY Zenon, <1>1, <1>6, <1>8 DEF BufInOrder
<1>10. NothingExtra'
  BY Zenon, <1>1, <1>3, <1>8 DEF NothingExtra, S
<1>11. MemoryInOrder' /\ LastInFlight'
  BY Zenon, <1>1 DEF MemoryInOrder, LastInFlight
<1> QED BY <1>7, <1>9, <1>10, <1>11

\* A new mutation is the next one.
LEMMA CommitOrder ==
  ASSUME Control, Order, NEW w \in Writers, Commit(w)
  PROVE  MemoryInOrder' /\ LastInFlight' /\ NothingExtra' /\ FileInOrder' /\ BufInOrder'
<1> USE DEF Control, Order
<1>1. PICK r \in Recs : /\ \A q \in applied : q < r
                        /\ r = 1 \/ r - 1 \in applied
                        /\ id' = [id EXCEPT ![w] = r]
                        /\ applied' = applied \cup {r}
  BY Zenon DEF Commit
<1>2. /\ gate = Nobody /\ gate' = w /\ pc' = [pc EXCEPT ![w] = "append"]
      /\ UNCHANGED <<up, base, log, synced, buf, err, rewriting, tail>>
  BY DEF Commit, Goto, fileVars, rwVars
<1>3. MemoryInOrder'
  <2>1. PICK n \in 0 .. MaxRecs : applied = 1 .. n
    BY DEF MemoryInOrder, InOrder
  <2>2. n \in Nat /\ r \in Nat /\ r \in 1 .. MaxRecs
    BY LogAssumption DEF Recs
  <2>3. r = n + 1
    <3>1. CASE n = 0
      BY <1>1, <2>1, <2>2, <3>1
    <3>2. CASE n > 0
      <4>1. n \in applied /\ 1 \in applied
        BY <2>1, <2>2, <3>2
      <4>2. n < r /\ r # 1 /\ r - 1 \in 1 .. n
        BY <1>1, <2>1, <2>2, <4>1
      <4> QED BY <2>2, <4>2
    <3> QED BY <2>2, <3>1, <3>2
  <2>4. (1 .. n) \cup {n + 1} = 1 .. n + 1
    BY <2>2
  <2>5. applied' = 1 .. r /\ r \in 0 .. MaxRecs
    BY <1>1, <2>1, <2>2, <2>3, <2>4
  <2> QED BY Zenon, <2>5 DEF MemoryInOrder, InOrder
<1>4. LastInFlight'
  <2> SUFFICES ASSUME NEW v \in Writers, pc'[v] = "append"
               PROVE  gate' = v /\ \A q \in applied' : q <= id'[v]
    BY DEF LastInFlight
  <2>1. v = w
    <3>1. pc \in [Procs -> {"idle", "gate", "append", "sync", "fsync"}] /\ v \in Procs /\ v # Nobody
      BY LogAssumption DEF TypeOK, Procs
    <3>2. v # w => pc[v] = "append"
      BY <1>2, <3>1
    <3> QED BY <1>2, <3>1, <3>2 DEF LastInFlight
  <2>2. id'[w] = r
    BY <1>1 DEF TypeOK
  <2>3. applied \subseteq Recs /\ Recs \subseteq Int
    <3>1. applied \subseteq Recs
      BY DEF TypeOK
    <3>2. Recs \subseteq Int
      BY LogAssumption DEF Recs
    <3> QED BY <3>1, <3>2
  <2> QED BY <1>1, <1>2, <2>1, <2>2, <2>3
<1>5. FileInOrder' /\ BufInOrder'
  BY Zenon, <1>2 DEF FileInOrder, BufInOrder
<1>6. NothingExtra'
  BY Zenon, <1>1, <1>2 DEF NothingExtra
<1> QED BY <1>3, <1>4, <1>5, <1>6

\* Every step keeps the mutations in order.
LEMMA OrderStep ==
  ASSUME Control, NothingForgotten, TailComplete, SnapWhole, Order, old = {}, [Next]_vars
  PROVE  Order'
<1> USE DEF Control
<1> DEFINE Goal == MemoryInOrder' /\ LastInFlight' /\ NothingExtra' /\ FileInOrder' /\ BufInOrder'
<1> SUFFICES Goal
  BY DEF Order
<1>a. MemoryInOrder /\ LastInFlight /\ NothingExtra /\ FileInOrder /\ BufInOrder
  BY DEF Order
<1>b. ASSUME err' \/ up' # "up" PROVE NothingExtra' /\ BufInOrder'
  BY Zenon, <1>b DEF NothingExtra, BufInOrder
<1>c. ASSUME applied' = applied PROVE MemoryInOrder'
  BY Zenon, <1>a, <1>c DEF MemoryInOrder
<1>d. ASSUME UNCHANGED <<base, log, synced>> PROVE FileInOrder'
  BY Zenon, <1>a, <1>d DEF FileInOrder
<1>e. ASSUME UNCHANGED <<applied, gate, pc, id>> PROVE LastInFlight'
  BY Zenon, <1>a, <1>e DEF LastInFlight
<1>1. ASSUME NEW w \in Writers, Admit(w) PROVE Goal
  <2>1. LastInFlight'
    <3>1. Moves(w) /\ pc'[w] # "append" /\ w \in Procs
      BY <1>1 DEF Admit, Goto, TypeOK, Moves, Active, Procs
    <3> QED BY Zenon, <1>1, <1>a, <3>1, LastKept DEF Admit
  <2> QED BY <1>1, <1>a, <2>1, SameFileOrder DEF Admit, fileVars, rwVars, NothingExtra
<1>2. ASSUME NEW w \in Writers, Commit(w) PROVE Goal
  BY <1>2, CommitOrder
<1>3. ASSUME NEW w \in Writers, AppendOk(w) PROVE Goal
  BY <1>3, AppendOrder
<1>4. ASSUME NEW w \in Writers, AppendFails(w) PROVE Goal
  <2>1. up = "up" /\ err' /\ UNCHANGED <<applied, base, synced>>
    BY <1>4 DEF AppendFails, WriteFails, Stopped
  <2>2. LastInFlight'
    <3>1. Moves(w) /\ pc'[w] # "append" /\ pc[w] = "append"
      BY ZenonT(30), <1>4, AppendedMoves DEF AppendFails
    <3>2. ASSUME NEW v \in Writers, pc'[v] = "append" PROVE FALSE
      <4>1. v # w /\ v \in Procs
        BY <3>1, <3>2 DEF Procs
      <4>2. pc[v] = "append"
        BY <3>1, <3>2, <4>1 DEF Moves
      <4> QED BY <1>a, <3>1, <4>1, <4>2 DEF LastInFlight
    <3> QED BY Zenon, <3>2 DEF LastInFlight
  <2>3. FileInOrder'
    <3>1. CASE UNCHANGED <<log, buf, partial, err>>
      BY <1>d, <2>1, <3>1
    <3>2. CASE ~err /\ WriteFails
      BY <1>a, <2>1, <3>2, WriteFailsOrder
    <3> QED BY <1>4, <3>1, <3>2 DEF AppendFails
  <2> QED BY <1>b, <1>c, <2>1, <2>2, <2>3
<1>5. ASSUME NEW w \in Writers, SyncRefused(w) PROVE Goal
  <2>1. err' /\ UNCHANGED <<applied, gate, base, log, synced>>
    BY <1>5 DEF SyncRefused, fileVars
  <2>2. Moves(w) /\ pc'[w] = "idle" /\ w \in Procs
    BY ZenonT(30), <1>5, ReplyMoves DEF SyncRefused, Active, Procs
  <2>3. LastInFlight'
    BY <1>a, <2>1, <2>2, LastKept
  <2> QED BY <1>b, <1>c, <1>d, <2>1, <2>3
<1>6. ASSUME NEW p \in Procs, Flush(p) PROVE Goal
  <2>1. /\ up = "up" /\ ~err /\ log' = log \o buf /\ buf' = <<>>
        /\ UNCHANGED <<up, applied, gate, base, synced, err, rewriting, tail>>
    BY ZenonT(30), <1>6 DEF Flush, AtSync, Stopped, Procs, rwVars
  <2>2. log' \in Seq(Recs) /\ log' \o buf' = log \o buf
    BY <2>1, ConcatProperties, ConcatEmptySeq DEF TypeOK
  <2>3. Moves(p) /\ pc'[p] # "append"
    BY Zenon, <1>6, FlushMoves DEF Flush, AtSync
  <2>4. LastInFlight'
    BY <1>a, <2>1, <2>3, LastKept
  <2>5. NothingExtra' /\ BufInOrder'
    BY Zenon, <1>a, <2>1, <2>2 DEF NothingExtra, BufInOrder
  <2>6. FileInOrder'
    BY Zenon, <1>a, <2>1 DEF FileInOrder, BufInOrder
  <2> QED BY <1>c, <2>1, <2>4, <2>5, <2>6
<1>7. ASSUME NEW p \in Procs, FlushFails(p) PROVE Goal
  <2>1. up = "up" /\ ~err /\ WriteFails /\ err' /\ UNCHANGED <<applied, gate, base, synced>>
    BY ZenonT(30), <1>7 DEF FlushFails, AtSync, Stopped, Procs, WriteFails
  <2>2. Moves(p) /\ pc'[p] = "idle"
    BY ZenonT(30), <1>7, SyncDoneMoves DEF FlushFails, AtSync, Active
  <2>3. LastInFlight'
    BY <1>a, <2>1, <2>2, LastKept
  <2>4. FileInOrder'
    BY <1>a, <2>1, WriteFailsOrder
  <2> QED BY <1>b, <1>c, <2>1, <2>3, <2>4
<1>8. ASSUME NEW p \in Procs, Fsync(p) \/ FsyncFails(p) PROVE Goal
  <2>1. UNCHANGED <<up, applied, gate, base, log, buf, rewriting, tail>>
    BY Zenon, <1>8 DEF Fsync, FsyncFails, fileVars, rwVars
  <2>2. Moves(p) /\ pc'[p] = "idle"
    BY ZenonT(30), <1>8, SyncDoneMoves DEF Fsync, FsyncFails, Active
  <2>3. LastInFlight'
    BY <1>a, <2>1, <2>2, LastKept
  <2>4. CASE FsyncFails(p)
    <3>1. err' /\ synced' = synced
      BY <2>4 DEF FsyncFails, fileVars
    <3> QED BY <1>b, <1>c, <1>d, <2>1, <2>3, <3>1
  <2>5. CASE Fsync(p)
    <3>1. synced' = Len(log) /\ err' = err
      BY <2>5 DEF Fsync
    <3>2. /\ log \in Seq(Recs) /\ log \o buf \in Seq(Recs) /\ synced \in Nat /\ Len(log) \in Nat
          /\ synced <= Len(log) /\ Len(log) <= Len(log) /\ Len(log \o buf) <= Len(log \o buf)
      <4>1. log \in Seq(Recs) /\ buf \in Seq(Recs) /\ synced \in Nat /\ synced <= Len(log)
        BY DEF TypeOK
      <4>2. log \o buf \in Seq(Recs) /\ Len(log \o buf) \in Nat /\ Len(log) \in Nat
        BY <4>1, ConcatProperties, LenProperties
      <4> QED BY <4>1, <4>2
    <3>3. FileInOrder'
      <4>1. CutsInOrder(base, log, Len(log))
        BY <1>a, <3>2, CutsPrefix DEF FileInOrder
      <4> QED BY Zenon, <2>1, <3>1, <4>1 DEF FileInOrder
    <3>4. BufInOrder'
      <4>1. CutsInOrder(base, log \o buf, synced) => CutsInOrder(base, log \o buf, Len(log))
        BY Zenon, <3>2, CutsPrefix
      <4> QED BY Zenon, <1>a, <2>1, <3>1, <4>1 DEF BufInOrder
    <3>5. NothingExtra'
      BY Zenon, <1>a, <2>1, <3>1 DEF NothingExtra
    <3> QED BY <1>c, <2>1, <2>3, <3>3, <3>4, <3>5
  <2> QED BY <1>8, <2>4, <2>5
<1>9. CASE BeginRewrite \/ abortRewrite \/ \E s \in Shards : AOFSnapshot(s)
  <2>1. /\ UNCHANGED <<up, applied, gate, pc, id, base, log, synced, buf, err>>
        /\ rewriting' => Range(tail') = {} \/ (rewriting /\ tail' = tail)
    <3>1. CASE BeginRewrite
      BY <3>1, EmptyLog DEF BeginRewrite, fileVars
    <3>2. CASE abortRewrite
      BY <3>2 DEF abortRewrite, EndRewrite, fileVars
    <3>3. CASE \E s \in Shards : AOFSnapshot(s)
      BY <3>3 DEF AOFSnapshot, fileVars
    <3> QED BY <1>9, <3>1, <3>2, <3>3
  <2>2. (up' = "up" /\ ~err') => (rewriting' => Range(tail') \subseteq applied)
    BY <1>a, <2>1 DEF NothingExtra
  <2>3. MemoryInOrder' /\ NothingExtra' /\ FileInOrder' /\ BufInOrder'
    BY <2>1, <2>2, SameFileOrder
  <2> QED BY <1>e, <2>1, <2>3
<1>10. CASE FinishRewrite
  BY <1>10, FinishOrder
<1>11. CASE Close
  <2>1. up = "up" /\ up' = "closed" /\ UNCHANGED <<applied, gate, pc, id, base>>
    BY <1>11 DEF Close
  <2>2. CASE err
    BY <1>11, <1>b, <1>c, <1>d, <1>e, <2>1, <2>2 DEF Close
  <2>3. CASE ~err
    <3>1. log' = log \o buf /\ synced' = Len(log')
      BY <1>11, <2>3 DEF Close
    <3>2. synced' \in synced .. Len(log')
      <4>1. Len(log') = Len(log) + Len(buf) /\ Len(log) \in Nat /\ Len(buf) \in Nat
        BY <3>1, ConcatProperties DEF TypeOK
      <4> QED BY <3>1, <4>1 DEF TypeOK
    <3>3. FileInOrder'
      BY <1>a, <2>1, <2>3, <3>1, <3>2, FlushOrder
    <3> QED BY <1>b, <1>c, <1>e, <2>1, <3>3
  <2> QED BY <2>2, <2>3
<1>12. CASE CloseFails
  <2>1. up = "up" /\ ~err /\ up' = "closed" /\ UNCHANGED <<applied, gate, pc, id, base, synced>>
    BY <1>12 DEF CloseFails
  <2>2. FileInOrder'
    <3>1. CASE WriteFails
      BY <1>a, <2>1, <3>1, WriteFailsOrder
    <3>2. CASE log' = log \o buf
      BY Zenon, <1>a, <2>1, <3>2 DEF FileInOrder, BufInOrder
    <3> QED BY <1>12, <3>1, <3>2 DEF CloseFails
  <2> QED BY <1>b, <1>c, <1>e, <2>1, <2>2
<1>13. CASE ProcessCrash \/ MachineCrash
  <2>1. up' = "down" /\ applied' = {} /\ \A w \in Writers : pc'[w] = "idle"
    BY <1>13 DEF ProcessCrash, MachineCrash, Die, Procs
  <2>2. MemoryInOrder'
    <3>1. {} = 1 .. 0 /\ 0 \in 0 .. MaxRecs
      BY LogAssumption
    <3> QED BY Zenon, <2>1, <3>1 DEF MemoryInOrder, InOrder
  <2>3. LastInFlight'
    BY Zenon, <2>1 DEF LastInFlight
  <2>4. CASE ProcessCrash
    BY <1>b, <1>d, <2>1, <2>2, <2>3, <2>4 DEF ProcessCrash, fileVars
  <2>5. CASE MachineCrash
    <3>1. PICK n \in synced .. Len(log) : log' = SubSeq(log, 1, n) /\ synced' = n /\ base' = base
      BY <2>5 DEF MachineCrash
    <3>2. n \in Nat /\ synced \in Nat /\ synced <= n /\ n <= Len(log) /\ n \in 0 .. Len(log)
      BY <3>1 DEF TypeOK
    <3>3. log' \in Seq(Recs) /\ Len(log') = n /\ \A i \in 1 .. n : log'[i] = log[i]
      <4>1. n \in Int /\ \A i \in 1 .. n : log[i] \in Recs
        BY <3>2 DEF TypeOK
      <4> QED BY <3>1, <3>2, <4>1, SubSeqProperties
    <3>4. CutsInOrder(base, log', n)
      BY <1>a, <3>2, <3>3, CutsPrefix DEF FileInOrder, TypeOK
    <3>5. FileInOrder'
      BY Zenon, <3>1, <3>4 DEF FileInOrder
    <3> QED BY <1>b, <2>1, <2>2, <2>3, <3>5
  <2> QED BY <1>13, <2>4, <2>5
<1>14. CASE Replay
  <2>1. /\ applied' = InKernel /\ buf' = <<>> /\ rewriting' = FALSE
        /\ UNCHANGED <<gate, pc, id, base, log, synced>>
        /\ \A w \in Writers : pc[w] = "idle"
    BY <1>14 DEF Replay, Stopped, RewritePos, rwVars, TypeOK
  <2>2. log \in Seq(Recs) /\ log' \o buf' = log /\ synced \in Nat /\ Len(log) \in Nat
        /\ synced <= Len(log) /\ Len(log) <= Len(log)
    BY <2>1, ConcatEmptySeq DEF TypeOK
  <2>3. MemoryInOrder'
    <3>1. CutsInOrder(base, log, Len(log))
      BY <1>a, <2>2, CutsPrefix DEF FileInOrder
    <3>2. InOrder(InKernel)
      BY Zenon, <2>2, <3>1, CutsLast DEF InKernel
    <3> QED BY Zenon, <2>1, <3>2 DEF MemoryInOrder
  <2>4. LastInFlight'
    BY Zenon, <2>1 DEF LastInFlight
  <2>5. NothingExtra'
    BY Zenon, <2>1, <2>2 DEF NothingExtra, InKernel
  <2>6. FileInOrder' /\ BufInOrder'
    BY Zenon, <1>a, <2>1, <2>2 DEF FileInOrder, BufInOrder
  <2> QED BY <2>3, <2>4, <2>5, <2>6
<1>15. CASE UNCHANGED vars
  BY Zenon, <1>a, <1>15 DEF vars, fileVars, rwVars, MemoryInOrder, LastInFlight, NothingExtra,
                            FileInOrder, BufInOrder
<1> QED
  BY <1>1, <1>2, <1>3, <1>4, <1>5, <1>6, <1>7, <1>8, <1>9, <1>10, <1>11, <1>12, <1>13, <1>14, <1>15
  DEF Next, Write, Sync, Rewrite, Lifecycle

\* Where a rename survives a machine crash, every file a crash can leave reflects the
\* first n mutations in the order of their commits, for some n: no record overtakes
\* another, and FinishRewrite, whose snapshot is read shard by shard, leaves no hole.
THEOREM CrashesLeavePrefix == ASSUME ~RenameVolatile PROVE Spec => []CrashLeavesPrefix
<1>1. Init => Order
  <2> SUFFICES ASSUME Init PROVE Order
    OBVIOUS
  <2>1. /\ applied = {} /\ log = <<>> /\ buf = <<>> /\ synced = 0 /\ ~rewriting /\ base = NoImage
        /\ \A w \in Writers : pc[w] # "append"
    BY DEF Init, Procs
  <2>2. InOrder({})
    <3>1. {} = 1 .. 0 /\ 0 \in 0 .. MaxRecs
      BY LogAssumption
    <3> QED BY Zenon, <3>1 DEF InOrder
  <2>3. Whole(NoImage, <<>>) = {}
    <3>1. \A r \in Recs : \E s \in ShardsOf[r] : r \notin NoImage[s]
      BY LogAssumption DEF NoImage
    <3> QED BY <3>1, EmptyLog DEF Whole
  <2>4. <<>> \o <<>> = <<>>
    BY Zenon, EmptyLog, ConcatEmptySeq
  <2>5. CutsInOrder(NoImage, <<>>, 0)
    BY Zenon, <2>2, <2>3, EmptyLog, CutsLast
  <2> QED BY Zenon, <2>1, <2>2, <2>3, <2>4, <2>5
          DEF Order, MemoryInOrder, LastInFlight, NothingExtra, FileInOrder, BufInOrder
<1>2. Disk /\ Order /\ [Next]_vars => Order'
  BY OrderStep DEF Disk, Data
<1>3. Disk /\ Order => CrashLeavesPrefix
  <2> SUFFICES ASSUME Disk, Order, NEW f \in CrashFiles
               PROVE  \E n \in 0 .. MaxRecs : Whole(f.base, f.log) = 1 .. n
    BY DEF CrashLeavesPrefix
  <2>1. PICK n \in synced .. Len(log) : f = [base |-> base, log |-> SubSeq(log, 1, n)]
    BY DEF CrashFiles, Disk
  <2>2. f.base = base /\ f.log = SubSeq(log, 1, n) /\ n \in 0 .. Len(log) /\ log \in Seq(Recs)
    BY <2>1 DEF Disk, Control, TypeOK
  <2>3. Whole(base, SubSeq(log, 1, n)) = {log[i] : i \in 1 .. n} \cup Reflected(base)
    BY <2>2, PrefixRange DEF Whole, Reflected
  <2> QED BY Zenon, <2>1, <2>2, <2>3 DEF Order, FileInOrder, CutsInOrder, InOrder
<1> QED BY <1>1, <1>2, <1>3, DiskInvariant, PTL DEF Spec
=============================================================================
