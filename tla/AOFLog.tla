------------------------------- MODULE AOFLog --------------------------------
(***************************************************************************)
(* internal/aof, and what internal/server and internal/store do around it: *)
(* the buffered append-only file, its fsync policies, the latched error,   *)
(* the background rewrite, crashes and restarts.                           *)
(*                                                                         *)
(* A mutation is a number, its place in the order in which the durable-    *)
(* commit gate let mutations through.  A file is a snapshot, as the set of *)
(* mutations it reflects in each shard (base), followed by records (log).  *)
(* What a record does to the keyspace is the business of module Store.     *)
(***************************************************************************)
EXTENDS Integers, Sequences, FiniteSets, Functions

CONSTANTS
    Writers,         \* connections that send write commands
    Syncer,          \* the goroutine of RunSyncLoop
    Nobody,          \* the holder of a free lock
    Policy,          \* "always", "everysec" or "no"
    MaxRecs,         \* bound: mutations the log reflects at any time
    BufCap,          \* records that fit the 64 KB buffer
    NumShards,       \* shardCount
    ShardsOf,        \* the shards each mutation writes to
    Batch,           \* mutations whose command (MSET, DEL, EXPIREAT) keeps its shards
                     \* locked until the record is appended
    Faults,          \* write(2), fsync(2), rename(2) may fail
    RenameVolatile   \* a machine crash may undo a rename (the directory is not synced)

Recs   == 1 .. MaxRecs
Shards == 0 .. NumShards - 1
Procs  == Writers \cup {Syncer}

ASSUME LogAssumption ==
    /\ IsFiniteSet(Writers)
    /\ Syncer \notin Writers
    /\ Nobody \notin Procs
    /\ Policy \in {"always", "everysec", "no"}
    /\ MaxRecs \in Nat
    /\ BufCap \in Nat \ {0}
    /\ NumShards \in Nat \ {0}
    /\ ShardsOf \in [Recs -> SUBSET Shards]
    /\ \A r \in Recs : ShardsOf[r] # {}
    /\ \A r \in Recs \ Batch : \E s \in Shards : ShardsOf[r] = {s}
    /\ Faults \in BOOLEAN
    /\ RenameVolatile \in BOOLEAN

VARIABLES
    up,          \* "up"; "down" after a crash; "closed" after an orderly shutdown
    applied,     \* mutations in the keyspace
    gate, mu,    \* holders of Store.commitMu and Log.mu
    pc, id,      \* each goroutine's position, and the mutation a writer commits
    acked,       \* mutations acknowledged with the log in good order
    blind,       \* ... and, since the last start, although the log had failed
    base, log,   \* the file as the kernel has it: snapshot, then records
    partial,     \* the file goes on with the first bytes of another record
    synced,      \* how many of the records are on stable storage
    old,         \* files a machine crash may bring back in place of a renamed one
    buf,         \* Log.bw: records still to be written, the first perhaps in part
    err,         \* Log.err is set
    rewriting, tail,     \* Log.rewriting, Log.rewriteTail
    rpc, snap, left      \* the rewrite goroutine: position, snapshot, shards to read

fileVars == <<base, log, partial, synced, old>>
rwVars   == <<rewriting, tail, rpc, snap, left>>
vars     == <<up, applied, gate, mu, pc, id, acked, blind, fileVars, buf, err, rwVars>>

Image == [Shards -> SUBSET Recs]      \* a snapshot: what it reflects, shard by shard
NoImage == [s \in Shards |-> {}]

\* Mutations that a file with snapshot b and records l reflects in full.
Whole(b, l) == Range(l) \cup {r \in Recs : \A s \in ShardsOf[r] : r \in b[s]}

OnDisk   == Whole(base, SubSeq(log, 1, synced))      \* survives a machine crash
InKernel == Whole(base, log)                         \* survives a process crash

\* File, buffer, tail and snapshot hold well-formed values; in particular no more of the
\* file counts as synced than the file holds, also after a rewrite has swapped it.
TypeOK ==
    /\ up \in {"up", "down", "closed"}
    /\ applied \subseteq Recs
    /\ gate \in Writers \cup {Nobody}
    /\ mu \in Procs \cup {Nobody}
    /\ pc \in [Procs -> {"idle", "gate", "append", "sync", "fsync"}]
    /\ id \in [Writers -> Recs \cup {0}]
    /\ acked \subseteq Recs /\ blind \subseteq Recs
    /\ base \in Image
    /\ log \in Seq(Recs) /\ buf \in Seq(Recs) /\ tail \in Seq(Recs)
    /\ synced \in 0 .. Len(log)
    /\ old \subseteq [base : Image, log : Seq(Recs)]
    /\ partial \in BOOLEAN /\ err \in BOOLEAN /\ rewriting \in BOOLEAN
    /\ rpc \in {"idle", "snapshot", "install"}
    /\ snap \in Image
    /\ left \subseteq Shards

Init ==
    /\ up = "up"
    /\ applied = {} /\ acked = {} /\ blind = {}
    /\ gate = Nobody /\ mu = Nobody
    /\ pc = [p \in Procs |-> "idle"]
    /\ id = [w \in Writers |-> 0]
    /\ base = NoImage /\ log = <<>> /\ synced = 0 /\ partial = FALSE /\ old = {}
    /\ buf = <<>> /\ err = FALSE
    /\ rewriting = FALSE /\ tail = <<>>
    /\ rpc = "idle" /\ snap = NoImage /\ left = {}

Goto(p, l) == pc' = [pc EXCEPT ![p] = l]

-----------------------------------------------------------------------------
(***************************************************************************)
(* dispatch, for a write command: refuse it when the log has failed;       *)
(* change the keyspace; append; SyncIfAlways; reply.                       *)
(***************************************************************************)
Committing == {w \in Writers : pc[w] = "gate"}

\* Mutant: the MISCONF check is forgotten.
Admit_unchecked(w) ==
    /\ up = "up" /\ pc[w] = "idle" /\ mu = Nobody
    /\ Cardinality(applied) + Cardinality(Committing) < MaxRecs
    /\ Goto(w, "gate")
    /\ UNCHANGED <<up, applied, gate, mu, id, acked, blind, fileVars, buf, err, rwVars>>

\* Log.Err is clear (otherwise the client is told MISCONF and nothing happens).
Admit(w) ==
    /\ up = "up" /\ pc[w] = "idle" /\ mu = Nobody
    /\ ~err
    /\ Cardinality(applied) + Cardinality(Committing) < MaxRecs      \* bound
    /\ Goto(w, "gate")
    /\ UNCHANGED <<up, applied, gate, mu, id, acked, blind, fileVars, buf, err, rwVars>>

\* Mutant: the mutation does not wait for the gate.
Commit_noGate(w) ==
    /\ pc[w] = "gate"
    /\ gate' = w
    /\ \E r \in Recs :
         /\ \A q \in applied : q < r
         /\ r = 1 \/ r - 1 \in applied
         /\ id' = [id EXCEPT ![w] = r]
         /\ applied' = applied \cup {r}
    /\ Goto(w, "append")
    /\ UNCHANGED <<up, mu, acked, blind, fileVars, buf, err, rwVars>>

\* lockDurableMutation, then the mutation itself: in memory before it is in the log.
Commit(w) ==
    /\ pc[w] = "gate" /\ gate = Nobody
    /\ gate' = w
    /\ \E r \in Recs :
         /\ \A q \in applied : q < r
         /\ r = 1 \/ r - 1 \in applied
         /\ id' = [id EXCEPT ![w] = r]
         /\ applied' = applied \cup {r}
    /\ Goto(w, "append")
    /\ UNCHANGED <<up, mu, acked, blind, fileVars, buf, err, rwVars>>

\* The reply: a failed log or a failed sync is logged, and the client told OK all the same.
Reply(w, ok) ==
    /\ acked' = IF ok THEN acked \cup {id[w]} ELSE acked
    /\ blind' = IF ok THEN blind ELSE blind \cup {id[w]}
    /\ id' = [id EXCEPT ![w] = 0]
    /\ Goto(w, "idle")

\* unlockDurableMutation; then SyncIfAlways, or the reply as it stands.
Appended(w, ok) ==
    /\ gate' = Nobody
    /\ IF Policy = "always" THEN Goto(w, "sync") /\ UNCHANGED <<id, acked, blind>>
                            ELSE Reply(w, ok)

\* Mutant: records are not mirrored into the rewrite's tail.
AppendOk_noMirror(w) ==
    /\ pc[w] = "append" /\ mu = Nobody
    /\ ~err
    /\ \/ /\ Len(buf) < BufCap
          /\ buf' = Append(buf, id[w])
          /\ UNCHANGED <<log, partial>>
       \/ /\ log' = log \o buf
          /\ buf' = <<id[w]>>
          /\ partial' \in BOOLEAN
    /\ Appended(w, TRUE)
    /\ UNCHANGED <<up, applied, mu, base, synced, old, err, rwVars>>

\* Log.Append.  A record that does not fit pushes the buffer into the file, which then
\* may end in the first bytes of the new record.
AppendOk(w) ==
    /\ pc[w] = "append" /\ mu = Nobody
    /\ ~err
    /\ \/ /\ Len(buf) < BufCap
          /\ buf' = Append(buf, id[w])
          /\ UNCHANGED <<log, partial>>
       \/ /\ log' = log \o buf
          /\ buf' = <<id[w]>>
          /\ partial' \in BOOLEAN
    /\ tail' = IF rewriting THEN Append(tail, id[w]) ELSE tail
    /\ Appended(w, TRUE)
    /\ UNCHANGED <<up, applied, mu, base, synced, old, err, rewriting, rpc, snap, left>>

\* fail, after a write(2) that wrote any part of the buffer, or nothing.
WriteFails ==
    /\ Faults
    /\ err' = TRUE
    /\ \E n \in 0 .. Len(buf) :
         /\ log' = log \o SubSeq(buf, 1, n)
         /\ buf' = SubSeq(buf, n + 1, Len(buf))
         /\ partial' \in BOOLEAN
         /\ n = 0 /\ partial => partial'

\* Append's error is dropped by Store.propagate: the mutation stays in memory.
AppendFails(w) ==
    /\ pc[w] = "append" /\ mu = Nobody
    /\ \/ err /\ UNCHANGED <<log, buf, partial, err>>
       \/ ~err /\ WriteFails
    /\ Appended(w, FALSE)
    /\ UNCHANGED <<up, applied, mu, base, synced, old, rwVars>>

-----------------------------------------------------------------------------
(***************************************************************************)
(* syncLocked, for a writer (SyncIfAlways) and for the timer of            *)
(* RunSyncLoop: flush, then fsync if asked for, with Log.mu held.          *)
(***************************************************************************)
\* Mutant: the timer never asks for an fsync.
Fsyncs_notOnTimer(p) == p # Syncer /\ Policy = "always"

Fsyncs(p) == IF p = Syncer THEN Policy = "everysec" ELSE Policy = "always"

AtSync(p) == IF p = Syncer THEN up = "up" /\ pc[p] = "idle" ELSE pc[p] = "sync"

SyncDone(p, ok) ==
    IF p = Syncer THEN Goto(p, "idle") /\ UNCHANGED <<id, acked, blind>>
                  ELSE Reply(p, ok)

Flush(p) ==
    /\ AtSync(p) /\ mu = Nobody
    /\ ~err
    /\ log' = log \o buf
    /\ buf' = <<>>
    /\ partial' = FALSE
    /\ IF Fsyncs(p) THEN mu' = p /\ Goto(p, "fsync") ELSE UNCHANGED <<mu, pc>>
    /\ UNCHANGED <<up, applied, gate, id, acked, blind, base, synced, old, err, rwVars>>

FlushFails(p) ==
    /\ AtSync(p) /\ mu = Nobody
    /\ ~err
    /\ WriteFails
    /\ SyncDone(p, FALSE)
    /\ UNCHANGED <<up, applied, gate, mu, base, synced, old, rwVars>>

\* A log that has failed is not synced any more.
SyncRefused(w) ==
    /\ pc[w] = "sync" /\ mu = Nobody
    /\ err
    /\ Reply(w, FALSE)
    /\ UNCHANGED <<up, applied, gate, mu, fileVars, buf, err, rwVars>>

Fsync(p) ==
    /\ pc[p] = "fsync"
    /\ synced' = Len(log)
    /\ mu' = Nobody
    /\ SyncDone(p, TRUE)
    /\ UNCHANGED <<up, applied, gate, base, log, partial, old, buf, err, rwVars>>

FsyncFails(p) ==
    /\ pc[p] = "fsync"
    /\ Faults
    /\ err' = TRUE
    /\ mu' = Nobody
    /\ SyncDone(p, FALSE)
    /\ UNCHANGED <<up, applied, gate, fileVars, buf, rwVars>>

-----------------------------------------------------------------------------
(***************************************************************************)
(* BGREWRITEAOF: BeginRewrite starts the mirroring of records into tail;   *)
(* the goroutine then reads the shards one after the other, without the    *)
(* gate, and installs snapshot and tail as the new file.                   *)
(***************************************************************************)
BeginRewrite ==
    /\ up = "up" /\ mu = Nobody
    /\ ~err /\ ~rewriting
    /\ rewriting' = TRUE
    /\ tail' = <<>>
    /\ rpc' = "snapshot"
    /\ snap' = NoImage
    /\ left' = Shards
    /\ UNCHANGED <<up, applied, gate, mu, pc, id, acked, blind, fileVars, buf, err>>

ShardLocked(s) ==
    \E w \in Writers : pc[w] = "append" /\ id[w] \in Batch /\ s \in ShardsOf[id[w]]

\* Mutant: the shard is read without its lock.
AOFSnapshot_unlocked(s) ==
    /\ rpc = "snapshot" /\ s \in left
    /\ \A r \in left : s <= r
    /\ snap' = [snap EXCEPT ![s] = {r \in applied : s \in ShardsOf[r]}]
    /\ left' = left \ {s}
    /\ rpc' = IF left = {s} THEN "install" ELSE "snapshot"
    /\ UNCHANGED <<up, applied, gate, mu, pc, id, acked, blind, fileVars, buf, err, rewriting, tail>>

\* AOFSnapshot, one shard under its read lock.
AOFSnapshot(s) ==
    /\ rpc = "snapshot" /\ s \in left
    /\ \A r \in left : s <= r
    /\ ~ShardLocked(s)
    /\ snap' = [snap EXCEPT ![s] = {r \in applied : s \in ShardsOf[r]}]
    /\ left' = left \ {s}
    /\ rpc' = IF left = {s} THEN "install" ELSE "snapshot"
    /\ UNCHANGED <<up, applied, gate, mu, pc, id, acked, blind, fileVars, buf, err, rewriting, tail>>

EndRewrite ==
    /\ rewriting' = FALSE
    /\ tail' = <<>>
    /\ rpc' = "idle"
    /\ snap' = NoImage
    /\ UNCHANGED left

\* FinishRewrite gives up: the log failed meanwhile, or a step on the temporary file did.
abortRewrite ==
    /\ rpc = "install" /\ mu = Nobody
    /\ err \/ Faults
    /\ EndRewrite
    /\ UNCHANGED <<up, applied, gate, mu, pc, id, acked, blind, fileVars, buf, err>>

\* Mutants: the new file is renamed into place unsynced; or without the tail.
FinishRewrite_unsynced ==
    /\ rpc = "install" /\ mu = Nobody
    /\ ~err
    /\ base' = snap /\ log' = tail /\ buf' = <<>> /\ partial' = FALSE
    /\ synced' = 0
    /\ EndRewrite
    /\ UNCHANGED <<up, applied, gate, mu, pc, id, acked, blind, old, err>>

FinishRewrite_noTail ==
    /\ rpc = "install" /\ mu = Nobody
    /\ ~err
    /\ base' = snap /\ log' = <<>> /\ buf' = <<>> /\ partial' = FALSE
    /\ synced' = 0
    /\ EndRewrite
    /\ UNCHANGED <<up, applied, gate, mu, pc, id, acked, blind, old, err>>

\* Mutant: what was synced of the old file counts as synced of the new one.
FinishRewrite_keepsSynced ==
    /\ rpc = "install" /\ mu = Nobody
    /\ ~err
    /\ base' = snap /\ log' = tail /\ buf' = <<>> /\ partial' = FALSE
    /\ EndRewrite
    /\ UNCHANGED <<up, applied, gate, mu, pc, id, acked, blind, synced, old, err>>

\* The new file is complete and synced when it is renamed into place; what the old
\* file's buffer still held goes with the old file.
FinishRewrite ==
    /\ rpc = "install" /\ mu = Nobody
    /\ ~err
    /\ base' = snap
    /\ log' = tail
    /\ synced' = Len(tail)
    /\ partial' = FALSE
    /\ old' = IF RenameVolatile
                THEN old \cup {[base |-> base, log |-> SubSeq(log, 1, n)] : n \in synced .. Len(log)}
                ELSE {}
    /\ \/ buf' = <<>> /\ err' = FALSE
       \/ Faults /\ buf' = buf /\ err' = TRUE          \* reopening it failed
    /\ EndRewrite
    /\ UNCHANGED <<up, applied, gate, mu, pc, id, acked, blind>>

-----------------------------------------------------------------------------
(***************************************************************************)
(* The end of the process, orderly or not, and the next start.             *)
(***************************************************************************)
\* Mutant: Close syncs the file but does not flush the buffer.
Close_noFlush ==
    /\ up = "up" /\ mu = Nobody
    /\ \A w \in Writers : pc[w] = "idle"
    /\ rpc = "idle"
    /\ synced' = Len(log)
    /\ up' = "closed"
    /\ UNCHANGED <<applied, gate, mu, pc, id, acked, blind, base, log, partial, old, buf, err, rwVars>>

\* main: Drain has waited for the connections, WaitBackground for the rewrite; Close
\* flushes and syncs whatever the policy.
Close ==
    /\ up = "up" /\ mu = Nobody
    /\ \A w \in Writers : pc[w] = "idle"
    /\ rpc = "idle"
    /\ IF err THEN UNCHANGED <<log, partial, synced, buf>>
              ELSE /\ log' = log \o buf
                   /\ synced' = Len(log')
                   /\ partial' = FALSE
                   /\ buf' = <<>>
    /\ up' = "closed"
    /\ UNCHANGED <<applied, gate, mu, pc, id, acked, blind, base, old, err, rwVars>>

\* ... unless the flush or the fsync fails.
CloseFails ==
    /\ up = "up" /\ mu = Nobody
    /\ \A w \in Writers : pc[w] = "idle"
    /\ rpc = "idle"
    /\ ~err
    /\ \/ WriteFails
       \/ Faults /\ err' = TRUE /\ log' = log \o buf /\ buf' = <<>> /\ partial' = FALSE
    /\ up' = "closed"
    /\ UNCHANGED <<applied, gate, mu, pc, id, acked, blind, base, synced, old, rwVars>>

\* Everything in memory is gone.
Die ==
    /\ up = "up"
    /\ up' = "down"
    /\ applied' = {}
    /\ gate' = Nobody /\ mu' = Nobody
    /\ pc' = [p \in Procs |-> "idle"]
    /\ id' = [w \in Writers |-> 0]
    /\ buf' = <<>> /\ err' = FALSE
    /\ rewriting' = FALSE /\ tail' = <<>>
    /\ rpc' = "idle" /\ snap' = NoImage /\ left' = {}
    /\ UNCHANGED <<acked, blind>>

\* The kernel keeps what it was given (also log.Fatalf, which closes nothing).
ProcessCrash == Die /\ UNCHANGED fileVars

\* The disk keeps what was synced and any part of the rest, perhaps cut inside a record.
MachineCrash ==
    /\ Die
    /\ \/ \E n \in synced .. Len(log) :
            /\ log' = SubSeq(log, 1, n)
            /\ synced' = n
            /\ partial' \in BOOLEAN
            /\ partial' => n < Len(log) \/ partial
            /\ UNCHANGED base
       \/ \E f \in old : base' = f.base /\ log' = f.log /\ synced' = Len(f.log) /\ partial' = FALSE
    /\ old' = {}

\* Replay truncates a torn tail and rebuilds the keyspace; Open; AttachAOF.
Replay ==
    /\ up # "up"
    /\ up' = "up"
    /\ applied' = InKernel
    /\ acked' = acked \cap InKernel
    /\ blind' = {}
    /\ partial' = FALSE
    /\ buf' = <<>> /\ err' = FALSE
    /\ UNCHANGED <<gate, mu, pc, id, base, log, synced, old, rwVars>>

-----------------------------------------------------------------------------
Write(w)  == Admit(w) \/ Commit(w) \/ AppendOk(w) \/ AppendFails(w) \/ SyncRefused(w)
Sync(p)   == Flush(p) \/ FlushFails(p) \/ Fsync(p) \/ FsyncFails(p)
Rewrite   == BeginRewrite \/ (\E s \in Shards : AOFSnapshot(s)) \/ abortRewrite \/ FinishRewrite
Lifecycle == Close \/ CloseFails \/ ProcessCrash \/ MachineCrash \/ Replay

Next ==
    \/ \E w \in Writers : Write(w)
    \/ \E p \in Procs : Sync(p)
    \/ Rewrite
    \/ Lifecycle

Spec == Init /\ [][Next]_vars

\* What a writer, and a rewrite, does on its own once begun.
Proceed(w) == Commit(w) \/ AppendOk(w) \/ AppendFails(w) \/ SyncRefused(w)
RewriteStep == (\E s \in Shards : AOFSnapshot(s)) \/ abortRewrite \/ FinishRewrite

-----------------------------------------------------------------------------
(***************************************************************************)
(* Properties.                                                             *)
(***************************************************************************)

\* The files a machine crash at this moment may leave.
CrashFiles == old \cup {[base |-> base, log |-> SubSeq(log, 1, n)] : n \in synced .. Len(log)}

\* Under "always" no acknowledged write is lost, even to a machine crash that cuts the
\* file anywhere after the last fsync, also while a rewrite swaps the file under the
\* writers and drops the old buffer.
AckedSurvive ==
    Policy = "always" => \A f \in CrashFiles : acked \subseteq Whole(f.base, f.log)

\* As long as the log has not failed, every mutation in memory is in the file or in the
\* buffer, or is about to be appended: no rewrite forgets one that raced with it.
NothingForgotten ==
    up = "up" /\ ~err =>
      \A r \in applied : \/ r \in Whole(base, log \o buf)
                         \/ \E w \in Writers : pc[w] = "append" /\ id[w] = r

\* A snapshot is read shard by shard, yet the file on disk never reflects an MSET or a
\* DEL in one of its shards only.
BatchesWhole ==
    \A s \in Shards : \A r \in base[s] : r \in OnDisk

\* Whatever file a crash leaves reflects the first n mutations in commit order, for some
\* n, with no hole: records reach the file in the order of the commits, and a snapshot
\* that saw a later mutation is installed only with all the earlier ones.
CrashLeavesPrefix ==
    \A f \in CrashFiles : \E n \in 0 .. MaxRecs : Whole(f.base, f.log) = 1 .. n

\* After an orderly shutdown with a log in good order, everything is on disk, whatever
\* the policy.
ShutdownKeepsAll == up = "closed" /\ ~err => applied \subseteq OnDisk

\* A log that fails is found out: from the failure on, at most one write per connection
\* (the one already past dispatch's MISCONF check) is still told OK without being durable.
FailureContained ==
    /\ blind # {} => err \/ up # "up"
    /\ Cardinality(blind) <= Cardinality(Writers)

\* Under "everysec" an acknowledged write reaches the disk, unless the log fails or the
\* process dies first.
EverysecReachesDisk ==
    Policy = "everysec" =>
      \A r \in Recs : r \in acked ~> r \in OnDisk \/ err \/ up # "up"
=============================================================================
