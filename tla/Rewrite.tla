------------------------------ MODULE Rewrite -------------------------------
(***************************************************************************)
(* BGREWRITEAOF against a live store: module Store composed with the       *)
(* rewrite goroutine.  AOFLog says which mutations a rewritten file        *)
(* reflects; here the file has values and deadlines, so that what a        *)
(* restart makes of it can be compared with the keyspace.                  *)
(*                                                                         *)
(* As for the journal itself, the rewrite's tail is represented by what    *)
(* replaying it does: tail[t][k] is the effect on key k, at time t, of all *)
(* the records mirrored so far, one after the other.                       *)
(***************************************************************************)
EXTENDS Store

VARIABLES
    rewriting,      \* Log.rewriting
    tail,           \* Log.rewriteTail
    rpc,            \* the rewrite goroutine's position
    snapNow,        \* the time.Now() of AOFSnapshot
    snap,           \* the snapshot read so far
    left            \* shards still to read

rewriteVars == <<rewriting, tail, rpc, snapNow, snap, left>>
allVars     == <<vars, rewriteVars>>

NoTail == [t \in Times |-> NoRecord]
NoSnap == [k \in Keys |-> Absent]

\* The rewrite's variables hold well-formed values, and Log.rewriting is set exactly while
\* the goroutine that clears it runs.
RewriteTypeOK ==
    /\ rewriting = (rpc # "idle")
    /\ tail \in [Times -> Record]
    /\ rpc \in {"idle", "start", "snapshot", "install"}
    /\ snapNow \in Times
    /\ snap \in [Keys -> Slot]
    /\ left \subseteq Shards

RewriteInit ==
    /\ Init
    /\ rewriting = FALSE /\ tail = NoTail
    /\ rpc = "idle" /\ snapNow = Res /\ snap = NoSnap /\ left = {}

-----------------------------------------------------------------------------
\* Replaying f and then g, at time t, on one key.
Then(f, g, t) ==
    CASE g.do = "none"  -> f
      [] g.do = "del"   -> DelEffect
      [] g.do = "put"   -> IF Expired(g.entry, t) THEN DelEffect ELSE g
      [] g.do = "stamp" -> CASE f.do = "del" \/ g.exp <= t -> DelEffect
                             [] f.do = "put" /\ g.exp > t  -> PutEffect([f.entry EXCEPT !.exp = g.exp])
                             [] OTHER                      -> g

\* Mutant: the tail starts only when the snapshot is complete.
Mirror_late(p) ==
    tail' = IF rpc = "install"
              THEN [t \in Times |-> [k \in Keys |-> Then(tail[t][k], Journals(p)[k], t)]]
              ELSE tail

\* Log.Append mirrors the record into the tail while a rewrite is under way.
Mirror(p) ==
    tail' = IF rewriting
              THEN [t \in Times |-> [k \in Keys |-> Then(tail[t][k], Journals(p)[k], t)]]
              ELSE tail

ClientStep(p) ==
    /\ Call(p) \/ Step(p)
    /\ Mirror(p)
    /\ UNCHANGED <<rewriting, rpc, snapNow, snap, left>>

-----------------------------------------------------------------------------
BeginRewrite ==
    /\ Durable /\ ~rewriting
    /\ rewriting' = TRUE
    /\ tail' = NoTail
    /\ rpc' = "start"
    /\ UNCHANGED <<vars, snapNow, snap, left>>

\* AOFSnapshot reads the clock once, then shard after shard under the read lock.
StartSnapshot ==
    /\ rpc = "start"
    /\ rpc' = "snapshot"
    /\ snapNow' = now
    /\ left' = Shards
    /\ UNCHANGED <<vars, rewriting, tail, snap>>

\* Mutant: the snapshot drops the deadlines.
AOFSnapshot_noDeadline(s) ==
    /\ rpc = "snapshot" /\ s \in left
    /\ \A r \in left : s <= r
    /\ wlock[s] = NoClient
    /\ snap' = [k \in Keys |->
                  IF ShardOf[k] # s THEN snap[k]
                  ELSE IF Live(data[k], snapNow) THEN [data[k] EXCEPT !.exp = Never] ELSE Absent]
    /\ left' = left \ {s}
    /\ rpc' = IF left = {s} THEN "install" ELSE "snapshot"
    /\ UNCHANGED <<vars, rewriting, tail, snapNow>>

AOFSnapshot(s) ==
    /\ rpc = "snapshot" /\ s \in left
    /\ \A r \in left : s <= r
    /\ wlock[s] = NoClient
    /\ snap' = [k \in Keys |->
                  IF ShardOf[k] # s THEN snap[k]
                  ELSE IF Live(data[k], snapNow) THEN Journalled(data[k]) ELSE Absent]
    /\ left' = left \ {s}
    /\ rpc' = IF left = {s} THEN "install" ELSE "snapshot"
    /\ UNCHANGED <<vars, rewriting, tail, snapNow>>

\* Mutant: Log.rewriting stays set.
EndRewrite_keepsFlag ==
    /\ rpc = "install"
    /\ tail' = NoTail
    /\ rpc' = "idle" /\ snapNow' = Res /\ snap' = NoSnap
    /\ UNCHANGED <<rewriting, left>>

EndRewrite ==
    /\ rpc = "install"
    /\ rewriting' = FALSE /\ tail' = NoTail
    /\ rpc' = "idle" /\ snapNow' = Res /\ snap' = NoSnap
    /\ UNCHANGED left

\* What replaying the snapshot, and then the tail, brings back under k.
Rewritten(t, k) ==
    ReplayKey(tail[t][k],
              IF snap[k] = Absent THEN Absent ELSE ReplayKey(PutEffect(snap[k]), Absent, t),
              t)

\* The new file takes the place of the old one; records appended from now on go there.
FinishRewrite ==
    /\ EndRewrite
    /\ replayed' = [t \in Times |-> [k \in Keys |-> Rewritten(t, k)]]
    /\ UNCHANGED <<now, shardVars, gate, wlock, pc, cmdVars, rec>>

\* A step on the temporary file failed: the old file stays.
abortRewrite ==
    /\ EndRewrite
    /\ UNCHANGED vars

RewriteNext ==
    \/ \E p \in Clients : ClientStep(p)
    \/ (\E k \in Keys : expireSample(k)) /\ UNCHANGED rewriteVars
    \/ Tick /\ UNCHANGED rewriteVars
    \/ BeginRewrite \/ StartSnapshot \/ (\E s \in Shards : AOFSnapshot(s))
    \/ FinishRewrite \/ abortRewrite

RewriteSpec == RewriteInit /\ [][RewriteNext]_allVars

-----------------------------------------------------------------------------
Installs == rpc = "install" /\ rpc' = "idle" /\ replayed' # replayed

\* Installing the new file loses nothing: under a key that no command is in the middle of
\* changing, a restart finds in the new file whatever it would have found in the old one,
\* in whatever order the snapshot and the tail saw the racing mutations.
RewriteLosesNothing ==
    [][Installs =>
         \A t \in Times, k \in Keys :
           t >= now /\ Pending(k) = NoEffect /\ replayed[t][k] # Absent =>
             replayed'[t][k] = replayed[t][k]]_allVars

\* A mutation that races with the snapshot is in the snapshot, in the tail, or harmlessly
\* in both: what a restart finds in the new file under any key is what it would have found
\* in the old one, or the entry that is in memory.
RacesAreHarmless ==
    [][Installs =>
         \A t \in Times, k \in Keys :
           t >= now => \/ replayed'[t][k] = replayed[t][k]
                       \/ replayed'[t][k] = Absent
                       \/ data[k] # Absent /\ replayed'[t][k] = Journalled(data[k])]_allVars
=============================================================================
